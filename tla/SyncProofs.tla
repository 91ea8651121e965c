----------------------------- MODULE SyncProofs -----------------------------
(***************************************************************************)
(* The commands that bring in and keep what others hold, any number of     *)
(* them at once.  Price syncs, for every calendar, set of files and        *)
(* answers of the sources: what is stored stands and comes from an         *)
(* archived file, and a sync that commits accounts for its days.  Filings, *)
(* for every set of companies, announcements and files: what is recorded   *)
(* can be traced to archived bytes, a sync archives all that it wanted,    *)
(* and what is archived stands.  The books of a portfolio, for every       *)
(* listing, history and set of statements: a sync is complete, identities  *)
(* stand, a rebuild replaces, complete books reconcile.                    *)
(***************************************************************************)
EXTENDS Filings, PriceSync, Books, TransactionsProofs, SequenceTheorems, WellFoundedInduction

FilesStand == \A c \in DOMAIN files : files[c] = "whole" => files'[c] = "whole"

LEMMA InitialDrafts ==
  ASSUME NEW rows, InitTransactions(rows)
  PROVE  OnlyInserts
  BY DEF InitTransactions, OnlyInserts, DraftsDisjoint, Nothing

LEMMA FilesUntouched ==
  ASSUME UNCHANGED files
  PROVE  FilesStand
  BY DEF FilesStand

LEMMA LocalStep ==
  ASSUME OnlyInserts, NEW s \in Sessions, NEW state, Local(s, state)
  PROVE  OnlyInserts' /\ RowsStand
  BY QuietStep DEF Local

\* A row is looked up and, if it is not there, inserted under its key.
LEMMA GetOrCreateStep ==
  ASSUME OnlyInserts, NEW s \in Sessions, NEW key, NEW row, NEW found, NEW created,
         GetOrCreate(s, key, row, found, created)
  PROVE  OnlyInserts' /\ RowsStand
  BY LocalStep, FlushNewStep DEF GetOrCreate

\* Opening and filling a file leaves those alone that were written before.
LEMMA WriteArchiveStep ==
  ASSUME OnlyInserts, NEW s \in Sessions, WriteArchive(s)
  PROVE  OnlyInserts' /\ RowsStand /\ FilesStand
<1>1. CASE At(s, "write") /\ OpenFile(s)
  BY <1>1, LocalStep DEF OpenFile, Written, Put, FilesStand
<1>2. CASE At(s, "fill") /\ Put(sess[s].path, "whole")
           /\ Local(s, [sess[s] EXCEPT !.pc = "document"])
  BY <1>2, LocalStep DEF Put, FilesStand
<1> QED  BY <1>1, <1>2 DEF WriteArchive

-----------------------------------------------------------------------------
(* Price ingestion: what is stored stands.                                *)

\* Every step of a sync inserts at most, and damages no file.
LEMMA NextStep ==
  ASSUME OnlyInserts, Next
  PROVE  OnlyInserts' /\ RowsStand /\ FilesStand
<1> PICK s \in Sessions : Begin(s) \/ Proceed(s) \/ (Crash(s) /\ UNCHANGED files)
  BY DEF Next
<1>1. CASE Begin(s)
  BY <1>1, QuietStep, FilesUntouched DEF Begin, Start
<1>2. CASE EnsureCompanies(s)
  BY <1>2, LocalStep, FlushNewStep, FilesUntouched DEF EnsureCompanies, EnsureCompany
<1>3. CASE Fetch(s)
  BY <1>3, LocalStep, FilesUntouched DEF Fetch
<1>4. CASE WriteArchive(s)
  BY <1>4, WriteArchiveStep
<1>5. CASE RecordFile(s)
  BY <1>5, GetOrCreateStep, FilesUntouched DEF RecordFile
<1>6. CASE Parse(s)
  BY <1>6, LocalStep, RollbackStep, FilesUntouched DEF Parse
<1>7. CASE StoreRow(s)
  BY <1>7, GetOrCreateStep, FilesUntouched DEF StoreRow
<1>8. CASE NextFile(s)
  BY <1>8, LocalStep, FilesUntouched DEF NextFile
<1>9. CASE EndOfRange(s)
  BY <1>9, LocalStep, FilesUntouched DEF EndOfRange
<1>10. CASE Finish(s)
  BY <1>10, CommitStep, FilesUntouched DEF Finish
<1>11. CASE DeadlockVictim(s) /\ UNCHANGED files
  BY <1>11, RollbackStep, FilesUntouched DEF DeadlockVictim
<1>12. CASE Crash(s) /\ UNCHANGED files
  BY <1>12, RollbackStep, FilesUntouched DEF Crash
<1> QED
  BY <1>1, <1>2, <1>3, <1>4, <1>5, <1>6, <1>7, <1>8, <1>9, <1>10, <1>11, <1>12 DEF Proceed

LEMMA OnlyInsertsInvariant == Spec => []OnlyInserts
<1>1. Init => OnlyInserts
  BY InitialDrafts DEF Init, InitArchive
<1>2. OnlyInserts /\ [Next]_archivevars => OnlyInserts'
  BY NextStep, QuietStep DEF archivevars, txvars
<1> QED  BY <1>1, <1>2, PTL DEF Spec

\* For every calendar, every content of the files and any number of syncs: no
\* step changes or loses a stored close, or damages a file that was written to its
\* end, whatever a source publishes again and wherever a sync fails.
THEOREM FirstPriceAlwaysStands == Spec => FirstPriceStands
<1>1. OnlyInserts /\ [Next]_archivevars => [FirstPriceStandsStep]_archivevars
  BY NextStep DEF FirstPriceStandsStep, RowsStand, FilesStand
<1> QED  BY <1>1, OnlyInsertsInvariant, PTL DEF Spec, FirstPriceStands

-----------------------------------------------------------------------------
(* Where a close comes from.  PricesTraceable says nothing of what is not   *)
(* committed, and a commit installs it: every drafted row must be traceable *)
(* in the view of its session, and so must the row it is about to store.    *)
(* M are the keys a session sees, F the paths of the archive.               *)

Files(keys) == {k \in keys : k[1] = "file"}

PriceRowOk(k, row, M, F) ==
    k[1] = "price" =>
        /\ row.document \in Files(M) /\ row.document[4] \in F
        /\ [name |-> k[2], date |-> k[3], close |-> row.close] \in Range(Parsed[row.document[4]])

\* The fields of a sync.
PriceFields == {"pc", "want", "chunks", "next", "companies", "path", "document", "rows", "got",
           "no_data", "errors", "blocked"}
PriceShape(r) == r = [f \in PriceFields |-> r[f]]

AfterFetch == {"write", "fill", "document", "parse", "store"}

\* The row a sync is about to store.
RowAt(r) == Parsed[r.path][Min(r.rows)]

\* The file a sync is at is there when it is recorded, on record when it is
\* parsed, and the rows left to store are rows of it.
FileOk(r, M, F) ==
    /\ r.pc \in AfterFetch => r.path \in Content
    /\ r.pc \in {"document", "parse", "store"} => r.path \in F
    /\ r.pc \in {"parse", "store"} => r.document \in Files(M) /\ r.document[4] = r.path
    /\ r.pc = "store" => Parsed[r.path] # NONE /\ r.rows \subseteq DOMAIN Parsed[r.path]

\* The key a sync wants is that of the row it is about to insert.
PriceWantOk(r) ==
    r.want # NONE =>
        \/ r.pc = "ensure" /\ \E n \in r.companies : r.want = Company(n)
        \/ /\ r.pc = "document"
           /\ r.want = ArchiveFile(NextAsked(Head(r.chunks), r.next).start,
                                   Head(r.chunks).kind, r.path)
        \/ r.pc = "store" /\ r.rows # {} /\ r.want = Price(RowAt(r).name, RowAt(r).date)

PriceStateOk(r, M, F) ==
    r.pc # "idle" =>
        /\ PriceShape(r) /\ r.pc \in {"ensure", "fetch", "done"} \cup AfterFetch
        /\ FileOk(r, M, F) /\ PriceWantOk(r)

PriceSeen(s) == DOMAIN db \cup DOMAIN draft[s]

PriceSessionOk(s) == PriceStateOk(sess[s], PriceSeen(s), DOMAIN files)
PriceDraftOk(s) == \A k \in DOMAIN draft[s] : PriceRowOk(k, draft[s][k], PriceSeen(s), DOMAIN files)
PriceTableOk == \A k \in DOMAIN db : PriceRowOk(k, db[k], DOMAIN db, DOMAIN files)

PriceIInv ==
    /\ OnlyInserts /\ sess = [s \in Sessions |-> sess[s]]
    /\ PriceTableOk
    /\ \A s \in Sessions : PriceSessionOk(s) /\ PriceDraftOk(s)

-----------------------------------------------------------------------------
(* Keys and files that come on top disturb nothing.                        *)

LEMMA PriceMoreForRow ==
  ASSUME NEW k, NEW row, NEW M, NEW F, NEW M2, NEW F2,
         M \subseteq M2, F \subseteq F2, PriceRowOk(k, row, M, F)
  PROVE  PriceRowOk(k, row, M2, F2)
  BY DEF PriceRowOk, Files

LEMMA PriceMoreForState ==
  ASSUME NEW r, NEW M, NEW F, NEW M2, NEW F2, M \subseteq M2, F \subseteq F2, PriceStateOk(r, M, F)
  PROVE  PriceStateOk(r, M2, F2)
<1>1. FileOk(r, M, F) => FileOk(r, M2, F2)
  BY DEF FileOk, Files
<1> QED  BY <1>1 DEF PriceStateOk

LEMMA PriceOthersKeep ==
  ASSUME PriceIInv, NEW s \in Sessions,
         \A t \in Sessions : t # s => sess'[t] = sess[t] /\ draft'[t] = draft[t],
         DOMAIN db \subseteq DOMAIN db', DOMAIN files \subseteq DOMAIN files'
  PROVE  \A t \in Sessions : t # s => PriceSessionOk(t)' /\ PriceDraftOk(t)'
<1> SUFFICES ASSUME NEW t \in Sessions, t # s
             PROVE  PriceSessionOk(t)' /\ PriceDraftOk(t)'
  OBVIOUS
<1>1. sess'[t] = sess[t] /\ draft'[t] = draft[t] /\ PriceSeen(t) \subseteq PriceSeen(t)'
  BY DEF PriceSeen
<1>2. PriceStateOk(sess[t], PriceSeen(t), DOMAIN files)
  BY DEF PriceIInv, PriceSessionOk
<1>3. PriceStateOk(sess[t], PriceSeen(t)', DOMAIN files')
  BY <1>1, <1>2, PriceMoreForState
<1>4. \A k \in DOMAIN draft[t] : PriceRowOk(k, draft[t][k], PriceSeen(t)', DOMAIN files')
  BY <1>1, PriceMoreForRow DEF PriceIInv, PriceDraftOk
<1>5. PriceSessionOk(t)'
  BY <1>1, <1>3 DEF PriceSessionOk
<1>6. PriceDraftOk(t)'
  BY <1>1, <1>4 DEF PriceDraftOk
<1> QED  BY <1>5, <1>6

\* A step that writes no row.
LEMMA PriceLocalKeeps ==
  ASSUME PriceIInv, NEW s \in Sessions, NEW state,
         db' = db, draft' = draft, sess' = [sess EXCEPT ![s] = state],
         DOMAIN files \subseteq DOMAIN files', PriceStateOk(state, PriceSeen(s), DOMAIN files')
  PROVE  PriceIInv'
<1>1. /\ sess'[s] = state /\ sess' = [t \in Sessions |-> sess'[t]]
      /\ \A t \in Sessions : t # s => sess'[t] = sess[t] /\ draft'[t] = draft[t]
  BY DEF PriceIInv
<1>2. OnlyInserts'
  BY QuietStep DEF PriceIInv
<1>3. PriceTableOk'
  BY PriceMoreForRow DEF PriceIInv, PriceTableOk
<1>4. \A t \in Sessions : t # s => PriceSessionOk(t)' /\ PriceDraftOk(t)'
  BY <1>1, PriceOthersKeep
<1>5. PriceSessionOk(s)'
  BY <1>1 DEF PriceSessionOk, PriceSeen
<1>6. PriceDraftOk(s)'
  <2>1. PriceSeen(s)' = PriceSeen(s)
    BY DEF PriceSeen
  <2> QED  BY <2>1, PriceMoreForRow DEF PriceIInv, PriceDraftOk
<1> QED  BY <1>1, <1>2, <1>3, <1>4, <1>5, <1>6 DEF PriceIInv

LEMMA PriceRollbackKeeps ==
  ASSUME PriceIInv, NEW s \in Sessions, Rollback(s), files' = files
  PROVE  PriceIInv'
<1>1. /\ sess'[s] = Idle /\ sess' = [t \in Sessions |-> sess'[t]]
      /\ draft'[s] = Nothing /\ db' = db
      /\ \A t \in Sessions : t # s => sess'[t] = sess[t] /\ draft'[t] = draft[t]
  BY DEF PriceIInv, OnlyInserts, Rollback, Become
<1>2. OnlyInserts'
  BY RollbackStep DEF PriceIInv
<1>3. PriceTableOk'
  BY <1>1 DEF PriceIInv, PriceTableOk
<1>4. \A t \in Sessions : t # s => PriceSessionOk(t)' /\ PriceDraftOk(t)'
  BY <1>1, PriceOthersKeep
<1>5. PriceSessionOk(s)' /\ PriceDraftOk(s)'
  BY <1>1 DEF PriceSessionOk, PriceStateOk, Idle, PriceDraftOk, Nothing
<1> QED  BY <1>1, <1>2, <1>3, <1>4, <1>5 DEF PriceIInv

\* A commit: what is sound in the view of a session is sound in the table.
LEMMA PriceCommitKeeps ==
  ASSUME PriceIInv, NEW s \in Sessions, NEW state, Commit(s, state), files' = files,
         PriceStateOk(state, PriceSeen(s), DOMAIN files)
  PROVE  PriceIInv'
<1>1. /\ sess'[s] = state /\ sess' = [t \in Sessions |-> sess'[t]]
      /\ draft'[s] = Nothing /\ DOMAIN db' = PriceSeen(s)
      /\ \A k \in PriceSeen(s) : db'[k] = IF k \in DOMAIN draft[s] THEN draft[s][k] ELSE db[k]
      /\ \A t \in Sessions : t # s => sess'[t] = sess[t] /\ draft'[t] = draft[t]
  BY DEF PriceIInv, OnlyInserts, Commit, Become, View, PriceSeen
<1>2. OnlyInserts'
  BY CommitStep DEF PriceIInv
<1>3. DOMAIN db \subseteq DOMAIN db'
  BY <1>1 DEF PriceSeen
<1>4. PriceTableOk'
  <2> SUFFICES ASSUME NEW k \in PriceSeen(s)
               PROVE  PriceRowOk(k, db'[k], DOMAIN db', DOMAIN files)
    BY <1>1 DEF PriceTableOk
  <2>1. CASE k \in DOMAIN draft[s]
    <3>1. PriceRowOk(k, draft[s][k], PriceSeen(s), DOMAIN files)
      BY <2>1 DEF PriceIInv, PriceDraftOk
    <3> QED  BY <1>1, <2>1, <3>1
  <2>2. CASE k \notin DOMAIN draft[s]
    <3>1. k \in DOMAIN db /\ PriceRowOk(k, db[k], DOMAIN db, DOMAIN files)
      BY <2>2 DEF PriceIInv, PriceTableOk, PriceSeen
    <3> QED  BY <1>1, <1>3, <2>2, <3>1, PriceMoreForRow
  <2> QED  BY <2>1, <2>2
<1>5. \A t \in Sessions : t # s => PriceSessionOk(t)' /\ PriceDraftOk(t)'
  BY <1>1, <1>3, PriceOthersKeep
<1>6. PriceDraftOk(s)'
  BY <1>1 DEF PriceDraftOk, Nothing
<1>7. PriceSessionOk(s)'
  <2>1. PriceSeen(s)' = PriceSeen(s)
    BY <1>1 DEF PriceSeen, Nothing
  <2> QED  BY <1>1, <2>1 DEF PriceSessionOk
<1> QED  BY <1>1, <1>2, <1>4, <1>5, <1>6, <1>7 DEF PriceIInv

\* The flush of the wanted row, or the end of the sync.
LEMMA PriceFlushKeeps ==
  ASSUME PriceIInv, NEW s \in Sessions, NEW row, NEW state, files' = files,
         FlushNew(s, row, state),
         PriceRowOk(sess[s].want, row, PriceSeen(s), DOMAIN files),
         PriceStateOk([state EXCEPT !.want = NONE], PriceSeen(s) \cup {sess[s].want}, DOMAIN files)
  PROVE  PriceIInv'
<1>1. CASE Sees(s, sess[s].want)
  BY <1>1, PriceRollbackKeeps DEF FlushNew
<1>2. CASE ~Sees(s, sess[s].want)
  <2> DEFINE key == sess[s].want
             after == [state EXCEPT !.want = NONE]
  <2>1. Insert(s, [k \in {key} |-> row], after)
    BY <1>2 DEF FlushNew, Flush, InsertRow
  <2>2. OnlyInserts'
    BY FlushNewStep DEF PriceIInv
  <2> HIDE DEF key, after
  <2>3. PriceRowOk(key, row, PriceSeen(s) \cup {key}, DOMAIN files)
        /\ PriceStateOk(after, PriceSeen(s) \cup {key}, DOMAIN files)
    BY PriceMoreForRow DEF key, after
  <2>4. /\ sess'[s] = after /\ sess' = [t \in Sessions |-> sess'[t]] /\ db' = db
        /\ DOMAIN draft'[s] = DOMAIN draft[s] \cup {key}
        /\ draft'[s][key] = row
        /\ \A k \in DOMAIN draft[s] : k # key => draft'[s][k] = draft[s][k]
        /\ \A t \in Sessions : t # s => sess'[t] = sess[t] /\ draft'[t] = draft[t]
    BY <2>1 DEF PriceIInv, OnlyInserts, Insert, Become
  <2>5. PriceTableOk'
    BY <2>4 DEF PriceIInv, PriceTableOk
  <2>6. \A t \in Sessions : t # s => PriceSessionOk(t)' /\ PriceDraftOk(t)'
    BY <2>4, PriceOthersKeep
  <2>7. PriceSeen(s)' = PriceSeen(s) \cup {key}
    BY <2>4 DEF PriceSeen
  <2>8. PriceSessionOk(s)'
    BY <2>3, <2>4, <2>7 DEF PriceSessionOk
  <2>9. PriceDraftOk(s)'
    <3>1. ASSUME NEW k \in DOMAIN draft[s], k # key
          PROVE  PriceRowOk(k, draft[s][k], PriceSeen(s) \cup {key}, DOMAIN files)
      BY PriceMoreForRow DEF PriceIInv, PriceDraftOk
    <3> QED  BY <2>3, <2>4, <2>7, <3>1 DEF PriceDraftOk
  <2> QED  BY <2>2, <2>4, <2>5, <2>6, <2>8, <2>9 DEF PriceIInv
<1> QED  BY <1>1, <1>2

-----------------------------------------------------------------------------
(* The steps.                                                              *)

LEMMA LeastNumber ==
  ASSUME NEW N \in SUBSET Nat, N # {}
  PROVE  Min(N) \in N /\ \A x \in N : Min(N) <= x
<1> DEFINE R == OpToRel(<, Nat)
<1>1. IsWellFoundedOn(R, Nat)
  BY NatLessThanWellFounded
<1>2. \A x, y \in Nat : y < x => <<y, x>> \in R
  BY DEF OpToRel
<1> HIDE DEF R
<1>3. PICK x \in N : \A y \in N : ~ (<<y, x>> \in R)
  BY <1>1, WFMin
<1>4. ASSUME NEW y \in N PROVE x <= y
  <2>1. x \in Nat /\ y \in Nat /\ ~(<<y, x>> \in R)
    BY <1>3
  <2>2. ~(y < x)
    BY <1>2, <2>1
  <2> QED BY <2>1, <2>2
<1> QED  BY <1>3, <1>4 DEF Min

LEMMA PriceCommandIs ==
  ASSUME PriceIInv, NEW s \in Sessions, ~At(s, "idle")
  PROVE  /\ PriceShape(sess[s]) /\ sess[s].pc \in {"ensure", "fetch", "done"} \cup AfterFetch
         /\ FileOk(sess[s], PriceSeen(s), DOMAIN files) /\ PriceWantOk(sess[s])
  BY DEF PriceIInv, PriceSessionOk, PriceStateOk, At

\* A local step that leaves the archive alone.
LEMMA PriceReadKeeps ==
  ASSUME PriceIInv, NEW s \in Sessions, NEW state, Local(s, state), files' = files,
         PriceStateOk(state, PriceSeen(s), DOMAIN files)
  PROVE  PriceIInv'
  BY PriceLocalKeeps DEF Local, Become

\* Between two files a sync needs nothing.
LEMMA AtRest ==
  ASSUME NEW q, NEW M, NEW F, PriceShape(q), q.pc \in {"ensure", "fetch", "done"}, q.want = NONE
  PROVE  PriceStateOk(q, M, F)
  BY DEF PriceStateOk, FileOk, PriceWantOk, AfterFetch

LEMMA OpenIsOk ==
  ASSUME NEW chunks, NEW M, NEW F
  PROVE  PriceStateOk(Open(chunks), M, F)
<1>1. CASE chunks = <<>>
  BY <1>1 DEF Open, Idle, PriceStateOk
<1>2. CASE chunks # <<>>
  <2> DEFINE c == Head(chunks)
             companies == IF c.kind = "EQUITY_BHAVCOPY" THEN c.wanted ELSE {}
             q == [Sync EXCEPT !.chunks = chunks, !.next = c.first, !.companies = companies]
  <2>1. Open(chunks) = q
    BY <1>2 DEF Open
  <2> HIDE DEF companies, c
  <2>2. PriceShape(q) /\ q.pc = "ensure" /\ q.want = NONE
    BY DEF PriceShape, PriceFields, Sync
  <2> HIDE DEF q
  <2> QED  BY <2>1, <2>2, AtRest
<1> QED  BY <1>1, <1>2

LEMMA PriceBeginKeeps ==
  ASSUME PriceIInv, NEW s \in Sessions, Begin(s)
  PROVE  PriceIInv'
<1>1. PICK c \in Commands : Start(s, Open(c))
  BY DEF Begin
<1>2. PriceStateOk(Open(c), PriceSeen(s), DOMAIN files)
  BY OpenIsOk
<1> QED  BY <1>1, <1>2, PriceLocalKeeps DEF Begin, Start, Become

\* ensure_company: no row of it is a file or a price.
LEMMA PriceEnsureKeeps ==
  ASSUME PriceIInv, NEW s \in Sessions, EnsureCompanies(s)
  PROVE  PriceIInv'
<1> DEFINE r == sess[s]
           next == [r EXCEPT !.pc = "fetch"]
           rest(n) == [r EXCEPT !.companies = @ \ {n}]
           wanting(n) == [r EXCEPT !.want = Company(n)]
<1>0. r.pc = "ensure" /\ files' = files
  BY DEF EnsureCompanies, EnsureCompany, At
<1>1. PriceShape(r) /\ PriceWantOk(r)
  BY <1>0, PriceCommandIs DEF At
<1>2. \/ r.companies = {} /\ Local(s, next)
      \/ \E n \in r.companies : r.want = NONE /\ (Local(s, rest(n)) \/ Local(s, wanting(n)))
      \/ FlushNew(s, TRUE, rest(r.want[2]))
  BY DEF EnsureCompanies, EnsureCompany
<1> HIDE DEF r
<1>3. /\ PriceShape(next) /\ next.pc = "fetch" /\ next.want = r.want
  BY <1>1 DEF PriceShape, PriceFields
<1>4. ASSUME NEW n
      PROVE  PriceShape(rest(n)) /\ rest(n).pc = "ensure" /\ rest(n).want = r.want
  BY <1>0, <1>1 DEF PriceShape, PriceFields
<1>5. ASSUME NEW n
      PROVE  /\ PriceShape(wanting(n)) /\ wanting(n).pc = "ensure" /\ wanting(n).want = Company(n)
             /\ wanting(n).companies = r.companies
  BY <1>0, <1>1 DEF PriceShape, PriceFields
<1>6. CASE r.companies = {} /\ Local(s, next)
  <2>1. r.want = NONE
    BY <1>0, <1>1, <1>6 DEF PriceWantOk
  <2> HIDE DEF next
  <2> QED  BY <1>0, <1>3, <1>6, <2>1, AtRest, PriceReadKeeps
<1>7. ASSUME NEW n \in r.companies, r.want = NONE, Local(s, rest(n)) PROVE PriceIInv'
  <2> HIDE DEF rest
  <2> QED  BY <1>0, <1>4, <1>7, AtRest, PriceReadKeeps
<1>8. ASSUME NEW n \in r.companies, Local(s, wanting(n)) PROVE PriceIInv'
  <2> HIDE DEF wanting
  <2>1. PriceStateOk(wanting(n), PriceSeen(s), DOMAIN files)
    BY <1>5, <1>8 DEF PriceStateOk, FileOk, PriceWantOk, AfterFetch
  <2> QED  BY <1>0, <1>8, <2>1, PriceReadKeeps
<1>9. CASE FlushNew(s, TRUE, rest(r.want[2]))
  <2> DEFINE q == rest(r.want[2])
             after == [q EXCEPT !.want = NONE]
  <2>1. PriceShape(q) /\ q.pc = "ensure"
    BY <1>4
  <2>2. r.want[1] = "company"
    BY <1>0, <1>1, <1>9 DEF PriceWantOk, FlushNew, Company, r
  <2> HIDE DEF q, rest
  <2>3. PriceShape(after) /\ after.pc = "ensure" /\ after.want = NONE
    BY <2>1 DEF PriceShape, PriceFields
  <2> HIDE DEF after
  <2>4. PriceStateOk(after, PriceSeen(s) \cup {r.want}, DOMAIN files)
    BY <2>3, AtRest
  <2>5. PriceRowOk(r.want, TRUE, PriceSeen(s), DOMAIN files)
    BY <2>2 DEF PriceRowOk
  <2>6. FlushNew(s, TRUE, q)
    BY <1>9 DEF q
  <2> QED  BY <1>0, <2>4, <2>5, <2>6, PriceFlushKeeps DEF after, r
<1> QED  BY <1>2, <1>6, <1>7, <1>8, <1>9

LEMMA NextRequestIs ==
  ASSUME NEW s, PriceShape(sess[s])
  PROVE  /\ PriceShape(NextRequest(s)) /\ NextRequest(s).pc = "fetch"
         /\ NextRequest(s).want = sess[s].want
  BY DEF NextRequest, PriceShape, PriceFields

LEMMA FetchKeeps ==
  ASSUME PriceIInv, NEW s \in Sessions, Fetch(s)
  PROVE  PriceIInv'
<1> DEFINE r == sess[s]
           got(c) == [r EXCEPT !.pc = "write", !.path = c, !.got = @ \cup {<<Request(s), c>>}]
<1>0. r.pc = "fetch" /\ files' = files
  BY DEF Fetch, At
<1>1. PriceShape(r) /\ PriceWantOk(r)
  BY <1>0, PriceCommandIs DEF At
<1>2. r.want = NONE
  BY <1>0, <1>1 DEF PriceWantOk
<1>3. /\ PriceShape(Blocked(s)) /\ Blocked(s).pc = "fetch" /\ Blocked(s).want = NONE
  BY <1>0, <1>1, <1>2 DEF Blocked, PriceShape, PriceFields
<1>4. PriceShape(NextRequest(s)) /\ NextRequest(s).pc = "fetch" /\ NextRequest(s).want = NONE
  BY <1>1, <1>2, NextRequestIs
<1>5. /\ PriceShape(Skip(s)) /\ Skip(s).pc = "fetch" /\ Skip(s).want = NONE
  BY <1>4 DEF Skip, PriceShape, PriceFields
<1>6. /\ PriceShape(NoData(s)) /\ NoData(s).pc = "fetch" /\ NoData(s).want = NONE
  <2> DEFINE q == [NextRequest(s) EXCEPT !.no_data = @ \cup {Request(s).start}]
  <2>1. PriceShape(q) /\ q.pc = "fetch" /\ q.want = NONE
    BY <1>4 DEF PriceShape, PriceFields
  <2>2. NoData(s) \in {NextRequest(s), q}
    BY DEF NoData
  <2> HIDE DEF q
  <2> QED  BY <1>4, <2>1, <2>2
<1>7. CASE Local(s, Blocked(s)) \/ Local(s, Skip(s)) \/ Local(s, NoData(s))
  BY <1>0, <1>3, <1>5, <1>6, <1>7, AtRest, PriceReadKeeps
<1>8. ASSUME NEW c \in Content, Local(s, got(c)) PROVE PriceIInv'
  <2>1. PriceShape(got(c)) /\ got(c).pc = "write" /\ got(c).want = NONE /\ got(c).path = c
    BY <1>1, <1>2 DEF PriceShape, PriceFields
  <2> HIDE DEF got
  <2>2. PriceStateOk(got(c), PriceSeen(s), DOMAIN files)
    BY <1>8, <2>1 DEF PriceStateOk, FileOk, PriceWantOk, AfterFetch
  <2> QED  BY <1>0, <1>8, <2>2, PriceReadKeeps
<1> QED  BY <1>7, <1>8 DEF Fetch

\* write_archive: whatever happens to the bytes, a file that is there stays.
LEMMA WriteKeeps ==
  ASSUME PriceIInv, NEW s \in Sessions, WriteArchive(s)
  PROVE  PriceIInv'
<1> DEFINE r == sess[s]
           filling == [r EXCEPT !.pc = "fill"]
           written == [r EXCEPT !.pc = "document"]
<1>0. r.pc \in {"write", "fill"}
  BY DEF WriteArchive, At
<1>1. PriceShape(r) /\ r.path \in Content /\ r.want = NONE
  BY <1>0, PriceCommandIs DEF At, FileOk, PriceWantOk, AfterFetch
<1>2. \/ Local(s, filling) /\ DOMAIN files \subseteq DOMAIN files'
      \/ /\ Local(s, written) /\ DOMAIN files \subseteq DOMAIN files'
         /\ r.path \in DOMAIN files'
  BY DEF WriteArchive, OpenFile, Written, Put
<1> HIDE DEF r
<1>3. /\ PriceShape(filling) /\ filling.pc = "fill" /\ filling.want = NONE
      /\ filling.path \in Content
  BY <1>1 DEF PriceShape, PriceFields
<1>4. /\ PriceShape(written) /\ written.pc = "document" /\ written.want = NONE
      /\ written.path = r.path
  BY <1>1 DEF PriceShape, PriceFields
<1> HIDE DEF filling, written
<1>5. CASE Local(s, filling) /\ DOMAIN files \subseteq DOMAIN files'
  <2>1. PriceStateOk(filling, PriceSeen(s), DOMAIN files')
    BY <1>3 DEF PriceStateOk, FileOk, PriceWantOk, AfterFetch
  <2> QED  BY <1>5, <2>1, PriceLocalKeeps DEF Local, Become
<1>6. CASE /\ Local(s, written) /\ DOMAIN files \subseteq DOMAIN files'
           /\ r.path \in DOMAIN files'
  <2>1. PriceStateOk(written, PriceSeen(s), DOMAIN files')
    BY <1>1, <1>4, <1>6 DEF PriceStateOk, FileOk, PriceWantOk, AfterFetch
  <2> QED  BY <1>6, <2>1, PriceLocalKeeps DEF Local, Become
<1> QED  BY <1>2, <1>5, <1>6

\* The row of a file is found, wanted, or inserted under the key it is wanted by.
LEMMA RecordKeeps ==
  ASSUME PriceIInv, NEW s \in Sessions, RecordFile(s)
  PROVE  PriceIInv'
<1> DEFINE r == sess[s]
           key == ArchiveFile(NextAsked(Head(r.chunks), r.next).start, Head(r.chunks).kind, r.path)
           recorded == [r EXCEPT !.pc = "parse", !.document = key]
           wanting == [r EXCEPT !.want = key]
           after == [recorded EXCEPT !.want = NONE]
<1>0. r.pc = "document" /\ files' = files
  BY DEF RecordFile, At
<1>1. PriceShape(r) /\ r.path \in Content /\ r.path \in DOMAIN files /\ PriceWantOk(r)
  BY <1>0, PriceCommandIs DEF At, FileOk, AfterFetch
<1>2. GetOrCreate(s, key, TRUE, recorded, recorded)
  BY DEF RecordFile, Request, Chunk
<1>3. key[1] = "file" /\ key[4] = r.path
  BY DEF ArchiveFile
<1>4. \/ r.want = NONE /\ Sees(s, key) /\ Local(s, recorded)
      \/ r.want = NONE /\ Local(s, wanting)
      \/ r.want # NONE /\ FlushNew(s, TRUE, recorded)
  BY <1>2 DEF GetOrCreate, FlushNew
<1>5. r.want = NONE \/ r.want = key
  BY <1>0, <1>1 DEF PriceWantOk
<1> HIDE DEF r, key
<1>6. /\ PriceShape(recorded) /\ recorded.pc = "parse" /\ recorded.document = key
      /\ recorded.path = r.path /\ recorded.want = r.want
  BY <1>1 DEF PriceShape, PriceFields
<1>7. /\ PriceShape(wanting) /\ wanting.pc = "document" /\ wanting.path = r.path
      /\ wanting.want = key /\ wanting.next = r.next /\ wanting.chunks = r.chunks
  BY <1>0, <1>1 DEF PriceShape, PriceFields
<1> HIDE DEF recorded, wanting
<1>8. /\ PriceShape(after) /\ after.pc = "parse" /\ after.document = key
      /\ after.path = r.path /\ after.want = NONE
  BY <1>6 DEF PriceShape, PriceFields
<1> HIDE DEF after
<1>9. CASE r.want = NONE /\ Sees(s, key) /\ Local(s, recorded)
  <2>1. key \in Files(PriceSeen(s))
    BY <1>3, <1>9 DEF Sees, PriceSeen, Files
  <2>2. PriceStateOk(recorded, PriceSeen(s), DOMAIN files)
    BY <1>1, <1>3, <1>6, <1>9, <2>1 DEF PriceStateOk, FileOk, PriceWantOk, AfterFetch
  <2> QED  BY <1>0, <1>9, <2>2, PriceReadKeeps
<1>10. CASE r.want = NONE /\ Local(s, wanting)
  <2>1. wanting.want = ArchiveFile(NextAsked(Head(wanting.chunks), wanting.next).start,
                                 Head(wanting.chunks).kind, wanting.path)
    BY <1>7 DEF key
  <2>2. PriceStateOk(wanting, PriceSeen(s), DOMAIN files)
    BY <1>1, <1>7, <2>1 DEF PriceStateOk, FileOk, PriceWantOk, AfterFetch
  <2> QED  BY <1>0, <1>10, <2>2, PriceReadKeeps
<1>11. CASE r.want # NONE /\ FlushNew(s, TRUE, recorded)
  <2>1. key \in Files(PriceSeen(s) \cup {key})
    BY <1>3 DEF Files
  <2>2. PriceStateOk(after, PriceSeen(s) \cup {key}, DOMAIN files)
    BY <1>1, <1>3, <1>8, <2>1 DEF PriceStateOk, FileOk, PriceWantOk, AfterFetch
  <2>3. PriceRowOk(key, TRUE, PriceSeen(s), DOMAIN files)
    BY <1>3 DEF PriceRowOk
  <2>4. sess[s].want = key
    BY <1>5, <1>11 DEF r
  <2> QED  BY <1>0, <1>11, <2>2, <2>3, <2>4, PriceFlushKeeps DEF after
<1> QED  BY <1>4, <1>9, <1>10, <1>11

LEMMA ParseKeeps ==
  ASSUME PriceIInv, NEW s \in Sessions, Parse(s)
  PROVE  PriceIInv'
<1> DEFINE r == sess[s]
           parsed == [r EXCEPT !.pc = "store", !.rows = Wanted(s)]
<1>0. r.pc = "parse" /\ files' = files
  BY DEF Parse, At
<1>1. /\ PriceShape(r) /\ r.path \in Content /\ r.path \in DOMAIN files /\ r.want = NONE
      /\ r.document \in Files(PriceSeen(s)) /\ r.document[4] = r.path
  BY <1>0, PriceCommandIs DEF At, FileOk, PriceWantOk, AfterFetch
<1>2. CASE Parsed[r.path] = NONE
  BY <1>0, <1>2, PriceRollbackKeeps DEF Parse
<1>3. CASE Parsed[r.path] # NONE
  <2>1. Local(s, parsed) /\ Wanted(s) \subseteq DOMAIN Parsed[r.path]
    BY <1>3 DEF Parse, Wanted
  <2> HIDE DEF r
  <2>2. /\ PriceShape(parsed) /\ parsed.pc = "store" /\ parsed.rows = Wanted(s)
        /\ parsed.want = r.want /\ parsed.path = r.path /\ parsed.document = r.document
    BY <1>1 DEF PriceShape, PriceFields
  <2> HIDE DEF parsed
  <2>3. PriceStateOk(parsed, PriceSeen(s), DOMAIN files)
    BY <1>1, <1>3, <2>1, <2>2 DEF PriceStateOk, FileOk, PriceWantOk, AfterFetch
  <2> QED  BY <1>0, <2>1, <2>3, PriceReadKeeps
<1> QED  BY <1>2, <1>3

\* The row at hand is one of the file that is parsed.
LEMMA RowAtIs ==
  ASSUME NEW r, r.path \in Content, Parsed[r.path] # NONE,
         r.rows \subseteq DOMAIN Parsed[r.path], r.rows # {}
  PROVE  /\ RowAt(r) \in Range(Parsed[r.path])
         /\ RowAt(r) = [name |-> RowAt(r).name, date |-> RowAt(r).date, close |-> RowAt(r).close]
<1>1. Parsed[r.path] \in Seq(Range(Parsed[r.path]))
  BY PriceSyncAssumption
<1>2. r.rows \subseteq Nat
  BY <1>1
<1>3. Min(r.rows) \in DOMAIN Parsed[r.path]
  BY <1>2, LeastNumber
<1>4. RowAt(r) \in Range(Parsed[r.path])
  BY <1>3 DEF RowAt, Range
<1> QED  BY <1>4, PriceSyncAssumption

\* A row of the file is found, wanted, or inserted with the file it is from.
LEMMA StoreKeeps ==
  ASSUME PriceIInv, NEW s \in Sessions, StoreRow(s)
  PROVE  PriceIInv'
<1> DEFINE r == sess[s]
           at == RowAt(r)
           key == Price(at.name, at.date)
           row == [close |-> at.close, document |-> r.document]
           done == [r EXCEPT !.rows = @ \ {Min(@)}]
           wanting == [r EXCEPT !.want = key]
           after == [done EXCEPT !.want = NONE]
<1>0. r.pc = "store" /\ r.rows # {} /\ files' = files
  BY DEF StoreRow, At
<1>1. /\ PriceShape(r) /\ r.path \in Content /\ r.path \in DOMAIN files /\ PriceWantOk(r)
      /\ r.document \in Files(PriceSeen(s)) /\ r.document[4] = r.path
      /\ Parsed[r.path] # NONE /\ r.rows \subseteq DOMAIN Parsed[r.path]
  BY <1>0, PriceCommandIs DEF At, FileOk, AfterFetch
<1>2. GetOrCreate(s, key, row, done, done)
  BY DEF StoreRow, RowAt, RowDone
<1>3. \/ r.want = NONE /\ (Local(s, done) \/ Local(s, wanting))
      \/ r.want # NONE /\ FlushNew(s, row, done)
  BY <1>2 DEF GetOrCreate, FlushNew
<1>4. r.want = NONE \/ r.want = key
  BY <1>0, <1>1 DEF PriceWantOk
<1>5. PriceRowOk(key, row, PriceSeen(s), DOMAIN files)
  <2>1. /\ at \in Range(Parsed[r.path])
        /\ at = [name |-> at.name, date |-> at.date, close |-> at.close]
    BY <1>0, <1>1, RowAtIs
  <2> HIDE DEF at, r
  <2>2. /\ key[2] = at.name /\ key[3] = at.date
        /\ row.close = at.close /\ row.document = r.document
    BY DEF Price
  <2> HIDE DEF key, row
  <2> QED  BY <1>1, <2>1, <2>2 DEF PriceRowOk
<1> HIDE DEF r, at
<1>6. /\ PriceShape(done) /\ done.pc = "store" /\ done.rows \subseteq r.rows /\ done.want = r.want
      /\ done.path = r.path /\ done.document = r.document
  BY <1>0, <1>1 DEF PriceShape, PriceFields
<1> HIDE DEF key
<1>7. /\ PriceShape(wanting) /\ wanting.pc = "store" /\ wanting.rows = r.rows /\ wanting.want = key
      /\ wanting.path = r.path /\ wanting.document = r.document
  BY <1>0, <1>1 DEF PriceShape, PriceFields
<1> HIDE DEF row, done, wanting
<1>8. /\ PriceShape(after) /\ after.pc = "store" /\ after.rows = done.rows /\ after.want = NONE
      /\ after.path = r.path /\ after.document = r.document
  BY <1>6 DEF PriceShape, PriceFields
<1> HIDE DEF after
<1>9. CASE r.want = NONE /\ Local(s, done)
  <2>1. PriceStateOk(done, PriceSeen(s), DOMAIN files)
    BY <1>1, <1>6, <1>9 DEF PriceStateOk, FileOk, PriceWantOk, AfterFetch
  <2> QED  BY <1>0, <1>9, <2>1, PriceReadKeeps
<1>10. CASE Local(s, wanting)
  <2>1. RowAt(wanting) = at
    BY <1>7 DEF at, RowAt
  <2>2. PriceStateOk(wanting, PriceSeen(s), DOMAIN files)
    BY <1>0, <1>1, <1>7, <2>1 DEF PriceStateOk, FileOk, PriceWantOk, AfterFetch, key
  <2> QED  BY <1>0, <1>10, <2>2, PriceReadKeeps
<1>11. CASE r.want # NONE /\ FlushNew(s, row, done)
  <2>1. PriceStateOk(after, PriceSeen(s), DOMAIN files)
    BY <1>1, <1>6, <1>8 DEF PriceStateOk, FileOk, PriceWantOk, AfterFetch
  <2>2. PriceStateOk(after, PriceSeen(s) \cup {key}, DOMAIN files)
    BY <2>1, PriceMoreForState
  <2>3. sess[s].want = key
    BY <1>4, <1>11 DEF r
  <2> QED  BY <1>0, <1>5, <1>11, <2>2, <2>3, PriceFlushKeeps DEF after
<1> QED  BY <1>3, <1>9, <1>10, <1>11

LEMMA NextFileKeeps ==
  ASSUME PriceIInv, NEW s \in Sessions, NextFile(s)
  PROVE  PriceIInv'
<1>0. sess[s].pc = "store" /\ sess[s].rows = {} /\ files' = files
  BY DEF NextFile, At
<1>1. PriceShape(sess[s]) /\ sess[s].want = NONE
  BY <1>0, PriceCommandIs DEF At, PriceWantOk
<1>2. PriceStateOk(NextRequest(s), PriceSeen(s), DOMAIN files)
  BY <1>1, NextRequestIs, AtRest
<1> QED  BY <1>0, <1>2, PriceReadKeeps DEF NextFile

LEMMA EndOfRangeKeeps ==
  ASSUME PriceIInv, NEW s \in Sessions, EndOfRange(s)
  PROVE  PriceIInv'
<1> DEFINE r == sess[s]
           days == Requested(Chunk(s)) \ Available(s)
           range == [r EXCEPT !.pc = "done", !.no_data = days]
           daily == [r EXCEPT !.pc = "done"]
<1>0. r.pc = "fetch" /\ files' = files
  BY DEF EndOfRange, At
<1>1. PriceShape(r) /\ r.want = NONE
  BY <1>0, PriceCommandIs DEF At, PriceWantOk
<1>2. Local(s, range) \/ Local(s, daily)
  BY DEF EndOfRange
<1> HIDE DEF r, days
<1>3. PriceShape(range) /\ range.pc = "done" /\ range.want = NONE
  BY <1>1 DEF PriceShape, PriceFields
<1>4. PriceShape(daily) /\ daily.pc = "done" /\ daily.want = NONE
  BY <1>1 DEF PriceShape, PriceFields
<1> HIDE DEF range, daily
<1> QED  BY <1>0, <1>2, <1>3, <1>4, AtRest, PriceReadKeeps

LEMMA PriceFinishKeeps ==
  ASSUME PriceIInv, NEW s \in Sessions, Finish(s)
  PROVE  PriceIInv'
<1>1. PICK chunks : Commit(s, Open(chunks))
  BY DEF Finish
<1> QED  BY <1>1, OpenIsOk, PriceCommitKeeps DEF Finish

LEMMA PriceNextKeeps ==
  ASSUME PriceIInv, Next
  PROVE  PriceIInv'
<1> PICK s \in Sessions : Begin(s) \/ Proceed(s) \/ (Crash(s) /\ UNCHANGED files)
  BY DEF Next
<1>1. CASE Begin(s)
  BY <1>1, PriceBeginKeeps
<1>2. CASE EnsureCompanies(s)
  BY <1>2, PriceEnsureKeeps
<1>3. CASE Fetch(s)
  BY <1>3, FetchKeeps
<1>4. CASE WriteArchive(s)
  BY <1>4, WriteKeeps
<1>5. CASE RecordFile(s)
  BY <1>5, RecordKeeps
<1>6. CASE Parse(s)
  BY <1>6, ParseKeeps
<1>7. CASE StoreRow(s)
  BY <1>7, StoreKeeps
<1>8. CASE NextFile(s)
  BY <1>8, NextFileKeeps
<1>9. CASE EndOfRange(s)
  BY <1>9, EndOfRangeKeeps
<1>10. CASE Finish(s)
  BY <1>10, PriceFinishKeeps
<1>11. CASE DeadlockVictim(s) /\ UNCHANGED files
  BY <1>11, PriceRollbackKeeps DEF DeadlockVictim
<1>12. CASE Crash(s) /\ UNCHANGED files
  BY <1>12, PriceRollbackKeeps DEF Crash
<1> QED
  BY <1>1, <1>2, <1>3, <1>4, <1>5, <1>6, <1>7, <1>8, <1>9, <1>10, <1>11, <1>12 DEF Proceed

LEMMA InitSound == Init => PriceIInv
<1> SUFFICES ASSUME Init PROVE PriceIInv
  OBVIOUS
<1>1. PICK C \in Known : InitArchive(C)
  BY DEF Init
<1> DEFINE rows == [k \in {Company(n) : n \in C} |-> TRUE]
<1>2. InitTransactions(rows)
  BY <1>1 DEF InitArchive
<1>3. \A k \in DOMAIN rows : k[1] = "company"
  BY DEF Company
<1> HIDE DEF rows
<1>4. OnlyInserts
  BY <1>2, InitialDrafts
<1>5. PriceTableOk
  BY <1>2, <1>3 DEF InitTransactions, PriceTableOk, PriceRowOk
<1>6. \A s \in Sessions : sess[s] = Idle /\ draft[s] = Nothing
  BY <1>2 DEF InitTransactions
<1>7. \A s \in Sessions : PriceSessionOk(s) /\ PriceDraftOk(s)
  BY <1>6 DEF PriceSessionOk, PriceStateOk, Idle, PriceDraftOk, Nothing
<1>8. sess = [s \in Sessions |-> sess[s]]
  BY <1>2 DEF InitTransactions
<1> QED  BY <1>4, <1>5, <1>7, <1>8 DEF PriceIInv

LEMMA NothingChanges == PriceIInv /\ UNCHANGED archivevars => PriceIInv'
<1> SUFFICES ASSUME PriceIInv, UNCHANGED archivevars PROVE PriceIInv'
  OBVIOUS
<1>1. db' = db /\ draft' = draft /\ sess' = sess /\ files' = files
  BY DEF archivevars, txvars
<1> QED  BY <1>1 DEF PriceIInv, OnlyInserts, DraftsDisjoint, PriceTableOk, PriceSessionOk, PriceDraftOk, PriceSeen

LEMMA IInvInvariant == Spec => []PriceIInv
<1>1. PriceIInv /\ [Next]_archivevars => PriceIInv'
  BY PriceNextKeeps, NothingChanges
<1> QED  BY <1>1, InitSound, PTL DEF Spec

\* For every calendar, every content of the files and any number of syncs: a
\* stored close cites a recorded file that was written to the archive and holds
\* this very row, whatever two syncs race for and wherever one of them ends.
THEOREM PricesComeFromFiles == Spec => []PricesTraceable
<1>1. PriceIInv => PricesTraceable
  BY DEF PriceIInv, PriceTableOk, PriceRowOk, Files, PricesTraceable, Of, Written
<1> QED  BY <1>1, IInvInvariant, PTL

-----------------------------------------------------------------------------
(* What a sync tells when it commits.  It has to be true of every request   *)
(* behind it that its file is stored and its days are told of; the file at  *)
(* hand is stored up to the rows left.                                      *)

AllChunks == UNION {Range(cmd) : cmd \in Commands}

AtWork(r) == r.pc \in AfterFetch

DaysSeen(r) ==
    {row.date : row \in {x \in UNION {Range(Parsed[g[2]]) : g \in r.got} :
                            Keeps(Head(r.chunks), x)}}

Told(r, d) ==
    \/ d \in r.no_data \cup r.errors
    \/ IF IsRange(Head(r.chunks)) THEN d \in DaysSeen(r) ELSE \E g \in r.got : d \in DaysOf(g[1])
    \/ r.blocked /\ \E e \in r.errors : e < d

StoredBut(left, c, y, M) ==
    \A i \in DOMAIN Parsed[c] \ left :
        Keeps(y, Parsed[c][i]) => Price(Parsed[c][i].name, Parsed[c][i].date) \in M

Account(r, M) ==
    r.pc # "idle" =>
        /\ r.chunks \in Seq(AllChunks) /\ r.chunks # <<>> /\ r.next \in Nat
        /\ \A g \in r.got :
              \/ AtWork(r) /\ g[2] = r.path
              \/ StoredBut({}, g[2], Head(r.chunks), M)
        /\ r.pc = "store" => StoredBut(r.rows, r.path, Head(r.chunks), M)
        /\ AtWork(r) => /\ Left(Head(r.chunks), r.next) # {}
                        /\ <<NextAsked(Head(r.chunks), r.next), r.path>> \in r.got
        /\ IsRange(Head(r.chunks)) \/ \A d \in Requested(Head(r.chunks)) : d < r.next => Told(r, d)
        /\ r.pc = "done" => \A d \in Requested(Head(r.chunks)) : Told(r, d)

Accounted == \A s \in Sessions : Account(sess[s], PriceSeen(s))

LEMMA MoreStored ==
  ASSUME NEW left, NEW c, NEW y, NEW M, NEW M2, M \subseteq M2, StoredBut(left, c, y, M)
  PROVE  StoredBut(left, c, y, M2)
  BY DEF StoredBut

LEMMA MoreAccount ==
  ASSUME NEW r, NEW M, NEW M2, M \subseteq M2, Account(r, M)
  PROVE  Account(r, M2)
<1>1. \A left, c, y : StoredBut(left, c, y, M) => StoredBut(left, c, y, M2)
  BY MoreStored
<1> QED  BY <1>1 DEF Account

\* A chunk lies among the days, and the next request starts at the first day left.
LEMMA ChunkIs ==
  ASSUME NEW chunks \in Seq(AllChunks), chunks # <<>>
  PROVE  Head(chunks) \in AllChunks /\ Head(chunks).first \in Nat /\ Head(chunks).last \in Nat
<1>1. Head(chunks) \in AllChunks
  OBVIOUS
<1>2. PICK cmd \in Commands : Head(chunks) \in Range(cmd)
  BY <1>1 DEF AllChunks
<1>3. Day \subseteq Nat
  BY PriceSyncAssumption DEF Day
<1> QED  BY <1>1, <1>2, <1>3, PriceSyncAssumption

LEMMA NextAskedIs ==
  ASSUME NEW y, y.last \in Nat, NEW next \in Nat, Left(y, next) # {}
  PROVE  /\ NextAsked(y, next).start \in Left(y, next)
         /\ NextAsked(y, next).start \in Nat /\ NextAsked(y, next).end \in Nat
         /\ \A d \in Left(y, next) : NextAsked(y, next).start <= d
         /\ ~IsRange(y) => NextAsked(y, next).end = NextAsked(y, next).start
<1> DEFINE d == Min(Left(y, next))
           ends == {d + Span, y.last}
<1>1. Left(y, next) \in SUBSET Nat
  BY DEF Left
<1>2. d \in Left(y, next) /\ d \in Nat /\ \A e \in Left(y, next) : d <= e
  BY <1>1, LeastNumber
<1> HIDE DEF d
<1>3. ends \in SUBSET Nat /\ ends # {}
  BY <1>2, PriceSyncAssumption
<1>4. Min(ends) \in Nat
  BY <1>3, LeastNumber
<1>5. NextAsked(y, next) = [start |-> d, end |-> IF IsRange(y) THEN Min(ends) ELSE d]
  BY DEF NextAsked, d
<1> HIDE DEF ends
<1> QED  BY <1>2, <1>4, <1>5

\* A day asked for is told of, or left.
LEMMA LeftOrBehind ==
  ASSUME NEW y, y.first \in Nat, y.last \in Nat, NEW next \in Nat,
         NEW d \in Requested(y), ~(d < next)
  PROVE  d \in Nat /\ d \in Left(y, next)
<1>1. d \in Nat /\ d <= y.last /\ d \notin Weekend
  BY DEF Requested, _weekdays_between
<1> QED  BY <1>1 DEF Left

LEMMA OthersAccount ==
  ASSUME Accounted, NEW s \in Sessions,
         \A t \in Sessions : t # s => sess'[t] = sess[t] /\ draft'[t] = draft[t],
         DOMAIN db \subseteq DOMAIN db', Account(sess'[s], PriceSeen(s)')
  PROVE  Accounted'
<1> SUFFICES ASSUME NEW t \in Sessions, t # s
             PROVE  Account(sess'[t], PriceSeen(t)')
  BY DEF Accounted
<1>1. sess'[t] = sess[t] /\ PriceSeen(t) \subseteq PriceSeen(t)'
  BY DEF PriceSeen
<1> QED  BY <1>1, MoreAccount DEF Accounted

\* What a local step, a rollback and a flush do to what a sync tells.
LEMMA LocalAccount ==
  ASSUME PriceIInv, Accounted, NEW s \in Sessions, NEW state,
         db' = db, draft' = draft, sess' = [sess EXCEPT ![s] = state],
         Account(state, PriceSeen(s))
  PROVE  Accounted'
<1>1. sess'[s] = state /\ \A t \in Sessions : t # s => sess'[t] = sess[t]
  BY DEF PriceIInv
<1>2. Account(sess'[s], PriceSeen(s)')
  BY <1>1 DEF PriceSeen
<1> QED  BY <1>1, <1>2, OthersAccount

LEMMA RollbackAccount ==
  ASSUME PriceIInv, Accounted, NEW s \in Sessions, Rollback(s)
  PROVE  Accounted'
<1>1. /\ sess'[s] = Idle /\ db' = db
      /\ \A t \in Sessions : t # s => sess'[t] = sess[t] /\ draft'[t] = draft[t]
  BY DEF PriceIInv, OnlyInserts, Rollback, Become
<1>2. Account(sess'[s], PriceSeen(s)')
  BY <1>1 DEF Account, Idle
<1> QED  BY <1>1, <1>2, OthersAccount

LEMMA FlushAccount ==
  ASSUME PriceIInv, Accounted, NEW s \in Sessions, NEW row, NEW state,
         FlushNew(s, row, state),
         Account([state EXCEPT !.want = NONE], PriceSeen(s) \cup {sess[s].want})
  PROVE  Accounted'
<1>1. CASE Sees(s, sess[s].want)
  BY <1>1, RollbackAccount DEF FlushNew
<1>2. CASE ~Sees(s, sess[s].want)
  <2> DEFINE key == sess[s].want
             after == [state EXCEPT !.want = NONE]
  <2>1. Insert(s, [k \in {key} |-> row], after)
    BY <1>2 DEF FlushNew, Flush, InsertRow
  <2>2. Account(after, PriceSeen(s) \cup {key})
    OBVIOUS
  <2> HIDE DEF key, after
  <2>3. /\ sess'[s] = after /\ db' = db /\ DOMAIN draft'[s] = DOMAIN draft[s] \cup {key}
        /\ \A t \in Sessions : t # s => sess'[t] = sess[t] /\ draft'[t] = draft[t]
    BY <2>1 DEF PriceIInv, OnlyInserts, Insert, Become
  <2>4. Account(sess'[s], PriceSeen(s)')
    BY <2>2, <2>3 DEF PriceSeen
  <2> QED  BY <2>3, <2>4, OthersAccount
<1> QED  BY <1>1, <1>2

\* Who looks up, creates or writes something changes none of what it tells.
SameStory(r, q) ==
    /\ q.chunks = r.chunks /\ q.next = r.next /\ q.path = r.path
    /\ q.got = r.got /\ q.no_data = r.no_data /\ q.errors = r.errors /\ q.blocked = r.blocked

LEMMA StoryKept ==
  ASSUME NEW r, NEW q, NEW M, NEW M2, M \subseteq M2, Account(r, M), r.pc # "idle",
         SameStory(r, q), AtWork(r) <=> AtWork(q), q.pc \notin {"store", "done"}
  PROVE  Account(q, M2)
<1>1. Account(r, M2)
  BY MoreAccount
<1>2. \A d : Told(r, d) => Told(q, d)
  BY DEF Told, SameStory, DaysSeen
<1> QED  BY <1>1, <1>2 DEF Account, SameStory

-----------------------------------------------------------------------------
(* The steps, once more.                                                   *)

LEMMA AccountOf ==
  ASSUME PriceIInv, Accounted, NEW s \in Sessions, ~At(s, "idle")
  PROVE  /\ Account(sess[s], PriceSeen(s)) /\ sess[s].pc # "idle" /\ PriceShape(sess[s])
         /\ PriceWantOk(sess[s]) /\ FileOk(sess[s], PriceSeen(s), DOMAIN files)
         /\ Chunk(s) = Head(sess[s].chunks)
         /\ Chunk(s).first \in Nat /\ Chunk(s).last \in Nat /\ sess[s].next \in Nat
<1>1. Account(sess[s], PriceSeen(s)) /\ sess[s].pc # "idle"
  BY DEF Accounted, At
<1> QED  BY <1>1, PriceCommandIs, ChunkIs DEF Account, Chunk

LEMMA OpenAccount ==
  ASSUME NEW chunks \in Seq(AllChunks), NEW M
  PROVE  Account(Open(chunks), M)
<1>1. CASE chunks = <<>>
  BY <1>1 DEF Open, Idle, Account
<1>2. CASE chunks # <<>>
  <2> DEFINE c == Head(chunks)
             companies == IF c.kind = "EQUITY_BHAVCOPY" THEN c.wanted ELSE {}
             q == [Sync EXCEPT !.chunks = chunks, !.next = c.first, !.companies = companies]
  <2>1. Open(chunks) = q
    BY <1>2 DEF Open
  <2>2. c.first \in Nat /\ c.last \in Nat
    BY <1>2, ChunkIs
  <2> HIDE DEF companies
  <2>3. /\ q.pc = "ensure" /\ q.chunks = chunks /\ q.next = c.first /\ q.got = {}
    BY DEF Sync
  <2>4. \A d \in Requested(c) : ~(d < c.first)
    BY <2>2 DEF Requested, _weekdays_between
  <2> HIDE DEF q
  <2>5. Head(q.chunks) = c
    BY <2>3
  <2> HIDE DEF c
  <2> QED  BY <1>2, <2>1, <2>2, <2>3, <2>4, <2>5 DEF Account, AtWork, AfterFetch
<1> QED  BY <1>1, <1>2

LEMMA BeginAccount ==
  ASSUME PriceIInv, Accounted, NEW s \in Sessions, Begin(s)
  PROVE  Accounted'
<1>1. PICK c \in Commands : Start(s, Open(c))
  BY DEF Begin
<1>2. c \in Seq(AllChunks)
  <2>1. c \in Seq(Range(c)) /\ Range(c) \subseteq AllChunks
    BY PriceSyncAssumption DEF AllChunks
  <2> QED  BY <2>1
<1>3. Account(Open(c), PriceSeen(s))
  BY <1>2, OpenAccount
<1> QED  BY <1>1, <1>3, LocalAccount DEF Start, Become

LEMMA EnsureAccount ==
  ASSUME PriceIInv, Accounted, NEW s \in Sessions, EnsureCompanies(s)
  PROVE  Accounted'
<1> DEFINE r == sess[s]
           next == [r EXCEPT !.pc = "fetch"]
           rest(n) == [r EXCEPT !.companies = @ \ {n}]
           wanting(n) == [r EXCEPT !.want = Company(n)]
           after(n) == [rest(n) EXCEPT !.want = NONE]
<1>0. r.pc = "ensure"
  BY DEF EnsureCompanies, EnsureCompany, At
<1>1. PriceShape(r) /\ Account(r, PriceSeen(s))
  BY <1>0, AccountOf DEF At
<1>2. \/ Local(s, next) \/ \E n : Local(s, rest(n)) \/ Local(s, wanting(n))
      \/ FlushNew(s, TRUE, rest(r.want[2]))
  BY DEF EnsureCompanies, EnsureCompany
<1> HIDE DEF r
<1>3. next.pc = "fetch" /\ SameStory(r, next)
  BY <1>1 DEF PriceShape, PriceFields, SameStory
<1>4. ASSUME NEW n
      PROVE  /\ rest(n).pc = "ensure" /\ SameStory(r, rest(n))
             /\ wanting(n).pc = "ensure" /\ SameStory(r, wanting(n))
             /\ after(n).pc = "ensure" /\ SameStory(r, after(n))
  BY <1>0, <1>1 DEF PriceShape, PriceFields, SameStory
<1>5. CASE Local(s, next)
  <2> HIDE DEF next
  <2>1. Account(next, PriceSeen(s))
    BY <1>0, <1>1, <1>3, StoryKept DEF AtWork, AfterFetch
  <2> QED  BY <1>5, <2>1, LocalAccount DEF Local, Become
<1>6. ASSUME NEW n, Local(s, rest(n)) \/ Local(s, wanting(n)) PROVE Accounted'
  <2> HIDE DEF rest, wanting
  <2>1. Account(rest(n), PriceSeen(s)) /\ Account(wanting(n), PriceSeen(s))
    BY <1>0, <1>1, <1>4, StoryKept DEF AtWork, AfterFetch
  <2> QED  BY <1>6, <2>1, LocalAccount DEF Local, Become
<1>7. CASE FlushNew(s, TRUE, rest(r.want[2]))
  <2> DEFINE q == rest(r.want[2])
             done == after(r.want[2])
  <2>1. done.pc = "ensure" /\ SameStory(r, done)
    BY <1>4
  <2>2. done = [q EXCEPT !.want = NONE]
    OBVIOUS
  <2> HIDE DEF done, q
  <2>3. Account(done, PriceSeen(s) \cup {sess[s].want})
    BY <1>0, <1>1, <2>1, StoryKept DEF AtWork, AfterFetch
  <2>4. FlushNew(s, TRUE, q)
    BY <1>7 DEF q
  <2> QED  BY <2>2, <2>3, <2>4, FlushAccount
<1> QED  BY <1>2, <1>5, <1>6, <1>7

LEMMA WriteAccount ==
  ASSUME PriceIInv, Accounted, NEW s \in Sessions, WriteArchive(s)
  PROVE  Accounted'
<1> DEFINE r == sess[s]
           filling == [r EXCEPT !.pc = "fill"]
           written == [r EXCEPT !.pc = "document"]
<1>0. r.pc \in {"write", "fill"}
  BY DEF WriteArchive, At
<1>1. PriceShape(r) /\ Account(r, PriceSeen(s))
  BY <1>0, AccountOf DEF At
<1>2. Local(s, filling) \/ Local(s, written)
  BY DEF WriteArchive, OpenFile
<1> HIDE DEF r
<1>3. /\ filling.pc = "fill" /\ SameStory(r, filling)
      /\ written.pc = "document" /\ SameStory(r, written)
  BY <1>1 DEF PriceShape, PriceFields, SameStory
<1> HIDE DEF filling, written
<1>4. Account(filling, PriceSeen(s)) /\ Account(written, PriceSeen(s))
  BY <1>0, <1>1, <1>3, StoryKept DEF AtWork, AfterFetch
<1> QED  BY <1>2, <1>4, LocalAccount DEF Local, Become

LEMMA RecordAccount ==
  ASSUME PriceIInv, Accounted, NEW s \in Sessions, RecordFile(s)
  PROVE  Accounted'
<1> DEFINE r == sess[s]
           key == ArchiveFile(Request(s).start, Chunk(s).kind, sess[s].path)
           recorded == [r EXCEPT !.pc = "parse", !.document = key]
           wanting == [r EXCEPT !.want = key]
           after == [recorded EXCEPT !.want = NONE]
<1>0. r.pc = "document"
  BY DEF RecordFile, At
<1>1. PriceShape(r) /\ Account(r, PriceSeen(s))
  BY <1>0, AccountOf DEF At
<1>2. Local(s, recorded) \/ Local(s, wanting) \/ FlushNew(s, TRUE, recorded)
  BY DEF RecordFile, GetOrCreate
<1> HIDE DEF key, r
<1>3. /\ recorded.pc = "parse" /\ SameStory(r, recorded)
      /\ wanting.pc = "document" /\ SameStory(r, wanting)
      /\ after.pc = "parse" /\ SameStory(r, after)
  BY <1>0, <1>1 DEF PriceShape, PriceFields, SameStory
<1> HIDE DEF recorded, wanting
<1>4. Account(recorded, PriceSeen(s)) /\ Account(wanting, PriceSeen(s))
  BY <1>0, <1>1, <1>3, StoryKept DEF AtWork, AfterFetch
<1>5. Account(after, PriceSeen(s) \cup {sess[s].want})
  <2> HIDE DEF after
  <2> QED  BY <1>0, <1>1, <1>3, StoryKept DEF AtWork, AfterFetch
<1> QED  BY <1>2, <1>4, <1>5, LocalAccount, FlushAccount DEF Local, Become

\* The answers to a request: what was told of the days behind stays told, and
\* the day at hand is told of.
LEMMA MoreTold ==
  ASSUME NEW r, NEW q, q.chunks = r.chunks, r.got \subseteq q.got,
         r.no_data \subseteq q.no_data, r.errors \subseteq q.errors,
         r.blocked => q.blocked, NEW d, Told(r, d)
  PROVE  Told(q, d)
  BY DEF Told, DaysSeen

LEMMA AnswerAccount ==
  ASSUME NEW r, NEW q, NEW M, Account(r, M), r.pc # "idle", q.pc = "fetch",
         q.chunks = r.chunks, q.got = r.got, q.next \in Nat,
         r.no_data \subseteq q.no_data, r.errors \subseteq q.errors, r.blocked => q.blocked,
         \A g \in r.got : StoredBut({}, g[2], Head(r.chunks), M),
         \/ IsRange(Head(r.chunks))
         \/ \A d \in Left(Head(r.chunks), r.next) : d < q.next => Told(q, d)
  PROVE  Account(q, M)
<1>1. r.chunks \in Seq(AllChunks) /\ r.chunks # <<>> /\ r.next \in Nat
  BY DEF Account
<1>2. ASSUME ~IsRange(Head(r.chunks)), NEW d \in Requested(Head(r.chunks)), d < q.next
      PROVE  Told(q, d)
  <2>1. CASE d < r.next
    <3>1. Told(r, d)
      BY <1>2, <2>1 DEF Account
    <3> QED  BY <3>1, MoreTold
  <2>2. CASE ~(d < r.next)
    <3>1. d \in Left(Head(r.chunks), r.next)
      BY <1>1, <2>2, ChunkIs, LeftOrBehind
    <3> QED  BY <1>2, <3>1
  <2> QED  BY <2>1, <2>2
<1> QED  BY <1>1, <1>2 DEF Account, AtWork, AfterFetch

\* The next request is due: the day of this one is told of.
LEMMA NextRequestFields ==
  ASSUME NEW s, PriceShape(sess[s])
  PROVE  LET q == NextRequest(s)
         IN  /\ PriceShape(q) /\ q.pc = "fetch" /\ q.chunks = sess[s].chunks /\ q.got = sess[s].got
             /\ q.no_data = sess[s].no_data /\ q.errors = sess[s].errors
             /\ q.blocked = sess[s].blocked /\ q.next = Request(s).end + 1
  BY DEF NextRequest, PriceShape, PriceFields

LEMMA FetchAccount ==
  ASSUME PriceIInv, Accounted, NEW s \in Sessions, Fetch(s)
  PROVE  Accounted'
<1> DEFINE r == sess[s]
           y == Chunk(s)
           asked == Request(s)
           got(c) == [r EXCEPT !.pc = "write", !.path = c, !.got = @ \cup {<<Request(s), c>>}]
<1>0. r.pc = "fetch" /\ Left(y, r.next) # {}
  BY DEF Fetch, At
<1>1. /\ PriceShape(r) /\ Account(r, PriceSeen(s)) /\ y = Head(r.chunks)
      /\ y.first \in Nat /\ y.last \in Nat /\ r.next \in Nat
  BY <1>0, AccountOf DEF At
<1>2. /\ asked = NextAsked(y, r.next) /\ asked.start \in Nat /\ asked.end \in Nat
      /\ asked.start \in Left(y, r.next) /\ \A d \in Left(y, r.next) : asked.start <= d
      /\ ~IsRange(y) => asked.end = asked.start
  BY <1>0, <1>1, NextAskedIs DEF Request
<1>3. \A g \in r.got : StoredBut({}, g[2], Head(r.chunks), PriceSeen(s))
  BY <1>0, <1>1 DEF Account, AtWork, AfterFetch
<1>4. \A d \in Left(y, r.next) : d \in Nat /\ d <= y.last
  BY <1>1 DEF Left
<1>5. ~IsRange(y) => asked.start \in DaysOf(asked)
  BY <1>2 DEF DaysOf
<1>6. Account(Blocked(s), PriceSeen(s))
  <2> DEFINE q == Blocked(s)
  <2>1. /\ q.pc = "fetch" /\ q.chunks = r.chunks /\ q.got = r.got /\ q.next = y.last + 1
        /\ q.no_data = r.no_data /\ q.errors = r.errors \cup DaysOf(asked) /\ q.blocked
    BY <1>0, <1>1 DEF Blocked, PriceShape, PriceFields
  <2> HIDE DEF q
  <2>2. ASSUME ~IsRange(y), NEW d \in Left(y, r.next) PROVE Told(q, d)
    <3>1. CASE d = asked.start
      BY <1>5, <2>1, <2>2, <3>1 DEF Told
    <3>2. CASE d # asked.start
      <4>1. asked.start < d
        BY <1>2, <1>4, <3>2
      <4> QED  BY <1>5, <2>1, <2>2, <4>1 DEF Told
    <3> QED  BY <3>1, <3>2
  <2> HIDE DEF r, y, asked
  <2>3. Account(q, PriceSeen(s))
    BY <1>0, <1>1, <1>3, <2>1, <2>2, AnswerAccount
  <2> QED  BY <2>3 DEF q
<1>7. \A d \in Left(y, r.next) : ~IsRange(y) /\ d < asked.end + 1 => d = asked.start
  BY <1>2, <1>4
<1> DEFINE n == NextRequest(s)
<1>8. /\ n.pc = "fetch" /\ n.chunks = r.chunks /\ n.got = r.got /\ n.next = asked.end + 1
      /\ n.no_data = r.no_data /\ n.errors = r.errors /\ n.blocked = r.blocked /\ PriceShape(n)
  BY <1>1, NextRequestFields
<1>9. Account(Skip(s), PriceSeen(s))
  <2> DEFINE q == Skip(s)
  <2> HIDE DEF n
  <2>0. q = [n EXCEPT !.errors = @ \cup DaysOf(Request(s))]
    BY DEF Skip, n
  <2>1. /\ q.pc = "fetch" /\ q.chunks = r.chunks /\ q.got = r.got /\ q.next = asked.end + 1
        /\ q.no_data = r.no_data /\ q.errors = r.errors \cup DaysOf(asked) /\ q.blocked = r.blocked
    BY <1>8, <2>0 DEF PriceShape, PriceFields
  <2> HIDE DEF q
  <2>2. ~IsRange(y) => Told(q, asked.start)
    BY <1>5, <2>1 DEF Told
  <2> HIDE DEF r, y, asked
  <2>3. Account(q, PriceSeen(s))
    BY <1>0, <1>1, <1>2, <1>3, <1>7, <2>1, <2>2, AnswerAccount
  <2> QED  BY <2>3 DEF q
<1>10. Account(NoData(s), PriceSeen(s))
  <2> DEFINE q == [n EXCEPT !.no_data = @ \cup {asked.start}]
  <2>1. NoData(s) = IF IsRange(y) THEN n ELSE q
    BY DEF NoData
  <2> HIDE DEF n, r, y, asked
  <2>2. /\ q.pc = "fetch" /\ q.chunks = r.chunks /\ q.got = r.got /\ q.next = asked.end + 1
        /\ q.no_data = r.no_data \cup {asked.start} /\ q.errors = r.errors /\ q.blocked = r.blocked
    BY <1>8 DEF PriceShape, PriceFields
  <2> HIDE DEF q
  <2>3. Told(q, asked.start)
    BY <2>2 DEF Told
  <2>4. Account(q, PriceSeen(s))
    BY <1>0, <1>1, <1>2, <1>3, <1>7, <2>2, <2>3, AnswerAccount
  <2>5. IsRange(y) => Account(n, PriceSeen(s))
    BY <1>0, <1>1, <1>2, <1>3, <1>8, AnswerAccount
  <2> QED  BY <2>1, <2>4, <2>5
<1>11. ASSUME NEW c PROVE Account(got(c), PriceSeen(s))
  <2> DEFINE q == got(c)
  <2> HIDE DEF r, asked
  <2>1. /\ q.pc = "write" /\ q.chunks = r.chunks /\ q.path = c /\ q.next = r.next
        /\ q.got = r.got \cup {<<Request(s), c>>}
        /\ q.no_data = r.no_data /\ q.errors = r.errors /\ q.blocked = r.blocked
    BY <1>1 DEF PriceShape, PriceFields
  <2> HIDE DEF q, y
  <2>2. \A d : Told(r, d) => Told(q, d)
    BY <2>1, MoreTold
  <2>3. <<NextAsked(y, r.next), c>> \in q.got
    BY <1>2, <2>1 DEF asked
  <2>4. /\ r.chunks \in Seq(AllChunks) /\ r.chunks # <<>>
        /\ IsRange(y) \/ \A d \in Requested(y) : d < r.next => Told(r, d)
    BY <1>0, <1>1 DEF Account
  <2>5. \A g \in q.got : StoredBut({}, g[2], y, PriceSeen(s)) \/ g[2] = q.path
    BY <1>1, <1>3, <2>1
  <2>6. Account(q, PriceSeen(s))
    BY <1>0, <1>1, <2>1, <2>2, <2>3, <2>4, <2>5 DEF Account, AtWork, AfterFetch
  <2> QED  BY <2>6 DEF q
<1>12. \/ Local(s, Blocked(s)) \/ Local(s, Skip(s)) \/ Local(s, NoData(s))
       \/ \E c : Local(s, got(c))
  BY DEF Fetch
<1> HIDE DEF got
<1> QED  BY <1>6, <1>9, <1>10, <1>11, <1>12, LocalAccount DEF Local, Become

\* The rows not wanted need not be stored.
LEMMA ParseAccount ==
  ASSUME PriceIInv, Accounted, NEW s \in Sessions, Parse(s)
  PROVE  Accounted'
<1> DEFINE r == sess[s]
           parsed == [r EXCEPT !.pc = "store", !.rows = Wanted(s)]
<1>0. r.pc = "parse"
  BY DEF Parse, At
<1>1. PriceShape(r) /\ Account(r, PriceSeen(s)) /\ Chunk(s) = Head(r.chunks)
  BY <1>0, AccountOf DEF At
<1>2. StoredBut(Wanted(s), r.path, Head(r.chunks), PriceSeen(s))
  BY <1>1 DEF StoredBut, Wanted
<1>3. Rollback(s) \/ Local(s, parsed)
  BY DEF Parse
<1> HIDE DEF r
<1>4. /\ parsed.pc = "store" /\ SameStory(r, parsed) /\ parsed.rows = Wanted(s)
  BY <1>1 DEF PriceShape, PriceFields, SameStory
<1> HIDE DEF parsed
<1>5. \A d : Told(r, d) => Told(parsed, d)
  BY <1>4 DEF Told, SameStory, DaysSeen
<1>6. Account(parsed, PriceSeen(s))
  BY <1>0, <1>1, <1>2, <1>4, <1>5 DEF Account, SameStory, AtWork, AfterFetch
<1> QED  BY <1>3, <1>6, RollbackAccount, LocalAccount DEF Local, Become

\* A row less is left once its key is there.
LEMMA RowStored ==
  ASSUME NEW r, NEW q, NEW M, NEW M2, M \subseteq M2, Account(r, M), r.pc = "store",
         SameStory(r, q), q.pc = "store",
         \/ q.rows = r.rows
         \/ /\ q.rows = r.rows \ {Min(r.rows)}
            /\ Price(RowAt(r).name, RowAt(r).date) \in M2
  PROVE  Account(q, M2)
<1>1. Account(r, M2)
  BY MoreAccount
<1>2. \A d : Told(r, d) => Told(q, d)
  BY DEF Told, SameStory, DaysSeen
<1>3. StoredBut(q.rows, r.path, Head(r.chunks), M2)
  <2>1. StoredBut(r.rows, r.path, Head(r.chunks), M2)
    BY <1>1 DEF Account
  <2> QED  BY <2>1 DEF StoredBut, RowAt
<1> QED  BY <1>1, <1>2, <1>3 DEF Account, SameStory, AtWork, AfterFetch

LEMMA StoreAccount ==
  ASSUME PriceIInv, Accounted, NEW s \in Sessions, StoreRow(s)
  PROVE  Accounted'
<1> DEFINE r == sess[s]
           key == Price(RowAt(r).name, RowAt(r).date)
           row == [close |-> RowAt(r).close, document |-> r.document]
           done == [r EXCEPT !.rows = @ \ {Min(@)}]
           wanting == [r EXCEPT !.want = key]
           after == [done EXCEPT !.want = NONE]
<1>0. r.pc = "store"
  BY DEF StoreRow, At
<1>1. PriceShape(r) /\ Account(r, PriceSeen(s)) /\ PriceWantOk(r)
  BY <1>0, AccountOf DEF At
<1>2. GetOrCreate(s, key, row, done, done)
  BY DEF StoreRow, RowAt, RowDone
<1>3. \/ key \in PriceSeen(s) /\ Local(s, done)
      \/ Local(s, wanting)
      \/ r.want # NONE /\ FlushNew(s, row, done)
  BY <1>2 DEF GetOrCreate, FlushNew, Sees, PriceSeen
<1>4. r.want = NONE \/ r.want = key
  BY <1>0, <1>1 DEF PriceWantOk
<1>5. sess[s].want = r.want
  OBVIOUS
<1> DEFINE least == Min(r.rows)
<1>6. done = [r EXCEPT !.rows = @ \ {least}]
  OBVIOUS
<1> HIDE DEF key, row, least, r
<1>7. /\ done.pc = "store" /\ SameStory(r, done) /\ done.rows = r.rows \ {least}
      /\ wanting.pc = "store" /\ SameStory(r, wanting) /\ wanting.rows = r.rows
      /\ after.pc = "store" /\ SameStory(r, after) /\ after.rows = r.rows \ {least}
  BY <1>0, <1>1, <1>6 DEF PriceShape, PriceFields, SameStory
<1>8. ASSUME key \in PriceSeen(s) PROVE Account(done, PriceSeen(s))
  <2> HIDE DEF done
  <2> QED  BY <1>0, <1>1, <1>7, <1>8, RowStored DEF least, key
<1>9. Account(wanting, PriceSeen(s))
  <2> HIDE DEF wanting
  <2> QED  BY <1>0, <1>1, <1>7, RowStored
<1>10. Account(after, PriceSeen(s) \cup {key})
  <2> HIDE DEF done, after
  <2> QED  BY <1>0, <1>1, <1>7, RowStored DEF least, key
<1> HIDE DEF done, wanting
<1>11. CASE r.want # NONE /\ FlushNew(s, row, done)
  BY <1>4, <1>5, <1>10, <1>11, FlushAccount
<1> QED  BY <1>3, <1>8, <1>9, <1>11, LocalAccount DEF Local, Become

\* The file at hand is stored, its request behind.
LEMMA NextFileAccount ==
  ASSUME PriceIInv, Accounted, NEW s \in Sessions, NextFile(s)
  PROVE  Accounted'
<1> DEFINE r == sess[s]
           y == Chunk(s)
           asked == Request(s)
           q == NextRequest(s)
<1>0. r.pc = "store" /\ r.rows = {} /\ Local(s, q)
  BY DEF NextFile, At
<1>1. /\ PriceShape(r) /\ Account(r, PriceSeen(s)) /\ y = Head(r.chunks)
      /\ y.first \in Nat /\ y.last \in Nat /\ r.next \in Nat
  BY <1>0, AccountOf DEF At
<1>2. /\ q.pc = "fetch" /\ q.chunks = r.chunks /\ q.got = r.got /\ q.next = asked.end + 1
      /\ q.no_data = r.no_data /\ q.errors = r.errors /\ q.blocked = r.blocked
  BY <1>1, NextRequestFields
<1>3. asked = NextAsked(y, r.next)
  BY DEF Request
<1>4. Left(y, r.next) # {} /\ <<asked, r.path>> \in r.got
  BY <1>0, <1>1, <1>3 DEF Account, AtWork, AfterFetch
<1>5. /\ asked.start \in Nat /\ asked.end \in Nat
      /\ \A d \in Left(y, r.next) : asked.start <= d /\ d \in Nat
      /\ ~IsRange(y) => asked.end = asked.start
  BY <1>1, <1>3, <1>4, NextAskedIs DEF Left
<1>6. \A g \in r.got : StoredBut({}, g[2], y, PriceSeen(s))
  BY <1>0, <1>1 DEF Account
<1> HIDE DEF q, r, y
<1>7. ~IsRange(y) => Told(q, asked.start)
  <2>1. ~IsRange(y) => asked.start \in DaysOf(asked)
    BY <1>5 DEF DaysOf
  <2> QED  BY <1>1, <1>2, <1>4, <2>1 DEF Told
<1> HIDE DEF asked
<1>8. ASSUME ~IsRange(y), NEW d \in Left(y, r.next), d < q.next PROVE Told(q, d)
  <2>1. d = asked.start
    BY <1>2, <1>5, <1>8
  <2> QED  BY <1>7, <1>8, <2>1
<1>9. Account(q, PriceSeen(s))
  BY <1>0, <1>1, <1>2, <1>5, <1>6, <1>8, AnswerAccount
<1> QED  BY <1>0, <1>9, LocalAccount DEF Local, Become, q

\* At the end of the loop no day is left.
LEMMA EndAccount ==
  ASSUME PriceIInv, Accounted, NEW s \in Sessions, EndOfRange(s)
  PROVE  Accounted'
<1> DEFINE r == sess[s]
           y == Chunk(s)
           days == Requested(y) \ Available(s)
           range == [r EXCEPT !.pc = "done", !.no_data = days]
           daily == [r EXCEPT !.pc = "done"]
<1>0. /\ r.pc = "fetch" /\ Left(y, r.next) = {}
      /\ Local(s, IF IsRange(y) THEN range ELSE daily)
  BY DEF EndOfRange, At
<1>1. /\ PriceShape(r) /\ Account(r, PriceSeen(s)) /\ y = Head(r.chunks)
      /\ y.first \in Nat /\ y.last \in Nat /\ r.next \in Nat
  BY <1>0, AccountOf DEF At
<1>2. Available(s) = DaysSeen(r)
  BY DEF Available, DaysSeen, Chunk
<1>3. /\ r.chunks \in Seq(AllChunks) /\ r.chunks # <<>>
      /\ \A g \in r.got : StoredBut({}, g[2], y, PriceSeen(s))
      /\ IsRange(y) \/ \A d \in Requested(y) : d < r.next => Told(r, d)
  BY <1>0, <1>1 DEF Account, AtWork, AfterFetch
<1> HIDE DEF r, y, days
<1>4. /\ range.pc = "done" /\ range.chunks = r.chunks /\ range.next = r.next
      /\ range.got = r.got /\ range.no_data = days
  BY <1>1 DEF PriceShape, PriceFields
<1>5. daily.pc = "done" /\ SameStory(r, daily)
  BY <1>1 DEF PriceShape, PriceFields, SameStory
<1> HIDE DEF range, daily
<1>6. ASSUME IsRange(y) PROVE Account(range, PriceSeen(s))
  <2>1. \A d \in Requested(y) : Told(range, d)
    <3>1. DaysSeen(range) = DaysSeen(r)
      BY <1>4 DEF DaysSeen
    <3> QED  BY <1>1, <1>2, <1>4, <1>6, <3>1 DEF Told, days
  <2> QED  BY <1>1, <1>3, <1>4, <1>6, <2>1 DEF Account, AtWork, AfterFetch
<1>7. ASSUME ~IsRange(y) PROVE Account(daily, PriceSeen(s))
  <2>1. \A d \in Requested(y) : Told(r, d)
    BY <1>0, <1>1, <1>3, <1>7, LeftOrBehind
  <2>2. \A d : Told(r, d) => Told(daily, d)
    BY <1>5 DEF Told, SameStory, DaysSeen
  <2> QED  BY <1>1, <1>3, <1>5, <2>1, <2>2 DEF Account, SameStory, AtWork, AfterFetch
<1> QED  BY <1>0, <1>6, <1>7, LocalAccount DEF Local, Become

\* What is left of a command is chunks of it.
LEMMA RestIs ==
  ASSUME NEW s, sess[s].chunks \in Seq(AllChunks), sess[s].chunks # <<>>
  PROVE  Rest(s) \in Seq(AllChunks)
<1> DEFINE chunks == sess[s].chunks
           Other(i) == ~sess[s].blocked \/ i > Len(chunks) \/ chunks[i].kind # Chunk(s).kind
           at == {i \in 2..(Len(chunks) + 1) : Other(i)}
<1>1. Len(chunks) \in Nat /\ Len(chunks) + 1 \in at
  <2>1. Len(chunks) \in Nat /\ Len(chunks) # 0
    OBVIOUS
  <2>2. Len(chunks) + 1 \in 2..(Len(chunks) + 1) /\ Len(chunks) + 1 > Len(chunks)
    BY <2>1
  <2> QED  BY <2>1, <2>2
<1>2. at \in SUBSET Nat /\ at # {}
  BY <1>1
<1>3. Min(at) \in 2..(Len(chunks) + 1)
  BY <1>2, LeastNumber
<1>4. Rest(s) = SubSeq(chunks, Min(at), Len(chunks))
  BY DEF Rest
<1> HIDE DEF at, chunks
<1> QED  BY <1>1, <1>3, <1>4, SubSeqProperties DEF chunks

LEMMA CommitIs ==
  ASSUME PriceIInv, NEW s \in Sessions, NEW state, Commit(s, state)
  PROVE  /\ sess'[s] = state /\ DOMAIN db' = PriceSeen(s) /\ PriceSeen(s)' = PriceSeen(s)
         /\ DOMAIN db \subseteq DOMAIN db'
         /\ \A t \in Sessions : t # s => sess'[t] = sess[t] /\ draft'[t] = draft[t]
  BY DEF PriceIInv, OnlyInserts, Commit, Become, View, PriceSeen, Nothing

LEMMA FinishAccount ==
  ASSUME PriceIInv, Accounted, NEW s \in Sessions, Finish(s)
  PROVE  Accounted'
<1>0. sess[s].pc = "done" /\ Commit(s, Open(Rest(s)))
  BY DEF Finish, At
<1>1. Account(sess[s], PriceSeen(s))
  BY <1>0, AccountOf DEF At
<1>2. Rest(s) \in Seq(AllChunks)
  BY <1>0, <1>1, RestIs DEF Account
<1>3. Account(Open(Rest(s)), PriceSeen(s))
  BY <1>2, OpenAccount
<1> HIDE DEF Rest
<1> QED  BY <1>0, <1>3, CommitIs, OthersAccount

LEMMA NextAccount ==
  ASSUME PriceIInv, Accounted, Next
  PROVE  Accounted'
<1> PICK s \in Sessions : Begin(s) \/ Proceed(s) \/ (Crash(s) /\ UNCHANGED files)
  BY DEF Next
<1>1. CASE Begin(s)
  BY <1>1, BeginAccount
<1>2. CASE EnsureCompanies(s)
  BY <1>2, EnsureAccount
<1>3. CASE Fetch(s)
  BY <1>3, FetchAccount
<1>4. CASE WriteArchive(s)
  BY <1>4, WriteAccount
<1>5. CASE RecordFile(s)
  BY <1>5, RecordAccount
<1>6. CASE Parse(s)
  BY <1>6, ParseAccount
<1>7. CASE StoreRow(s)
  BY <1>7, StoreAccount
<1>8. CASE NextFile(s)
  BY <1>8, NextFileAccount
<1>9. CASE EndOfRange(s)
  BY <1>9, EndAccount
<1>10. CASE Finish(s)
  BY <1>10, FinishAccount
<1>11. CASE DeadlockVictim(s) \/ Crash(s)
  BY <1>11, RollbackAccount DEF DeadlockVictim, Crash
<1> QED
  BY <1>1, <1>2, <1>3, <1>4, <1>5, <1>6, <1>7, <1>8, <1>9, <1>10, <1>11 DEF Proceed

\* A sync that commits has stored what it wanted and tells of every day.
LEMMA FinishTells ==
  ASSUME PriceIInv, Accounted
  PROVE  SyncIsAccountedForStep
<1> SUFFICES ASSUME NEW s \in Sessions, At(s, "done"), Finish(s)
             PROVE  /\ \A g \in sess[s].got : \A row \in Range(Parsed[g[2]]) :
                          Keeps(Chunk(s), row) => Price(row.name, row.date) \in DOMAIN db'
                    /\ \A d \in Requested(Chunk(s)) :
                          \/ d \in sess[s].no_data \cup sess[s].errors
                          \/ IF IsRange(Chunk(s)) THEN d \in Available(s)
                             ELSE \E g \in sess[s].got : d \in DaysOf(g[1])
                          \/ sess[s].blocked /\ \E e \in sess[s].errors : e < d
  BY DEF SyncIsAccountedForStep
<1>1. sess[s].pc = "done" /\ Account(sess[s], PriceSeen(s)) /\ Chunk(s) = Head(sess[s].chunks)
  BY AccountOf DEF At
<1>2. DOMAIN db' = PriceSeen(s)
  BY CommitIs DEF Finish
<1>3. \A g \in sess[s].got : StoredBut({}, g[2], Chunk(s), DOMAIN db')
  BY <1>1, <1>2 DEF Account, AtWork, AfterFetch
<1>4. Available(s) = DaysSeen(sess[s])
  BY DEF Available, DaysSeen, Chunk
<1>5. \A d \in Requested(Chunk(s)) : Told(sess[s], d)
  BY <1>1 DEF Account
<1> QED  BY <1>1, <1>3, <1>4, <1>5 DEF StoredBut, Range, Told

LEMMA InitAccounted == Init => Accounted
  BY DEF Init, InitArchive, InitTransactions, Accounted, Account, Idle

\* For every calendar, every content of the files and any number of syncs: one
\* that commits has stored every row it wanted of every file it got, and each
\* weekday it was asked for had an answer, had none, failed or is beyond a block.
THEOREM SyncsAreAccountedFor == Spec => SyncIsAccountedFor
<1>1. PriceIInv /\ Accounted /\ [Next]_archivevars => Accounted'
  <2>1. PriceIInv /\ Accounted /\ UNCHANGED archivevars => Accounted'
    BY DEF archivevars, txvars, Accounted, PriceSeen
  <2> QED  BY <2>1, NextAccount
<1>2. PriceIInv /\ Accounted => [SyncIsAccountedForStep]_archivevars
  BY FinishTells
<1> QED  BY <1>1, <1>2, InitAccounted, IInvInvariant, PTL DEF Spec, SyncIsAccountedFor

-----------------------------------------------------------------------------
(* The document archive.  DocumentsTraceable says nothing of what is not *)
(* committed, and a commit installs it: every drafted row must be traceable *)
(* in the view of its session, and so must what a command is about to       *)
(* record.  R are the committed keys, M those the session sees, F the paths *)
(* of the archive.                                                          *)

Docs(keys) == {k \in keys : k[1] = "document"}
MemberOf(k, p) == p[2] = k[2] /\ p[3] = k[3] /\ k[4] \in Range(Bytes[p[4]].members)

FilingRowOk(k, row, R, M, F) ==
    /\ k[1] = "document" =>
          /\ Original(k[2], k[4]) \in F
          /\ row.parent # NONE => row.parent \in Docs(M) /\ MemberOf(k, row.parent)
    /\ k[1] = "fact" => row.document \in Docs(R)

\* The fields of a command.
FilingFields == {"pc", "want", "kind", "companies", "symbol", "types", "since", "todo", "path",
           "parent", "members", "got", "failed", "blocked", "table"}
FilingShape(r) == r = [f \in FilingFields |-> r[f]]

\* The steps of each kind of command.
Steps(r) ==
    \/ r.kind = "sync" /\ r.pc \in {"ensure", "discover", "download", "write", "fill",
                                    "document", "unpack", "text", "textfill", "done"}
    \/ r.kind = "upload" /\ r.pc \in {"ensure", "write", "fill", "document", "done"}
    \/ r.kind = "record" /\ r.pc \in {"ensure", "fact", "done"}
    \/ r.kind = "extract" /\ r.pc \in {"extract", "text", "textfill"}

\* The document a command is in, if any, is on record in its view.
ParentOk(r, R, M) ==
    /\ r.kind = "record" => r.parent \in Docs(R)
    /\ r.kind = "extract" => r.parent = NONE
    /\ r.kind # "record" /\ r.pc \in {"ensure", "discover", "download"} => r.parent = NONE
    /\ r.kind # "record" /\ r.parent # NONE =>
          /\ r.parent \in Docs(M) /\ r.parent[2] = r.symbol /\ r.parent[3] = Head(r.todo).url
          /\ r.pc # "unpack" => r.members \in Seq(Range(Bytes[r.parent[4]].members))
    /\ r.pc = "unpack" => r.path[2] = r.parent[4] /\ r.path[2] \in DOMAIN Bytes
    /\ r.members \in Seq(DOMAIN Bytes)

\* The file a command is at belongs to it, and is there when its row is due.
PathOk(r, F) ==
    /\ r.kind = "upload" => r.path = Original(r.symbol, r.path[2])
    /\ r.pc \in {"write", "fill", "document"} =>
          /\ r.path = Original(r.symbol, r.path[2])
          /\ r.parent # NONE => r.path[2] \in Range(Bytes[r.parent[4]].members)
          /\ r.kind = "sync" => r.path[2] \in DOMAIN Bytes
    /\ r.pc = "document" => r.path \in F

\* The key a command wants is that of the row it is about to insert.
FilingWantOk(r) ==
    /\ r.want # NONE => r.pc \in {"ensure", "document"}
    /\ r.pc = "ensure" /\ r.want # NONE => \E n \in r.companies : r.want = Company(n)
    /\ r.pc = "document" /\ r.want # NONE =>
          r.want = Document(r.symbol, Head(r.todo).url, r.path[2])

FilingStateOk(r, R, M, F) ==
    r.pc # "idle" => FilingShape(r) /\ Steps(r) /\ ParentOk(r, R, M) /\ PathOk(r, F) /\ FilingWantOk(r)

FilingSeen(s) == DOMAIN db \cup DOMAIN draft[s]

FilingSessionOk(s) == FilingStateOk(sess[s], DOMAIN db, FilingSeen(s), DOMAIN files)
FilingDraftOk(s) == \A k \in DOMAIN draft[s] :
                 FilingRowOk(k, draft[s][k], DOMAIN db, FilingSeen(s), DOMAIN files)
FilingTableOk == \A k \in DOMAIN db : FilingRowOk(k, db[k], DOMAIN db, DOMAIN db, DOMAIN files)

FilingIInv ==
    /\ OnlyInserts /\ FiniteTable("fact")
    /\ sess = [s \in Sessions |-> sess[s]]
    /\ FilingTableOk
    /\ \A s \in Sessions : FilingSessionOk(s) /\ FilingDraftOk(s)

-----------------------------------------------------------------------------
(* Keys, rows and files that come on top disturb nothing.                  *)

LEMMA FilingMoreForRow ==
  ASSUME NEW k, NEW row, NEW R, NEW M, NEW F, NEW R2, NEW M2, NEW F2,
         R \subseteq R2, M \subseteq M2, F \subseteq F2, FilingRowOk(k, row, R, M, F)
  PROVE  FilingRowOk(k, row, R2, M2, F2)
  BY DEF FilingRowOk, Docs

LEMMA FilingMoreForState ==
  ASSUME NEW r, NEW R, NEW M, NEW F, NEW R2, NEW M2, NEW F2,
         R \subseteq R2, M \subseteq M2, F \subseteq F2, FilingStateOk(r, R, M, F)
  PROVE  FilingStateOk(r, R2, M2, F2)
<1>1. ParentOk(r, R, M) => ParentOk(r, R2, M2)
  BY DEF ParentOk, Docs
<1>2. PathOk(r, F) => PathOk(r, F2)
  BY DEF PathOk
<1> QED  BY <1>1, <1>2 DEF FilingStateOk

\* The steps of the other sessions: their drafts stay, and there may be more
\* rows and files.
LEMMA FilingOthersKeep ==
  ASSUME FilingIInv, NEW s \in Sessions,
         \A t \in Sessions : t # s => sess'[t] = sess[t] /\ draft'[t] = draft[t],
         DOMAIN db \subseteq DOMAIN db', DOMAIN files \subseteq DOMAIN files'
  PROVE  \A t \in Sessions : t # s => FilingSessionOk(t)' /\ FilingDraftOk(t)'
<1> SUFFICES ASSUME NEW t \in Sessions, t # s
             PROVE  FilingSessionOk(t)' /\ FilingDraftOk(t)'
  OBVIOUS
<1>1. sess'[t] = sess[t] /\ draft'[t] = draft[t] /\ FilingSeen(t) \subseteq FilingSeen(t)'
  BY DEF FilingSeen
<1>2. FilingStateOk(sess[t], DOMAIN db, FilingSeen(t), DOMAIN files)
  BY DEF FilingIInv, FilingSessionOk
<1>3. FilingStateOk(sess[t], DOMAIN db', FilingSeen(t)', DOMAIN files')
  BY <1>1, <1>2, FilingMoreForState
<1>4. \A k \in DOMAIN draft[t] : FilingRowOk(k, draft[t][k], DOMAIN db', FilingSeen(t)', DOMAIN files')
  BY <1>1, FilingMoreForRow DEF FilingIInv, FilingDraftOk
<1>5. FilingSessionOk(t)'
  BY <1>1, <1>3 DEF FilingSessionOk
<1>6. FilingDraftOk(t)'
  BY <1>1, <1>4 DEF FilingDraftOk
<1> QED  BY <1>5, <1>6

\* A step that writes no row.
LEMMA FilingLocalKeeps ==
  ASSUME FilingIInv, NEW s \in Sessions, NEW state,
         db' = db, draft' = draft, sess' = [sess EXCEPT ![s] = state],
         DOMAIN files \subseteq DOMAIN files',
         FilingStateOk(state, DOMAIN db, FilingSeen(s), DOMAIN files')
  PROVE  FilingIInv' /\ RowsStand
<1>1. /\ sess'[s] = state /\ sess' = [t \in Sessions |-> sess'[t]]
      /\ \A t \in Sessions : t # s => sess'[t] = sess[t] /\ draft'[t] = draft[t]
  BY DEF FilingIInv
<1>2. OnlyInserts' /\ RowsStand
  BY QuietStep DEF FilingIInv
<1>3. FiniteTable("fact")'
  BY DEF FilingIInv, FiniteTable, Of
<1>4. FilingTableOk'
  BY FilingMoreForRow DEF FilingIInv, FilingTableOk
<1>5. \A t \in Sessions : t # s => FilingSessionOk(t)' /\ FilingDraftOk(t)'
  BY <1>1, FilingOthersKeep
<1>6. FilingSessionOk(s)'
  BY <1>1 DEF FilingSessionOk, FilingSeen
<1>7. FilingDraftOk(s)'
  <2>1. FilingSeen(s)' = FilingSeen(s)
    BY DEF FilingSeen
  <2> QED  BY <2>1, FilingMoreForRow DEF FilingIInv, FilingDraftOk
<1> QED  BY <1>1, <1>2, <1>3, <1>4, <1>5, <1>6, <1>7 DEF FilingIInv

LEMMA FilingRollbackKeeps ==
  ASSUME FilingIInv, NEW s \in Sessions, Rollback(s), files' = files
  PROVE  FilingIInv' /\ RowsStand
<1>1. /\ sess'[s] = Idle /\ sess' = [t \in Sessions |-> sess'[t]]
      /\ draft'[s] = Nothing /\ db' = db
      /\ \A t \in Sessions : t # s => sess'[t] = sess[t] /\ draft'[t] = draft[t]
  BY DEF FilingIInv, OnlyInserts, Rollback, Become
<1>2. OnlyInserts' /\ RowsStand
  BY RollbackStep DEF FilingIInv
<1>3. FiniteTable("fact")'
  <2>1. IsFiniteSet(Of(draft'[s], "fact"))
    BY <1>1, FS_EmptySet DEF Of, Nothing
  <2> QED  BY <1>1, <2>1 DEF FilingIInv, FiniteTable, Of
<1>4. FilingTableOk'
  BY <1>1 DEF FilingIInv, FilingTableOk
<1>5. \A t \in Sessions : t # s => FilingSessionOk(t)' /\ FilingDraftOk(t)'
  BY <1>1, FilingOthersKeep
<1>6. FilingSessionOk(s)' /\ FilingDraftOk(s)'
  BY <1>1 DEF FilingSessionOk, FilingStateOk, Idle, FilingDraftOk, Nothing
<1> QED  BY <1>1, <1>2, <1>3, <1>4, <1>5, <1>6 DEF FilingIInv

\* A commit: what is sound in the view of a session is sound in the table.
LEMMA FilingCommitKeeps ==
  ASSUME FilingIInv, NEW s \in Sessions, Commit(s, Idle), files' = files
  PROVE  FilingIInv' /\ RowsStand
<1>1. /\ sess'[s] = Idle /\ sess' = [t \in Sessions |-> sess'[t]]
      /\ draft'[s] = Nothing /\ DOMAIN db' = FilingSeen(s)
      /\ \A k \in FilingSeen(s) : db'[k] = IF k \in DOMAIN draft[s] THEN draft[s][k] ELSE db[k]
      /\ \A t \in Sessions : t # s => sess'[t] = sess[t] /\ draft'[t] = draft[t]
  BY DEF FilingIInv, OnlyInserts, Commit, Become, View, FilingSeen
<1>2. OnlyInserts' /\ RowsStand
  BY CommitStep DEF FilingIInv
<1>3. FiniteTable("fact")'
  <2>1. IsFiniteSet(Of(draft'[s], "fact"))
    BY <1>1, FS_EmptySet DEF Of, Nothing
  <2>2. Of(db', "fact") = Of(db, "fact") \cup Of(draft[s], "fact")
    BY <1>1 DEF Of, FilingSeen
  <2>3. IsFiniteSet(Of(db', "fact"))
    BY <2>2, FS_Union DEF FilingIInv, FiniteTable
  <2> QED  BY <1>1, <2>1, <2>3 DEF FilingIInv, FiniteTable
<1>4. DOMAIN db \subseteq DOMAIN db'
  BY <1>1 DEF FilingSeen
<1>5. FilingTableOk'
  <2> SUFFICES ASSUME NEW k \in FilingSeen(s)
               PROVE  FilingRowOk(k, db'[k], DOMAIN db', DOMAIN db', DOMAIN files)
    BY <1>1 DEF FilingTableOk
  <2>1. CASE k \in DOMAIN draft[s]
    <3>1. FilingRowOk(k, draft[s][k], DOMAIN db, FilingSeen(s), DOMAIN files)
      BY <2>1 DEF FilingIInv, FilingDraftOk
    <3> QED  BY <1>1, <1>4, <2>1, <3>1, FilingMoreForRow
  <2>2. CASE k \notin DOMAIN draft[s]
    <3>1. k \in DOMAIN db /\ FilingRowOk(k, db[k], DOMAIN db, DOMAIN db, DOMAIN files)
      BY <2>2 DEF FilingIInv, FilingTableOk, FilingSeen
    <3> QED  BY <1>1, <1>4, <2>2, <3>1, FilingMoreForRow
  <2> QED  BY <2>1, <2>2
<1>6. \A t \in Sessions : t # s => FilingSessionOk(t)' /\ FilingDraftOk(t)'
  BY <1>1, <1>4, FilingOthersKeep
<1>7. FilingSessionOk(s)' /\ FilingDraftOk(s)'
  BY <1>1 DEF FilingSessionOk, FilingStateOk, Idle, FilingDraftOk, Nothing
<1> QED  BY <1>1, <1>2, <1>3, <1>5, <1>6, <1>7 DEF FilingIInv

\* One row more in the draft of a session.
LEMMA InsertKeeps ==
  ASSUME FilingIInv, NEW s \in Sessions, NEW key, NEW row, NEW state, files' = files,
         Insert(s, [k \in {key} |-> row], state),
         key \notin DOMAIN db, \A t \in Sessions : t # s => key \notin DOMAIN draft[t],
         FilingRowOk(key, row, DOMAIN db, FilingSeen(s) \cup {key}, DOMAIN files),
         FilingStateOk(state, DOMAIN db, FilingSeen(s) \cup {key}, DOMAIN files)
  PROVE  FilingIInv' /\ RowsStand
<1>1. /\ sess'[s] = state /\ sess' = [t \in Sessions |-> sess'[t]] /\ db' = db
      /\ DOMAIN draft'[s] = DOMAIN draft[s] \cup {key}
      /\ draft'[s][key] = row
      /\ \A k \in DOMAIN draft[s] : k # key => draft'[s][k] = draft[s][k]
      /\ \A t \in Sessions : t # s => sess'[t] = sess[t] /\ draft'[t] = draft[t]
  BY DEF FilingIInv, OnlyInserts, Insert, Become
<1>2. OnlyInserts' /\ RowsStand
  BY InsertStep DEF FilingIInv
<1>3. FiniteTable("fact")'
  <2>1. Of(draft'[s], "fact") \in SUBSET (Of(draft[s], "fact") \cup {key})
    BY <1>1 DEF Of
  <2>2. IsFiniteSet(Of(draft'[s], "fact"))
    BY <2>1, FS_AddElement, FS_Subset DEF FilingIInv, FiniteTable
  <2> QED  BY <1>1, <2>2 DEF FilingIInv, FiniteTable
<1>4. FilingTableOk'
  BY <1>1 DEF FilingIInv, FilingTableOk
<1>5. \A t \in Sessions : t # s => FilingSessionOk(t)' /\ FilingDraftOk(t)'
  BY <1>1, FilingOthersKeep
<1>6. FilingSeen(s)' = FilingSeen(s) \cup {key}
  BY <1>1 DEF FilingSeen
<1>7. FilingSessionOk(s)'
  BY <1>1, <1>6 DEF FilingSessionOk
<1>8. FilingDraftOk(s)'
  <2>1. ASSUME NEW k \in DOMAIN draft[s], k # key
        PROVE  FilingRowOk(k, draft[s][k], DOMAIN db, FilingSeen(s) \cup {key}, DOMAIN files)
    BY FilingMoreForRow DEF FilingIInv, FilingDraftOk
  <2> QED  BY <1>1, <1>6, <2>1 DEF FilingDraftOk
<1> QED  BY <1>1, <1>2, <1>3, <1>4, <1>5, <1>7, <1>8 DEF FilingIInv

\* The flush of the wanted row, or the end of the command.
LEMMA FilingFlushKeeps ==
  ASSUME FilingIInv, NEW s \in Sessions, NEW row, NEW state, files' = files,
         FlushNew(s, row, state),
         FilingRowOk(sess[s].want, row, DOMAIN db, FilingSeen(s) \cup {sess[s].want}, DOMAIN files),
         FilingStateOk([state EXCEPT !.want = NONE], DOMAIN db, FilingSeen(s) \cup {sess[s].want},
                 DOMAIN files)
  PROVE  FilingIInv' /\ RowsStand
<1>1. CASE Sees(s, sess[s].want)
  BY <1>1, FilingRollbackKeeps DEF FlushNew
<1>2. CASE ~Sees(s, sess[s].want)
  <2> DEFINE key == sess[s].want
             after == [state EXCEPT !.want = NONE]
  <2>1. Insert(s, [k \in {key} |-> row], after)
    BY <1>2 DEF FlushNew, Flush, InsertRow
  <2>2. key \notin DOMAIN db /\ \A t \in Sessions : t # s => key \notin DOMAIN draft[t]
    BY <1>2 DEF FlushNew, Free, WaitsFor, Sees
  <2> HIDE DEF key, after
  <2>3. /\ FilingRowOk(key, row, DOMAIN db, FilingSeen(s) \cup {key}, DOMAIN files)
        /\ FilingStateOk(after, DOMAIN db, FilingSeen(s) \cup {key}, DOMAIN files)
    BY DEF key, after
  <2> QED  BY <2>1, <2>2, <2>3, InsertKeeps
<1> QED  BY <1>1, <1>2

-----------------------------------------------------------------------------
(* The steps.                                                              *)

FilesStay == \A path \in DOMAIN files :
    path \in DOMAIN files' /\ (path[3] = "bytes" /\ files[path] = "whole" => files'[path] = "whole")

FilingKeeps == FilingIInv' /\ RowsStand /\ FilesStay

LEMMA FilingCommandIs ==
  ASSUME FilingIInv, NEW s \in Sessions, ~At(s, "idle")
  PROVE  /\ FilingShape(sess[s]) /\ Steps(sess[s]) /\ ParentOk(sess[s], DOMAIN db, FilingSeen(s))
         /\ PathOk(sess[s], DOMAIN files) /\ FilingWantOk(sess[s])
  BY DEF FilingIInv, FilingSessionOk, FilingStateOk, At

\* A local step that leaves the archive alone.
LEMMA FilingReadKeeps ==
  ASSUME FilingIInv, NEW s \in Sessions, NEW state, Local(s, state), files' = files,
         FilingStateOk(state, DOMAIN db, FilingSeen(s), DOMAIN files)
  PROVE  FilingKeeps
<1>1. FilingIInv' /\ RowsStand
  BY FilingLocalKeeps DEF Local, Become
<1> QED  BY <1>1 DEF FilingKeeps, FilesStay

LEMMA FilingBeginKeeps ==
  ASSUME FilingIInv, NEW s \in Sessions, NEW state, Start(s, state), files' = files,
         FilingStateOk(state, DOMAIN db, FilingSeen(s), DOMAIN files)
  PROVE  FilingKeeps
<1>1. FilingIInv' /\ RowsStand
  BY FilingLocalKeeps DEF Start, Become
<1> QED  BY <1>1 DEF FilingKeeps, FilesStay

LEMMA BeginSyncKeeps ==
  ASSUME FilingIInv, NEW s \in Sessions, BeginSync(s), files' = files
  PROVE  FilingKeeps
<1>1. PICK c \in Syncs :
        Start(s, [FilingCommand EXCEPT !.kind = "sync", !.companies = {c.symbol},
                     !.symbol = c.symbol, !.types = c.types, !.since = c.since])
  BY DEF BeginSync
<1> DEFINE r == [FilingCommand EXCEPT !.kind = "sync", !.companies = {c.symbol},
                     !.symbol = c.symbol, !.types = c.types, !.since = c.since]
<1>2. /\ FilingShape(r) /\ r.pc = "ensure" /\ r.kind = "sync" /\ r.want = NONE
      /\ r.parent = NONE /\ r.members = <<>>
  BY DEF FilingCommand, FilingShape, FilingFields
<1>0. Start(s, r)
  BY <1>1
<1> HIDE DEF r
<1>3. FilingStateOk(r, DOMAIN db, FilingSeen(s), DOMAIN files)
  BY <1>2, EmptySeq DEF FilingStateOk, Steps, ParentOk, PathOk, FilingWantOk
<1> QED  BY <1>0, <1>3, FilingBeginKeeps

LEMMA BeginArchiveKeeps ==
  ASSUME FilingIInv, NEW s \in Sessions, BeginArchive(s), files' = files
  PROVE  FilingKeeps
<1>1. PICK u \in Uploads :
        Start(s, [FilingCommand EXCEPT !.kind = "upload", !.companies = {u.symbol},
                     !.symbol = u.symbol, !.path = Original(u.symbol, u.bytes),
                     !.todo = <<[url |-> u.url, filing |-> u.filing, published |-> NONE]>>])
  BY DEF BeginArchive
<1> DEFINE r == [FilingCommand EXCEPT !.kind = "upload", !.companies = {u.symbol},
                     !.symbol = u.symbol, !.path = Original(u.symbol, u.bytes),
                     !.todo = <<[url |-> u.url, filing |-> u.filing, published |-> NONE]>>]
<1>2. /\ FilingShape(r) /\ r.pc = "ensure" /\ r.kind = "upload" /\ r.want = NONE
      /\ r.parent = NONE /\ r.members = <<>>
      /\ r.path = Original(u.symbol, u.bytes) /\ r.symbol = u.symbol
  BY DEF FilingCommand, FilingShape, FilingFields
<1>3. r.path = Original(r.symbol, r.path[2])
  BY <1>2 DEF Original
<1>0. Start(s, r)
  BY <1>1
<1> HIDE DEF r
<1>4. FilingStateOk(r, DOMAIN db, FilingSeen(s), DOMAIN files)
  BY <1>2, <1>3, EmptySeq DEF FilingStateOk, Steps, ParentOk, PathOk, FilingWantOk
<1> QED  BY <1>0, <1>4, FilingBeginKeeps

LEMMA BeginExtractKeeps ==
  ASSUME FilingIInv, NEW s \in Sessions, BeginExtract(s), files' = files
  PROVE  FilingKeeps
<1>1. PICK k \in Of(db, "document") :
        Start(s, [FilingCommand EXCEPT !.pc = "extract", !.kind = "extract",
                        !.path = Original(k[2], k[4])])
  BY DEF BeginExtract
<1> DEFINE r == [FilingCommand EXCEPT !.pc = "extract", !.kind = "extract",
                        !.path = Original(k[2], k[4])]
<1>2. /\ FilingShape(r) /\ r.pc = "extract" /\ r.kind = "extract" /\ r.want = NONE
      /\ r.parent = NONE /\ r.members = <<>>
  BY DEF FilingCommand, FilingShape, FilingFields
<1>0. Start(s, r)
  BY <1>1
<1> HIDE DEF r
<1>3. FilingStateOk(r, DOMAIN db, FilingSeen(s), DOMAIN files)
  BY <1>2, EmptySeq DEF FilingStateOk, Steps, ParentOk, PathOk, FilingWantOk
<1> QED  BY <1>0, <1>3, FilingBeginKeeps

LEMMA BeginRecordKeeps ==
  ASSUME FilingIInv, NEW s \in Sessions, BeginRecord(s), files' = files
  PROVE  FilingKeeps
<1>1. PICK k \in Of(db, "document"), n \in {c.symbol : c \in Syncs}, table \in FactTables :
        Start(s, [FilingCommand EXCEPT !.kind = "record", !.companies = {n}, !.symbol = n,
                     !.table = table, !.parent = k])
  BY DEF BeginRecord
<1> DEFINE r == [FilingCommand EXCEPT !.kind = "record", !.companies = {n}, !.symbol = n,
                     !.table = table, !.parent = k]
<1>2. /\ FilingShape(r) /\ r.pc = "ensure" /\ r.kind = "record" /\ r.want = NONE
      /\ r.parent = k /\ r.members = <<>>
  BY DEF FilingCommand, FilingShape, FilingFields
<1>0. Start(s, r)
  BY <1>1
<1> HIDE DEF r
<1>3. k \in Docs(DOMAIN db)
  BY DEF Docs, Of
<1>4. FilingStateOk(r, DOMAIN db, FilingSeen(s), DOMAIN files)
  BY <1>2, <1>3, EmptySeq DEF FilingStateOk, Steps, ParentOk, PathOk, FilingWantOk
<1> QED  BY <1>0, <1>4, FilingBeginKeeps

\* ensure_company: no row of it is a document or a fact.
LEMMA FilingEnsureKeeps ==
  ASSUME FilingIInv, NEW s \in Sessions, EnsureOne(s)
  PROVE  FilingKeeps
<1> DEFINE r == sess[s]
           next == [r EXCEPT !.pc = CASE r.kind = "sync" -> "discover"
                                      [] r.kind = "upload" -> "write"
                                      [] r.kind = "record" -> "fact"]
           rest(n) == [r EXCEPT !.companies = @ \ {n}]
           wanting(n) == [r EXCEPT !.want = Company(n)]
           M == FilingSeen(s) \cup {r.want}
<1>0. At(s, "ensure") /\ files' = files /\ r.pc = "ensure"
  BY DEF EnsureOne, EnsureCompany, At
<1>1. /\ FilingShape(r) /\ Steps(r) /\ ParentOk(r, DOMAIN db, FilingSeen(s))
      /\ PathOk(r, DOMAIN files) /\ FilingWantOk(r)
  BY <1>0, FilingCommandIs DEF At
<1> HIDE DEF r
<1>2. ASSUME NEW n \in r.companies, r.want = NONE
      PROVE  FilingStateOk(rest(n), DOMAIN db, FilingSeen(s), DOMAIN files)
  <2>1. /\ FilingShape(rest(n)) /\ rest(n).pc = r.pc /\ rest(n).kind = r.kind
        /\ rest(n).want = r.want /\ rest(n).parent = r.parent /\ rest(n).symbol = r.symbol
        /\ rest(n).todo = r.todo /\ rest(n).path = r.path /\ rest(n).members = r.members
    BY <1>1 DEF FilingShape, FilingFields
  <2> DEFINE q == rest(n)
  <2> HIDE DEF rest
  <2>2. q.pc = "ensure" /\ q.want = NONE
    BY <1>0, <1>2, <2>1
  <2> QED  BY <1>1, <2>1, <2>2 DEF FilingStateOk, Steps, ParentOk, PathOk, FilingWantOk
<1>3. ASSUME NEW n \in r.companies
      PROVE  FilingStateOk(wanting(n), DOMAIN db, FilingSeen(s), DOMAIN files)
  <2>1. /\ FilingShape(wanting(n)) /\ wanting(n).pc = r.pc /\ wanting(n).kind = r.kind
        /\ wanting(n).want = Company(n) /\ wanting(n).companies = r.companies
        /\ wanting(n).parent = r.parent /\ wanting(n).symbol = r.symbol
        /\ wanting(n).todo = r.todo /\ wanting(n).path = r.path
        /\ wanting(n).members = r.members
    BY <1>1 DEF FilingShape, FilingFields
  <2> HIDE DEF wanting
  <2> QED  BY <1>0, <1>1, <1>3, <2>1 DEF FilingStateOk, Steps, ParentOk, PathOk, FilingWantOk
<1>4. ASSUME r.companies = {} PROVE FilingStateOk(next, DOMAIN db, FilingSeen(s), DOMAIN files)
  <2>1. r.want = NONE
    BY <1>0, <1>1, <1>4 DEF FilingWantOk
  <2>2. r.kind \in {"sync", "upload", "record"}
    BY <1>0, <1>1 DEF Steps
  <2>3. /\ FilingShape(next) /\ next.kind = r.kind /\ next.want = r.want
        /\ next.parent = r.parent /\ next.symbol = r.symbol
        /\ next.todo = r.todo /\ next.path = r.path /\ next.members = r.members
        /\ r.kind = "sync" => next.pc = "discover"
        /\ r.kind = "upload" => next.pc = "write"
        /\ r.kind = "record" => next.pc = "fact"
    <3> DEFINE pc == CASE r.kind = "sync" -> "discover"
                       [] r.kind = "upload" -> "write"
                       [] r.kind = "record" -> "fact"
               q == [r EXCEPT !.pc = pc]
    <3>1. /\ r.kind = "sync" => pc = "discover"
          /\ r.kind = "upload" => pc = "write"
          /\ r.kind = "record" => pc = "fact"
      OBVIOUS
    <3> HIDE DEF pc
    <3>2. /\ FilingShape(q) /\ q.kind = r.kind /\ q.want = r.want
          /\ q.parent = r.parent /\ q.symbol = r.symbol /\ q.pc = pc
          /\ q.todo = r.todo /\ q.path = r.path /\ q.members = r.members
      BY <1>1 DEF FilingShape, FilingFields
    <3> HIDE DEF q
    <3>3. next = q
      BY DEF q, pc
    <3> QED  BY <3>1, <3>2, <3>3
  <2> HIDE DEF next
  <2> QED  BY <1>0, <1>1, <2>1, <2>2, <2>3 DEF FilingStateOk, Steps, ParentOk, PathOk, FilingWantOk
<1>5. CASE r.companies = {} /\ Local(s, next)
  BY <1>0, <1>4, <1>5, FilingReadKeeps
<1>6. ASSUME NEW n \in r.companies, r.want = NONE,
             Local(s, rest(n)) \/ Local(s, wanting(n))
      PROVE  FilingKeeps
  BY <1>0, <1>2, <1>3, <1>6, FilingReadKeeps
<1>7. CASE FlushNew(s, TRUE, rest(r.want[2]))
  <2> DEFINE after == [rest(r.want[2]) EXCEPT !.want = NONE]
  <2>0. r.want # NONE /\ sess[s].want = r.want
    BY <1>7 DEF FlushNew, r
  <2>1. PICK n \in r.companies : r.want = Company(n)
    BY <1>0, <1>1, <2>0 DEF FilingWantOk
  <2>2. r.want[1] = "company"
    BY <2>1 DEF Company
  <2>3. FilingRowOk(r.want, TRUE, DOMAIN db, M, DOMAIN files)
    BY <2>2 DEF FilingRowOk
  <2>4. FilingStateOk(after, DOMAIN db, FilingSeen(s), DOMAIN files)
    <3>1. /\ FilingShape(after) /\ after.pc = r.pc /\ after.kind = r.kind
          /\ after.want = NONE /\ after.parent = r.parent /\ after.symbol = r.symbol
          /\ after.todo = r.todo /\ after.path = r.path /\ after.members = r.members
      BY <1>1 DEF FilingShape, FilingFields
    <3> HIDE DEF after
    <3> QED  BY <1>0, <1>1, <3>1 DEF FilingStateOk, Steps, ParentOk, PathOk, FilingWantOk
  <2>5. FilingStateOk(after, DOMAIN db, M, DOMAIN files)
    <3> HIDE DEF after
    <3> QED  BY <2>4, FilingMoreForState
  <2> HIDE DEF rest
  <2>6. FilingIInv' /\ RowsStand
    BY <1>0, <1>7, <2>0, <2>3, <2>5, FilingFlushKeeps
  <2> QED  BY <1>0, <2>6 DEF FilingKeeps, FilesStay
<1>8. \/ r.companies = {} /\ Local(s, next)
      \/ \E n \in r.companies : r.want = NONE /\ (Local(s, rest(n)) \/ Local(s, wanting(n)))
      \/ FlushNew(s, TRUE, rest(r.want[2]))
  BY DEF EnsureOne, EnsureCompany, r
<1> QED  BY <1>5, <1>6, <1>7, <1>8

\* Where a sync goes next, of a state r.
FilingSkip(r) == [r EXCEPT !.pc = "download", !.todo = Tail(@), !.path = NONE, !.parent = NONE]
Member(r) == [r EXCEPT !.pc = "write", !.members = Tail(@),
                       !.path = Original(r.symbol, Head(r.members))]
Done(r) == [r EXCEPT !.pc = "done"]
NoWant(r) == [r EXCEPT !.want = NONE]

LEMMA WantsNothing ==
  ASSUME NEW r, FilingShape(r)
  PROVE  /\ FilingShape(NoWant(r)) /\ NoWant(r).want = NONE
         /\ r.want = NONE => NoWant(r) = r
<1> DEFINE q == NoWant(r)
<1>1. FilingShape(q) /\ q.want = NONE /\ \A f \in FilingFields : f # "want" => q[f] = r[f]
  BY DEF FilingShape, FilingFields, NoWant
<1>2. ASSUME r.want = NONE PROVE q = r
  <2>1. \A f \in FilingFields : q[f] = r[f]
    BY <1>1, <1>2 DEF FilingFields
  <2> HIDE DEF q
  <2> QED  BY <1>1, <2>1 DEF FilingShape
<1> QED  BY <1>1, <1>2

LEMMA HeadAndTail ==
  ASSUME NEW S, NEW m \in Seq(S), m # <<>>
  PROVE  Head(m) \in S /\ Tail(m) \in Seq(S)
  BY HeadTailProperties

LEMMA ElementsInRange ==
  ASSUME NEW S, NEW m \in Seq(S)
  PROVE  m \in Seq(Range(m))
<1>1. m \in [1..Len(m) -> S] /\ Len(m) \in Nat
  BY LenProperties
<1>2. \A i \in 1..Len(m) : m[i] \in Range(m)
  BY <1>1 DEF Range
<1> QED  BY <1>1, <1>2, SeqDef

\* The next announcement of a sync.
LEMMA SkipOk ==
  ASSUME NEW r, NEW R, NEW M, NEW F, FilingShape(r), r.kind = "sync",
         r.members \in Seq(DOMAIN Bytes)
  PROVE  FilingShape(FilingSkip(r)) /\ FilingSkip(r).want = r.want /\ FilingStateOk(NoWant(FilingSkip(r)), R, M, F)
<1> DEFINE q == FilingSkip(r)
           n == NoWant(q)
<1>1. /\ FilingShape(q) /\ q.pc = "download" /\ q.kind = "sync" /\ q.want = r.want
      /\ q.parent = NONE /\ q.members = r.members
  BY DEF FilingShape, FilingFields, FilingSkip
<1> HIDE DEF q
<1>2. /\ FilingShape(n) /\ n.pc = "download" /\ n.kind = "sync" /\ n.want = NONE
      /\ n.parent = NONE /\ n.members = r.members
  BY <1>1 DEF FilingShape, FilingFields, NoWant
<1> HIDE DEF n
<1>3. FilingStateOk(n, R, M, F)
  BY <1>2 DEF FilingStateOk, Steps, ParentOk, PathOk, FilingWantOk
<1> QED  BY <1>1, <1>3 DEF n, q

\* The next member of a zip file.
LEMMA MemberIsOk ==
  ASSUME NEW r, NEW R, NEW M, NEW F, FilingShape(r), r.kind = "sync", r.members # <<>>,
         r.pc # "unpack", r.pc \notin {"ensure", "discover", "download"}, ParentOk(r, R, M)
  PROVE  FilingShape(Member(r)) /\ Member(r).want = r.want /\ FilingStateOk(NoWant(Member(r)), R, M, F)
<1> DEFINE q == Member(r)
           n == NoWant(q)
<1>1. /\ FilingShape(q) /\ q.pc = "write" /\ q.kind = "sync" /\ q.want = r.want
      /\ q.parent = r.parent /\ q.members = Tail(r.members) /\ q.symbol = r.symbol
      /\ q.path = Original(r.symbol, Head(r.members)) /\ q.todo = r.todo
  BY DEF FilingShape, FilingFields, Member
<1> HIDE DEF q
<1>2. /\ FilingShape(n) /\ n.pc = "write" /\ n.kind = "sync" /\ n.want = NONE
      /\ n.parent = r.parent /\ n.members = Tail(r.members) /\ n.symbol = r.symbol
      /\ n.path = Original(r.symbol, Head(r.members)) /\ n.todo = r.todo
  BY <1>1 DEF FilingShape, FilingFields, NoWant
<1> HIDE DEF n
<1>3. n.path[2] = Head(r.members) /\ n.path = Original(n.symbol, n.path[2])
  BY <1>2 DEF Original
<1>4. Head(r.members) \in DOMAIN Bytes /\ Tail(r.members) \in Seq(DOMAIN Bytes)
  BY HeadAndTail DEF ParentOk
<1>5. r.parent # NONE => /\ Head(r.members) \in Range(Bytes[r.parent[4]].members)
                         /\ Tail(r.members) \in Seq(Range(Bytes[r.parent[4]].members))
  BY HeadAndTail DEF ParentOk
<1>6. ParentOk(n, R, M)
  BY <1>2, <1>4, <1>5 DEF ParentOk
<1>7. PathOk(n, F)
  BY <1>2, <1>3, <1>4, <1>5 DEF PathOk
<1>8. FilingStateOk(n, R, M, F)
  BY <1>2, <1>6, <1>7 DEF FilingStateOk, Steps, FilingWantOk
<1> QED  BY <1>1, <1>8 DEF n, q

LEMMA DoneOk ==
  ASSUME NEW r, NEW R, NEW M, NEW F, FilingShape(r), r.kind # "extract",
         r.pc \notin {"unpack", "ensure", "discover", "download"},
         Steps(r), ParentOk(r, R, M), PathOk(r, F)
  PROVE  FilingShape(Done(r)) /\ Done(r).want = r.want /\ FilingStateOk(NoWant(Done(r)), R, M, F)
<1> DEFINE q == Done(r)
           n == NoWant(q)
<1>1. /\ FilingShape(q) /\ q.pc = "done" /\ q.kind = r.kind /\ q.want = r.want
      /\ q.parent = r.parent /\ q.members = r.members /\ q.symbol = r.symbol
      /\ q.path = r.path /\ q.todo = r.todo
  BY DEF FilingShape, FilingFields, Done
<1> HIDE DEF q
<1>2. /\ FilingShape(n) /\ n.pc = "done" /\ n.kind = r.kind /\ n.want = NONE
      /\ n.parent = r.parent /\ n.members = r.members /\ n.symbol = r.symbol
      /\ n.path = r.path /\ n.todo = r.todo
  BY <1>1 DEF FilingShape, FilingFields, NoWant
<1> HIDE DEF n
<1>3. FilingStateOk(n, R, M, F)
  BY <1>2 DEF FilingStateOk, Steps, ParentOk, PathOk, FilingWantOk
<1> QED  BY <1>1, <1>3 DEF n, q

\* Wherever a command goes from a document.
LEMMA AfterOk ==
  ASSUME NEW s \in Sessions, NEW R, NEW M, NEW F, FilingShape(sess[s]), Steps(sess[s]),
         ParentOk(sess[s], R, M), PathOk(sess[s], F),
         sess[s].pc \in {"document", "text", "textfill"}, sess[s].kind # "extract"
  PROVE  /\ FilingShape(AfterDocument(s)) /\ AfterDocument(s).want = sess[s].want
         /\ FilingStateOk(NoWant(AfterDocument(s)), R, M, F)
<1> DEFINE r == sess[s]
<1>1. r.kind \in {"sync", "upload"} /\ r.members \in Seq(DOMAIN Bytes)
  BY DEF Steps, ParentOk
<1>2. AfterDocument(s) = IF r.kind = "upload" THEN Done(r)
                         ELSE IF r.members # <<>> THEN Member(r) ELSE FilingSkip(r)
  BY DEF AfterDocument, NextAnnouncement, Done, Member, FilingSkip
<1> HIDE DEF r
<1>3. CASE r.kind = "upload"
  BY <1>2, <1>3, DoneOk DEF r
<1>4. CASE r.kind = "sync" /\ r.members # <<>>
  BY <1>2, <1>4, MemberIsOk DEF r
<1>5. CASE r.kind = "sync" /\ r.members = <<>>
  BY <1>1, <1>2, <1>5, SkipOk DEF r
<1> QED  BY <1>1, <1>3, <1>4, <1>5

\* A sync between its announcements.
LEMMA BetweenOk ==
  ASSUME NEW q, NEW R, NEW M, NEW F, FilingShape(q), q.kind = "sync", q.want = NONE,
         q.parent = NONE, q.members \in Seq(DOMAIN Bytes), q.pc \in {"download", "done"}
  PROVE  FilingStateOk(q, R, M, F)
  BY DEF FilingStateOk, Steps, ParentOk, PathOk, FilingWantOk

LEMMA DiscoverKeeps ==
  ASSUME FilingIInv, NEW s \in Sessions, Discover(s)
  PROVE  FilingKeeps
<1> DEFINE r == sess[s]
           blocked == [r EXCEPT !.pc = "done", !.blocked = TRUE]
           none == [r EXCEPT !.pc = "done"]
           found(list) == [r EXCEPT !.pc = "download", !.todo = list]
<1>0. r.pc = "discover" /\ files' = files
  BY DEF Discover, At
<1>1. /\ FilingShape(r) /\ Steps(r) /\ ParentOk(r, DOMAIN db, FilingSeen(s)) /\ FilingWantOk(r)
  BY <1>0, FilingCommandIs DEF At
<1>2. \/ Local(s, blocked) \/ Local(s, none) \/ \E list : Local(s, found(list))
  BY DEF Discover
<1> HIDE DEF r
<1>3. r.kind = "sync" /\ r.want = NONE /\ r.parent = NONE /\ r.members \in Seq(DOMAIN Bytes)
  BY <1>0, <1>1 DEF Steps, ParentOk, FilingWantOk
<1>4. \A q : (\/ q \in {blocked, none} \/ \E list : q = found(list)) =>
          /\ FilingShape(q) /\ q.kind = r.kind /\ q.want = r.want /\ q.parent = r.parent
          /\ q.members = r.members /\ q.pc \in {"download", "done"}
  BY <1>1 DEF FilingShape, FilingFields
<1> HIDE DEF blocked, none, found
<1>5. \A q : (\/ q \in {blocked, none} \/ \E list : q = found(list)) =>
          FilingStateOk(q, DOMAIN db, FilingSeen(s), DOMAIN files)
  BY <1>3, <1>4, BetweenOk
<1> QED  BY <1>0, <1>2, <1>5, FilingReadKeeps

LEMMA EndOfListKeeps ==
  ASSUME FilingIInv, NEW s \in Sessions, EndOfList(s)
  PROVE  FilingKeeps
<1> DEFINE r == sess[s]
           q == [r EXCEPT !.pc = "done"]
<1>0. r.pc = "download" /\ files' = files /\ Local(s, q)
  BY DEF EndOfList, At
<1>1. /\ FilingShape(r) /\ Steps(r) /\ ParentOk(r, DOMAIN db, FilingSeen(s)) /\ FilingWantOk(r)
  BY <1>0, FilingCommandIs DEF At
<1> HIDE DEF r
<1>2. r.kind = "sync" /\ r.want = NONE /\ r.parent = NONE /\ r.members \in Seq(DOMAIN Bytes)
  BY <1>0, <1>1 DEF Steps, ParentOk, FilingWantOk
<1>3. /\ FilingShape(q) /\ q.kind = r.kind /\ q.want = r.want /\ q.parent = r.parent
      /\ q.members = r.members /\ q.pc = "done"
  BY <1>1 DEF FilingShape, FilingFields
<1> HIDE DEF q
<1>4. FilingStateOk(q, DOMAIN db, FilingSeen(s), DOMAIN files)
  BY <1>2, <1>3, BetweenOk
<1> QED  BY <1>0, <1>4, FilingReadKeeps

LEMMA DownloadKeeps ==
  ASSUME FilingIInv, NEW s \in Sessions, Download(s), FilingsAssumption
  PROVE  FilingKeeps
<1> DEFINE r == sess[s]
           blocked == [r EXCEPT !.todo = <<>>, !.blocked = TRUE]
           failed(u) == [FilingSkip(r) EXCEPT !.failed = @ \cup {u}]
           got(u, b) == [r EXCEPT !.pc = "write", !.got = @ \cup {<<u, b>>},
                                  !.path = Original(r.symbol, b)]
<1>0. r.pc = "download" /\ files' = files
  BY DEF Download, At
<1>1. /\ FilingShape(r) /\ Steps(r) /\ ParentOk(r, DOMAIN db, FilingSeen(s)) /\ FilingWantOk(r)
  BY <1>0, FilingCommandIs DEF At
<1>2. \/ Local(s, blocked) \/ (\E u : Local(s, failed(u))) \/ Local(s, FilingSkip(r))
      \/ \E u : \E d \in Served : Local(s, got(u, d.bytes))
  BY DEF Download, NextAnnouncement, FilingSkip
<1> HIDE DEF r
<1>3. r.kind = "sync" /\ r.want = NONE /\ r.parent = NONE /\ r.members \in Seq(DOMAIN Bytes)
  BY <1>0, <1>1 DEF Steps, ParentOk, FilingWantOk
<1>4. \A q : (\/ q \in {blocked, FilingSkip(r)} \/ \E u : q = failed(u)) =>
          /\ FilingShape(q) /\ q.kind = r.kind /\ q.want = r.want /\ q.parent = NONE
          /\ q.members = r.members /\ q.pc = "download"
  BY <1>0, <1>1, <1>3 DEF FilingShape, FilingFields, FilingSkip
<1>5. ASSUME NEW u, NEW d \in Served
      PROVE  FilingStateOk(got(u, d.bytes), DOMAIN db, FilingSeen(s), DOMAIN files)
  <2> DEFINE q == got(u, d.bytes)
  <2>1. /\ FilingShape(q) /\ q.kind = "sync" /\ q.want = NONE /\ q.parent = NONE
        /\ q.members = r.members /\ q.pc = "write" /\ q.symbol = r.symbol
        /\ q.path = Original(r.symbol, d.bytes)
    BY <1>1, <1>3 DEF FilingShape, FilingFields
  <2>2. q.path[2] = d.bytes /\ d.bytes \in DOMAIN Bytes
    BY <2>1 DEF FilingsAssumption, Original
  <2> HIDE DEF q
  <2>3. FilingStateOk(q, DOMAIN db, FilingSeen(s), DOMAIN files)
    BY <1>3, <2>1, <2>2 DEF FilingStateOk, Steps, ParentOk, PathOk, FilingWantOk
  <2> QED  BY <2>3 DEF q
<1> HIDE DEF blocked, failed, got
<1>6. \A q : (\/ q \in {blocked, FilingSkip(r)} \/ \E u : q = failed(u)) =>
          FilingStateOk(q, DOMAIN db, FilingSeen(s), DOMAIN files)
  BY <1>3, <1>4, BetweenOk
<1> QED  BY <1>0, <1>2, <1>5, <1>6, FilingReadKeeps

\* A write: a file that was there whole stays whole.
LEMMA WriteArchiveKeeps ==
  ASSUME FilingIInv, NEW s \in Sessions, WriteArchive(s)
  PROVE  FilingKeeps
<1> DEFINE r == sess[s]
           recorded == [r EXCEPT !.pc = "document"]
           opened == [r EXCEPT !.pc = "fill"]
<1>0. r.pc \in {"write", "fill"}
  BY DEF WriteArchive, At
<1>1. /\ FilingShape(r) /\ Steps(r) /\ ParentOk(r, DOMAIN db, FilingSeen(s))
      /\ PathOk(r, DOMAIN files) /\ FilingWantOk(r)
  BY <1>0, FilingCommandIs DEF At
<1>2. \/ r.path \in DOMAIN files /\ files' = files /\ Local(s, recorded)
      \/ r.path \notin DOMAIN files /\ Put(r.path, "torn") /\ Local(s, opened)
      \/ Put(r.path, "whole") /\ Local(s, recorded)
  BY DEF WriteArchive, OpenFile, Written
<1> HIDE DEF r
<1>3. DOMAIN files \subseteq DOMAIN files' /\ FilesStay
  BY <1>2 DEF Put, FilesStay
<1>4. r.want = NONE
  BY <1>0, <1>1 DEF FilingWantOk
<1>5. /\ FilingShape(recorded) /\ recorded.kind = r.kind /\ recorded.want = NONE
      /\ recorded.parent = r.parent /\ recorded.members = r.members
      /\ recorded.symbol = r.symbol /\ recorded.path = r.path /\ recorded.todo = r.todo
      /\ recorded.pc = "document"
  BY <1>1, <1>4 DEF FilingShape, FilingFields
<1>6. /\ FilingShape(opened) /\ opened.kind = r.kind /\ opened.want = NONE
      /\ opened.parent = r.parent /\ opened.members = r.members
      /\ opened.symbol = r.symbol /\ opened.path = r.path /\ opened.todo = r.todo
      /\ opened.pc = "fill"
  BY <1>1, <1>4 DEF FilingShape, FilingFields
<1> HIDE DEF recorded, opened
<1>7. FilingStateOk(opened, DOMAIN db, FilingSeen(s), DOMAIN files')
  BY <1>0, <1>1, <1>6 DEF FilingStateOk, Steps, ParentOk, PathOk, FilingWantOk
<1>8. ASSUME r.path \in DOMAIN files'
      PROVE  FilingStateOk(recorded, DOMAIN db, FilingSeen(s), DOMAIN files')
  BY <1>0, <1>1, <1>5, <1>8 DEF FilingStateOk, Steps, ParentOk, PathOk, FilingWantOk
<1>9. r.path \in DOMAIN files'
  BY <1>2 DEF Put
<1>10. Local(s, recorded) \/ Local(s, opened)
  BY <1>2
<1>11. FilingIInv' /\ RowsStand
  BY <1>3, <1>7, <1>8, <1>9, <1>10, FilingLocalKeeps DEF Local, Become
<1> QED  BY <1>3, <1>11 DEF FilingKeeps

\* Wherever a command goes once its document is on record.
LEMMA RecordedOk ==
  ASSUME NEW s \in Sessions, NEW key, NEW R, NEW M, NEW F, NEW q,
         FilingShape(sess[s]), Steps(sess[s]), ParentOk(sess[s], R, M), PathOk(sess[s], F),
         sess[s].pc = "document",
         key = Document(sess[s].symbol, Head(sess[s].todo).url, sess[s].path[2]), key \in M,
         \/ sess[s].kind = "sync" /\ q = [sess[s] EXCEPT !.pc = "unpack", !.parent = key]
         \/ sess[s].kind = "sync" /\ q = [sess[s] EXCEPT !.pc = "text"]
         \/ q = AfterDocument(s)
  PROVE  FilingShape(q) /\ q.want = sess[s].want /\ FilingStateOk(NoWant(q), R, M, F)
<1> DEFINE r == sess[s]
<1>1. r.kind # "extract"
  BY DEF Steps
<1> HIDE DEF r
<1>2. CASE r.kind = "sync" /\ q = [r EXCEPT !.pc = "unpack", !.parent = key]
  <2> DEFINE n == NoWant(q)
  <2>1. /\ FilingShape(q) /\ q.pc = "unpack" /\ q.kind = "sync" /\ q.want = r.want
        /\ q.parent = key /\ q.members = r.members /\ q.symbol = r.symbol
        /\ q.path = r.path /\ q.todo = r.todo
    BY <1>2 DEF FilingShape, FilingFields, r
  <2>2. /\ FilingShape(n) /\ n.pc = "unpack" /\ n.kind = "sync" /\ n.want = NONE
        /\ n.parent = key /\ n.members = r.members /\ n.symbol = r.symbol
        /\ n.path = r.path /\ n.todo = r.todo
    BY <2>1 DEF FilingShape, FilingFields, NoWant
  <2> HIDE DEF n
  <2>3. /\ key \in Docs(M) /\ key[2] = n.symbol /\ key[3] = Head(n.todo).url
        /\ key[4] = n.path[2]
    BY <2>2 DEF Document, Docs, r
  <2>4. n.path[2] \in DOMAIN Bytes /\ n.members \in Seq(DOMAIN Bytes)
    BY <1>2, <2>2 DEF PathOk, ParentOk, r
  <2>5. FilingStateOk(n, R, M, F)
    BY <2>2, <2>3, <2>4 DEF FilingStateOk, Steps, ParentOk, PathOk, FilingWantOk
  <2> QED  BY <2>1, <2>5 DEF n, r
<1>3. CASE r.kind = "sync" /\ q = [r EXCEPT !.pc = "text"]
  <2> DEFINE n == NoWant(q)
  <2>1. /\ FilingShape(q) /\ q.pc = "text" /\ q.kind = "sync" /\ q.want = r.want
        /\ q.parent = r.parent /\ q.members = r.members /\ q.symbol = r.symbol
        /\ q.path = r.path /\ q.todo = r.todo
    BY <1>3 DEF FilingShape, FilingFields, r
  <2>2. /\ FilingShape(n) /\ n.pc = "text" /\ n.kind = "sync" /\ n.want = NONE
        /\ n.parent = r.parent /\ n.members = r.members /\ n.symbol = r.symbol
        /\ n.path = r.path /\ n.todo = r.todo
    BY <2>1 DEF FilingShape, FilingFields, NoWant
  <2> HIDE DEF n
  <2>3. FilingStateOk(n, R, M, F)
    BY <1>3, <2>2 DEF FilingStateOk, Steps, ParentOk, PathOk, FilingWantOk, r
  <2> QED  BY <2>1, <2>3 DEF n, r
<1>4. CASE q = AfterDocument(s)
  BY <1>1, <1>4, AfterOk DEF r
<1> QED  BY <1>2, <1>3, <1>4 DEF r

LEMMA RecordDocumentKeeps ==
  ASSUME FilingIInv, NEW s \in Sessions, RecordDocument(s)
  PROVE  FilingKeeps
<1> DEFINE r == sess[s]
           key == Document(r.symbol, Head(r.todo).url, r.path[2])
           row == [parent |-> r.parent, filing |-> Head(r.todo).filing]
           wanting == [r EXCEPT !.want = key]
           Goes(q) == \/ r.kind = "sync" /\ q = [r EXCEPT !.pc = "unpack", !.parent = key]
                      \/ r.kind = "sync" /\ q = [r EXCEPT !.pc = "text"]
                      \/ q = AfterDocument(s)
<1>0. r.pc = "document" /\ files' = files
  BY DEF RecordDocument, At
<1>1. /\ FilingShape(r) /\ Steps(r) /\ ParentOk(r, DOMAIN db, FilingSeen(s))
      /\ PathOk(r, DOMAIN files) /\ FilingWantOk(r)
  BY <1>0, FilingCommandIs DEF At
<1>2. \/ r.want = NONE /\ key \in FilingSeen(s) /\ \E q : Goes(q) /\ Local(s, q)
      \/ r.want = NONE /\ Local(s, wanting)
      \/ r.want # NONE /\ \E q : Goes(q) /\ FlushNew(s, row, q)
  BY DEF RecordDocument, Announcement, Sees, FilingSeen, FlushNew
<1>3. ASSUME NEW M, NEW q, FilingSeen(s) \subseteq M, key \in M, Goes(q)
      PROVE  FilingShape(q) /\ q.want = r.want /\ FilingStateOk(NoWant(q), DOMAIN db, M, DOMAIN files)
  <2>1. ParentOk(r, DOMAIN db, M)
    BY <1>1, <1>3 DEF ParentOk, Docs
  <2> QED  BY <1>0, <1>1, <1>3, <2>1, RecordedOk
<1> HIDE DEF r, Goes, row
<1>4. CASE r.want = NONE /\ key \in FilingSeen(s) /\ \E q : Goes(q) /\ Local(s, q)
  <2> HIDE DEF key
  <2>1. PICK q : Goes(q) /\ Local(s, q)
    BY <1>4
  <2>2. FilingShape(q) /\ q.want = NONE /\ FilingStateOk(NoWant(q), DOMAIN db, FilingSeen(s), DOMAIN files)
    BY <1>3, <1>4, <2>1
  <2>3. FilingStateOk(q, DOMAIN db, FilingSeen(s), DOMAIN files)
    BY <2>2, WantsNothing
  <2> QED  BY <1>0, <2>1, <2>3, FilingReadKeeps
<1>5. CASE r.want = NONE /\ Local(s, wanting)
  <2>1. /\ FilingShape(wanting) /\ wanting.kind = r.kind /\ wanting.want = key
        /\ wanting.parent = r.parent /\ wanting.members = r.members
        /\ wanting.symbol = r.symbol /\ wanting.path = r.path /\ wanting.todo = r.todo
        /\ wanting.pc = "document"
    BY <1>0, <1>1 DEF FilingShape, FilingFields
  <2> DEFINE w == wanting
  <2> HIDE DEF w
  <2>2. FilingStateOk(w, DOMAIN db, FilingSeen(s), DOMAIN files)
    BY <1>0, <1>1, <2>1 DEF FilingStateOk, Steps, ParentOk, PathOk, FilingWantOk, w
  <2> QED  BY <1>0, <1>5, <2>2, FilingReadKeeps DEF w
<1>6. CASE r.want # NONE /\ \E q : Goes(q) /\ FlushNew(s, row, q)
  <2>1. PICK q : Goes(q) /\ FlushNew(s, row, q)
    BY <1>6
  <2>2. r.want = key /\ sess[s].want = key
    BY <1>0, <1>1, <1>6 DEF FilingWantOk, r
  <2> DEFINE M == FilingSeen(s) \cup {key}
  <2>3. FilingRowOk(key, row, DOMAIN db, M, DOMAIN files)
    <3>1. /\ key[1] = "document" /\ key[2] = r.symbol /\ key[3] = Head(r.todo).url
          /\ key[4] = r.path[2]
      BY DEF Document
    <3>2. row.parent = r.parent
      BY DEF row
    <3>3. Original(key[2], key[4]) \in DOMAIN files
      BY <1>0, <1>1, <3>1 DEF PathOk
    <3>4. r.kind # "record"
      BY <1>0, <1>1 DEF Steps
    <3>5. r.parent # NONE => r.parent \in Docs(FilingSeen(s)) /\ MemberOf(key, r.parent)
      BY <1>0, <1>1, <3>1, <3>4 DEF ParentOk, PathOk, MemberOf
    <3> HIDE DEF key
    <3>6. Docs(FilingSeen(s)) \subseteq Docs(M)
      BY DEF Docs
    <3> QED  BY <3>1, <3>2, <3>3, <3>5, <3>6 DEF FilingRowOk
  <2> HIDE DEF key
  <2>4. FilingStateOk(NoWant(q), DOMAIN db, M, DOMAIN files)
    BY <1>3, <2>1
  <2>5. FilingIInv' /\ RowsStand
    BY <1>0, <2>1, <2>2, <2>3, <2>4, FilingFlushKeeps DEF NoWant
  <2> QED  BY <1>0, <2>5 DEF FilingKeeps, FilesStay
<1> QED  BY <1>2, <1>4, <1>5, <1>6

LEMMA RollbackAll ==
  ASSUME FilingIInv, NEW s \in Sessions, Rollback(s), files' = files
  PROVE  FilingKeeps
  BY FilingRollbackKeeps DEF FilingKeeps, FilesStay

LEMMA UnpackKeeps ==
  ASSUME FilingIInv, NEW s \in Sessions, Unpack(s), FilingsAssumption
  PROVE  FilingKeeps
<1> DEFINE r == sess[s]
           inside == Bytes[r.path[2]].members
           q == [r EXCEPT !.pc = "write", !.path = Original(r.symbol, Head(inside)),
                          !.members = Tail(inside)]
<1>0. r.pc = "unpack" /\ files' = files
  BY DEF Unpack, At
<1>1. /\ FilingShape(r) /\ Steps(r) /\ ParentOk(r, DOMAIN db, FilingSeen(s)) /\ FilingWantOk(r)
  BY <1>0, FilingCommandIs DEF At
<1>2. Rollback(s) \/ Local(s, FilingSkip(r)) \/ (inside # <<>> /\ Local(s, q))
  BY DEF Unpack, NextAnnouncement, FilingSkip
<1> HIDE DEF r
<1>3. /\ r.kind = "sync" /\ r.want = NONE /\ r.members \in Seq(DOMAIN Bytes)
      /\ r.path[2] = r.parent[4] /\ r.path[2] \in DOMAIN Bytes
  BY <1>0, <1>1 DEF Steps, ParentOk, FilingWantOk
<1>4. FilingStateOk(FilingSkip(r), DOMAIN db, FilingSeen(s), DOMAIN files)
  <2>1. FilingSkip(r).want = NONE /\ FilingStateOk(NoWant(FilingSkip(r)), DOMAIN db, FilingSeen(s), DOMAIN files)
        /\ FilingShape(FilingSkip(r))
    BY <1>1, <1>3, SkipOk
  <2> QED  BY <2>1, WantsNothing
<1>5. ASSUME inside # <<>>
      PROVE  FilingStateOk(q, DOMAIN db, FilingSeen(s), DOMAIN files)
  <2>1. inside \in Seq(DOMAIN Bytes)
    <3>1. inside \in Seq({m \in DOMAIN Bytes : Bytes[m].type # "zip"})
      BY <1>3 DEF FilingsAssumption
    <3> HIDE DEF inside
    <3> QED  BY <3>1, SeqMonotonic
  <2> DEFINE first == Head(inside)
             rest == Tail(inside)
  <2>2. inside \in Seq(Range(inside))
    <3> HIDE DEF inside
    <3> QED  BY <2>1, ElementsInRange
  <2>3. /\ first \in DOMAIN Bytes /\ rest \in Seq(DOMAIN Bytes)
        /\ first \in Range(inside) /\ rest \in Seq(Range(inside))
    <3> HIDE DEF inside
    <3> QED  BY <1>5, <2>1, <2>2, HeadAndTail
  <2>4. inside = Bytes[r.parent[4]].members
    BY <1>3
  <2>5. /\ FilingShape(q) /\ q.pc = "write" /\ q.kind = "sync" /\ q.want = NONE
        /\ q.parent = r.parent /\ q.members = rest /\ q.symbol = r.symbol
        /\ q.path = Original(r.symbol, first) /\ q.todo = r.todo
    BY <1>1, <1>3 DEF FilingShape, FilingFields
  <2>6. q.path[2] = first
    BY <2>5 DEF Original
  <2> HIDE DEF q, first, rest
  <2>7. ParentOk(q, DOMAIN db, FilingSeen(s))
    <3> HIDE DEF inside
    <3> QED  BY <1>1, <1>3, <2>3, <2>4, <2>5 DEF ParentOk
  <2>8. PathOk(q, DOMAIN files)
    <3> HIDE DEF inside
    <3> QED  BY <2>3, <2>4, <2>5, <2>6 DEF PathOk
  <2> QED  BY <2>5, <2>7, <2>8 DEF FilingStateOk, Steps, FilingWantOk
<1> HIDE DEF q, inside
<1> QED  BY <1>0, <1>2, <1>4, <1>5, FilingReadKeeps, RollbackAll

\* The text goes to a file of its own.
LEMMA CacheTextKeeps ==
  ASSUME FilingIInv, NEW s \in Sessions, CacheText(s)
  PROVE  FilingKeeps
<1> DEFINE r == sess[s]
           text == TextOf(r.path)
           opened == [r EXCEPT !.pc = "textfill"]
           after == IF r.kind = "extract" THEN Idle ELSE AfterDocument(s)
<1>0. r.pc \in {"text", "textfill"}
  BY DEF CacheText, At
<1>1. /\ FilingShape(r) /\ Steps(r) /\ ParentOk(r, DOMAIN db, FilingSeen(s))
      /\ PathOk(r, DOMAIN files) /\ FilingWantOk(r)
  BY <1>0, FilingCommandIs DEF At
<1>2. /\ Local(s, opened) \/ Local(s, after)
      /\ files' = files \/ Put(text, "torn") \/ Put(text, "whole")
  BY DEF CacheText
<1>3. text[3] # "bytes"
  BY DEF TextOf
<1> HIDE DEF text
<1>4. DOMAIN files \subseteq DOMAIN files' /\ FilesStay
  BY <1>2, <1>3 DEF Put, FilesStay
<1>5. PathOk(r, DOMAIN files') /\ r.want = NONE
  BY <1>0, <1>1 DEF PathOk, FilingWantOk
<1>6. FilingStateOk(after, DOMAIN db, FilingSeen(s), DOMAIN files')
  <2>1. CASE r.kind = "extract"
    BY <2>1 DEF FilingStateOk, Idle
  <2>2. CASE r.kind # "extract"
    <3> DEFINE q == AfterDocument(s)
    <3>1. FilingShape(q) /\ q.want = NONE /\ FilingStateOk(NoWant(q), DOMAIN db, FilingSeen(s), DOMAIN files')
      BY <1>0, <1>1, <1>5, <2>2, AfterOk
    <3> HIDE DEF q
    <3>2. FilingStateOk(q, DOMAIN db, FilingSeen(s), DOMAIN files')
      BY <3>1, WantsNothing
    <3> QED  BY <2>2, <3>2 DEF q
  <2> QED  BY <2>1, <2>2
<1> HIDE DEF r, after
<1>7. /\ FilingShape(opened) /\ opened.kind = r.kind /\ opened.want = NONE
      /\ opened.parent = r.parent /\ opened.members = r.members
      /\ opened.symbol = r.symbol /\ opened.path = r.path /\ opened.todo = r.todo
      /\ opened.pc = "textfill"
  BY <1>1, <1>5 DEF FilingShape, FilingFields
<1> HIDE DEF opened
<1>8. FilingStateOk(opened, DOMAIN db, FilingSeen(s), DOMAIN files')
  BY <1>0, <1>1, <1>5, <1>7 DEF FilingStateOk, Steps, ParentOk, PathOk, FilingWantOk
<1>9. FilingIInv' /\ RowsStand
  BY <1>2, <1>4, <1>6, <1>8, FilingLocalKeeps DEF Local, Become
<1> QED  BY <1>4, <1>9 DEF FilingKeeps

LEMMA ExtractKeeps ==
  ASSUME FilingIInv, NEW s \in Sessions, Extract(s)
  PROVE  FilingKeeps
<1> DEFINE r == sess[s]
           reading == [r EXCEPT !.pc = "text"]
<1>0. r.pc = "extract" /\ files' = files
  BY DEF Extract, At
<1>1. /\ FilingShape(r) /\ Steps(r) /\ ParentOk(r, DOMAIN db, FilingSeen(s))
      /\ PathOk(r, DOMAIN files) /\ FilingWantOk(r)
  BY <1>0, FilingCommandIs DEF At
<1>2. Local(s, Idle) \/ Local(s, reading)
  BY DEF Extract
<1> HIDE DEF r
<1>3. /\ FilingShape(reading) /\ reading.kind = r.kind /\ reading.want = r.want
      /\ reading.parent = r.parent /\ reading.members = r.members
      /\ reading.symbol = r.symbol /\ reading.path = r.path /\ reading.todo = r.todo
      /\ reading.pc = "text"
  BY <1>1 DEF FilingShape, FilingFields
<1> HIDE DEF reading
<1>4. FilingStateOk(reading, DOMAIN db, FilingSeen(s), DOMAIN files)
  BY <1>0, <1>1, <1>3 DEF FilingStateOk, Steps, ParentOk, PathOk, FilingWantOk
<1>5. FilingStateOk(Idle, DOMAIN db, FilingSeen(s), DOMAIN files)
  BY DEF FilingStateOk, Idle
<1> QED  BY <1>0, <1>2, <1>4, <1>5, FilingReadKeeps

\* A fact is a row of a new id, and the document it cites was committed.
LEMMA RecordFactKeeps ==
  ASSUME FilingIInv, NEW s \in Sessions, RecordFact(s), FilingsAssumption
  PROVE  FilingKeeps
<1> DEFINE r == sess[s]
           key == DocFact(Fresh("fact"))
           row == [company |-> r.symbol, table |-> r.table, document |-> r.parent]
           q == [r EXCEPT !.pc = "done"]
           M == FilingSeen(s) \cup {key}
<1>0. r.pc = "fact" /\ files' = files
  BY DEF RecordFact, At
<1>1. /\ FilingShape(r) /\ Steps(r) /\ ParentOk(r, DOMAIN db, FilingSeen(s)) /\ FilingWantOk(r)
  BY <1>0, FilingCommandIs DEF At
<1>2. Insert(s, [k \in {key} |-> row], q)
  BY DEF RecordFact, InsertRow
<1>3. key \notin DOMAIN db /\ \A t \in Sessions : key \notin DOMAIN draft[t]
  BY FreshIsNew DEF FilingsAssumption, FilingIInv, DocFact
<1>4. key[1] = "fact"
  BY DEF DocFact
<1> HIDE DEF r, key
<1>5. /\ r.kind = "record" /\ r.want = NONE /\ r.parent \in Docs(DOMAIN db)
      /\ r.members \in Seq(DOMAIN Bytes)
  BY <1>0, <1>1 DEF Steps, ParentOk, FilingWantOk
<1>6. FilingRowOk(key, row, DOMAIN db, M, DOMAIN files)
  BY <1>4, <1>5 DEF FilingRowOk
<1>7. /\ FilingShape(q) /\ q.pc = "done" /\ q.kind = "record" /\ q.want = NONE
      /\ q.parent = r.parent /\ q.members = r.members
  BY <1>1, <1>5 DEF FilingShape, FilingFields
<1> HIDE DEF q, row
<1>8. FilingStateOk(q, DOMAIN db, M, DOMAIN files)
  BY <1>5, <1>7 DEF FilingStateOk, Steps, ParentOk, PathOk, FilingWantOk
<1>9. FilingIInv' /\ RowsStand
  BY <1>0, <1>2, <1>3, <1>6, <1>8, InsertKeeps
<1> QED  BY <1>0, <1>9 DEF FilingKeeps, FilesStay

LEMMA FilingFinishKeeps ==
  ASSUME FilingIInv, NEW s \in Sessions, FinishFiling(s)
  PROVE  FilingKeeps
<1>1. Commit(s, Idle) /\ files' = files
  BY DEF FinishFiling
<1> QED  BY <1>1, FilingCommitKeeps DEF FilingKeeps, FilesStay

LEMMA FilingNextKeeps ==
  ASSUME FilingIInv, FilingsNext, FilingsAssumption
  PROVE  FilingKeeps
<1>1. PICK s \in Sessions : BeginFiling(s) \/ ProceedFiling(s) \/ (Crash(s) /\ files' = files)
  BY DEF FilingsNext
<1>2. CASE BeginFiling(s)
  BY <1>2, BeginSyncKeeps, BeginArchiveKeeps, BeginExtractKeeps, BeginRecordKeeps DEF BeginFiling
<1>3. CASE ProceedFiling(s)
  <2>1. CASE EnsureOne(s)
    BY <2>1, FilingEnsureKeeps
  <2>2. CASE Discover(s)
    BY <2>2, DiscoverKeeps
  <2>3. CASE Download(s)
    BY <2>3, DownloadKeeps
  <2>4. CASE WriteArchive(s)
    BY <2>4, WriteArchiveKeeps
  <2>5. CASE RecordDocument(s)
    BY <2>5, RecordDocumentKeeps
  <2>6. CASE Unpack(s)
    BY <2>6, UnpackKeeps
  <2>7. CASE CacheText(s)
    BY <2>7, CacheTextKeeps
  <2>8. CASE Extract(s)
    BY <2>8, ExtractKeeps
  <2>9. CASE RecordFact(s)
    BY <2>9, RecordFactKeeps
  <2>10. CASE EndOfList(s)
    BY <2>10, EndOfListKeeps
  <2>11. CASE FinishFiling(s)
    BY <2>11, FilingFinishKeeps
  <2>12. CASE DeadlockVictim(s) /\ files' = files
    BY <2>12, RollbackAll DEF DeadlockVictim
  <2> QED
    BY <1>3, <2>1, <2>2, <2>3, <2>4, <2>5, <2>6, <2>7, <2>8, <2>9, <2>10, <2>11, <2>12
    DEF ProceedFiling
<1>4. CASE Crash(s) /\ files' = files
  BY <1>4, RollbackAll DEF Crash
<1> QED  BY <1>1, <1>2, <1>3, <1>4

LEMMA InitIInv ==
  ASSUME FilingsInit
  PROVE  FilingIInv
<1>1. /\ \A k \in DOMAIN db : k[1] = "company"
      /\ draft = [s \in Sessions |-> Nothing] /\ sess = [s \in Sessions |-> Idle]
      /\ DOMAIN Nothing = {} /\ Idle.pc = "idle"
  BY DEF FilingsInit, InitArchive, InitTransactions, Company, Nothing, Idle
<1>2. OnlyInserts
  BY <1>1 DEF OnlyInserts, DraftsDisjoint
<1>3. FiniteTable("fact")
  <2>1. Of(db, "fact") = {} /\ \A s \in Sessions : Of(draft[s], "fact") = {}
    BY <1>1 DEF Of
  <2> QED  BY <2>1, FS_EmptySet DEF FiniteTable
<1>4. FilingTableOk
  BY <1>1 DEF FilingTableOk, FilingRowOk
<1>5. \A s \in Sessions : FilingSessionOk(s) /\ FilingDraftOk(s)
  BY <1>1 DEF FilingSessionOk, FilingStateOk, FilingDraftOk
<1>6. sess = [s \in Sessions |-> sess[s]]
  BY <1>1
<1> QED  BY <1>2, <1>3, <1>4, <1>5, <1>6 DEF FilingIInv

LEMMA StutterKeeps ==
  ASSUME FilingIInv, UNCHANGED archivevars
  PROVE  FilingKeeps
<1>1. db' = db /\ draft' = draft /\ sess' = sess /\ files' = files
  BY DEF archivevars, txvars
<1>2. FilingIInv'
  BY <1>1 DEF FilingIInv, OnlyInserts, DraftsDisjoint, FiniteTable, Of, FilingTableOk, FilingSessionOk,
              FilingDraftOk, FilingSeen, FilingRowOk
<1> QED  BY <1>1, <1>2 DEF FilingKeeps, RowsStand, FilesStay

LEMMA Inductive == FilingsSpec => []FilingIInv
<1>1. FilingsInit => FilingIInv
  BY InitIInv
<1>2. FilingIInv /\ [FilingsNext]_archivevars => FilingIInv'
  BY FilingsAssumption, FilingNextKeeps, StutterKeeps DEF FilingKeeps
<1> QED  BY <1>1, <1>2, PTL DEF FilingsSpec

\* What is recorded can be produced, whatever the commands that overlap and
\* wherever they crash: the file of a document is written before its row, a
\* member's row is committed with or after that of its zip file
\* (services/ingestion/filings.py, common.py), and a transcribed fact cites a
\* committed document.
THEOREM WhatIsRecordedIsArchived == FilingsSpec => []DocumentsTraceable
<1>1. ASSUME FilingIInv PROVE DocumentsTraceable
  <2>1. DraftsDisjoint
    BY <1>1 DEF FilingIInv, OnlyInserts
  <2>2. \A k \in DOMAIN db : FilingRowOk(k, db[k], DOMAIN db, DOMAIN db, DOMAIN files)
    BY <1>1 DEF FilingIInv, FilingTableOk
  <2>3. \A k \in Of(db, "document") :
          /\ Written(Original(k[2], k[4]))
          /\ db[k].parent # NONE =>
                db[k].parent \in Of(db, "document") /\ MemberOf(k, db[k].parent)
    BY <2>2 DEF FilingRowOk, Of, Docs, Written
  <2>4. \A f \in Of(db, "fact") : db[f].document \in Of(db, "document")
    BY <2>2 DEF FilingRowOk, Of, Docs
  <2> QED  BY <2>1, <2>3, <2>4 DEF DocumentsTraceable, MemberOf
<1> QED  BY <1>1, Inductive, PTL

\* No command changes or removes a committed row, or damages an original that
\* was written to its end: every write of the archive goes to a path that is
\* not there, or finishes one (services/storage.py), and the rows are only ever
\* inserted.
THEOREM TheArchiveStands == FilingsSpec => ArchiveStands
<1>1. ASSUME FilingIInv, FilingKeeps PROVE ArchiveStandsStep
  <2>1. \A k \in DOMAIN db : k \in DOMAIN db' /\ db'[k] = db[k]
    BY <1>1 DEF FilingKeeps, RowsStand
  <2>2. ASSUME NEW k \in Of(db, "document"), files[Original(k[2], k[4])] = "whole"
        PROVE  files'[Original(k[2], k[4])] = "whole"
    <3>1. Original(k[2], k[4]) \in DOMAIN files /\ Original(k[2], k[4])[3] = "bytes"
      BY <1>1, <2>2 DEF FilingIInv, FilingTableOk, FilingRowOk, Of, Original
    <3> QED  BY <1>1, <2>2, <3>1 DEF FilingKeeps, FilesStay
  <2> QED  BY <2>1, <2>2 DEF ArchiveStandsStep
<1>2. FilingIInv /\ [FilingsNext]_archivevars => [ArchiveStandsStep]_archivevars
  BY <1>1, FilingsAssumption, FilingNextKeeps
<1> QED  BY <1>2, Inductive, PTL DEF FilingsSpec, ArchiveStands

-----------------------------------------------------------------------------
(* What a sync has gathered.  SyncArchivesAll speaks of the end of a sync; *)
(* on its way there, everything it downloaded is complete but the one      *)
(* attachment it is at, of which the members are on record, at hand or     *)
(* still to come.  n is the symbol of the company, and g an attachment,    *)
(* its address and its bytes.                                              *)

Writing == {"write", "fill", "document"}
Busy == Writing \cup {"unpack", "text", "textfill"}

Complete(n, g, M) ==
    /\ Document(n, g[1], g[2]) \in M
    /\ Bytes[g[2]].opens = "yes" =>
          \A m \in Range(Bytes[g[2]].members) : Document(n, g[1], m) \in M

\* The members of the zip file g are on record, or ahead of the sync.
Unpacked(r, g, M) ==
    /\ r.parent = Document(r.symbol, g[1], g[2]) /\ r.parent \in M
    /\ \A m \in Range(Bytes[g[2]].members) :
          Document(r.symbol, g[1], m) \in M \/ m \in Range(r.members)

AtHand(r, g, M) ==
    \/ /\ r.pc \in Writing /\ r.parent = NONE
       /\ g[1] = Head(r.todo).url /\ g[2] = r.path[2]
    \/ /\ r.pc \in Busy /\ r.parent = Document(r.symbol, g[1], g[2]) /\ r.parent \in M
       /\ \A m \in Range(Bytes[g[2]].members) :
             \/ Document(r.symbol, g[1], m) \in M \/ m \in Range(r.members)
             \/ r.pc = "unpack" \/ (r.pc \in Writing /\ m = r.path[2])

\* Bytes that were served for a company that is synced.
Downloaded(n, g) == g[2] \in DOMAIN Bytes /\ Document(n, g[1], g[2]) # NONE

Collected(r, M) ==
    \A g \in r.got : Downloaded(r.symbol, g) /\ (Complete(r.symbol, g, M) \/ AtHand(r, g, M))

\* The same once the document at hand is on record.
Settled(r, M) ==
    \A g \in r.got : Downloaded(r.symbol, g) /\ (Complete(r.symbol, g, M) \/ Unpacked(r, g, M))

\* The same when the document is a zip file, which is to be unpacked.
Zipped(r, key, M) ==
    \A g \in r.got : /\ Downloaded(r.symbol, g)
                     /\ Complete(r.symbol, g, M) \/ Document(r.symbol, g[1], g[2]) = key

\* A document that is new has its text, or it is at hand.
TextsOk(r, D, F) ==
    \A k \in Docs(D) : (Bytes[k[4]].type = "pdf" /\ Bytes[k[4]].opens = "yes") =>
        \/ TextOf(Original(k[2], k[4])) \in F
        \/ (r.pc = "text" /\ r.path = Original(k[2], k[4]))

GatherOk(r, D, M, F) ==
    /\ (r.pc = "idle" \/ r.kind = "extract") => Docs(D) = {}
    /\ (r.pc # "idle" /\ r.kind = "sync") =>
          r.symbol \in {c.symbol : c \in Syncs} /\ TextsOk(r, D, F) /\ Collected(r, M)

GatherAt(s) == GatherOk(sess[s], DOMAIN draft[s], FilingSeen(s), DOMAIN files)
Gathered == \A s \in Sessions : GatherAt(s)

LEMMA MoreGathered ==
  ASSUME NEW r, NEW D, NEW M, NEW F, NEW M2, NEW F2, M \subseteq M2, F \subseteq F2,
         GatherOk(r, D, M, F)
  PROVE  GatherOk(r, D, M2, F2)
<1>1. Collected(r, M) => Collected(r, M2)
  BY DEF Collected, Complete, AtHand
<1>2. TextsOk(r, D, F) => TextsOk(r, D, F2)
  BY DEF TextsOk
<1> QED  BY <1>1, <1>2 DEF GatherOk

\* A step of one session, of which the others see more rows and files.
LEMMA OthersGather ==
  ASSUME Gathered, NEW s \in Sessions,
         \A t \in Sessions : t # s => sess'[t] = sess[t] /\ draft'[t] = draft[t],
         DOMAIN db \subseteq DOMAIN db', DOMAIN files \subseteq DOMAIN files',
         GatherAt(s)'
  PROVE  Gathered'
<1> SUFFICES ASSUME NEW t \in Sessions, t # s PROVE GatherAt(t)'
  BY DEF Gathered
<1>1. sess'[t] = sess[t] /\ draft'[t] = draft[t] /\ FilingSeen(t) \subseteq FilingSeen(t)'
  BY DEF FilingSeen
<1>2. GatherOk(sess[t], DOMAIN draft[t], FilingSeen(t), DOMAIN files)
  BY DEF Gathered, GatherAt
<1>3. GatherOk(sess[t], DOMAIN draft[t], FilingSeen(t)', DOMAIN files')
  BY <1>1, <1>2, MoreGathered
<1> QED  BY <1>1, <1>3 DEF GatherAt

LEMMA LocalGather ==
  ASSUME FilingIInv, Gathered, NEW s \in Sessions, NEW q,
         db' = db, draft' = draft, sess' = [sess EXCEPT ![s] = q],
         DOMAIN files \subseteq DOMAIN files',
         GatherOk(q, DOMAIN draft[s], FilingSeen(s), DOMAIN files')
  PROVE  Gathered'
<1>1. /\ sess'[s] = q
      /\ \A t \in Sessions : t # s => sess'[t] = sess[t] /\ draft'[t] = draft[t]
  BY DEF FilingIInv
<1>2. FilingSeen(s)' = FilingSeen(s)
  BY DEF FilingSeen
<1>3. GatherAt(s)'
  BY <1>1, <1>2 DEF GatherAt
<1> QED  BY <1>1, <1>3, OthersGather

\* A step that only reads, or begins a command.
LEMMA ReadGather ==
  ASSUME FilingIInv, Gathered, NEW s \in Sessions, NEW q, files' = files,
         Local(s, q) \/ Start(s, q),
         GatherOk(q, DOMAIN draft[s], FilingSeen(s), DOMAIN files)
  PROVE  Gathered'
<1>1. db' = db /\ draft' = draft /\ sess' = [sess EXCEPT ![s] = q]
  BY DEF Local, Start, Become
<1> QED  BY <1>1, LocalGather

\* The draft of a command that ends is empty.
LEMMA EndGather ==
  ASSUME FilingIInv, Gathered, NEW s \in Sessions, files' = files,
         Rollback(s) \/ Commit(s, Idle)
  PROVE  Gathered'
<1>1. /\ sess'[s] = Idle /\ draft'[s] = Nothing
      /\ \A t \in Sessions : t # s => sess'[t] = sess[t] /\ draft'[t] = draft[t]
  BY DEF FilingIInv, OnlyInserts, Rollback, Commit, Become
<1>2. DOMAIN db \subseteq DOMAIN db'
  BY DEF Rollback, Commit, View
<1>3. GatherAt(s)'
  BY <1>1 DEF GatherAt, GatherOk, Idle, Nothing, Docs
<1> QED  BY <1>1, <1>2, <1>3, OthersGather

LEMMA InsertGather ==
  ASSUME FilingIInv, Gathered, NEW s \in Sessions, NEW key, NEW row, NEW q, files' = files,
         Insert(s, [k \in {key} |-> row], q),
         GatherOk(q, DOMAIN draft[s] \cup {key}, FilingSeen(s) \cup {key}, DOMAIN files)
  PROVE  Gathered'
<1>1. /\ sess'[s] = q /\ db' = db
      /\ DOMAIN draft'[s] = DOMAIN draft[s] \cup {key}
      /\ \A t \in Sessions : t # s => sess'[t] = sess[t] /\ draft'[t] = draft[t]
  BY DEF FilingIInv, OnlyInserts, Insert, Become
<1>2. FilingSeen(s)' = FilingSeen(s) \cup {key}
  BY <1>1 DEF FilingSeen
<1>3. GatherAt(s)'
  BY <1>1, <1>2 DEF GatherAt
<1> QED  BY <1>1, <1>3, OthersGather

LEMMA FlushGather ==
  ASSUME FilingIInv, Gathered, NEW s \in Sessions, NEW row, NEW q, files' = files,
         FlushNew(s, row, q),
         GatherOk(NoWant(q), DOMAIN draft[s] \cup {sess[s].want},
                  FilingSeen(s) \cup {sess[s].want}, DOMAIN files)
  PROVE  Gathered'
<1>1. CASE Sees(s, sess[s].want)
  BY <1>1, EndGather DEF FlushNew
<1>2. CASE ~Sees(s, sess[s].want)
  <2> DEFINE key == sess[s].want
  <2>1. Insert(s, [k \in {key} |-> row], NoWant(q))
    BY <1>2 DEF FlushNew, Flush, InsertRow, NoWant
  <2> QED  BY <2>1, InsertGather
<1> QED  BY <1>1, <1>2

-----------------------------------------------------------------------------

\* Commands that gather nothing.
LEMMA NothingToGather ==
  ASSUME NEW q, NEW D, NEW M, NEW F, q.pc # "idle", q.kind \notin {"sync", "extract"}
  PROVE  GatherOk(q, D, M, F)
  BY DEF GatherOk

\* A sync that is at no attachment has all of them.
LEMMA RestGather ==
  ASSUME NEW r, NEW q, NEW D, NEW M, NEW F, GatherOk(r, D, M, F),
         r.pc # "idle", r.pc \notin Busy, q.pc # "idle",
         q.kind = r.kind, q.symbol = r.symbol, q.got = r.got
  PROVE  GatherOk(q, D, M, F)
<1>1. Collected(r, M) => Collected(q, M)
  BY DEF Collected, AtHand, Busy
<1>2. TextsOk(r, D, F) => TextsOk(q, D, F)
  BY DEF TextsOk, Busy
<1> QED  BY <1>1, <1>2 DEF GatherOk

\* It does not matter what a command wants.
LEMMA WantGather ==
  ASSUME NEW r, NEW q, NEW D, NEW M, NEW F, GatherOk(r, D, M, F), q.pc = r.pc,
         q.kind = r.kind, q.symbol = r.symbol, q.got = r.got, q.parent = r.parent,
         q.members = r.members, q.path = r.path, q.todo = r.todo
  PROVE  GatherOk(q, D, M, F)
<1>1. Collected(r, M) => Collected(q, M)
  BY DEF Collected, AtHand
<1>2. TextsOk(r, D, F) => TextsOk(q, D, F)
  BY DEF TextsOk
<1> QED  BY <1>1, <1>2 DEF GatherOk

LEMMA OfSession ==
  ASSUME Gathered, NEW s \in Sessions
  PROVE  GatherOk(sess[s], DOMAIN draft[s], FilingSeen(s), DOMAIN files)
  BY DEF Gathered, GatherAt

\* A command begins with nothing.
LEMMA BeginGather ==
  ASSUME FilingIInv, Gathered, NEW s \in Sessions, BeginFiling(s)
  PROVE  Gathered'
<1>0. FilingCommand.got = {} /\ FilingShape(FilingCommand)
  BY DEF FilingCommand, FilingShape, FilingFields
<1>1. PICK q : /\ Start(s, q) /\ q.got = {}
               /\ q.kind = "sync" => q.symbol \in {c.symbol : c \in Syncs}
  <2>1. CASE BeginSync(s)
    <3> DEFINE q(c) == [FilingCommand EXCEPT !.kind = "sync", !.companies = {c.symbol},
                          !.symbol = c.symbol, !.types = c.types, !.since = c.since]
    <3>1. PICK c \in Syncs : Start(s, q(c))
      BY <2>1 DEF BeginSync
    <3>2. q(c).got = {} /\ q(c).symbol = c.symbol
      BY <1>0 DEF FilingShape, FilingFields
    <3> QED  BY <3>1, <3>2
  <2>2. CASE BeginArchive(s)
    <3> DEFINE q(u) == [FilingCommand EXCEPT !.kind = "upload", !.companies = {u.symbol},
                          !.symbol = u.symbol, !.path = Original(u.symbol, u.bytes),
                          !.todo = <<[url |-> u.url, filing |-> u.filing, published |-> NONE]>>]
    <3>1. PICK u \in Uploads : Start(s, q(u))
      BY <2>2 DEF BeginArchive
    <3>2. q(u).got = {} /\ q(u).kind = "upload"
      BY <1>0 DEF FilingShape, FilingFields
    <3> QED  BY <3>1, <3>2
  <2>3. CASE BeginExtract(s)
    <3> DEFINE q(k) == [FilingCommand EXCEPT !.pc = "extract", !.kind = "extract",
                          !.path = Original(k[2], k[4])]
    <3>1. PICK k : Start(s, q(k))
      BY <2>3 DEF BeginExtract
    <3>2. q(k).got = {} /\ q(k).kind = "extract"
      BY <1>0 DEF FilingShape, FilingFields
    <3> QED  BY <3>1, <3>2
  <2>4. CASE BeginRecord(s)
    <3> DEFINE q(k, n, table) == [FilingCommand EXCEPT !.kind = "record", !.companies = {n},
                                    !.symbol = n, !.table = table, !.parent = k]
    <3>1. \E k, n, table : Start(s, q(k, n, table))
      BY <2>4 DEF BeginRecord
    <3>2. PICK k, n, table : Start(s, q(k, n, table))
      BY <3>1
    <3>3. q(k, n, table).got = {} /\ q(k, n, table).kind = "record"
      BY <1>0 DEF FilingShape, FilingFields
    <3> QED  BY <3>2, <3>3
  <2> QED  BY <2>1, <2>2, <2>3, <2>4 DEF BeginFiling
<1>2. sess[s].pc = "idle" /\ files' = files
  BY <1>1 DEF Start, At, BeginFiling
<1>3. Docs(DOMAIN draft[s]) = {}
  BY <1>2, OfSession DEF GatherOk
<1>4. GatherOk(q, DOMAIN draft[s], FilingSeen(s), DOMAIN files)
  BY <1>1, <1>3 DEF GatherOk, TextsOk, Collected
<1> QED  BY <1>1, <1>2, <1>4, ReadGather

LEMMA EnsureGather ==
  ASSUME FilingIInv, Gathered, NEW s \in Sessions, EnsureOne(s)
  PROVE  Gathered'
<1> DEFINE r == sess[s]
           next == [r EXCEPT !.pc = CASE r.kind = "sync" -> "discover"
                                      [] r.kind = "upload" -> "write"
                                      [] r.kind = "record" -> "fact"]
           rest(n) == [r EXCEPT !.companies = @ \ {n}]
           wanting(n) == [r EXCEPT !.want = Company(n)]
           D == DOMAIN draft[s]
           M == FilingSeen(s)
           F == DOMAIN files
           Same(q) == q.pc # "idle" /\ q.kind = r.kind /\ q.symbol = r.symbol /\ q.got = r.got
<1>0. files' = files /\ r.pc = "ensure"
  BY DEF EnsureOne, EnsureCompany, At
<1>1. FilingShape(r) /\ Steps(r) /\ FilingWantOk(r) /\ GatherOk(r, D, M, F)
  BY <1>0, FilingCommandIs, OfSession DEF At
<1>2. \/ Local(s, next)
      \/ \E n : Local(s, rest(n)) \/ Local(s, wanting(n))
      \/ FlushNew(s, TRUE, rest(r.want[2]))
  BY DEF EnsureOne, EnsureCompany
<1>3. FlushNew(s, TRUE, rest(r.want[2])) => sess[s].want = r.want /\ r.want # NONE
  BY DEF FlushNew
<1> HIDE DEF r
<1>4. \A n : Same(rest(n)) /\ Same(wanting(n)) /\ Same(NoWant(rest(n)))
  BY <1>0, <1>1 DEF FilingShape, FilingFields, NoWant
<1>5. Same(next)
  <2> DEFINE pc == CASE r.kind = "sync" -> "discover"
                     [] r.kind = "upload" -> "write"
                     [] r.kind = "record" -> "fact"
             q == [r EXCEPT !.pc = pc]
  <2>1. pc # "idle"
    <3>1. r.kind \in {"sync", "upload", "record"}
      BY <1>0, <1>1 DEF Steps
    <3> QED  BY <3>1
  <2> HIDE DEF pc
  <2>2. Same(q)
    BY <1>1, <2>1 DEF FilingShape, FilingFields
  <2> HIDE DEF q
  <2>3. next = q
    BY DEF q, pc
  <2> QED  BY <2>2, <2>3
<1> HIDE DEF next, rest, wanting, D, M, F
<1>6. \A q : Same(q) => GatherOk(q, D, M, F)
  BY <1>0, <1>1, RestGather DEF Busy, Writing
<1>7. ASSUME NEW q, Same(q), Local(s, q) PROVE Gathered'
  BY <1>0, <1>6, <1>7, ReadGather DEF D, M, F
<1>8. CASE FlushNew(s, TRUE, rest(r.want[2]))
  <2> DEFINE q == rest(r.want[2])
             k == r.want
  <2>1. GatherOk(NoWant(q), D, M, F)
    BY <1>4, <1>6
  <2>2. k[1] = "company"
    BY <1>0, <1>1, <1>3, <1>8 DEF FilingWantOk, Company
  <2> HIDE DEF q, k
  <2>3. Docs(D \cup {k}) = Docs(D)
    BY <2>2 DEF Docs
  <2>4. GatherOk(NoWant(q), D, M \cup {k}, F)
    BY <2>1, MoreGathered
  <2>5. GatherOk(NoWant(q), D \cup {k}, M \cup {k}, F)
    BY <2>3, <2>4 DEF GatherOk, TextsOk
  <2>6. FlushNew(s, TRUE, q) /\ sess[s].want = k
    BY <1>3, <1>8 DEF q, k
  <2> QED  BY <1>0, <2>5, <2>6, FlushGather DEF D, M, F
<1> QED  BY <1>2, <1>4, <1>5, <1>7, <1>8

LEMMA DiscoverGather ==
  ASSUME FilingIInv, Gathered, NEW s \in Sessions, Discover(s) \/ EndOfList(s)
  PROVE  Gathered'
<1> DEFINE r == sess[s]
           blocked == [r EXCEPT !.pc = "done", !.blocked = TRUE]
           none == [r EXCEPT !.pc = "done"]
           found(list) == [r EXCEPT !.pc = "download", !.todo = list]
           Same(q) == q.pc # "idle" /\ q.kind = r.kind /\ q.symbol = r.symbol /\ q.got = r.got
<1>0. r.pc \in {"discover", "download"} /\ files' = files
  BY DEF Discover, EndOfList, At
<1>1. /\ FilingShape(r) /\ GatherOk(r, DOMAIN draft[s], FilingSeen(s), DOMAIN files)
  BY <1>0, FilingCommandIs, OfSession DEF At
<1>2. \/ Local(s, blocked) \/ Local(s, none) \/ \E list : Local(s, found(list))
  BY DEF Discover, EndOfList
<1> HIDE DEF r
<1>3. Same(blocked) /\ Same(none) /\ \A list : Same(found(list))
  BY <1>1 DEF FilingShape, FilingFields
<1> HIDE DEF blocked, none, found
<1>4. \A q : Same(q) => GatherOk(q, DOMAIN draft[s], FilingSeen(s), DOMAIN files)
  BY <1>0, <1>1, RestGather DEF Busy, Writing
<1> QED  BY <1>0, <1>2, <1>3, <1>4, ReadGather

LEMMA DownloadGather ==
  ASSUME FilingIInv, Gathered, NEW s \in Sessions, Download(s), FilingsAssumption
  PROVE  Gathered'
<1> DEFINE r == sess[s]
           u == Head(r.todo).url
           blocked == [r EXCEPT !.todo = <<>>, !.blocked = TRUE]
           failed == [FilingSkip(r) EXCEPT !.failed = @ \cup {u}]
           got(b) == [r EXCEPT !.pc = "write", !.got = @ \cup {<<u, b>>},
                               !.path = Original(r.symbol, b)]
           D == DOMAIN draft[s]
           M == FilingSeen(s)
           F == DOMAIN files
           Same(q) == q.pc # "idle" /\ q.kind = r.kind /\ q.symbol = r.symbol /\ q.got = r.got
<1>0. r.pc = "download" /\ files' = files
  BY DEF Download, At
<1>1. /\ FilingShape(r) /\ Steps(r) /\ ParentOk(r, DOMAIN db, M) /\ GatherOk(r, D, M, F)
  BY <1>0, FilingCommandIs, OfSession DEF At
<1>2. \/ Local(s, blocked) \/ Local(s, failed) \/ Local(s, FilingSkip(r))
      \/ \E d \in Served : d.url = u /\ Local(s, got(d.bytes))
  BY DEF Download, NextAnnouncement, FilingSkip, Announcement
<1> HIDE DEF r
<1>3. r.kind = "sync" /\ r.parent = NONE
  BY <1>0, <1>1 DEF Steps, ParentOk
<1>4. Same(blocked) /\ Same(failed) /\ Same(FilingSkip(r))
  BY <1>0, <1>1 DEF FilingShape, FilingFields, FilingSkip
<1>5. ASSUME NEW d \in Served, d.url = u PROVE GatherOk(got(d.bytes), D, M, F)
  <2> DEFINE b == d.bytes
             q == got(b)
             g == <<u, b>>
  <2>1. /\ q.pc = "write" /\ q.kind = "sync" /\ q.symbol = r.symbol /\ q.parent = NONE
        /\ q.got = r.got \cup {g} /\ q.todo = r.todo /\ q.path = Original(r.symbol, b)
    BY <1>1, <1>3 DEF FilingShape, FilingFields
  <2>2. b \in DOMAIN Bytes /\ g[1] = u /\ g[2] = b /\ Original(r.symbol, b)[2] = b
    BY DEF FilingsAssumption, Original
  <2>8. r.symbol \in {c.symbol : c \in Syncs} /\ Document(r.symbol, u, b) # NONE
    <3>1. PICK c \in Syncs : r.symbol = c.symbol
      BY <1>0, <1>1, <1>3 DEF GatherOk
    <3> QED  BY <1>5, <3>1 DEF FilingsAssumption, Document
  <2> HIDE DEF q, g, b
  <2>3. AtHand(q, g, M)
    BY <2>1, <2>2 DEF AtHand, Writing
  <2>4. ASSUME NEW h \in r.got
        PROVE  Downloaded(q.symbol, h) /\ Complete(q.symbol, h, M)
    BY <1>0, <1>1, <1>3, <2>1 DEF GatherOk, Collected, AtHand, Busy, Writing
  <2>5. Collected(q, M)
    BY <2>1, <2>2, <2>3, <2>4, <2>8 DEF Collected, Downloaded
  <2>6. TextsOk(q, D, F)
    BY <1>0, <1>1, <1>3 DEF GatherOk, TextsOk
  <2>7. GatherOk(q, D, M, F)
    BY <2>1, <2>5, <2>6, <2>8 DEF GatherOk
  <2> QED  BY <2>7 DEF q, b
<1>6. \A q : Same(q) => GatherOk(q, D, M, F)
  <2> HIDE DEF D, M, F, blocked, failed, got
  <2> QED  BY <1>0, <1>1, RestGather DEF Busy, Writing
<1> HIDE DEF blocked, failed, got, u, D, M, F
<1>7. ASSUME NEW q, Local(s, q), GatherOk(q, D, M, F) PROVE Gathered'
  BY <1>0, <1>7, ReadGather DEF D, M, F
<1> QED  BY <1>2, <1>4, <1>5, <1>6, <1>7

\* The file at hand is written.
LEMMA WriteGather ==
  ASSUME FilingIInv, Gathered, NEW s \in Sessions, WriteArchive(s)
  PROVE  Gathered'
<1> DEFINE r == sess[s]
           recorded == [r EXCEPT !.pc = "document"]
           opened == [r EXCEPT !.pc = "fill"]
           D == DOMAIN draft[s]
           M == FilingSeen(s)
<1>0. r.pc \in {"write", "fill"}
  BY DEF WriteArchive, At
<1>1. FilingShape(r) /\ Steps(r) /\ GatherOk(r, D, M, DOMAIN files)
  BY <1>0, FilingCommandIs, OfSession DEF At
<1>2. /\ DOMAIN files \subseteq DOMAIN files'
      /\ Local(s, recorded) \/ Local(s, opened)
  BY DEF WriteArchive, OpenFile, Written, Put
<1> HIDE DEF r
<1>3. \A q \in {recorded, opened} :
          /\ q.kind = r.kind /\ q.symbol = r.symbol /\ q.got = r.got /\ q.parent = r.parent
          /\ q.members = r.members /\ q.path = r.path /\ q.todo = r.todo /\ q.pc \in Writing
          /\ q.pc \notin {"idle", "text", "unpack"}
  BY <1>1 DEF FilingShape, FilingFields, Writing
<1> HIDE DEF recorded, opened
<1>4. ASSUME NEW q \in {recorded, opened} PROVE GatherOk(q, D, M, DOMAIN files')
  <2>1. r.pc \in Writing /\ r.pc \notin {"idle", "text", "unpack"}
    BY <1>0 DEF Writing
  <2>2. Collected(r, M) => Collected(q, M)
    BY <1>3, <2>1 DEF Collected, AtHand, Busy
  <2>3. TextsOk(r, D, DOMAIN files) => TextsOk(q, D, DOMAIN files')
    BY <1>2, <2>1 DEF TextsOk
  <2>4. r.kind # "extract"
    BY <1>0, <1>1 DEF Steps
  <2> QED  BY <1>1, <1>3, <2>1, <2>2, <2>3, <2>4 DEF GatherOk
<1>5. ASSUME NEW q \in {recorded, opened}, Local(s, q) PROVE Gathered'
  <2>1. db' = db /\ draft' = draft /\ sess' = [sess EXCEPT ![s] = q]
    BY <1>5 DEF Local, Become
  <2> QED  BY <1>2, <1>4, <2>1, LocalGather
<1> QED  BY <1>2, <1>5

-----------------------------------------------------------------------------
(* From a document to the next.                                            *)

LEMMA InRange ==
  ASSUME NEW S, NEW m \in Seq(S), NEW x \in Range(m)
  PROVE  x \in S
  BY DEF Range

LEMMA FirstOrRest ==
  ASSUME NEW S, NEW m \in Seq(S), m # <<>>
  PROVE  \A x \in Range(m) : x = Head(m) \/ x \in Range(Tail(m))
<1>1. /\ Len(m) \in Nat \ {0} /\ DOMAIN m = 1..Len(m) /\ Head(m) = m[1]
      /\ Len(Tail(m)) = Len(m) - 1 /\ DOMAIN Tail(m) = 1..(Len(m) - 1)
      /\ \A i \in 1..(Len(m) - 1) : Tail(m)[i] = m[i + 1]
  BY HeadTailProperties, EmptySeq, LenProperties
<1> SUFFICES ASSUME NEW i \in DOMAIN m, i # 1 PROVE m[i] \in Range(Tail(m))
  BY <1>1 DEF Range
<1>2. i - 1 \in 1..(Len(m) - 1) /\ (i - 1) + 1 = i
  BY <1>1
<1> QED  BY <1>1, <1>2 DEF Range

\* At a text the document is on record, and so are the members before it.
LEMMA SettledAtText ==
  ASSUME NEW r, NEW M, Collected(r, M), r.pc \in {"text", "textfill"}
  PROVE  Settled(r, M)
  BY DEF Collected, Settled, AtHand, Unpacked, Writing

LEMMA TextGather ==
  ASSUME NEW r, NEW q, NEW M, Settled(r, M), q.pc \in {"text", "textfill"},
         q.symbol = r.symbol, q.got = r.got, q.parent = r.parent, q.members = r.members
  PROVE  Collected(q, M)
  BY DEF Collected, Settled, AtHand, Unpacked, Busy

\* To the next member, of which there is one, or from the last.
LEMMA AfterGather ==
  ASSUME NEW s \in Sessions, NEW M, FilingShape(sess[s]), sess[s].kind = "sync",
         sess[s].members \in Seq(DOMAIN Bytes), Settled(sess[s], M)
  PROVE  /\ Collected(AfterDocument(s), M)
         /\ AfterDocument(s).kind = "sync" /\ AfterDocument(s).pc \notin {"idle", "text"}
<1> DEFINE r == sess[s]
           q == AfterDocument(s)
<1>1. q = IF r.members # <<>> THEN Member(r) ELSE FilingSkip(r)
  BY DEF AfterDocument, NextAnnouncement, Member, FilingSkip
<1> HIDE DEF r, q
<1>2. FilingShape(r) /\ r.kind = "sync" /\ r.members \in Seq(DOMAIN Bytes) /\ Settled(r, M)
  BY DEF r
<1>3. CASE r.members # <<>>
  <2>1. /\ q.pc = "write" /\ q.kind = "sync" /\ q.symbol = r.symbol /\ q.got = r.got
        /\ q.parent = r.parent /\ q.members = Tail(r.members)
        /\ q.path = Original(r.symbol, Head(r.members))
    BY <1>1, <1>2, <1>3 DEF FilingShape, FilingFields, Member
  <2>2. q.path[2] = Head(r.members)
    BY <2>1 DEF Original
  <2>3. \A m \in Range(r.members) : m = q.path[2] \/ m \in Range(q.members)
    BY <1>2, <1>3, <2>1, <2>2, FirstOrRest
  <2>4. \A g : Unpacked(r, g, M) => AtHand(q, g, M)
    BY <2>1, <2>3 DEF Unpacked, AtHand, Busy, Writing
  <2> QED  BY <1>2, <2>1, <2>4 DEF Settled, Collected, q
<1>4. CASE r.members = <<>>
  <2>1. q.pc = "download" /\ q.kind = "sync" /\ q.symbol = r.symbol /\ q.got = r.got
    BY <1>1, <1>2, <1>4 DEF FilingShape, FilingFields, FilingSkip
  <2>2. Range(r.members) = {}
    BY <1>4 DEF Range
  <2>3. \A g : Unpacked(r, g, M) => Complete(r.symbol, g, M)
    BY <2>2 DEF Unpacked, Complete
  <2> QED  BY <1>2, <2>1, <2>3 DEF Settled, Collected, q
<1> QED  BY <1>3, <1>4

\* The document at hand is on record: what it is of is settled, or it is a zip
\* file that is to be unpacked.
LEMMA RecordedSettles ==
  ASSUME NEW r, NEW R, NEW M, NEW F, NEW N, FilingsAssumption, r.kind = "sync", r.pc = "document",
         ParentOk(r, R, M), PathOk(r, F), Collected(r, M), M \subseteq N,
         Document(r.symbol, Head(r.todo).url, r.path[2]) \in N
  PROVE  /\ Bytes[r.path[2]].type # "zip" => Settled(r, N)
         /\ Bytes[r.path[2]].type = "zip" =>
               Zipped(r, Document(r.symbol, Head(r.todo).url, r.path[2]), N)
<1> SUFFICES ASSUME NEW g \in r.got
             PROVE  /\ Downloaded(r.symbol, g)
                    /\ Bytes[r.path[2]].type # "zip" =>
                          Complete(r.symbol, g, N) \/ Unpacked(r, g, N)
                    /\ Bytes[r.path[2]].type = "zip" =>
                          \/ Complete(r.symbol, g, N)
                          \/ Document(r.symbol, g[1], g[2])
                                = Document(r.symbol, Head(r.todo).url, r.path[2])
  BY DEF Settled, Zipped
<1>1. /\ Downloaded(r.symbol, g) /\ (Complete(r.symbol, g, M) \/ AtHand(r, g, M))
      /\ g[2] \in DOMAIN Bytes
  BY DEF Collected, Downloaded
<1>2. CASE Complete(r.symbol, g, M)
  BY <1>1, <1>2 DEF Complete
<1>3. CASE r.parent = NONE /\ g[1] = Head(r.todo).url /\ g[2] = r.path[2]
  <2>1. ASSUME Bytes[r.path[2]].type # "zip" PROVE Range(Bytes[g[2]].members) = {}
    <3>1. Bytes[g[2]].members = <<>>
      BY <1>1, <1>3, <2>1 DEF FilingsAssumption
    <3> QED  BY <3>1 DEF Range
  <2>2. Document(r.symbol, g[1], g[2]) = Document(r.symbol, Head(r.todo).url, r.path[2])
    BY <1>3
  <2> QED  BY <1>1, <2>1, <2>2 DEF Complete
<1>4. CASE /\ r.parent = Document(r.symbol, g[1], g[2]) /\ r.parent \in M
           /\ \A m \in Range(Bytes[g[2]].members) :
                 Document(r.symbol, g[1], m) \in M \/ m \in Range(r.members) \/ m = r.path[2]
           /\ r.parent # NONE
  <2>1. r.parent[3] = g[1] /\ r.parent[4] = g[2]
    BY <1>4 DEF Document
  <2>2. g[1] = Head(r.todo).url /\ r.path[2] \in Range(Bytes[g[2]].members)
    BY <1>4, <2>1 DEF ParentOk, PathOk
  <2>3. Bytes[r.path[2]].type # "zip"
    <3>1. Bytes[g[2]].members \in Seq({m \in DOMAIN Bytes : Bytes[m].type # "zip"})
      BY <1>1 DEF FilingsAssumption
    <3> QED  BY <2>2, <3>1, InRange
  <2>4. Unpacked(r, g, N)
    BY <1>4, <2>2 DEF Unpacked
  <2> QED  BY <1>1, <2>3, <2>4
<1>5. Document(r.symbol, g[1], g[2]) # NONE
  BY <1>1 DEF Downloaded
<1> QED  BY <1>1, <1>2, <1>3, <1>4, <1>5 DEF AtHand, Busy, Writing

LEMMA RecordedShape ==
  ASSUME FilingIInv, NEW s \in Sessions, sess[s].pc = "document", NEW N, NEW q,
         FilingSeen(s) \subseteq N,
         Document(sess[s].symbol, Head(sess[s].todo).url, sess[s].path[2]) \in N,
         \/ /\ sess[s].kind = "sync"
            /\ q = [sess[s] EXCEPT !.pc = "unpack",
                     !.parent = Document(sess[s].symbol, Head(sess[s].todo).url, sess[s].path[2])]
         \/ sess[s].kind = "sync" /\ q = [sess[s] EXCEPT !.pc = "text"]
         \/ q = AfterDocument(s)
  PROVE  FilingShape(q) /\ q.want = sess[s].want
<1> DEFINE key == Document(sess[s].symbol, Head(sess[s].todo).url, sess[s].path[2])
<1>1. /\ FilingShape(sess[s]) /\ Steps(sess[s]) /\ ParentOk(sess[s], DOMAIN db, FilingSeen(s))
      /\ PathOk(sess[s], DOMAIN files)
  BY FilingCommandIs DEF At
<1>2. ParentOk(sess[s], DOMAIN db, N)
  BY <1>1 DEF ParentOk, Docs
<1>3. key = Document(sess[s].symbol, Head(sess[s].todo).url, sess[s].path[2]) /\ key \in N
  OBVIOUS
<1>4. \/ sess[s].kind = "sync" /\ q = [sess[s] EXCEPT !.pc = "unpack", !.parent = key]
      \/ sess[s].kind = "sync" /\ q = [sess[s] EXCEPT !.pc = "text"]
      \/ q = AfterDocument(s)
  OBVIOUS
<1> DEFINE R == DOMAIN db
           F == DOMAIN files
<1>5. ParentOk(sess[s], R, N) /\ PathOk(sess[s], F) /\ sess[s].pc = "document"
  BY <1>1, <1>2
<1> HIDE DEF key, R, F
<1>6. FilingShape(q) /\ q.want = sess[s].want /\ FilingStateOk(NoWant(q), R, N, F)
  BY <1>1, <1>3, <1>4, <1>5, RecordedOk
<1> QED  BY <1>6

\* A document goes on record: a new one that can be read is at its text.
LEMMA RecordGather ==
  ASSUME FilingIInv, Gathered, NEW s \in Sessions, RecordDocument(s), FilingsAssumption
  PROVE  Gathered'
<1> DEFINE r == sess[s]
           b == r.path[2]
           key == Document(r.symbol, Head(r.todo).url, b)
           row == [parent |-> r.parent, filing |-> Head(r.todo).filing]
           wanting == [r EXCEPT !.want = key]
           unpacking == [r EXCEPT !.pc = "unpack", !.parent = key]
           texting == [r EXCEPT !.pc = "text"]
           Goes(q, created) ==
              \/ r.kind = "sync" /\ Bytes[b].type = "zip" /\ q = unpacking
              \/ /\ r.kind = "sync" /\ Bytes[b].type # "zip" /\ Bytes[b].type = "pdf" /\ created
                 /\ q = texting
              \/ /\ r.kind # "sync" \/ (Bytes[b].type # "zip" /\ ~(Bytes[b].type = "pdf" /\ created))
                 /\ q = AfterDocument(s)
           D == DOMAIN draft[s]
           M == FilingSeen(s)
           F == DOMAIN files
<1>0. r.pc = "document" /\ files' = files
  BY DEF RecordDocument, At
<1>1. /\ FilingShape(r) /\ Steps(r) /\ ParentOk(r, DOMAIN db, M) /\ PathOk(r, F) /\ FilingWantOk(r)
      /\ GatherOk(r, D, M, F)
  BY <1>0, FilingCommandIs, OfSession DEF At
<1>2. \/ r.want = NONE /\ key \in M /\ \E q : Goes(q, FALSE) /\ Local(s, q)
      \/ r.want = NONE /\ Local(s, wanting)
      \/ r.want # NONE /\ \E q : Goes(q, TRUE) /\ FlushNew(s, row, q)
  BY DEF RecordDocument, Announcement, Sees, FilingSeen, FlushNew, UnpackFor
<1>3. AfterDocument(s) = IF r.kind = "upload" THEN Done(r) ELSE AfterDocument(s)
  BY DEF AfterDocument, Done
<1>4. ASSUME NEW N, NEW E, NEW q, NEW created \in BOOLEAN, M \subseteq N, key \in N,
             E = D \cup (IF created THEN {key} ELSE {}), Goes(q, created)
      PROVE  GatherOk(q, E, N, F) /\ GatherOk(NoWant(q), E, N, F)
  <2>1. r.kind \in {"sync", "upload"}
    BY <1>0, <1>1 DEF Steps
  <2>2. FilingShape(q) /\ q.want = r.want
    <3>1. \/ sess[s].kind = "sync" /\ q = [sess[s] EXCEPT !.pc = "unpack", !.parent = key]
          \/ sess[s].kind = "sync" /\ q = [sess[s] EXCEPT !.pc = "text"]
          \/ q = AfterDocument(s)
      BY <1>4
    <3> HIDE DEF Goes
    <3> QED  BY <1>0, <1>4, <3>1, RecordedShape
  <2>3. GatherOk(q, E, N, F)
    <3>1. CASE r.kind = "upload"
      <4>1. q = Done(r)
        BY <1>3, <1>4, <3>1
      <4>2. q.pc = "done" /\ q.kind = "upload"
        <5> HIDE DEF r
        <5> QED  BY <1>1, <3>1, <4>1 DEF FilingShape, FilingFields, Done
      <4> QED  BY <4>2, NothingToGather
    <3>2. CASE r.kind = "sync"
      <4>1. Collected(r, M) /\ TextsOk(r, D, F) /\ r.symbol \in {c.symbol : c \in Syncs}
        BY <1>0, <1>1, <3>2 DEF GatherOk
      <4>2. /\ Bytes[b].type # "zip" => Settled(r, N)
            /\ Bytes[b].type = "zip" => Zipped(r, key, N)
        <5>1. /\ ParentOk(r, DOMAIN db, M) /\ PathOk(r, F) /\ Collected(r, M) /\ M \subseteq N
              /\ Document(r.symbol, Head(r.todo).url, r.path[2]) \in N
              /\ r.kind = "sync" /\ r.pc = "document"
          BY <1>0, <1>1, <1>4, <3>2, <4>1
        <5> DEFINE R == DOMAIN db
        <5>2. ParentOk(r, R, M)
          BY <5>1
        <5> HIDE DEF R, r, M, F, Goes
        <5> QED  BY <5>1, <5>2, RecordedSettles
      <4>3. /\ r.path = Original(r.symbol, b) /\ key[1] = "document" /\ key[2] = r.symbol
            /\ key[4] = b /\ r.members \in Seq(DOMAIN Bytes)
        BY <1>0, <1>1 DEF PathOk, ParentOk, Document
      <4> HIDE DEF key
      <4>4. \A k \in Docs(E) : k \in Docs(D) \/ (k = key /\ created)
        BY <1>4 DEF Docs
      <4>5. \A k \in Docs(D) : (Bytes[k[4]].type = "pdf" /\ Bytes[k[4]].opens = "yes")
                                  => TextOf(Original(k[2], k[4])) \in F
        BY <1>0, <4>1 DEF TextsOk
      <4>6. CASE Bytes[b].type = "zip"
        <5>1. q = unpacking
          BY <1>4, <3>2, <4>6
        <5> HIDE DEF r
        <5>2. /\ q.pc = "unpack" /\ q.kind = "sync" /\ q.parent = key /\ q.symbol = r.symbol
              /\ q.got = r.got
          BY <1>1, <3>2, <5>1 DEF FilingShape, FilingFields
        <5>3. Collected(q, N)
          BY <1>4, <4>2, <4>6, <5>2 DEF Zipped, Collected, AtHand, Busy
        <5>4. TextsOk(q, E, F)
          BY <4>3, <4>4, <4>5, <4>6 DEF TextsOk
        <5> QED  BY <4>1, <5>2, <5>3, <5>4 DEF GatherOk
      <4>7. CASE Bytes[b].type = "pdf" /\ created
        <5>1. q = texting
          BY <1>4, <3>2, <4>7
        <5> HIDE DEF r
        <5>2. /\ q.pc = "text" /\ q.kind = "sync" /\ q.parent = r.parent /\ q.symbol = r.symbol
              /\ q.got = r.got /\ q.path = r.path /\ q.members = r.members
          BY <1>1, <3>2, <5>1 DEF FilingShape, FilingFields
        <5>3. Collected(q, N)
          BY <4>2, <4>7, <5>2, TextGather
        <5>4. TextsOk(q, E, F)
          BY <4>3, <4>4, <4>5, <5>2 DEF TextsOk
        <5> QED  BY <4>1, <5>2, <5>3, <5>4 DEF GatherOk
      <4>8. CASE Bytes[b].type # "zip" /\ ~(Bytes[b].type = "pdf" /\ created)
        <5>1. q = AfterDocument(s)
          BY <1>4, <3>2, <4>8
        <5>2. Collected(q, N) /\ q.kind = "sync" /\ q.pc \notin {"idle", "text"}
          BY <1>1, <3>2, <4>2, <4>3, <4>8, <5>1, AfterGather
        <5>3. TextsOk(q, E, F)
          BY <4>3, <4>4, <4>5, <4>8 DEF TextsOk
        <5>4. q.symbol = r.symbol
          <6>1. AfterDocument(s) = IF r.members # <<>> THEN Member(r) ELSE FilingSkip(r)
            BY <3>2 DEF AfterDocument, NextAnnouncement, Member, FilingSkip
          <6> HIDE DEF r
          <6> QED  BY <1>1, <5>1, <6>1 DEF FilingShape, FilingFields, Member, FilingSkip
        <5> QED  BY <4>1, <5>2, <5>3, <5>4 DEF GatherOk
      <4> QED  BY <4>6, <4>7, <4>8
    <3> QED  BY <2>1, <3>1, <3>2
  <2>4. GatherOk(NoWant(q), E, N, F)
    <3> DEFINE n == NoWant(q)
    <3>1. /\ n.pc = q.pc /\ n.kind = q.kind /\ n.symbol = q.symbol /\ n.got = q.got
          /\ n.parent = q.parent /\ n.members = q.members /\ n.path = q.path /\ n.todo = q.todo
      <4> HIDE DEF Goes
      <4> QED  BY <2>2 DEF FilingShape, FilingFields, NoWant
    <3> HIDE DEF n, Goes, r
    <3> QED  BY <2>3, <3>1, WantGather DEF n
  <2> QED  BY <2>3, <2>4
<1> HIDE DEF Goes, row
<1>5. CASE r.want = NONE /\ key \in M /\ \E q : Goes(q, FALSE) /\ Local(s, q)
  <2>1. PICK q : Goes(q, FALSE) /\ Local(s, q)
    BY <1>5
  <2> HIDE DEF key, r, D, M, F
  <2>2. GatherOk(q, D, M, F)
    BY <1>4, <1>5, <2>1
  <2> QED  BY <1>0, <2>1, <2>2, ReadGather DEF D, M, F
<1>6. CASE Local(s, wanting)
  <2> HIDE DEF key, r
  <2>1. /\ wanting.pc = r.pc /\ wanting.kind = r.kind /\ wanting.symbol = r.symbol
        /\ wanting.got = r.got /\ wanting.parent = r.parent /\ wanting.members = r.members
        /\ wanting.path = r.path /\ wanting.todo = r.todo
    BY <1>1 DEF FilingShape, FilingFields
  <2> DEFINE w == wanting
  <2>2. Local(s, w)
    BY <1>6
  <2> HIDE DEF w
  <2>3. GatherOk(w, D, M, F)
    BY <1>1, <2>1, WantGather DEF w
  <2> QED  BY <1>0, <2>2, <2>3, ReadGather
<1>7. CASE r.want # NONE /\ \E q : Goes(q, TRUE) /\ FlushNew(s, row, q)
  <2>1. PICK q : Goes(q, TRUE) /\ FlushNew(s, row, q)
    BY <1>7
  <2>2. sess[s].want = key
    BY <1>0, <1>1, <1>7 DEF FilingWantOk
  <2> HIDE DEF key, r, D, M, F
  <2>3. GatherOk(NoWant(q), D \cup {key}, M \cup {key}, F)
    BY <1>4, <2>1
  <2> QED  BY <1>0, <2>1, <2>2, <2>3, FlushGather DEF D, M, F
<1> QED  BY <1>2, <1>5, <1>6, <1>7

LEMMA UnpackGather ==
  ASSUME FilingIInv, Gathered, NEW s \in Sessions, Unpack(s), FilingsAssumption
  PROVE  Gathered'
<1> DEFINE r == sess[s]
           b == r.path[2]
           inside == Bytes[b].members
           q == [r EXCEPT !.pc = "write", !.path = Original(r.symbol, Head(inside)),
                          !.members = Tail(inside)]
           D == DOMAIN draft[s]
           M == FilingSeen(s)
           F == DOMAIN files
<1>0. r.pc = "unpack" /\ files' = files
  BY DEF Unpack, At
<1>1. FilingShape(r) /\ Steps(r) /\ ParentOk(r, DOMAIN db, M) /\ GatherOk(r, D, M, F)
  BY <1>0, FilingCommandIs, OfSession DEF At
<1>2. \/ Rollback(s)
      \/ (Bytes[b].opens = "no" \/ inside = <<>>) /\ Local(s, FilingSkip(r))
      \/ inside # <<>> /\ Local(s, q)
  BY DEF Unpack, NextAnnouncement, FilingSkip
<1> HIDE DEF r
<1>3. r.kind = "sync" /\ b = r.parent[4] /\ b \in DOMAIN Bytes
  BY <1>0, <1>1 DEF Steps, ParentOk
<1>4. Collected(r, M) /\ TextsOk(r, D, F) /\ r.symbol \in {c.symbol : c \in Syncs}
  BY <1>0, <1>1, <1>3 DEF GatherOk
<1>5. ASSUME NEW g \in r.got
      PROVE  /\ Downloaded(r.symbol, g)
             /\ \/ Complete(r.symbol, g, M)
                \/ r.parent = Document(r.symbol, g[1], g[2]) /\ r.parent \in M /\ g[2] = b
  <2>1. Document(r.symbol, g[1], g[2])[4] = g[2]
    BY DEF Document
  <2> HIDE DEF b
  <2> QED  BY <1>0, <1>3, <1>4, <2>1 DEF Collected, AtHand, Writing
<1>6. \A n : (n.pc \in {"download", "write"}) => TextsOk(n, D, F)
  BY <1>0, <1>4 DEF TextsOk
<1>7. ASSUME Bytes[b].opens = "no" \/ inside = <<>>
      PROVE  GatherOk(FilingSkip(r), D, M, F)
  <2> DEFINE n == FilingSkip(r)
  <2>1. n.pc = "download" /\ n.kind = "sync" /\ n.symbol = r.symbol /\ n.got = r.got
    BY <1>1, <1>3 DEF FilingShape, FilingFields, FilingSkip
  <2> HIDE DEF n
  <2>2. Bytes[b].opens = "yes" => Range(inside) = {}
    BY <1>7 DEF Range
  <2>3. Collected(n, M)
    BY <1>5, <2>1, <2>2 DEF Collected, Complete
  <2>4. TextsOk(n, D, F)
    BY <1>6, <2>1
  <2>5. GatherOk(n, D, M, F)
    BY <1>4, <2>1, <2>3, <2>4 DEF GatherOk
  <2> QED  BY <2>5 DEF n
<1>8. ASSUME inside # <<>>
      PROVE  GatherOk(q, D, M, F)
  <2>1. /\ q.pc = "write" /\ q.kind = "sync" /\ q.symbol = r.symbol /\ q.got = r.got
        /\ q.parent = r.parent /\ q.members = Tail(inside)
        /\ q.path = Original(r.symbol, Head(inside))
    BY <1>1, <1>3 DEF FilingShape, FilingFields
  <2>2. q.path[2] = Head(inside)
    BY <2>1 DEF Original
  <2>3. inside \in Seq({m \in DOMAIN Bytes : Bytes[m].type # "zip"})
    BY <1>3 DEF FilingsAssumption
  <2> HIDE DEF q
  <2>4. \A m \in Range(inside) : m = q.path[2] \/ m \in Range(q.members)
    <3> HIDE DEF inside
    <3> QED  BY <1>8, <2>1, <2>2, <2>3, FirstOrRest
  <2>5. Collected(q, M)
    <3>1. ASSUME NEW g \in r.got, r.parent = Document(r.symbol, g[1], g[2]), r.parent \in M, g[2] = b
          PROVE  AtHand(q, g, M)
      BY <2>1, <2>4, <3>1 DEF AtHand, Busy, Writing
    <3> HIDE DEF b
    <3> QED  BY <1>5, <2>1, <3>1 DEF Collected
  <2>6. TextsOk(q, D, F)
    BY <1>6, <2>1
  <2> QED  BY <1>4, <2>1, <2>5, <2>6 DEF GatherOk
<1> HIDE DEF q, inside, b
<1>9. Rollback(s) => Gathered'
  BY <1>0, EndGather
<1>10. ASSUME NEW n, Local(s, n), GatherOk(n, D, M, F) PROVE Gathered'
  BY <1>0, <1>10, ReadGather
<1> HIDE DEF D, M, F
<1> QED  BY <1>2, <1>7, <1>8, <1>9, <1>10

LEMMA CacheGather ==
  ASSUME FilingIInv, Gathered, NEW s \in Sessions, CacheText(s)
  PROVE  Gathered'
<1> DEFINE r == sess[s]
           text == TextOf(r.path)
           opened == [r EXCEPT !.pc = "textfill"]
           after == IF r.kind = "extract" THEN Idle ELSE AfterDocument(s)
           D == DOMAIN draft[s]
           M == FilingSeen(s)
           F == DOMAIN files
<1>0. r.pc \in {"text", "textfill"}
  BY DEF CacheText, At
<1>1. FilingShape(r) /\ Steps(r) /\ ParentOk(r, DOMAIN db, M) /\ GatherOk(r, D, M, F)
  BY <1>0, FilingCommandIs, OfSession DEF At
<1>2. \/ r.pc = "text" /\ text \in DOMAIN files' /\ Local(s, opened)
      \/ r.pc = "text" /\ Bytes[r.path[2]].opens # "yes" /\ Local(s, after)
      \/ r.pc = "textfill" /\ Local(s, after)
  BY DEF CacheText, At, Put
<1>3. F \subseteq DOMAIN files'
  BY DEF CacheText, Put
<1>4. r.kind \in {"sync", "extract"}
  BY <1>0, <1>1 DEF Steps
<1>5. ASSUME NEW q, Local(s, q), GatherOk(q, D, M, DOMAIN files') PROVE Gathered'
  <2>1. db' = db /\ draft' = draft /\ sess' = [sess EXCEPT ![s] = q]
    BY <1>5 DEF Local, Become
  <2> QED  BY <1>3, <1>5, <2>1, LocalGather
<1>6. CASE r.kind = "extract"
  <2>1. Docs(D) = {}
    BY <1>1, <1>6 DEF GatherOk
  <2>2. after = Idle
    BY <1>6
  <2> HIDE DEF r
  <2>3. opened.kind = "extract" /\ opened.pc # "idle"
    BY <1>1, <1>6 DEF FilingShape, FilingFields
  <2> HIDE DEF opened, after, D, M, F
  <2>4. GatherOk(opened, D, M, DOMAIN files') /\ GatherOk(after, D, M, DOMAIN files')
    BY <2>1, <2>2, <2>3 DEF GatherOk, Idle
  <2> QED  BY <1>2, <1>5, <2>4
<1>7. CASE r.kind = "sync"
  <2>1. Collected(r, M) /\ TextsOk(r, D, F) /\ r.symbol \in {c.symbol : c \in Syncs}
    BY <1>0, <1>1, <1>7 DEF GatherOk
  <2>2. Settled(r, M) /\ r.members \in Seq(DOMAIN Bytes)
    BY <1>0, <1>1, <2>1, SettledAtText DEF ParentOk
  <2>3. ASSUME text \in DOMAIN files' PROVE GatherOk(opened, D, M, DOMAIN files')
    <3> HIDE DEF r
    <3>1. /\ opened.pc = "textfill" /\ opened.kind = "sync" /\ opened.symbol = r.symbol
          /\ opened.got = r.got /\ opened.parent = r.parent /\ opened.members = r.members
      BY <1>1, <1>7 DEF FilingShape, FilingFields
    <3> HIDE DEF opened
    <3>2. Collected(opened, M)
      BY <2>2, <3>1, TextGather
    <3>3. TextsOk(opened, D, DOMAIN files')
      BY <1>3, <2>1, <2>3 DEF TextsOk
    <3> QED  BY <2>1, <3>1, <3>2, <3>3 DEF GatherOk
  <2>4. ASSUME r.pc = "textfill" \/ Bytes[r.path[2]].opens # "yes"
        PROVE  GatherOk(after, D, M, DOMAIN files')
    <3>1. after = AfterDocument(s)
      BY <1>7
    <3>2. Collected(after, M) /\ after.kind = "sync" /\ after.pc \notin {"idle", "text"}
      BY <1>1, <1>7, <2>2, <3>1, AfterGather
    <3>3. \A k : Original(k[2], k[4])[2] = k[4]
      BY DEF Original
    <3>4. TextsOk(after, D, DOMAIN files')
      BY <1>3, <2>1, <2>4, <3>3 DEF TextsOk
    <3>5. after.symbol = r.symbol
      <4>1. after = IF r.members # <<>> THEN Member(r) ELSE FilingSkip(r)
        BY <1>7 DEF AfterDocument, NextAnnouncement, Member, FilingSkip
      <4> HIDE DEF r, after
      <4> QED  BY <1>1, <4>1 DEF FilingShape, FilingFields, Member, FilingSkip
    <3> QED  BY <2>1, <3>2, <3>4, <3>5 DEF GatherOk
  <2> HIDE DEF opened, after, D, M, F, text, r
  <2> QED  BY <1>2, <1>5, <2>3, <2>4
<1> QED  BY <1>4, <1>6, <1>7

LEMMA ExtractGather ==
  ASSUME FilingIInv, Gathered, NEW s \in Sessions, Extract(s)
  PROVE  Gathered'
<1> DEFINE r == sess[s]
           reading == [r EXCEPT !.pc = "text"]
           D == DOMAIN draft[s]
<1>0. r.pc = "extract" /\ files' = files
  BY DEF Extract, At
<1>1. FilingShape(r) /\ Steps(r) /\ GatherOk(r, D, FilingSeen(s), DOMAIN files)
  BY <1>0, FilingCommandIs, OfSession DEF At
<1>2. Local(s, Idle) \/ Local(s, reading)
  BY DEF Extract
<1> HIDE DEF r
<1>3. r.kind = "extract" /\ reading.kind = r.kind /\ reading.pc = "text"
  BY <1>0, <1>1 DEF Steps, FilingShape, FilingFields
<1>4. Docs(D) = {}
  BY <1>1, <1>3 DEF GatherOk
<1> HIDE DEF reading
<1>5. /\ GatherOk(Idle, D, FilingSeen(s), DOMAIN files)
      /\ GatherOk(reading, D, FilingSeen(s), DOMAIN files)
  BY <1>3, <1>4 DEF GatherOk, Idle
<1> QED  BY <1>0, <1>2, <1>5, ReadGather

LEMMA FactGather ==
  ASSUME FilingIInv, Gathered, NEW s \in Sessions, RecordFact(s)
  PROVE  Gathered'
<1> DEFINE r == sess[s]
           key == DocFact(Fresh("fact"))
           row == [company |-> r.symbol, table |-> r.table, document |-> r.parent]
           q == [r EXCEPT !.pc = "done"]
<1>0. r.pc = "fact" /\ files' = files
  BY DEF RecordFact, At
<1>1. FilingShape(r) /\ Steps(r)
  BY <1>0, FilingCommandIs DEF At
<1>2. Insert(s, [k \in {key} |-> row], q)
  BY DEF RecordFact, InsertRow
<1> HIDE DEF r, key, row
<1>3. q.pc = "done" /\ q.kind = "record"
  BY <1>0, <1>1 DEF Steps, FilingShape, FilingFields
<1> HIDE DEF q
<1>4. GatherOk(q, DOMAIN draft[s] \cup {key}, FilingSeen(s) \cup {key}, DOMAIN files)
  BY <1>3, NothingToGather
<1> QED  BY <1>0, <1>2, <1>4, InsertGather

LEMMA GatherNext ==
  ASSUME FilingIInv, Gathered, FilingsNext, FilingsAssumption
  PROVE  Gathered'
<1>1. PICK s \in Sessions : BeginFiling(s) \/ ProceedFiling(s) \/ (Crash(s) /\ files' = files)
  BY DEF FilingsNext
<1>2. CASE BeginFiling(s)
  BY <1>2, BeginGather
<1>3. CASE ProceedFiling(s)
  <2>1. CASE EnsureOne(s)
    BY <2>1, EnsureGather
  <2>2. CASE Discover(s) \/ EndOfList(s)
    BY <2>2, DiscoverGather
  <2>3. CASE Download(s)
    BY <2>3, DownloadGather
  <2>4. CASE WriteArchive(s)
    BY <2>4, WriteGather
  <2>5. CASE RecordDocument(s)
    BY <2>5, RecordGather
  <2>6. CASE Unpack(s)
    BY <2>6, UnpackGather
  <2>7. CASE CacheText(s)
    BY <2>7, CacheGather
  <2>8. CASE Extract(s)
    BY <2>8, ExtractGather
  <2>9. CASE RecordFact(s)
    BY <2>9, FactGather
  <2>10. CASE FinishFiling(s)
    BY <2>10, EndGather DEF FinishFiling
  <2>11. CASE DeadlockVictim(s) /\ files' = files
    BY <2>11, EndGather DEF DeadlockVictim
  <2> QED
    BY <1>3, <2>1, <2>2, <2>3, <2>4, <2>5, <2>6, <2>7, <2>8, <2>9, <2>10, <2>11
    DEF ProceedFiling
<1>4. CASE Crash(s) /\ files' = files
  BY <1>4, EndGather DEF Crash
<1> QED  BY <1>1, <1>2, <1>3, <1>4

LEMMA InitGathered == FilingsInit => Gathered
  BY DEF FilingsInit, InitArchive, InitTransactions, Gathered, GatherAt, GatherOk, Docs, Nothing, Idle

\* A commit publishes what the sync sees.
LEMMA FinishGathers ==
  ASSUME FilingIInv, Gathered PROVE SyncArchivesAllStep
<1> SUFFICES ASSUME NEW s \in Sessions, At(s, "done"), sess[s].kind = "sync", FinishFiling(s),
                    NEW g \in sess[s].got, NEW m \in Contents(g[2])
             PROVE  /\ Document(sess[s].symbol, g[1], m) \in DOMAIN db'
                    /\ (/\ Bytes[m].type = "pdf" /\ Bytes[m].opens = "yes"
                        /\ Document(sess[s].symbol, g[1], m) \notin DOMAIN db)
                       => Written(TextOf(Original(sess[s].symbol, m)))
  BY DEF SyncArchivesAllStep
<1> DEFINE r == sess[s]
<1>1. DOMAIN db' = FilingSeen(s) /\ r.pc = "done"
  BY DEF FinishFiling, Commit, View, FilingSeen, At
<1>2. Collected(r, FilingSeen(s)) /\ TextsOk(r, DOMAIN draft[s], DOMAIN files)
  BY <1>1, OfSession DEF GatherOk
<1>3. Complete(r.symbol, g, FilingSeen(s))
  BY <1>1, <1>2 DEF Collected, AtHand, Busy, Writing
<1>4. ASSUME Document(r.symbol, g[1], m) \in FilingSeen(s), Bytes[m].type = "pdf",
             Bytes[m].opens = "yes", Document(r.symbol, g[1], m) \notin DOMAIN db
      PROVE  Written(TextOf(Original(r.symbol, m)))
  <2> DEFINE k == Document(r.symbol, g[1], m)
  <2>1. k[1] = "document" /\ k[2] = r.symbol /\ k[4] = m
    BY DEF Document
  <2> HIDE DEF k
  <2>2. k \in Docs(DOMAIN draft[s])
    BY <1>4, <2>1 DEF Docs, FilingSeen, k
  <2> QED  BY <1>1, <1>2, <1>4, <2>1, <2>2 DEF TextsOk, Written
<1>5. Document(r.symbol, g[1], m) \in FilingSeen(s)
  BY <1>3 DEF Complete, Contents
<1> HIDE DEF r
<1> QED  BY <1>1, <1>4, <1>5 DEF r

\* A sync that commits has on record every attachment it downloaded and the
\* members of every zip file it could open, also of one that an earlier command
\* left half unpacked, and wrote a text for each PDF new to it that can be read,
\* attached itself or a member (services/ingestion/filings.py:183, common.py).
THEOREM SyncsArchiveAll == FilingsSpec => SyncArchivesAll
<1>1. FilingIInv /\ Gathered /\ [FilingsNext]_archivevars => Gathered'
  <2>1. ASSUME Gathered, UNCHANGED archivevars PROVE Gathered'
    BY <2>1 DEF archivevars, txvars, Gathered, GatherAt, FilingSeen
  <2> QED  BY <2>1, FilingsAssumption, GatherNext
<1>2. FilingIInv /\ Gathered => [SyncArchivesAllStep]_archivevars
  BY FinishGathers
<1> QED  BY <1>1, <1>2, InitGathered, Inductive, PTL DEF FilingsSpec, SyncArchivesAll

-----------------------------------------------------------------------------
(* The books of a portfolio.  What a commit publishes must follow from what *)
(* holds, while a command runs, of its draft D, of what it sees, V, and of *)
(* the committed rows R.                                                   *)

SyncFields == {"pc", "want", "kind", "run", "attempts", "listed", "todo", "holdings", "failed",
               "company", "link", "known", "blank"}
AdjustFields == {"pc", "want", "kind", "opening", "known"}
RebuildFields == {"pc", "want", "kind", "latest", "trades", "actions", "openings", "targets",
                  "found"}
ReconcileFields == {"pc", "want", "kind", "todo", "trades", "actions", "openings", "gaps",
                    "diffs", "began"}
BooksShape(r, fields) == DOMAIN r = fields /\ r = [f \in fields |-> r[f]]

Only(D, tags) == \A k \in DOMAIN D : k[1] \in tags

BooksTables == {"company", "instrument", "run", "snapshot", "lots", "adjustment"}

\* A draft revives nothing, and has no row anew that others could have.
BooksDraftOk(D, R) ==
    /\ IsFiniteSet(DOMAIN D) /\ Only(D, BooksTables)
    /\ \A k \in Of(D, "adjustment") :
          \E o \in Openings : k = Adjustment(o.symbol) /\ D[k] = Opened(o)
    /\ \A k \in Of(D, "lots") : k \in DOMAIN R => ~D[k].live
    /\ \A k \in Of(D, "run") \cup Of(D, "snapshot") : k \notin DOMAIN R

\* What is left of a list after its first n.
Remainder(todo, all, n) ==
    /\ all \in Seq(Range(all)) /\ todo \in Seq(Range(all))
    /\ n \in Nat /\ n + Len(todo) = Len(all)
    /\ \A i \in 1..Len(todo) : todo[i] = all[n + i]

\* Each of the holdings before the next is normalized or skipped.
Progress(r) ==
    /\ Range(r.listed) \subseteq Held /\ \E S : r.holdings \in Seq(S)
    /\ \E n \in Nat :
          /\ Remainder(r.todo, r.listed, n)
          /\ r.failed \subseteq 1..n
          /\ Len(r.holdings) + Cardinality(r.failed) = n
          /\ Normalized(r, n)

AtHolding == {"known", "isin", "symbol", "stub", "instrument"}

SyncWant(r, V) ==
    \/ r.want = NONE
    \/ /\ \/ r.pc = "stub" /\ r.want = Company(Head(r.todo).symbol)
          \/ r.pc = "instrument" /\ r.want = Instrument(Head(r.todo).symbol, Head(r.todo).exchange)
       /\ r.known # NONE => r.want \in DOMAIN V

\* The run has ended with its one snapshot.
Persisted(r, D) ==
    /\ r.todo = <<>>
    /\ D[r.run] = [status |-> StatusOf(r.failed), ingested |-> Len(r.holdings),
                   failed |-> Cardinality(r.failed)]
    /\ \E p \in Of(D, "snapshot") :
          /\ \A q \in Of(D, "snapshot") : q = p
          /\ D[p].run = r.run /\ D[p].holdings = r.holdings

\* What is known becomes something else only if it had been read as not known.
Stands(old, new, blank) == old # NONE => new # NONE /\ (new = old \/ blank)

IdentityRowOk(k, row, R, blank) ==
    k \in DOMAIN R =>
        /\ k[1] = "company" => Stands(R[k].isin, row.isin, k \in blank)
        /\ k[1] = "instrument" => Stands(R[k].company, row.company, k \in blank)
KeepsIdentity(D, R, blank) == \A k \in DOMAIN D : IdentityRowOk(k, D[k], R, blank)

\* A company that was not there when the command looked for it, and an instrument
\* that had none when its upsert loaded it.
StubOk(r) == Company(Head(r.todo).symbol) \in r.blank
LinkOk(r) == (r.want # NONE /\ r.known # NONE /\ r.known.company = NONE) => r.want \in r.blank

SyncOk(r, D, V, R) ==
    /\ BooksShape(r, SyncFields) /\ r.kind = "sync" /\ SyncWant(r, V)
    /\ \/ r.pc = "run" /\ DOMAIN D = {}
       \/ /\ r.pc \in {"fetch", "resolve", "commit"} \cup AtHolding
          /\ Of(D, "run") = {r.run} /\ Only(D, BooksTables \ {"lots", "adjustment"})
    /\ r.pc \in {"run", "fetch"} => r.holdings = <<>> /\ r.failed = {}
    /\ r.pc \in {"resolve", "commit"} \cup AtHolding => Progress(r)
    /\ r.pc \in AtHolding => r.todo # <<>> /\ Head(r.todo).symbol # NONE
    /\ KeepsIdentity(D, R, r.blank)
    /\ r.pc = "stub" => StubOk(r)
    /\ r.pc = "instrument" => LinkOk(r)
    /\ r.pc # "commit" => Of(D, "snapshot") = {}
    /\ r.pc = "commit" => Persisted(r, D)

AdjustOk(r, D, V, R) ==
    /\ BooksShape(r, AdjustFields) /\ r.kind = "adjust" /\ r.opening \in Openings
    /\ r.pc \in {"company", "adjust", "commit"} /\ Only(D, {"company", "adjustment"})
    /\ \A k \in Of(D, "company") : k \notin DOMAIN R
    /\ \/ r.want = NONE
       \/ r.pc = "company" /\ r.want = Company(r.opening.symbol)
       \/ /\ r.pc = "adjust" /\ r.want = Adjustment(r.opening.symbol)
          /\ r.known # NONE => r.want \in DOMAIN V

\* Of the lots found, those that are no target any more are gone.
RebuildOk(r, D, V, R) ==
    /\ BooksShape(r, RebuildFields) /\ r.kind = "rebuild" /\ Only(D, {"lots"})
    /\ \/ /\ r.pc \in {"latest", "trades", "actions", "openings", "delete"}
          /\ r.want = NONE /\ DOMAIN D = {}
       \/ /\ r.pc = "deleting" /\ r.want \in r.targets \cup {NONE} /\ DOMAIN D \subseteq DOMAIN R
          /\ r.targets \subseteq r.found
       \/ /\ r.pc = "commit" /\ r.want = NONE /\ r.targets = {}
          /\ \E k \in LiveLots(D) : k \notin DOMAIN R
    /\ r.pc \in {"deleting", "commit"} =>
          /\ r.found \subseteq Of(R, "lots")
          /\ \A k \in r.found \ r.targets : ~V[k].live

\* All that the statements rest on had been recorded, and is.
BeganComplete(began) ==
    /\ Facts \subseteq began
    /\ \A o \in Openings : \E a \in began : a.kind = "OPENING" /\ a.symbol = o.symbol
AllRecorded(R) ==
    /\ \A f \in Facts : Ledger(f) \in DOMAIN R
    /\ \A o \in Openings : Adjustment(o.symbol) \in DOMAIN R

Compared(r, d, n) == r.gaps = GapsOf(d, n) /\ r.diffs \subseteq GapsOf(d, Len(d))

ReconcileOk(r, D, R) ==
    /\ BooksShape(r, ReconcileFields) /\ r.kind = "reconcile" /\ r.want = NONE /\ DOMAIN D = {}
    /\ r.pc \in {"actions", "openings", "compare"}
    /\ \E d \in Directories : \E n \in Nat :
          Remainder(r.todo, d, n) /\ (BeganComplete(r.began) => Compared(r, d, n))
    /\ BeganComplete(r.began) =>
          /\ AllRecorded(R)
          /\ r.pc \in {"openings", "compare"} => r.actions = Splits
          /\ r.pc = "compare" => r.openings = AllOpenings

BooksOk(r, D, V, R) ==
    \/ r = Idle /\ DOMAIN D = {}
    \/ SyncOk(r, D, V, R) \/ AdjustOk(r, D, V, R) \/ RebuildOk(r, D, V, R) \/ ReconcileOk(r, D, R)

BooksIInv ==
    /\ DraftsDisjoint /\ Booked(db)
    /\ draft = [s \in Sessions |-> draft[s]] /\ sess = [s \in Sessions |-> sess[s]]
    /\ \A s \in Sessions : BooksOk(sess[s], draft[s], View(s), db) /\ BooksDraftOk(draft[s], db)

-----------------------------------------------------------------------------
(* Views, drafts and databases that grow.                                  *)

\* What a session sees: the committed rows under those of its draft.
Overlay(D, V, R) ==
    /\ DOMAIN V = DOMAIN R \cup DOMAIN D
    /\ \A k \in DOMAIN V : V[k] = IF k \in DOMAIN D THEN D[k] ELSE R[k]

Seen(D, R) ==
    [k \in DOMAIN R \cup DOMAIN D |-> IF k \in DOMAIN D THEN D[k] ELSE R[k]]

LEMMA ViewIs ==
  ASSUME NEW s \in Sessions
  PROVE  Overlay(draft[s], View(s), db) /\ View(s) = Seen(draft[s], db)
  BY DEF Overlay, View, Seen

LEMMA SeenIs ==
  ASSUME NEW D, NEW R
  PROVE  Overlay(D, Seen(D, R), R)
  BY DEF Overlay, Seen

\* The committed rows R become R2 while a command holds the draft D.
BooksGrown(D, R, R2) ==
    /\ DOMAIN R \subseteq DOMAIN R2
    /\ \A k \in DOMAIN D : k \in DOMAIN R2 => k \in DOMAIN R /\ R2[k] = R[k]
    /\ \A k \in Of(R, "lots") : ~R[k].live => ~R2[k].live

LEMMA BooksDraftStands ==
  ASSUME NEW D, NEW R, NEW R2, BooksDraftOk(D, R), BooksGrown(D, R, R2)
  PROVE  BooksDraftOk(D, R2)
<1>1. \A tag : Of(D, tag) \subseteq DOMAIN D
  BY DEF Of
<1> QED  BY <1>1 DEF BooksDraftOk, BooksGrown

LEMMA SyncStands ==
  ASSUME NEW r, NEW D, NEW V, NEW R, NEW V2, NEW R2, SyncOk(r, D, V, R),
         Overlay(D, V, R), Overlay(D, V2, R2), BooksGrown(D, R, R2)
  PROVE  SyncOk(r, D, V2, R2)
<1>1. DOMAIN V \subseteq DOMAIN V2
  BY DEF Overlay, BooksGrown
<1>2. SyncWant(r, V2)
  BY <1>1 DEF SyncOk, SyncWant
<1>3. KeepsIdentity(D, R, r.blank) => KeepsIdentity(D, R2, r.blank)
  BY DEF KeepsIdentity, IdentityRowOk, BooksGrown
<1> QED  BY <1>2, <1>3 DEF SyncOk

LEMMA RebuildStands ==
  ASSUME NEW r, NEW D, NEW V, NEW R, NEW V2, NEW R2, RebuildOk(r, D, V, R),
         Overlay(D, V, R), Overlay(D, V2, R2), BooksGrown(D, R, R2)
  PROVE  RebuildOk(r, D, V2, R2)
<1>1. Of(R, "lots") \subseteq Of(R2, "lots") /\ Of(R, "lots") \subseteq DOMAIN R
  BY DEF Of, BooksGrown
<1>2. ASSUME NEW k \in Of(R, "lots"), ~V[k].live PROVE ~V2[k].live
  <2>1. k \in DOMAIN V /\ k \in DOMAIN V2
    BY <1>1 DEF Overlay, Of
  <2>2. CASE k \in DOMAIN D
    BY <1>2, <2>1, <2>2 DEF Overlay
  <2>3. CASE k \notin DOMAIN D
    <3>1. V[k] = R[k] /\ V2[k] = R2[k]
      BY <2>1, <2>3 DEF Overlay
    <3> QED  BY <1>2, <3>1 DEF BooksGrown
  <2> QED  BY <2>2, <2>3
<1>3. r.pc \in {"deleting", "commit"} =>
          /\ r.found \subseteq Of(R2, "lots")
          /\ \A k \in r.found \ r.targets : ~V2[k].live
  BY <1>1, <1>2 DEF RebuildOk
<1>4. DOMAIN D \subseteq DOMAIN R => DOMAIN D \subseteq DOMAIN R2
  BY DEF BooksGrown
<1>5. (\E k \in LiveLots(D) : k \notin DOMAIN R) => \E k \in LiveLots(D) : k \notin DOMAIN R2
  BY DEF BooksGrown, LiveLots, Of
<1> QED  BY <1>3, <1>4, <1>5 DEF RebuildOk

LEMMA BooksOkStands ==
  ASSUME NEW r, NEW D, NEW V, NEW R, NEW V2, NEW R2, BooksOk(r, D, V, R),
         Overlay(D, V, R), Overlay(D, V2, R2), BooksGrown(D, R, R2)
  PROVE  BooksOk(r, D, V2, R2)
<1>1. DOMAIN V \subseteq DOMAIN V2
  BY DEF Overlay, BooksGrown
<1>2. AdjustOk(r, D, V, R) => AdjustOk(r, D, V2, R2)
  BY <1>1 DEF AdjustOk, BooksGrown, Of
<1>3. AllRecorded(R) => AllRecorded(R2)
  BY DEF AllRecorded, BooksGrown
<1>4. ReconcileOk(r, D, R) => ReconcileOk(r, D, R2)
  BY <1>3 DEF ReconcileOk
<1> QED  BY <1>2, <1>4, SyncStands, RebuildStands DEF BooksOk

-----------------------------------------------------------------------------
(* The steps of a transaction.                                             *)

\* A session that has not committed: its draft is now D2.
LEMMA OwnStep ==
  ASSUME BooksIInv, NEW s \in Sessions, NEW state, NEW D2,
         db' = db, sess' = [sess EXCEPT ![s] = state], draft' = [draft EXCEPT ![s] = D2],
         \A t \in Sessions : t # s => DOMAIN D2 \cap DOMAIN draft[t] = {},
         BooksOk(state, D2, Seen(D2, db), db), BooksDraftOk(D2, db)
  PROVE  BooksIInv'
<1>1. /\ draft'[s] = D2 /\ sess'[s] = state
      /\ \A t \in Sessions : t # s => sess'[t] = sess[t] /\ draft'[t] = draft[t]
      /\ sess' = [t \in Sessions |-> sess'[t]] /\ draft' = [t \in Sessions |-> draft'[t]]
  BY DEF BooksIInv
<1>2. DraftsDisjoint'
  BY <1>1 DEF BooksIInv, DraftsDisjoint
<1>3. ASSUME NEW t \in Sessions
      PROVE  (BooksOk(sess[t], draft[t], View(t), db) /\ BooksDraftOk(draft[t], db))'
  <2>1. CASE t = s
    <3>1. View(s)' = Seen(D2, db)
      BY <1>1 DEF View, Seen
    <3> QED  BY <1>1, <2>1, <3>1
  <2>2. CASE t # s
    <3>1. View(t)' = View(t)
      BY <1>1, <2>2 DEF View
    <3>2. BooksOk(sess[t], draft[t], View(t), db) /\ BooksDraftOk(draft[t], db)
      BY DEF BooksIInv
    <3> QED  BY <1>1, <2>2, <3>1, <3>2
  <2> QED  BY <2>1, <2>2
<1>4. Booked(db)'
  BY DEF BooksIInv
<1> QED  BY <1>1, <1>2, <1>3, <1>4 DEF BooksIInv

LEMMA QuietKeeps ==
  ASSUME BooksIInv, NEW s \in Sessions, NEW state, Local(s, state) \/ Start(s, state),
         BooksOk(state, draft[s], View(s), db)
  PROVE  BooksIInv'
<1>1. db' = db /\ sess' = [sess EXCEPT ![s] = state] /\ draft' = draft
  BY DEF Local, Start, Become
<1>2. draft' = [draft EXCEPT ![s] = draft[s]]
  BY <1>1 DEF BooksIInv
<1>3. BooksOk(state, draft[s], Seen(draft[s], db), db)
  BY ViewIs
<1>4. BooksDraftOk(draft[s], db) /\ \A t \in Sessions : t # s => DOMAIN draft[s] \cap DOMAIN draft[t] = {}
  BY DEF BooksIInv, DraftsDisjoint
<1> QED  BY <1>1, <1>2, <1>3, <1>4, OwnStep

LEMMA BooksIdleIsEmpty ==
  ASSUME BooksIInv, NEW s \in Sessions, At(s, "idle")
  PROVE  DOMAIN draft[s] = {}
<1>1. BooksOk(sess[s], draft[s], View(s), db) /\ sess[s].pc = "idle"
  BY DEF BooksIInv, At
<1> QED  BY <1>1 DEF BooksOk, SyncOk, AtHolding, AdjustOk, RebuildOk, ReconcileOk

LEMMA EmptyDraftIsOk ==
  ASSUME NEW D, NEW R, DOMAIN D = {}
  PROVE  BooksDraftOk(D, R)
  BY FS_EmptySet DEF BooksDraftOk, Only, Of

LEMMA BooksRollbackKeeps ==
  ASSUME BooksIInv, NEW s \in Sessions, Rollback(s)
  PROVE  BooksIInv'
<1>1. DOMAIN Nothing = {}
  BY DEF Nothing
<1>2. BooksOk(Idle, Nothing, Seen(Nothing, db), db) /\ BooksDraftOk(Nothing, db)
  BY <1>1, EmptyDraftIsOk DEF BooksOk
<1>3. /\ db' = db /\ sess' = [sess EXCEPT ![s] = Idle] /\ draft' = [draft EXCEPT ![s] = Nothing]
      /\ \A t \in Sessions : t # s => DOMAIN Nothing \cap DOMAIN draft[t] = {}
  BY <1>1 DEF Rollback, Become
<1> QED  BY <1>2, <1>3, OwnStep

\* New rows, of which the draft had none or an earlier version.
LEMMA BooksInsertKeeps ==
  ASSUME BooksIInv, NEW s \in Sessions, NEW rows, NEW state, Insert(s, rows, state),
         \A t \in Sessions : t # s => DOMAIN rows \cap DOMAIN draft[t] = {},
         NEW D2, D2 = [k \in DOMAIN draft[s] \cup DOMAIN rows |->
                          IF k \in DOMAIN rows THEN rows[k] ELSE draft[s][k]],
         BooksOk(state, D2, Seen(D2, db), db), BooksDraftOk(D2, db)
  PROVE  BooksIInv'
<1>1. db' = db /\ sess' = [sess EXCEPT ![s] = state] /\ draft' = [draft EXCEPT ![s] = D2]
  BY DEF Insert, Become, BooksIInv
<1>2. \A t \in Sessions : t # s => DOMAIN D2 \cap DOMAIN draft[t] = {}
  BY DEF BooksIInv, DraftsDisjoint
<1> QED  BY <1>1, <1>2, OwnStep

AddRow(D, key, row) == [k \in DOMAIN D \cup {key} |-> IF k = key THEN row ELSE D[k]]

\* A row that a draft may have.
BooksRowOk(k, row, R) ==
    /\ k[1] \in BooksTables
    /\ k[1] = "adjustment" => \E o \in Openings : k = Adjustment(o.symbol) /\ row = Opened(o)
    /\ k[1] = "lots" => (k \in DOMAIN R => ~row.live)
    /\ k[1] \in {"run", "snapshot"} => k \notin DOMAIN R

LEMMA DraftOkByRow ==
  ASSUME NEW D, NEW R
  PROVE  BooksDraftOk(D, R) <=> IsFiniteSet(DOMAIN D) /\ \A k \in DOMAIN D : BooksRowOk(k, D[k], R)
<1>1. ASSUME BooksDraftOk(D, R), NEW k \in DOMAIN D PROVE BooksRowOk(k, D[k], R)
  <2>1. k \in Of(D, k[1])
    BY DEF Of
  <2>2. k[1] \in BooksTables
    BY <1>1 DEF BooksDraftOk, Only
  <2> QED  BY <1>1, <2>1, <2>2 DEF BooksDraftOk, BooksRowOk
<1>2. ASSUME IsFiniteSet(DOMAIN D), \A k \in DOMAIN D : BooksRowOk(k, D[k], R)
      PROVE  BooksDraftOk(D, R)
  <2>1. \A tag : \A k \in Of(D, tag) : k[1] = tag /\ BooksRowOk(k, D[k], R)
    BY <1>2 DEF Of
  <2> QED  BY <1>2, <2>1 DEF BooksDraftOk, BooksRowOk, Only
<1> QED  BY <1>1, <1>2 DEF BooksDraftOk

LEMMA BooksRowKeeps ==
  ASSUME BooksIInv, NEW s \in Sessions, NEW key, NEW row, NEW state,
         InsertRow(s, key, row, state), \A t \in Sessions : t # s => key \notin DOMAIN draft[t],
         BooksRowOk(key, row, db), NEW D2, D2 = AddRow(draft[s], key, row),
         BooksOk(state, D2, Seen(D2, db), db)
  PROVE  BooksIInv'
<1> DEFINE rows == [k \in {key} |-> row]
           D == draft[s]
<1>1. Insert(s, rows, state) /\ DOMAIN rows = {key} /\ rows[key] = row
  BY DEF InsertRow
<1> HIDE DEF rows
<1>2. D2 = [k \in DOMAIN D \cup DOMAIN rows |-> IF k \in DOMAIN rows THEN rows[k] ELSE D[k]]
  BY <1>1 DEF AddRow
<1>3. \A t \in Sessions : t # s => DOMAIN rows \cap DOMAIN draft[t] = {}
  BY <1>1
<1>4. /\ DOMAIN D2 = DOMAIN D \cup {key} /\ D2[key] = row
      /\ \A k \in DOMAIN D : k # key => D2[k] = D[k]
  BY DEF AddRow
<1>5. BooksDraftOk(D2, db)
  <2>1. BooksDraftOk(D, db)
    BY DEF BooksIInv
  <2>2. IsFiniteSet(DOMAIN D2)
    BY <1>4, <2>1, FS_AddElement DEF BooksDraftOk
  <2>3. \A k \in DOMAIN D2 : BooksRowOk(k, D2[k], db)
    BY <1>4, <2>1, DraftOkByRow
  <2> QED  BY <2>2, <2>3, DraftOkByRow
<1> QED  BY <1>1, <1>2, <1>3, <1>5, BooksInsertKeeps

\* The row a command wants: one it changes, or a new one.
LEMMA BooksUpdateKeeps ==
  ASSUME BooksIInv, NEW s \in Sessions, NEW row, NEW state, FlushUpdate(s, row, state),
         NEW key, key = sess[s].want, NEW q, q = [state EXCEPT !.want = NONE],
         NEW D2, D2 = AddRow(draft[s], key, row),
         key # NONE => BooksRowOk(key, row, db) /\ BooksOk(q, D2, Seen(D2, db), db)
  PROVE  BooksIInv'
<1>1. InsertRow(s, key, row, q) /\ key # NONE
  BY DEF FlushUpdate, Flush
<1>2. \A t \in Sessions : t # s => key \notin DOMAIN draft[t]
  BY DEF FlushUpdate, Free, WaitsFor
<1> QED  BY <1>1, <1>2, BooksRowKeeps

LEMMA BooksFlushKeeps ==
  ASSUME BooksIInv, NEW s \in Sessions, NEW row, NEW state, FlushNew(s, row, state),
         NEW key, key = sess[s].want, NEW q, q = [state EXCEPT !.want = NONE],
         NEW D2, D2 = AddRow(draft[s], key, row),
         key # NONE /\ key \notin DOMAIN db /\ key \notin DOMAIN draft[s] =>
            BooksRowOk(key, row, db) /\ BooksOk(q, D2, Seen(D2, db), db)
  PROVE  BooksIInv'
<1>1. CASE Sees(s, key)
  BY <1>1, BooksRollbackKeeps DEF FlushNew
<1>2. CASE ~Sees(s, key)
  <2>1. key \notin DOMAIN db /\ key \notin DOMAIN draft[s]
    BY <1>2 DEF Sees
  <2>2. FlushUpdate(s, row, state)
    BY <1>2 DEF FlushNew, FlushUpdate
  <2> QED  BY <2>1, <2>2, BooksUpdateKeeps
<1> QED  BY <1>1, <1>2

\* An id drawn for a new row is nobody's.
LEMMA BooksFreshKey ==
  ASSUME BooksIInv, NEW tag \in {"run", "snapshot", "lots"}, IsFiniteSet(Sessions)
  PROVE  /\ <<tag, Fresh(tag)>> \notin DOMAIN db
         /\ \A t \in Sessions : <<tag, Fresh(tag)>> \notin DOMAIN draft[t]
<1>1. IsFiniteSet(Of(db, tag))
  BY DEF BooksIInv, Booked
<1>2. ASSUME NEW t \in Sessions PROVE IsFiniteSet(Of(draft[t], tag))
  <2>1. IsFiniteSet(DOMAIN draft[t]) /\ Of(draft[t], tag) \subseteq DOMAIN draft[t]
    BY DEF BooksIInv, BooksDraftOk, Of
  <2> QED  BY <2>1, FS_Subset
<1>3. FiniteTable(tag)
  BY <1>1, <1>2 DEF FiniteTable
<1> QED  BY <1>3, FreshIsNew

-----------------------------------------------------------------------------
(* Commits.                                                                *)

\* Each stored run r has ended, with the snapshot p and no other.
RunReported(rows, r, p) ==
    /\ \A q \in Of(rows, "snapshot") : rows[q].run = r => q = p
    /\ rows[p].run = r /\ rows[r].status # "running"
    /\ Len(rows[p].holdings) = rows[r].ingested
    /\ rows[r].status = "success" <=> rows[r].failed = 0

LEMMA ReportedIs ==
  ASSUME NEW rows
  PROVE  Reported(rows) <=>
            /\ \A p \in Of(rows, "snapshot") : rows[p].run \in Of(rows, "run")
            /\ \A r \in Of(rows, "run") : \E p \in Of(rows, "snapshot") : RunReported(rows, r, p)
  BY DEF Reported, RunReported

\* A draft without runs and snapshots.
LEMMA ReportedStands ==
  ASSUME NEW D, NEW V, NEW R, Overlay(D, V, R), Reported(R),
         Of(D, "run") = {}, Of(D, "snapshot") = {}
  PROVE  Reported(V)
<1>1. \A tag \in {"run", "snapshot"} :
        Of(V, tag) = Of(R, tag) /\ \A k \in Of(V, tag) : V[k] = R[k]
  BY DEF Overlay, Of
<1>2. Of(V, "run") = Of(R, "run") /\ Of(V, "snapshot") = Of(R, "snapshot")
      /\ (\A k \in Of(R, "run") : V[k] = R[k]) /\ \A k \in Of(R, "snapshot") : V[k] = R[k]
  BY <1>1
<1>3. ASSUME NEW r \in Of(R, "run"), NEW p \in Of(R, "snapshot"), RunReported(R, r, p)
      PROVE  RunReported(V, r, p)
  BY <1>2, <1>3 DEF RunReported
<1> QED  BY <1>2, <1>3, ReportedIs

LEMMA StatusTells ==
  ASSUME NEW n \in Nat, NEW failed \in SUBSET (1..n)
  PROVE  StatusOf(failed) # "running" /\ (StatusOf(failed) = "success" <=> Cardinality(failed) = 0)
<1>1. IsFiniteSet(failed)
  <2>1. IsFiniteSet(1..n)
    BY FS_Interval
  <2> QED  BY <2>1, FS_Subset
<1>2. Cardinality(failed) = 0 <=> failed = {}
  BY <1>1, FS_EmptySet
<1> QED  BY <1>2 DEF StatusOf

\* The draft of a sync that ends: one run, one snapshot.
LEMMA SyncReports ==
  ASSUME NEW r, NEW D, NEW V, NEW R, Overlay(D, V, R), Reported(R), BooksDraftOk(D, R),
         SyncOk(r, D, V, R), r.pc = "commit"
  PROVE  Reported(V)
<1>1. Of(D, "run") = {r.run} /\ Persisted(r, D) /\ Progress(r)
  BY DEF SyncOk
<1>2. PICK p \in Of(D, "snapshot") :
         /\ \A q \in Of(D, "snapshot") : q = p
         /\ D[p].run = r.run /\ D[p].holdings = r.holdings
  BY <1>1 DEF Persisted
<1> DEFINE u == r.run
<1>3. /\ D[u].status = StatusOf(r.failed) /\ D[u].ingested = Len(r.holdings)
      /\ D[u].failed = Cardinality(r.failed)
  BY <1>1 DEF Persisted
<1>4. D[u].status # "running" /\ (D[u].status = "success" <=> D[u].failed = 0)
  <2>1. \E n \in Nat : r.failed \subseteq 1..n
    BY <1>1 DEF Progress
  <2> QED  BY <1>3, <2>1, StatusTells
<1>5. u \in Of(D, "run") /\ u \notin DOMAIN R /\ p \notin DOMAIN R
  BY <1>1 DEF BooksDraftOk
<1>6. /\ Of(V, "run") = Of(R, "run") \cup {u} /\ Of(V, "snapshot") = Of(R, "snapshot") \cup {p}
      /\ V[u] = D[u] /\ V[p] = D[p]
      /\ \A k \in Of(R, "run") \cup Of(R, "snapshot") : V[k] = R[k] /\ k # u /\ k # p
  <2>1. Of(D, "snapshot") = {p}
    BY <1>2
  <2>2. \A tag : Of(V, tag) = Of(R, tag) \cup Of(D, tag)
    BY DEF Overlay, Of
  <2>3. Of(V, "run") = Of(R, "run") \cup {u} /\ Of(V, "snapshot") = Of(R, "snapshot") \cup {p}
    BY <1>1, <2>1, <2>2
  <2>4. u \in DOMAIN D /\ p \in DOMAIN D /\ \A tag : \A k \in Of(R, tag) : k \in DOMAIN R
    BY <1>1, <2>1 DEF Of
  <2>5. V[u] = D[u] /\ V[p] = D[p]
    BY <2>4 DEF Overlay
  <2>6. ASSUME NEW k \in Of(R, "run") \cup Of(R, "snapshot") PROVE V[k] = R[k] /\ k # u /\ k # p
    <3>1. k \in DOMAIN R /\ (k[1] = "run" \/ k[1] = "snapshot")
      BY DEF Of
    <3>2. k \notin DOMAIN D
      <4>1. k \in DOMAIN D => k \in Of(D, "run") \cup Of(D, "snapshot")
        BY <3>1 DEF Of
      <4> QED  BY <3>1, <4>1 DEF BooksDraftOk
    <3> QED  BY <2>4, <3>1, <3>2 DEF Overlay
  <2> QED  BY <2>3, <2>5, <2>6
<1> HIDE DEF u
<1>7. \A q \in Of(V, "snapshot") : V[q].run \in Of(V, "run")
  BY <1>2, <1>6 DEF Reported, u
<1>8. ASSUME NEW x \in Of(V, "run") PROVE \E y \in Of(V, "snapshot") : RunReported(V, x, y)
  <2>1. CASE x = u
    <3>1. \A q \in Of(R, "snapshot") : V[q].run # u
      BY <1>6 DEF Reported
    <3>2. RunReported(V, u, p)
      BY <1>2, <1>3, <1>4, <1>6, <3>1 DEF RunReported, u
    <3> QED  BY <1>6, <2>1, <3>2
  <2>2. CASE x # u
    <3>1. x \in Of(R, "run")
      BY <1>6, <2>2
    <3>2. PICK y \in Of(R, "snapshot") : RunReported(R, x, y)
      BY <3>1, ReportedIs
    <3>3. V[p].run # x
      BY <1>2, <1>6, <2>2 DEF u
    <3>4. RunReported(V, x, y)
      BY <1>6, <3>1, <3>2, <3>3 DEF RunReported
    <3> QED  BY <1>6, <3>4
  <2> QED  BY <2>1, <2>2
<1> QED  BY <1>7, <1>8, ReportedIs

LEMMA CommitIsBooked ==
  ASSUME NEW r, NEW D, NEW V, NEW R, Overlay(D, V, R), Booked(R), BooksDraftOk(D, R),
         BooksOk(r, D, V, R), r.pc = "commit"
  PROVE  Booked(V)
<1>1. \A k \in Of(V, "ledger") : k \in Of(R, "ledger")
  BY DEF Overlay, Of, BooksDraftOk, Only, BooksTables
<1>2. ASSUME NEW k \in Of(V, "adjustment")
      PROVE  \E o \in Openings : k = Adjustment(o.symbol) /\ V[k] = Opened(o)
  <2>1. CASE k \in DOMAIN D
    <3>1. k \in Of(D, "adjustment") /\ V[k] = D[k]
      BY <2>1 DEF Of, Overlay
    <3> QED  BY <3>1 DEF BooksDraftOk
  <2>2. CASE k \notin DOMAIN D
    <3>1. k \in Of(R, "adjustment") /\ V[k] = R[k]
      BY <2>2 DEF Of, Overlay
    <3> QED  BY <3>1 DEF Booked
  <2> QED  BY <2>1, <2>2
<1>3. ASSUME NEW tag \in {"run", "snapshot", "lots"} PROVE IsFiniteSet(Of(V, tag))
  <2>1. Of(V, tag) = Of(R, tag) \cup Of(D, tag) /\ Of(D, tag) \subseteq DOMAIN D
    BY DEF Of, Overlay
  <2>2. IsFiniteSet(Of(R, tag)) /\ IsFiniteSet(DOMAIN D)
    BY DEF Booked, BooksDraftOk
  <2> QED  BY <2>1, <2>2, FS_Subset, FS_Union
<1>4. Reported(R)
  BY DEF Booked
<1>5. Reported(V)
  <2>1. CASE SyncOk(r, D, V, R)
    BY <1>4, <2>1, SyncReports
  <2>2. CASE AdjustOk(r, D, V, R) \/ RebuildOk(r, D, V, R)
    <3>1. Of(D, "run") = {} /\ Of(D, "snapshot") = {}
      BY <2>2 DEF AdjustOk, RebuildOk, Only, Of
    <3> QED  BY <1>4, <3>1, ReportedStands
  <2> QED  BY <2>1, <2>2 DEF BooksOk, ReconcileOk, Idle
<1>6. \A k \in Of(R, "ledger") : \E f \in Facts : k = Ledger(f)
  BY DEF Booked
<1> QED  BY <1>1, <1>2, <1>3, <1>5, <1>6 DEF Booked

\* How the commit of a draft looks to a session with another.
LEMMA CommitGrows ==
  ASSUME NEW D, NEW V, NEW R, NEW E, Overlay(D, V, R), BooksDraftOk(D, R),
         DOMAIN D \cap DOMAIN E = {}
  PROVE  BooksGrown(E, R, V)
<1>1. DOMAIN R \subseteq DOMAIN V /\ \A k \in DOMAIN E : k \in DOMAIN V => k \in DOMAIN R /\ V[k] = R[k]
  BY DEF Overlay
<1>2. ASSUME NEW k \in Of(R, "lots"), ~R[k].live PROVE ~V[k].live
  <2>1. CASE k \in DOMAIN D
    <3>1. k \in Of(D, "lots") /\ V[k] = D[k] /\ k \in DOMAIN R
      BY <2>1 DEF Of, Overlay
    <3> QED  BY <3>1 DEF BooksDraftOk
  <2>2. CASE k \notin DOMAIN D
    <3>1. V[k] = R[k]
      BY <2>2 DEF Of, Overlay
    <3> QED  BY <1>2, <3>1
  <2> QED  BY <2>1, <2>2
<1> QED  BY <1>1, <1>2 DEF BooksGrown

\* The committed rows change; a session is idle again, or goes on with its draft.
LEMMA BooksCommittedStep ==
  ASSUME BooksIInv, Booked(db'),
         draft' = [t \in Sessions |-> draft'[t]], sess' = [t \in Sessions |-> sess'[t]],
         \A t \in Sessions :
            \/ draft'[t] = Nothing /\ sess'[t] = Idle
            \/ draft'[t] = draft[t] /\ sess'[t] = sess[t] /\ BooksGrown(draft[t], db, db')
  PROVE  BooksIInv'
<1>1. DOMAIN Nothing = {}
  BY DEF Nothing
<1>2. DraftsDisjoint'
  <2>1. \A t \in Sessions : DOMAIN draft'[t] \subseteq DOMAIN draft[t]
    BY <1>1
  <2> QED  BY <2>1 DEF BooksIInv, DraftsDisjoint
<1>3. ASSUME NEW t \in Sessions
      PROVE  (BooksOk(sess[t], draft[t], View(t), db) /\ BooksDraftOk(draft[t], db))'
  <2>1. CASE draft'[t] = Nothing /\ sess'[t] = Idle
    BY <1>1, <2>1, EmptyDraftIsOk DEF BooksOk
  <2>2. CASE draft'[t] = draft[t] /\ sess'[t] = sess[t] /\ BooksGrown(draft[t], db, db')
    <3>1. Overlay(draft[t], View(t), db) /\ Overlay(draft[t], View(t)', db')
      BY <2>2, ViewIs DEF Overlay, View
    <3>2. BooksOk(sess[t], draft[t], View(t), db) /\ BooksDraftOk(draft[t], db)
      BY DEF BooksIInv
    <3>3. BooksOk(sess[t], draft[t], View(t)', db') /\ BooksDraftOk(draft[t], db')
      BY <2>2, <3>1, <3>2, BooksOkStands, BooksDraftStands
    <3> QED  BY <2>2, <3>3
  <2> QED  BY <2>1, <2>2
<1> QED  BY <1>2, <1>3 DEF BooksIInv

LEMMA BooksCommitKeeps ==
  ASSUME BooksIInv, NEW s \in Sessions, At(s, "commit"), Commit(s, Idle)
  PROVE  BooksIInv'
<1>1. BooksOk(sess[s], draft[s], View(s), db) /\ BooksDraftOk(draft[s], db) /\ Booked(db)
      /\ Overlay(draft[s], View(s), db) /\ sess[s].pc = "commit" /\ db' = View(s)
  BY ViewIs DEF BooksIInv, At, Commit
<1>2. Booked(db')
  BY <1>1, CommitIsBooked
<1>3. /\ draft' = [t \in Sessions |-> draft'[t]] /\ sess' = [t \in Sessions |-> sess'[t]]
      /\ draft'[s] = Nothing /\ sess'[s] = Idle
      /\ \A t \in Sessions : t # s => draft'[t] = draft[t] /\ sess'[t] = sess[t]
  BY DEF Commit, Become, BooksIInv
<1>4. ASSUME NEW t \in Sessions, t # s PROVE BooksGrown(draft[t], db, db')
  <2>1. DOMAIN draft[s] \cap DOMAIN draft[t] = {}
    BY <1>4 DEF BooksIInv, DraftsDisjoint
  <2> QED  BY <1>1, <2>1, CommitGrows
<1> QED  BY <1>2, <1>3, <1>4, BooksCommittedStep

\* An import adds what was not recorded.
LEMMA ImportKeeps ==
  ASSUME BooksIInv, NEW s \in Sessions, Import(s)
  PROVE  BooksIInv'
<1>1. PICK F \in SUBSET {f \in Facts : Ledger(f) \notin DOMAIN db} :
         db' = [k \in DOMAIN db \cup {Ledger(f) : f \in F} |->
                   IF k \in DOMAIN db THEN db[k] ELSE TRUE]
  BY DEF Import
<1> DEFINE new == {Ledger(f) : f \in F}
<1>2. \A k \in new : k[1] = "ledger" /\ \E f \in Facts : k = Ledger(f)
  BY DEF Ledger
<1>3. DOMAIN db' = DOMAIN db \cup new /\ \A k \in DOMAIN db : db'[k] = db[k]
  BY <1>1
<1> HIDE DEF new
<1>4. \A tag : tag # "ledger" => Of(db', tag) = Of(db, tag)
  BY <1>2, <1>3 DEF Of
<1>5. \A tag : \A k \in Of(db, tag) : k \in DOMAIN db /\ k[1] = tag
  BY DEF Of
<1>6. Booked(db')
  <2>1. Booked(db)
    BY DEF BooksIInv
  <2>2. \A k \in Of(db', "ledger") : \E f \in Facts : k = Ledger(f)
    BY <1>2, <1>3, <2>1 DEF Booked, Of
  <2>3. \A k \in Of(db', "adjustment") :
          \E o \in Openings : k = Adjustment(o.symbol) /\ db'[k] = Opened(o)
    BY <1>3, <1>4, <1>5, <2>1 DEF Booked
  <2>4. \A tag \in {"run", "snapshot", "lots"} : IsFiniteSet(Of(db', tag))
    BY <1>4, <2>1 DEF Booked
  <2>5. Reported(db')
    <3>1. Of(db', "run") = Of(db, "run") /\ Of(db', "snapshot") = Of(db, "snapshot")
          /\ (\A k \in Of(db, "run") : db'[k] = db[k]) /\ \A k \in Of(db, "snapshot") : db'[k] = db[k]
      BY <1>3, <1>4, <1>5
    <3>2. ASSUME NEW r \in Of(db, "run"), NEW p \in Of(db, "snapshot"), RunReported(db, r, p)
          PROVE  RunReported(db', r, p)
      BY <3>1, <3>2 DEF RunReported
    <3> QED  BY <2>1, <3>1, <3>2, ReportedIs DEF Booked
  <2> QED  BY <2>2, <2>3, <2>4, <2>5 DEF Booked
<1>7. ASSUME NEW t \in Sessions PROVE BooksGrown(draft[t], db, db')
  <2>1. \A k \in DOMAIN draft[t] : k[1] # "ledger"
    BY DEF BooksIInv, BooksDraftOk, Only, BooksTables
  <2>2. \A k \in DOMAIN draft[t] : k \in DOMAIN db' => k \in DOMAIN db /\ db'[k] = db[k]
    BY <1>2, <1>3, <2>1
  <2> QED  BY <1>3, <1>4, <1>5, <2>2 DEF BooksGrown
<1>8. draft' = draft /\ sess' = sess
  BY DEF Import
<1> QED  BY <1>6, <1>7, <1>8, BooksCommittedStep DEF BooksIInv

-----------------------------------------------------------------------------
(* The commands begin.                                                     *)

LEMMA BooksStartKeeps ==
  ASSUME BooksIInv, NEW s \in Sessions, NEW state, Start(s, state),
         DOMAIN draft[s] = {} => BooksOk(state, draft[s], View(s), db)
  PROVE  BooksIInv'
<1>1. DOMAIN draft[s] = {}
  BY BooksIdleIsEmpty DEF Start
<1> QED  BY <1>1, QuietKeeps

LEMMA BeginPortfolioSyncKeeps ==
  ASSUME BooksIInv, NEW s \in Sessions, BeginPortfolioSync(s)
  PROVE  BooksIInv'
<1> DEFINE r == SyncCommand
<1>1. /\ BooksShape(r, SyncFields) /\ r.kind = "sync" /\ r.pc = "run" /\ r.want = NONE
      /\ r.holdings = <<>> /\ r.failed = {}
  BY DEF SyncCommand, BooksShape, SyncFields
<1>2. Start(s, r)
  BY DEF BeginPortfolioSync
<1> HIDE DEF r
<1>3. DOMAIN draft[s] = {} => SyncOk(r, draft[s], View(s), db)
  BY <1>1 DEF SyncOk, SyncWant, AtHolding, Of, KeepsIdentity
<1> QED  BY <1>2, <1>3, BooksStartKeeps DEF BooksOk

LEMMA BeginAdjustmentKeeps ==
  ASSUME BooksIInv, NEW s \in Sessions, BeginAdjustment(s)
  PROVE  BooksIInv'
<1> DEFINE q(o) == [AdjustCommand EXCEPT !.opening = o]
<1>1. PICK o \in Openings : Start(s, q(o))
  BY DEF BeginAdjustment
<1>2. /\ BooksShape(q(o), AdjustFields) /\ q(o).kind = "adjust" /\ q(o).pc = "company"
      /\ q(o).want = NONE /\ q(o).opening = o
  BY DEF AdjustCommand, BooksShape, AdjustFields
<1> HIDE DEF q
<1>3. DOMAIN draft[s] = {} => AdjustOk(q(o), draft[s], View(s), db)
  BY <1>2 DEF AdjustOk, Only, Of
<1> QED  BY <1>1, <1>3, BooksStartKeeps DEF BooksOk

LEMMA BeginRebuildKeeps ==
  ASSUME BooksIInv, NEW s \in Sessions, BeginRebuild(s)
  PROVE  BooksIInv'
<1> DEFINE r == RebuildCommand
<1>1. BooksShape(r, RebuildFields) /\ r.kind = "rebuild" /\ r.pc = "latest" /\ r.want = NONE
  BY DEF RebuildCommand, BooksShape, RebuildFields
<1>2. Start(s, r)
  BY DEF BeginRebuild
<1> HIDE DEF r
<1>3. DOMAIN draft[s] = {} => RebuildOk(r, draft[s], View(s), db)
  BY <1>1 DEF RebuildOk, Only
<1> QED  BY <1>2, <1>3, BooksStartKeeps DEF BooksOk

\* What was recorded when a comparison begins.
Began(R) == {k[2] : k \in Of(R, "ledger")} \cup {R[k] : k \in Of(R, "adjustment")}

LEMMA BeganIsRecorded ==
  ASSUME ReconstructionAssumption, NEW R, Booked(R), BeganComplete(Began(R))
  PROVE  AllRecorded(R)
<1>1. \A f \in Facts : f.kind # "OPENING"
  BY DEF ReconstructionAssumption
<1>2. \A k \in Of(R, "ledger") : k[2] \in Facts /\ k = Ledger(k[2])
  <2>1. \A f : Ledger(f)[2] = f
    BY DEF Ledger
  <2> QED  BY <2>1 DEF Booked
<1>3. \A k \in Of(R, "adjustment") :
        \E o \in Openings : k = Adjustment(o.symbol) /\ R[k].kind = "OPENING" /\ R[k].symbol = o.symbol
  <2>1. \A o : Opened(o).kind = "OPENING" /\ Opened(o).symbol = o.symbol
    BY DEF Opened
  <2> QED  BY <2>1 DEF Booked
<1>4. \A tag : Of(R, tag) \subseteq DOMAIN R
  BY DEF Of
<1>5. ASSUME NEW f \in Facts PROVE Ledger(f) \in DOMAIN R
  <2>1. f \in Began(R)
    BY DEF BeganComplete
  <2>2. f \notin {R[k] : k \in Of(R, "adjustment")}
    BY <1>1, <1>3
  <2>3. PICK k \in Of(R, "ledger") : f = k[2]
    BY <2>1, <2>2 DEF Began
  <2> QED  BY <1>2, <1>4, <2>3
<1>6. ASSUME NEW o \in Openings PROVE Adjustment(o.symbol) \in DOMAIN R
  <2>1. PICK a \in Began(R) : a.kind = "OPENING" /\ a.symbol = o.symbol
    BY DEF BeganComplete
  <2>2. a \notin {k[2] : k \in Of(R, "ledger")}
    BY <1>1, <1>2, <2>1
  <2>3. PICK k \in Of(R, "adjustment") : a = R[k]
    BY <2>1, <2>2 DEF Began
  <2>4. k = Adjustment(o.symbol)
    BY <1>3, <2>1, <2>3
  <2> QED  BY <1>4, <2>3, <2>4
<1> QED  BY <1>5, <1>6 DEF AllRecorded

\* The whole list is left.
LEMMA RestOfAll ==
  ASSUME NEW all, all \in Seq(Range(all))
  PROVE  Remainder(all, all, 0)
<1>1. Len(all) \in Nat
  BY LenProperties
<1> QED  BY <1>1 DEF Remainder

LEMMA BeginReconcileKeeps ==
  ASSUME BooksIInv, NEW s \in Sessions, BeginReconcile(s), ReconstructionAssumption,
         StatementsAssumption
  PROVE  BooksIInv'
<1> DEFINE q(d) == [ReconcileCommand EXCEPT !.todo = d, !.began = Began(db)]
<1>1. PICK d \in Directories : Start(s, q(d))
  BY DEF BeginReconcile, Began
<1>2. /\ BooksShape(q(d), ReconcileFields) /\ q(d).kind = "reconcile" /\ q(d).pc = "actions"
      /\ q(d).want = NONE /\ q(d).todo = d /\ q(d).began = Began(db) /\ q(d).gaps = {}
      /\ q(d).diffs = {}
  BY DEF ReconcileCommand, BooksShape, ReconcileFields
<1> HIDE DEF q
<1>3. Remainder(d, d, 0)
  BY RestOfAll DEF StatementsAssumption
<1>4. GapsOf(d, 0) = {}
  BY DEF GapsOf
<1>5. BeganComplete(Began(db)) => AllRecorded(db)
  BY BeganIsRecorded DEF BooksIInv
<1>6. Compared(q(d), d, 0)
  BY <1>2, <1>4 DEF Compared
<1>7. DOMAIN draft[s] = {} => ReconcileOk(q(d), draft[s], db)
  BY <1>2, <1>3, <1>5, <1>6 DEF ReconcileOk
<1> QED  BY <1>1, <1>7, BooksStartKeeps DEF BooksOk

-----------------------------------------------------------------------------
(* Which command a session runs.                                           *)

LEMMA BooksCommandIs ==
  ASSUME BooksIInv, NEW s \in Sessions, NEW pc, At(s, pc), pc # "idle"
  PROVE  /\ BooksDraftOk(draft[s], db) /\ Booked(db) /\ Overlay(draft[s], View(s), db)
         /\ sess[s].pc = pc
         /\ \/ SyncOk(sess[s], draft[s], View(s), db) \/ AdjustOk(sess[s], draft[s], View(s), db)
            \/ RebuildOk(sess[s], draft[s], View(s), db) \/ ReconcileOk(sess[s], draft[s], db)
<1>1. BooksOk(sess[s], draft[s], View(s), db) /\ BooksDraftOk(draft[s], db) /\ Booked(db)
      /\ Overlay(draft[s], View(s), db) /\ sess[s].pc = pc
  BY ViewIs DEF BooksIInv, At
<1> QED  BY <1>1 DEF BooksOk, Idle

-----------------------------------------------------------------------------
(* The opening adjustments.                                                *)

LEMMA AdjustIs ==
  ASSUME BooksIInv, NEW s \in Sessions,
         At(s, "company") \/ At(s, "adjust")
  PROVE  AdjustOk(sess[s], draft[s], View(s), db) /\ BooksShape(sess[s], AdjustFields)
  BY BooksCommandIs DEF SyncOk, AtHolding, RebuildOk, ReconcileOk, AdjustOk

LEMMA AdjustedCompanyKeeps ==
  ASSUME BooksIInv, NEW s \in Sessions, AdjustedCompany(s)
  PROVE  BooksIInv'
<1> DEFINE r == sess[s]
           D == draft[s]
           key == Company(r.opening.symbol)
           found == [r EXCEPT !.pc = "adjust"]
           wants == [r EXCEPT !.want = key]
           q == [found EXCEPT !.want = NONE]
<1>1. AdjustOk(r, D, View(s), db) /\ BooksShape(r, AdjustFields) /\ r.pc = "company"
  BY AdjustIs DEF AdjustedCompany, At
<1>2. /\ BooksShape(found, AdjustFields) /\ found.kind = r.kind /\ found.pc = "adjust"
      /\ found.want = r.want /\ found.opening = r.opening
  BY <1>1 DEF BooksShape, AdjustFields
<1>3. /\ BooksShape(wants, AdjustFields) /\ wants.kind = r.kind /\ wants.pc = "company"
      /\ wants.want = key /\ wants.opening = r.opening
  BY <1>1 DEF BooksShape, AdjustFields
<1>4. /\ BooksShape(q, AdjustFields) /\ q.kind = r.kind /\ q.pc = "adjust" /\ q.want = NONE
      /\ q.opening = r.opening
  BY <1>1 DEF BooksShape, AdjustFields
<1>5. q = [found EXCEPT !.want = NONE]
  OBVIOUS
<1>6. \/ r.want = NONE /\ (Local(s, found) \/ Local(s, wants))
      \/ FlushNew(s, [isin |-> NONE], found)
  BY DEF AdjustedCompany
<1> HIDE DEF found, wants, q
<1>7. CASE r.want = NONE /\ Local(s, found)
  <2>1. AdjustOk(found, D, View(s), db)
    BY <1>1, <1>2, <1>7 DEF AdjustOk
  <2> QED  BY <1>7, <2>1, QuietKeeps DEF BooksOk
<1>8. CASE r.want = NONE /\ Local(s, wants)
  <2>1. AdjustOk(wants, D, View(s), db)
    BY <1>1, <1>3 DEF AdjustOk
  <2> QED  BY <1>8, <2>1, QuietKeeps DEF BooksOk
<1>9. CASE FlushNew(s, [isin |-> NONE], found)
  <2> DEFINE row == [isin |-> NONE]
             D2 == AddRow(D, r.want, row)
  <2>1. r.want # NONE => r.want = key
    BY <1>1 DEF AdjustOk
  <2>2. key[1] = "company"
    BY DEF Company
  <2>3. r.want # NONE => BooksRowOk(r.want, row, db)
    BY <2>1, <2>2 DEF BooksRowOk, BooksTables
  <2>4. r.want # NONE /\ r.want \notin DOMAIN db => AdjustOk(q, D2, Seen(D2, db), db)
    BY <1>1, <1>4, <2>1, <2>2 DEF AdjustOk, Only, AddRow, Of
  <2> HIDE DEF D2
  <2>5. D2 = AddRow(D, r.want, row)
    BY DEF D2
  <2> QED  BY <1>5, <1>9, <2>3, <2>4, <2>5, BooksFlushKeeps DEF BooksOk
<1> QED  BY <1>6, <1>7, <1>8, <1>9

\* The one opening of a symbol.
LEMMA OneOpening ==
  ASSUME ReconstructionAssumption, NEW o \in Openings, NEW p \in Openings,
         Adjustment(o.symbol) = Adjustment(p.symbol)
  PROVE  o = p
<1>1. o.symbol = p.symbol
  BY DEF Adjustment
<1> QED  BY <1>1 DEF ReconstructionAssumption

LEMMA AdjustKeeps ==
  ASSUME BooksIInv, NEW s \in Sessions, Adjust(s), ReconstructionAssumption
  PROVE  BooksIInv'
<1> DEFINE r == sess[s]
           D == draft[s]
           V == View(s)
           o == r.opening
           row == Opened(o)
           key == Adjustment(row.symbol)
           after == [r EXCEPT !.pc = "commit"]
           wants == [r EXCEPT !.want = key, !.known = IF Sees(s, key) THEN V[key] ELSE NONE]
           q == [after EXCEPT !.want = NONE]
           kept == [c \in DOMAIN row |-> IF row[c] = r.known[c] THEN V[key][c] ELSE row[c]]
<1>1. AdjustOk(r, D, V, db) /\ BooksShape(r, AdjustFields) /\ r.pc = "adjust"
  BY AdjustIs DEF Adjust, At
<1>2. o \in Openings /\ row.symbol = o.symbol /\ key = Adjustment(o.symbol)
      /\ key[1] = "adjustment"
  BY <1>1 DEF AdjustOk, Opened, Adjustment
<1>3. \/ r.want = NONE /\ Local(s, wants)
      \/ r.known # NONE /\ FlushUpdate(s, kept, after)
      \/ r.known = NONE /\ FlushNew(s, row, after)
  BY DEF Adjust
<1>4. /\ BooksShape(wants, AdjustFields) /\ wants.kind = r.kind /\ wants.pc = "adjust"
      /\ wants.want = key /\ wants.opening = o
      /\ (wants.known # NONE => Sees(s, key))
  BY <1>1 DEF BooksShape, AdjustFields
<1>5. /\ BooksShape(q, AdjustFields) /\ q.kind = r.kind /\ q.pc = "commit" /\ q.want = NONE
      /\ q.opening = o
  BY <1>1 DEF BooksShape, AdjustFields
<1>6. q = [after EXCEPT !.want = NONE]
  OBVIOUS
<1>7. r.want # NONE => r.want = key /\ (r.known # NONE => key \in DOMAIN V)
  BY <1>1, <1>2 DEF AdjustOk
<1>8. key \in DOMAIN V => V[key] = row
  <2>1. CASE key \in DOMAIN D
    <3>1. V[key] = D[key] /\ key \in Of(D, "adjustment")
      BY <1>2, <2>1 DEF View, Of
    <3>2. PICK p \in Openings : key = Adjustment(p.symbol) /\ D[key] = Opened(p)
      BY <3>1 DEF BooksIInv, BooksDraftOk
    <3> QED  BY <1>2, <3>1, <3>2, OneOpening
  <2>2. CASE key \in DOMAIN db /\ key \notin DOMAIN D
    <3>1. V[key] = db[key] /\ key \in Of(db, "adjustment")
      BY <1>2, <2>2 DEF View, Of
    <3>2. PICK p \in Openings : key = Adjustment(p.symbol) /\ db[key] = Opened(p)
      BY <3>1 DEF BooksIInv, Booked
    <3> QED  BY <1>2, <3>1, <3>2, OneOpening
  <2> QED  BY <2>1, <2>2 DEF View
<1>9. key \in DOMAIN V => kept = row
  <2>1. row = [c \in DOMAIN row |-> row[c]]
    BY DEF Opened
  <2> QED  BY <1>8, <2>1
<1>10. DOMAIN V = DOMAIN db \cup DOMAIN D
  BY DEF View
<1> HIDE DEF after, wants, q, row, kept
<1>11. CASE r.want = NONE /\ Local(s, wants)
  <2>1. AdjustOk(wants, D, V, db)
    BY <1>1, <1>2, <1>4, <1>10 DEF AdjustOk, Sees
  <2> HIDE DEF V
  <2>2. AdjustOk(wants, D, View(s), db)
    BY <2>1 DEF V
  <2> QED  BY <1>11, <2>2, QuietKeeps DEF BooksOk
<1>12. BooksRowOk(key, row, db)
  BY <1>2 DEF BooksRowOk, BooksTables, row
<1>13. AdjustOk(q, AddRow(D, key, row), Seen(AddRow(D, key, row), db), db)
  BY <1>1, <1>2, <1>5 DEF AdjustOk, Only, AddRow, Of
<1> DEFINE D2 == AddRow(D, r.want, row)
<1>14. D2 = AddRow(D, r.want, row)
  OBVIOUS
<1>15. r.want # NONE => BooksRowOk(r.want, row, db) /\ BooksOk(q, D2, Seen(D2, db), db)
  BY <1>7, <1>12, <1>13 DEF BooksOk
<1> HIDE DEF D2
<1>16. CASE r.known # NONE /\ FlushUpdate(s, kept, after)
  <2>1. FlushUpdate(s, row, after)
    BY <1>7, <1>9, <1>16 DEF FlushUpdate
  <2> QED  BY <1>6, <1>14, <1>15, <2>1, BooksUpdateKeeps
<1>17. CASE FlushNew(s, row, after)
  BY <1>6, <1>14, <1>15, <1>17, BooksFlushKeeps
<1> QED  BY <1>3, <1>11, <1>16, <1>17

-----------------------------------------------------------------------------
(* The rebuilds.                                                           *)

LEMMA RebuildIs ==
  ASSUME BooksIInv, NEW s \in Sessions,
         At(s, "latest") \/ At(s, "trades") \/ At(s, "delete") \/ At(s, "deleting")
  PROVE  RebuildOk(sess[s], draft[s], View(s), db) /\ BooksShape(sess[s], RebuildFields)
  BY BooksCommandIs DEF SyncOk, AtHolding, AdjustOk, ReconcileOk, RebuildOk

Early == {"latest", "trades", "actions", "openings", "delete"}

\* Until it deletes, a rebuild only reads.
LEMMA RebuildReads ==
  ASSUME BooksIInv, NEW s \in Sessions, RebuildOk(sess[s], draft[s], View(s), db),
         sess[s].pc \in Early, NEW q, Local(s, q), BooksShape(q, RebuildFields),
         q.kind = sess[s].kind, q.pc \in Early, q.want = sess[s].want
  PROVE  BooksIInv'
<1>1. RebuildOk(q, draft[s], View(s), db)
  BY DEF RebuildOk, Early
<1> QED  BY <1>1, QuietKeeps DEF BooksOk

LEMMA ReadLatestKeeps ==
  ASSUME BooksIInv, NEW s \in Sessions, ReadLatest(s)
  PROVE  BooksIInv'
<1> DEFINE r == sess[s]
           q(d) == [r EXCEPT !.pc = "trades", !.latest = d]
<1>1. RebuildOk(r, draft[s], View(s), db) /\ BooksShape(r, RebuildFields) /\ r.pc = "latest"
  BY RebuildIs DEF ReadLatest, At
<1>2. Rollback(s) \/ \E d : Local(s, q(d))
  BY DEF ReadLatest
<1>3. ASSUME NEW d
      PROVE  /\ BooksShape(q(d), RebuildFields) /\ q(d).kind = r.kind /\ q(d).pc = "trades"
             /\ q(d).want = r.want
  BY <1>1 DEF BooksShape, RebuildFields
<1> HIDE DEF q
<1> QED  BY <1>1, <1>2, <1>3, RebuildReads, BooksRollbackKeeps DEF Early

LEMMA ReadTradesKeeps ==
  ASSUME BooksIInv, NEW s \in Sessions, ReadTrades(s)
  PROVE  BooksIInv'
<1> DEFINE r == sess[s]
           q == [r EXCEPT !.pc = "actions", !.trades = list_up_to(s, r.latest)]
<1>1. RebuildOk(r, draft[s], View(s), db) /\ BooksShape(r, RebuildFields) /\ r.pc = "trades"
  BY RebuildIs DEF ReadTrades, At
<1>2. Local(s, q)
  BY DEF ReadTrades
<1>3. BooksShape(q, RebuildFields) /\ q.kind = r.kind /\ q.pc = "actions" /\ q.want = r.want
  BY <1>1 DEF BooksShape, RebuildFields
<1> HIDE DEF q
<1> QED  BY <1>1, <1>2, <1>3, RebuildReads DEF Early

\* The reads that a rebuild and a comparison share.
LEMMA ReplayIs ==
  ASSUME BooksIInv, NEW s \in Sessions, At(s, "actions") \/ At(s, "openings")
  PROVE  \/ /\ RebuildOk(sess[s], draft[s], View(s), db) /\ BooksShape(sess[s], RebuildFields)
            /\ sess[s].kind = "rebuild"
         \/ /\ ReconcileOk(sess[s], draft[s], db) /\ BooksShape(sess[s], ReconcileFields)
            /\ sess[s].kind = "reconcile"
  BY BooksCommandIs DEF SyncOk, AtHolding, AdjustOk, ReconcileOk, RebuildOk

\* Of complete books all is read.
LEMMA AllIsRead ==
  ASSUME NEW s \in Sessions, DOMAIN draft[s] = {}, Booked(db), AllRecorded(db),
         ReconstructionAssumption
  PROVE  /\ \A date : list_up_to(s, date) = Trades(date)
         /\ load_corporate_action_events(s) = Splits
         /\ load_opening_adjustments(s) = AllOpenings
<1>1. \A tag : Of(View(s), tag) = Of(db, tag)
  BY DEF View, Of
<1>2. {k[2] : k \in Of(View(s), "ledger")} = Facts
  <2>1. \A f : Ledger(f)[2] = f /\ Ledger(f)[1] = "ledger"
    BY DEF Ledger
  <2>2. \A k \in Of(db, "ledger") : k[2] \in Facts
    BY <2>1 DEF Booked
  <2>3. \A f \in Facts : Ledger(f) \in Of(db, "ledger")
    BY <2>1 DEF AllRecorded, Of
  <2> QED  BY <1>1, <2>1, <2>2, <2>3
<1>3. load_opening_adjustments(s) = AllOpenings
  <2>1. \A k \in Of(db, "adjustment") : View(s)[k] = db[k]
    BY DEF View, Of
  <2>2. load_opening_adjustments(s) = {db[k] : k \in Of(db, "adjustment")}
    BY <1>1, <2>1 DEF load_opening_adjustments
  <2>3. \A k \in Of(db, "adjustment") : db[k] \in AllOpenings
    BY DEF Booked, AllOpenings
  <2>4. ASSUME NEW o \in Openings PROVE \E k \in Of(db, "adjustment") : db[k] = Opened(o)
    <3>1. Adjustment(o.symbol) \in Of(db, "adjustment")
      BY DEF AllRecorded, Of, Adjustment
    <3>2. PICK p \in Openings :
             Adjustment(o.symbol) = Adjustment(p.symbol) /\ db[Adjustment(o.symbol)] = Opened(p)
      BY <3>1 DEF Booked
    <3>3. o = p
      BY <3>2, OneOpening
    <3> QED  BY <3>1, <3>2, <3>3
  <2> QED  BY <2>2, <2>3, <2>4 DEF AllOpenings
<1> QED  BY <1>2, <1>3 DEF list_up_to, load_corporate_action_events, Trades, Splits

LEMMA ReadActionsKeeps ==
  ASSUME BooksIInv, NEW s \in Sessions, ReadActions(s), ReconstructionAssumption
  PROVE  BooksIInv'
<1> DEFINE r == sess[s]
           actions == load_corporate_action_events(s)
           q == [r EXCEPT !.pc = "openings", !.actions = actions]
<1>1. Local(s, q) /\ r.pc = "actions"
  BY DEF ReadActions, At
<1>2. q = [r EXCEPT !.pc = "openings", !.actions = actions]
  OBVIOUS
<1> HIDE DEF q, actions
<1>3. CASE RebuildOk(r, draft[s], View(s), db) /\ BooksShape(r, RebuildFields)
  <2>1. BooksShape(q, RebuildFields) /\ q.kind = r.kind /\ q.pc = "openings" /\ q.want = r.want
    BY <1>2, <1>3 DEF BooksShape, RebuildFields
  <2> QED  BY <1>1, <1>3, <2>1, RebuildReads DEF Early
<1>4. CASE ReconcileOk(r, draft[s], db) /\ BooksShape(r, ReconcileFields)
  <2>1. /\ BooksShape(q, ReconcileFields) /\ q.kind = r.kind /\ q.pc = "openings"
        /\ q.want = r.want /\ q.todo = r.todo /\ q.began = r.began /\ q.gaps = r.gaps
        /\ q.diffs = r.diffs /\ q.actions = actions
    BY <1>2, <1>4 DEF BooksShape, ReconcileFields
  <2>2. Booked(db)
    BY DEF BooksIInv
  <2>3. BeganComplete(r.began) => actions = Splits
    BY <1>4, <2>2, AllIsRead DEF ReconcileOk, actions
  <2>4. \A d, n : Compared(r, d, n) => Compared(q, d, n)
    BY <2>1 DEF Compared
  <2>5. ReconcileOk(q, draft[s], db)
    BY <1>4, <2>1, <2>3, <2>4 DEF ReconcileOk
  <2> QED  BY <1>1, <2>5, QuietKeeps DEF BooksOk
<1> QED  BY <1>3, <1>4, ReplayIs DEF ReadActions

LEMMA ReadOpeningsKeeps ==
  ASSUME BooksIInv, NEW s \in Sessions, ReadOpenings(s), ReconstructionAssumption
  PROVE  BooksIInv'
<1> DEFINE r == sess[s]
           openings == load_opening_adjustments(s)
           pc == IF r.kind = "rebuild" THEN "delete" ELSE "compare"
           q == [r EXCEPT !.pc = pc, !.openings = openings]
<1>1. Local(s, q) /\ r.pc = "openings"
  BY DEF ReadOpenings, At
<1>2. q = [r EXCEPT !.pc = pc, !.openings = openings]
  OBVIOUS
<1> HIDE DEF q, openings
<1>3. CASE RebuildOk(r, draft[s], View(s), db) /\ BooksShape(r, RebuildFields) /\ r.kind = "rebuild"
  <2>1. BooksShape(q, RebuildFields) /\ q.kind = r.kind /\ q.pc = "delete" /\ q.want = r.want
    BY <1>2, <1>3 DEF BooksShape, RebuildFields
  <2> QED  BY <1>1, <1>3, <2>1, RebuildReads DEF Early
<1>4. CASE ReconcileOk(r, draft[s], db) /\ BooksShape(r, ReconcileFields) /\ r.kind = "reconcile"
  <2>1. /\ BooksShape(q, ReconcileFields) /\ q.kind = r.kind /\ q.pc = "compare"
        /\ q.want = r.want /\ q.todo = r.todo /\ q.began = r.began /\ q.gaps = r.gaps
        /\ q.diffs = r.diffs /\ q.actions = r.actions /\ q.openings = openings
    BY <1>2, <1>4 DEF BooksShape, ReconcileFields
  <2>2. Booked(db)
    BY DEF BooksIInv
  <2>3. BeganComplete(r.began) => openings = AllOpenings
    BY <1>4, <2>2, AllIsRead DEF ReconcileOk, openings
  <2>4. \A d, n : Compared(r, d, n) => Compared(q, d, n)
    BY <2>1 DEF Compared
  <2>5. ReconcileOk(q, draft[s], db)
    BY <1>1, <1>4, <2>1, <2>3, <2>4 DEF ReconcileOk
  <2> QED  BY <1>1, <2>5, QuietKeeps DEF BooksOk
<1> QED  BY <1>3, <1>4, ReplayIs DEF ReadOpenings

LEMMA BeginDeleteKeeps ==
  ASSUME BooksIInv, NEW s \in Sessions, BeginDelete(s)
  PROVE  BooksIInv'
<1> DEFINE r == sess[s]
           lots == LiveLots(View(s))
           q == [r EXCEPT !.pc = "deleting", !.targets = lots, !.found = lots]
<1>1. RebuildOk(r, draft[s], View(s), db) /\ BooksShape(r, RebuildFields) /\ r.pc = "delete"
  BY RebuildIs DEF BeginDelete, At
<1>2. Local(s, q)
  BY DEF BeginDelete
<1>3. /\ BooksShape(q, RebuildFields) /\ q.kind = r.kind /\ q.pc = "deleting" /\ q.want = r.want
      /\ q.targets = lots /\ q.found = lots
  BY <1>1 DEF BooksShape, RebuildFields
<1>4. r.want = NONE /\ DOMAIN draft[s] = {}
  BY <1>1 DEF RebuildOk
<1>5. lots \subseteq Of(db, "lots")
  BY <1>4 DEF LiveLots, View, Of
<1> HIDE DEF q, lots
<1>6. RebuildOk(q, draft[s], View(s), db)
  BY <1>1, <1>3, <1>4, <1>5 DEF RebuildOk
<1> QED  BY <1>2, <1>6, QuietKeeps DEF BooksOk

LEMMA DeleteLotsKeeps ==
  ASSUME BooksIInv, NEW s \in Sessions, DeleteLots(s)
  PROVE  BooksIInv'
<1> DEFINE r == sess[s]
           D == draft[s]
           V == View(s)
           row == [live |-> FALSE]
           aims(k) == [r EXCEPT !.want = k]
           gone == [r EXCEPT !.want = NONE, !.targets = @ \ {r.want}]
           q == [gone EXCEPT !.want = NONE]
           D2 == AddRow(D, r.want, row)
<1>1. RebuildOk(r, D, V, db) /\ BooksShape(r, RebuildFields) /\ r.pc = "deleting"
      /\ Overlay(D, V, db)
  BY RebuildIs, ViewIs DEF DeleteLots, At
<1>2. \/ \E k \in r.targets : Local(s, aims(k))
      \/ r.want # NONE /\ ~V[r.want].live /\ Local(s, gone)
      \/ r.want # NONE /\ FlushUpdate(s, row, gone)
  BY DEF DeleteLots, DeleteMayProceed, FlushUpdate
<1>3. ASSUME NEW k
      PROVE  /\ BooksShape(aims(k), RebuildFields) /\ aims(k).kind = r.kind
             /\ aims(k).pc = "deleting" /\ aims(k).want = k /\ aims(k).targets = r.targets
             /\ aims(k).found = r.found
  BY <1>1 DEF BooksShape, RebuildFields
<1>4. /\ BooksShape(gone, RebuildFields) /\ gone.kind = r.kind /\ gone.pc = "deleting"
      /\ gone.want = NONE /\ gone.targets = r.targets \ {r.want} /\ gone.found = r.found
  BY <1>1 DEF BooksShape, RebuildFields
<1>5. /\ BooksShape(q, RebuildFields) /\ q.kind = r.kind /\ q.pc = "deleting"
      /\ q.want = NONE /\ q.targets = r.targets \ {r.want} /\ q.found = r.found
  BY <1>1 DEF BooksShape, RebuildFields
<1>6. q = [gone EXCEPT !.want = NONE] /\ D2 = AddRow(D, r.want, row)
  OBVIOUS
<1>7. /\ r.kind = "rebuild" /\ Only(D, {"lots"}) /\ r.want \in r.targets \cup {NONE}
      /\ DOMAIN D \subseteq DOMAIN db /\ r.targets \subseteq r.found
      /\ r.found \subseteq Of(db, "lots") /\ \A k \in r.found \ r.targets : ~V[k].live
  BY <1>1 DEF RebuildOk
<1>8. row.live = FALSE
  OBVIOUS
<1> HIDE DEF aims, gone, q, D2, V, row
<1>9. ASSUME NEW k \in r.targets, Local(s, aims(k)) PROVE BooksIInv'
  <2>1. RebuildOk(aims(k), D, V, db)
    BY <1>3, <1>7, <1>9 DEF RebuildOk
  <2> QED  BY <1>9, <2>1, QuietKeeps DEF BooksOk, V
<1>10. CASE r.want # NONE /\ ~V[r.want].live /\ Local(s, gone)
  <2>1. RebuildOk(gone, D, V, db)
    BY <1>4, <1>7, <1>10 DEF RebuildOk
  <2> QED  BY <1>10, <2>1, QuietKeeps DEF BooksOk, V
<1>11. CASE r.want # NONE /\ FlushUpdate(s, row, gone)
  <2>1. r.want \in Of(db, "lots") /\ r.want \in DOMAIN db /\ r.want[1] = "lots"
    BY <1>7, <1>11 DEF Of
  <2>2. BooksRowOk(r.want, row, db)
    BY <1>8, <2>1 DEF BooksRowOk, BooksTables
  <2>3. /\ DOMAIN D2 = DOMAIN D \cup {r.want} /\ D2[r.want] = row
        /\ \A k \in DOMAIN D : k # r.want => D2[k] = D[k]
    BY <1>6 DEF AddRow
  <2>4. Overlay(D2, Seen(D2, db), db)
    BY SeenIs
  <2>5. Only(D2, {"lots"}) /\ DOMAIN D2 \subseteq DOMAIN db
    BY <1>7, <2>1, <2>3 DEF Only
  <2>6. ASSUME NEW k \in q.found \ q.targets PROVE ~Seen(D2, db)[k].live
    <3>1. k \in DOMAIN db
      BY <1>5, <1>7 DEF Of
    <3>2. CASE k = r.want
      BY <1>8, <2>3, <2>4, <3>1, <3>2 DEF Overlay
    <3>3. CASE k # r.want
      <4>1. Seen(D2, db)[k] = V[k]
        BY <1>1, <2>3, <2>4, <3>1, <3>3 DEF Overlay
      <4> QED  BY <1>5, <1>7, <3>3, <4>1
    <3> QED  BY <3>2, <3>3
  <2>7. RebuildOk(q, D2, Seen(D2, db), db)
    BY <1>5, <1>7, <2>5, <2>6 DEF RebuildOk
  <2> QED  BY <1>6, <1>11, <2>2, <2>7, BooksUpdateKeeps DEF BooksOk
<1> QED  BY <1>2, <1>9, <1>10, <1>11

LEMMA InsertLotsKeeps ==
  ASSUME BooksIInv, NEW s \in Sessions, InsertLots(s), IsFiniteSet(Sessions)
  PROVE  BooksIInv'
<1> DEFINE r == sess[s]
           D == draft[s]
           V == View(s)
           key == Lots(Fresh("lots"))
           row == [live |-> TRUE, trades |-> r.trades, actions |-> r.actions,
                   openings |-> r.openings]
           q == [r EXCEPT !.pc = "commit"]
           D2 == AddRow(D, key, row)
<1>1. RebuildOk(r, D, V, db) /\ BooksShape(r, RebuildFields) /\ r.pc = "deleting"
      /\ Overlay(D, V, db) /\ r.targets = {}
  BY RebuildIs, ViewIs DEF InsertLots, At
<1>2. InsertRow(s, key, row, q)
  BY DEF InsertLots
<1>3. /\ BooksShape(q, RebuildFields) /\ q.kind = r.kind /\ q.pc = "commit"
      /\ q.want = r.want /\ q.targets = r.targets /\ q.found = r.found
  BY <1>1 DEF BooksShape, RebuildFields
<1>4. /\ r.kind = "rebuild" /\ Only(D, {"lots"}) /\ r.want = NONE
      /\ r.found \subseteq Of(db, "lots") /\ \A k \in r.found : ~V[k].live
  BY <1>1 DEF RebuildOk
<1>5. /\ key \notin DOMAIN db /\ key[1] = "lots"
      /\ \A t \in Sessions : key \notin DOMAIN draft[t]
  BY BooksFreshKey DEF Lots
<1>6. row.live = TRUE /\ D2 = AddRow(D, key, row)
  OBVIOUS
<1>7. DOMAIN D2 = DOMAIN D \cup {key} /\ D2[key] = row /\ \A k \in DOMAIN D : k # key => D2[k] = D[k]
  BY DEF AddRow
<1> HIDE DEF key, row, q, D2, V
<1>8. BooksRowOk(key, row, db)
  BY <1>5 DEF BooksRowOk, BooksTables
<1>9. Only(D2, {"lots"}) /\ key \in LiveLots(D2)
  BY <1>4, <1>5, <1>6, <1>7 DEF Only, LiveLots, Of
<1>10. ASSUME NEW k \in r.found PROVE ~Seen(D2, db)[k].live
  <2>1. k \in DOMAIN db /\ k # key
    BY <1>4, <1>5 DEF Of
  <2>2. Overlay(D2, Seen(D2, db), db)
    BY SeenIs
  <2>3. Seen(D2, db)[k] = V[k]
    BY <1>1, <1>7, <2>1, <2>2 DEF Overlay
  <2> QED  BY <1>4, <2>3
<1>11. RebuildOk(q, D2, Seen(D2, db), db)
  BY <1>1, <1>3, <1>4, <1>5, <1>9, <1>10 DEF RebuildOk
<1> QED  BY <1>2, <1>5, <1>6, <1>8, <1>11, BooksRowKeeps DEF BooksOk

-----------------------------------------------------------------------------
(* The comparisons.                                                        *)

\* The next of a list.
LEMMA RestNext ==
  ASSUME NEW todo, NEW all, NEW n, Remainder(todo, all, n), todo # <<>>
  PROVE  /\ Remainder(Tail(todo), all, n + 1) /\ Head(todo) = all[n + 1]
         /\ n + 1 \in DOMAIN all /\ Head(todo) \in Range(all)
<1>1. /\ Head(todo) \in Range(all) /\ Tail(todo) \in Seq(Range(all)) /\ Len(todo) \in Nat
      /\ Len(all) \in Nat /\ Len(todo) # 0
  BY HeadTailProperties, LenProperties, EmptySeq DEF Remainder
<1>2. Len(Tail(todo)) = Len(todo) - 1 /\ \A i \in 1..Len(Tail(todo)) : Tail(todo)[i] = todo[i + 1]
  BY HeadTailProperties DEF Remainder
<1>3. Head(todo) = todo[1]
  BY HeadTailProperties DEF Remainder
<1>4. DOMAIN all = 1..Len(all)
  BY LenProperties DEF Remainder
<1>5. \A i \in 1..Len(Tail(todo)) : Tail(todo)[i] = all[(n + 1) + i]
  <2> TAKE i \in 1..Len(Tail(todo))
  <2>1. i + 1 \in 1..Len(todo) /\ n + (i + 1) = (n + 1) + i /\ Tail(todo)[i] = todo[i + 1]
    BY <1>1, <1>2 DEF Remainder
  <2>2. \A j \in 1..Len(todo) : todo[j] = all[n + j]
    BY DEF Remainder
  <2>3. todo[i + 1] = all[n + (i + 1)]
    BY <2>1, <2>2
  <2> QED  BY <2>1, <2>3
<1>6. all[n + 1] = todo[1] /\ n + 1 \in DOMAIN all
  BY <1>1, <1>4 DEF Remainder
<1> QED  BY <1>1, <1>2, <1>3, <1>5, <1>6 DEF Remainder

LEMMA RestOfNone ==
  ASSUME NEW all, NEW n, Remainder(<<>>, all, n)
  PROVE  n = Len(all)
<1>1. Len(<<>>) = 0
  OBVIOUS
<1> QED  BY <1>1 DEF Remainder

LEMMA GapsNext ==
  ASSUME NEW d, NEW n \in Nat
  PROVE  /\ d[n + 1].type = "pnl" =>
               GapsOf(d, n + 1) =
                  GapsOf(d, n) \cup PnlGaps(Trades(d[n + 1].end), d[n + 1].rows)
         /\ d[n + 1].type # "pnl" => GapsOf(d, n + 1) = GapsOf(d, n)
<1> DEFINE G(i) == PnlGaps(Trades(d[i].end), d[i].rows)
           I(m) == {j \in 1..m : d[j].type = "pnl"}
<1>1. \A m : GapsOf(d, m) = UNION {G(i) : i \in I(m)}
  BY DEF GapsOf
<1>2. 1..(n + 1) = 1..n \cup {n + 1}
  OBVIOUS
<1>3. d[n + 1].type = "pnl" => I(n + 1) = I(n) \cup {n + 1}
  BY <1>2
<1>4. d[n + 1].type # "pnl" => I(n + 1) = I(n)
  BY <1>2
<1>5. G(n + 1) = PnlGaps(Trades(d[n + 1].end), d[n + 1].rows)
  OBVIOUS
<1> HIDE DEF G, I
<1>6. \A J : UNION {G(i) : i \in J \cup {n + 1}} = (UNION {G(i) : i \in J}) \cup G(n + 1)
  OBVIOUS
<1>7. ASSUME d[n + 1].type = "pnl"
      PROVE  GapsOf(d, n + 1) =
                GapsOf(d, n) \cup PnlGaps(Trades(d[n + 1].end), d[n + 1].rows)
  <2>1. GapsOf(d, n + 1) = UNION {G(i) : i \in I(n) \cup {n + 1}}
    BY <1>1, <1>3, <1>7
  <2> QED  BY <1>1, <1>5, <1>6, <2>1
<1>8. ASSUME d[n + 1].type # "pnl" PROVE GapsOf(d, n + 1) = GapsOf(d, n)
  <2>1. I(n + 1) = I(n)
    BY <1>4, <1>8
  <2>2. GapsOf(d, n + 1) = UNION {G(i) : i \in I(n + 1)} /\ GapsOf(d, n) = UNION {G(i) : i \in I(n)}
    BY <1>1
  <2> QED  BY <2>1, <2>2
<1> QED  BY <1>7, <1>8

\* The fewer gaps are known, the more differs.
LEMMA FewerGaps ==
  ASSUME NEW trades, NEW actions, NEW openings, NEW gaps, NEW statement
  PROVE  HoldingsDiffs(trades, actions, openings, gaps, statement) \subseteq
            HoldingsDiffs(trades, actions, openings, {}, statement)
<1> DEFINE Bad(x, K) ==
      LET p == replay_trades(trades, actions, openings, x.symbol)
      IN  /\ x.symbol \notin K
          /\ \/ p.held = 0
             \/ Differs(p.held, x.open)
             \/ Differs(p.invested \div p.held, x.average)
<1>1. \A K : HoldingsDiffs(trades, actions, openings, K, statement) =
                {r.symbol : r \in {x \in statement.rows : Bad(x, K)}}
  BY DEF HoldingsDiffs
<1>2. \A x : Bad(x, gaps) => Bad(x, {})
  OBVIOUS
<1> HIDE DEF Bad
<1> QED  BY <1>1, <1>2

LEMMA ReconcileIs ==
  ASSUME BooksIInv, NEW s \in Sessions, At(s, "compare")
  PROVE  /\ ReconcileOk(sess[s], draft[s], db) /\ BooksShape(sess[s], ReconcileFields)
         /\ DOMAIN draft[s] = {} /\ Booked(db)
  BY BooksCommandIs DEF SyncOk, AtHolding, AdjustOk, ReconcileOk, RebuildOk

LEMMA CompareKeeps ==
  ASSUME BooksIInv, NEW s \in Sessions, Compare(s), ReconstructionAssumption,
         StatementsAssumption
  PROVE  BooksIInv'
<1> DEFINE r == sess[s]
           st == Head(r.todo)
           trades == list_up_to(s, st.end)
           actions == load_corporate_action_events(s)
           openings == load_opening_adjustments(s)
           newgaps == PnlGaps(trades, st.rows)
           pnl == PnlDiffs(trades, r.actions, r.openings, st)
           holdings == HoldingsDiffs(trades, actions, openings, r.gaps, st)
           after == [r EXCEPT !.todo = Tail(@)]
           afterPnl == [after EXCEPT !.gaps = @ \cup newgaps, !.diffs = @ \cup pnl]
           afterHoldings == [after EXCEPT !.diffs = @ \cup holdings]
<1>1. /\ ReconcileOk(r, draft[s], db) /\ BooksShape(r, ReconcileFields) /\ r.pc = "compare"
      /\ DOMAIN draft[s] = {} /\ Booked(db) /\ r.todo # <<>>
  BY ReconcileIs DEF Compare, At
<1>2. PICK d \in Directories : \E n \in Nat :
         Remainder(r.todo, d, n) /\ (BeganComplete(r.began) => Compared(r, d, n))
  BY <1>1 DEF ReconcileOk
<1>3. PICK n \in Nat : Remainder(r.todo, d, n) /\ (BeganComplete(r.began) => Compared(r, d, n))
  BY <1>2
<1>4. Remainder(Tail(r.todo), d, n + 1) /\ st = d[n + 1] /\ n + 1 \in DOMAIN d
  <2>1. Remainder(r.todo, d, n) /\ r.todo # <<>>
    BY <1>1, <1>3
  <2> HIDE DEF r
  <2> QED  BY <2>1, RestNext
<1>5. st.type \in {"pnl", "holdings", "unreadable"}
  BY <1>4 DEF StatementsAssumption
<1> DEFINE q == CASE st.type = "unreadable" -> after
                  [] st.type = "pnl" -> afterPnl
                  [] st.type = "holdings" -> afterHoldings
<1>6. Local(s, q)
  BY DEF Compare
<1> DEFINE Goes(x) ==
      /\ BooksShape(x, ReconcileFields) /\ x.kind = r.kind /\ x.pc = r.pc /\ x.want = r.want
      /\ x.todo = Tail(r.todo) /\ x.began = r.began /\ x.actions = r.actions
      /\ x.openings = r.openings
<1>7. Goes(after) /\ after.gaps = r.gaps /\ after.diffs = r.diffs
  BY <1>1 DEF BooksShape, ReconcileFields
<1>8. Goes(afterPnl) /\ afterPnl.gaps = r.gaps \cup newgaps /\ afterPnl.diffs = r.diffs \cup pnl
  BY <1>1 DEF BooksShape, ReconcileFields
<1>9. /\ Goes(afterHoldings) /\ afterHoldings.gaps = r.gaps
      /\ afterHoldings.diffs = r.diffs \cup holdings
  BY <1>1 DEF BooksShape, ReconcileFields
<1>10. \/ st.type = "unreadable" /\ q = after
       \/ st.type = "pnl" /\ q = afterPnl
       \/ st.type = "holdings" /\ q = afterHoldings
  BY <1>5
<1>11. ASSUME BeganComplete(r.began)
       PROVE  /\ trades = Trades(st.end) /\ actions = Splits /\ openings = AllOpenings
              /\ r.actions = Splits /\ r.openings = AllOpenings
              /\ r.gaps = GapsOf(d, n) /\ r.diffs \subseteq GapsOf(d, Len(d))
  <2>1. AllRecorded(db) /\ r.actions = Splits /\ r.openings = AllOpenings
    BY <1>1, <1>11 DEF ReconcileOk
  <2> QED  BY <1>1, <1>3, <1>11, <2>1, AllIsRead DEF Compared
<1> HIDE DEF after, afterPnl, afterHoldings, q, trades, actions, openings
<1>12. ASSUME BeganComplete(r.began) PROVE Compared(q, d, n + 1)
  <2>1. CASE st.type = "unreadable" /\ q = after
    <3>1. GapsOf(d, n + 1) = GapsOf(d, n)
      BY <1>4, <2>1, GapsNext
    <3> QED  BY <1>7, <1>11, <1>12, <2>1, <3>1 DEF Compared
  <2>2. CASE st.type = "pnl" /\ q = afterPnl
    <3>1. GapsOf(d, n + 1) = GapsOf(d, n) \cup newgaps
      <4>1. newgaps = PnlGaps(Trades(st.end), st.rows)
        BY <1>11, <1>12
      <4>2. newgaps = PnlGaps(Trades(d[n + 1].end), d[n + 1].rows)
        BY <1>4, <4>1
      <4> HIDE DEF newgaps
      <4> QED  BY <1>4, <2>2, <4>2, GapsNext
    <3>2. PnlDiffs(Trades(st.end), Splits, AllOpenings, st) \subseteq GapsOf(d, Len(d))
      BY <1>4, <2>2 DEF StatementsAssumption
    <3>3. pnl \subseteq GapsOf(d, Len(d))
      BY <1>11, <1>12, <3>2
    <3> HIDE DEF newgaps, pnl
    <3> QED  BY <1>8, <1>11, <1>12, <2>2, <3>1, <3>3 DEF Compared
  <2>3. CASE st.type = "holdings" /\ q = afterHoldings
    <3>1. GapsOf(d, n + 1) = GapsOf(d, n)
      BY <1>4, <2>3, GapsNext
    <3>2. HoldingsDiffs(Trades(st.end), Splits, AllOpenings, {}, st) \subseteq GapsOf(d, Len(d))
      BY <1>4, <2>3 DEF StatementsAssumption
    <3>3. holdings \subseteq GapsOf(d, Len(d))
      <4>1. holdings \subseteq HoldingsDiffs(trades, actions, openings, {}, st)
        BY FewerGaps
      <4> QED  BY <1>11, <1>12, <3>2, <4>1
    <3> HIDE DEF holdings
    <3> QED  BY <1>9, <1>11, <1>12, <2>3, <3>1, <3>3 DEF Compared
  <2> QED  BY <1>10, <2>1, <2>2, <2>3
<1>13. Goes(q)
  BY <1>7, <1>8, <1>9, <1>10
<1> DEFINE m == n + 1
<1>14. m \in Nat /\ Remainder(q.todo, d, m) /\ (BeganComplete(q.began) => Compared(q, d, m))
  BY <1>4, <1>12, <1>13
<1> HIDE DEF m
<1>15. ReconcileOk(q, draft[s], db)
  BY <1>1, <1>13, <1>14 DEF ReconcileOk
<1> QED  BY <1>6, <1>15, QuietKeeps DEF BooksOk

-----------------------------------------------------------------------------
(* What the invariant tells of the reconstruction.                         *)

LEMMA ComparisonIsClean ==
  ASSUME BooksIInv
  PROVE  CompleteBooksReconcile
<1> SUFFICES ASSUME NEW s \in Sessions, At(s, "compare"), sess[s].todo = <<>>,
                    BeganComplete(sess[s].began)
             PROVE  overall_status(s) = "CLEAN"
  BY DEF CompleteBooksReconcile, BeganComplete
<1> DEFINE r == sess[s]
<1>1. ReconcileOk(r, draft[s], db)
  BY ReconcileIs
<1>2. \E d \in Directories : \E n \in Nat : Remainder(<<>>, d, n) /\ Compared(r, d, n)
  BY <1>1 DEF ReconcileOk
<1>3. PICK d \in Directories : Compared(r, d, Len(d))
  BY <1>2, RestOfNone
<1>4. r.diffs \subseteq r.gaps
  BY <1>3 DEF Compared
<1>5. divergent_symbols(s) = {}
  BY <1>4 DEF divergent_symbols
<1> QED  BY <1>5 DEF overall_status

LEMMA RebuildReplacesAll ==
  ASSUME BooksIInv
  PROVE  RebuildReplacesStep
<1> SUFFICES ASSUME NEW s \in Sessions, FinishRebuild(s)
             PROVE  /\ LiveLots(db') \cap sess[s].found = {}
                    /\ \E k \in LiveLots(db') : k \notin DOMAIN db
  BY DEF RebuildReplacesStep
<1> DEFINE r == sess[s]
           D == draft[s]
           V == View(s)
<1>1. /\ BooksOk(r, D, V, db) /\ r.pc = "commit" /\ r.kind = "rebuild" /\ db' = V
      /\ Overlay(D, V, db)
  BY ViewIs DEF BooksIInv, FinishRebuild, At, Commit
<1>2. RebuildOk(r, D, V, db)
  BY <1>1 DEF BooksOk, Idle, SyncOk, AdjustOk, ReconcileOk
<1>3. (\A k \in r.found : ~V[k].live) /\ \E k \in LiveLots(D) : k \notin DOMAIN db
  BY <1>1, <1>2 DEF RebuildOk
<1>4. LiveLots(D) \subseteq LiveLots(V)
  BY <1>1 DEF LiveLots, Overlay, Of
<1> HIDE DEF V
<1> QED  BY <1>1, <1>3, <1>4 DEF LiveLots

-----------------------------------------------------------------------------
(* The syncs.                                                              *)

Syncing == {"fetch", "resolve"} \cup AtHolding

LEMMA SyncIs ==
  ASSUME BooksIInv, NEW s \in Sessions, NEW pc \in {"run"} \cup Syncing, At(s, pc)
  PROVE  /\ SyncOk(sess[s], draft[s], View(s), db) /\ BooksShape(sess[s], SyncFields)
         /\ sess[s].pc = pc
<1>1. pc # "idle"
  BY DEF Syncing, AtHolding
<1> QED  BY <1>1, BooksCommandIs DEF SyncOk, AdjustOk, RebuildOk, ReconcileOk, Syncing, AtHolding

\* What has been listed, and what became of it, is as it was.
SameProgress(q, r) ==
    q.listed = r.listed /\ q.todo = r.todo /\ q.holdings = r.holdings /\ q.failed = r.failed

LEMMA ProgressKept ==
  ASSUME NEW q, NEW r, SameProgress(q, r), Progress(r)
  PROVE  Progress(q)
<1>1. \A n : Normalized(r, n) => Normalized(q, n)
  BY DEF Normalized, SameProgress
<1> QED  BY <1>1 DEF Progress, SameProgress

\* A sync that has a run and goes on.
SyncGoesOn(q, r, D, V, R) ==
    /\ BooksShape(q, SyncFields) /\ q.kind = r.kind /\ q.run = r.run /\ q.pc \in Syncing
    /\ SyncWant(q, V)
    /\ q.pc = "fetch" => q.holdings = <<>> /\ q.failed = {}
    /\ q.pc # "fetch" => Progress(q)
    /\ q.pc \in AtHolding => q.todo # <<>> /\ Head(q.todo).symbol # NONE
    /\ KeepsIdentity(D, R, q.blank)
    /\ q.pc = "stub" => StubOk(q)
    /\ q.pc = "instrument" => LinkOk(q)

LEMMA SyncGoesOnOk ==
  ASSUME NEW r, NEW D, NEW V, NEW R, SyncOk(r, D, V, R), r.pc \in Syncing,
         NEW q, NEW D2, NEW V2, SyncGoesOn(q, r, D2, V2, R),
         Only(D2, BooksTables \ {"lots", "adjustment"}),
         Of(D2, "run") = Of(D, "run"), Of(D2, "snapshot") = Of(D, "snapshot")
  PROVE  SyncOk(q, D2, V2, R)
  BY DEF SyncOk, SyncGoesOn, Syncing, AtHolding

LEMMA SyncReads ==
  ASSUME BooksIInv, NEW s \in Sessions, SyncOk(sess[s], draft[s], View(s), db),
         sess[s].pc \in Syncing, NEW q, Local(s, q),
         SyncGoesOn(q, sess[s], draft[s], View(s), db)
  PROVE  BooksIInv'
<1>1. Only(draft[s], BooksTables \ {"lots", "adjustment"})
  BY DEF SyncOk, Syncing, AtHolding
<1>2. SyncOk(q, draft[s], View(s), db)
  BY <1>1, SyncGoesOnOk
<1> QED  BY <1>2, QuietKeeps DEF BooksOk

\* The row of a company or an instrument.
LEMMA SyncRow ==
  ASSUME NEW r, NEW D, NEW V, NEW R, SyncOk(r, D, V, R), r.pc \in Syncing,
         NEW key, key[1] \in {"company", "instrument"}, NEW row, NEW D2,
         D2 = AddRow(D, key, row), NEW q, NEW V2, SyncGoesOn(q, r, D2, V2, R)
  PROVE  SyncOk(q, D2, V2, R)
<1>1. DOMAIN D2 = DOMAIN D \cup {key}
  BY DEF AddRow
<1>2. Only(D, BooksTables \ {"lots", "adjustment"})
  BY DEF SyncOk, Syncing, AtHolding
<1>3. Only(D2, BooksTables \ {"lots", "adjustment"})
  BY <1>1, <1>2 DEF Only, BooksTables
<1>4. Of(D2, "run") = Of(D, "run") /\ Of(D2, "snapshot") = Of(D, "snapshot")
  BY <1>1 DEF Of
<1> QED  BY <1>3, <1>4, SyncGoesOnOk

LEMMA InsertRunKeeps ==
  ASSUME BooksIInv, NEW s \in Sessions, InsertRun(s), IsFiniteSet(Sessions)
  PROVE  BooksIInv'
<1> DEFINE r == sess[s]
           D == draft[s]
           run == IngestionRun(Fresh("run"))
           row == [status |-> "running", ingested |-> 0, failed |-> 0]
           q == [r EXCEPT !.pc = "fetch", !.run = run]
           D2 == AddRow(D, run, row)
<1>1. SyncOk(r, D, View(s), db) /\ BooksShape(r, SyncFields) /\ r.pc = "run"
  BY SyncIs DEF InsertRun
<1>2. InsertRow(s, run, row, q)
  BY DEF InsertRun
<1>3. /\ BooksShape(q, SyncFields) /\ q.kind = r.kind /\ q.pc = "fetch" /\ q.want = r.want
      /\ q.run = run /\ q.holdings = r.holdings /\ q.failed = r.failed /\ q.blank = r.blank
  BY <1>1 DEF BooksShape, SyncFields
<1>4. r.want = NONE /\ r.kind = "sync" /\ DOMAIN D = {} /\ r.holdings = <<>> /\ r.failed = {}
  BY <1>1 DEF SyncOk, SyncWant, AtHolding
<1>5. /\ run \notin DOMAIN db /\ run[1] = "run" /\ \A t \in Sessions : run \notin DOMAIN draft[t]
  BY BooksFreshKey DEF IngestionRun
<1>6. DOMAIN D2 = {run}
  BY <1>4 DEF AddRow
<1>7. D2 = AddRow(D, run, row)
  OBVIOUS
<1> HIDE DEF run, row, q, D2
<1>8. BooksRowOk(run, row, db)
  BY <1>5 DEF BooksRowOk, BooksTables
<1>9. /\ Of(D2, "run") = {run} /\ Of(D2, "snapshot") = {}
      /\ Only(D2, BooksTables \ {"lots", "adjustment"})
  BY <1>5, <1>6 DEF Of, Only, BooksTables
<1>10. KeepsIdentity(D2, db, q.blank)
  BY <1>5, <1>6 DEF KeepsIdentity, IdentityRowOk
<1>11. SyncOk(q, D2, Seen(D2, db), db)
  BY <1>3, <1>4, <1>9, <1>10 DEF SyncOk, SyncWant, AtHolding
<1> QED  BY <1>2, <1>5, <1>7, <1>8, <1>11, BooksRowKeeps DEF BooksOk

LEMMA NothingYet ==
  ASSUME NEW q, q.listed \in Seq(Range(q.listed)), Range(q.listed) \subseteq Held,
         q.todo = q.listed, q.holdings = <<>>, q.failed = {}
  PROVE  Progress(q)
<1>1. Remainder(q.todo, q.listed, 0)
  BY RestOfAll
<1>2. Len(q.holdings) + Cardinality(q.failed) = 0 /\ q.holdings \in Seq({})
  BY FS_EmptySet
<1>3. Normalized(q, 0)
  BY DEF Normalized
<1> QED  BY <1>1, <1>2, <1>3 DEF Progress

LEMMA ListingIsHeld ==
  ASSUME PortfolioSyncAssumption, NEW listing \in Listings, NEW holdings,
         holdings = IF listing = NONE THEN <<>> ELSE listing
  PROVE  holdings \in Seq(Range(holdings)) /\ Range(holdings) \subseteq Held
<1>1. CASE listing = NONE
  <2>1. holdings = <<>>
    BY <1>1
  <2>2. Range(holdings) = {}
    BY <2>1 DEF Range
  <2>3. <<>> \in Seq({})
    OBVIOUS
  <2>4. holdings \in Seq(Range(holdings))
    BY <2>1, <2>2, <2>3
  <2> QED  BY <2>2, <2>4
<1>2. CASE listing # NONE
  <2>1. holdings = listing /\ listing \in Listings \ {NONE}
    BY <1>2
  <2> QED  BY <2>1 DEF PortfolioSyncAssumption, Held
<1> QED  BY <1>1, <1>2

LEMMA FetchHoldingsKeeps ==
  ASSUME BooksIInv, NEW s \in Sessions, FetchHoldings(s), PortfolioSyncAssumption
  PROVE  BooksIInv'
<1> DEFINE r == sess[s]
           again == [r EXCEPT !.attempts = @ + 1]
           Got(listing) == IF listing = NONE THEN <<>> ELSE listing
           q(h) == [r EXCEPT !.pc = "resolve", !.listed = h, !.todo = h]
<1>1. SyncOk(r, draft[s], View(s), db) /\ BooksShape(r, SyncFields) /\ r.pc = "fetch"
  BY SyncIs DEF FetchHoldings, Syncing
<1>2. \/ Rollback(s) \/ Local(s, again)
      \/ \E listing \in Listings : Local(s, q(Got(listing)))
  BY DEF FetchHoldings
<1>3. /\ r.want = NONE /\ r.holdings = <<>> /\ r.failed = {}
      /\ KeepsIdentity(draft[s], db, r.blank)
  BY <1>1 DEF SyncOk, SyncWant
<1>4. /\ BooksShape(again, SyncFields) /\ again.kind = r.kind /\ again.pc = "fetch"
      /\ again.want = r.want /\ again.run = r.run /\ again.holdings = r.holdings
      /\ again.failed = r.failed /\ again.blank = r.blank
  BY <1>1 DEF BooksShape, SyncFields
<1>5. ASSUME NEW h
      PROVE  /\ BooksShape(q(h), SyncFields) /\ q(h).kind = r.kind /\ q(h).pc = "resolve"
             /\ q(h).want = r.want /\ q(h).run = r.run /\ q(h).holdings = r.holdings
             /\ q(h).failed = r.failed /\ q(h).listed = h /\ q(h).todo = h
             /\ q(h).blank = r.blank
  BY <1>1 DEF BooksShape, SyncFields
<1> HIDE DEF again, q
<1>6. CASE Local(s, again)
  <2>1. SyncGoesOn(again, r, draft[s], View(s), db)
    BY <1>3, <1>4 DEF SyncGoesOn, Syncing, SyncWant, AtHolding
  <2> QED  BY <1>1, <1>6, <2>1, SyncReads DEF Syncing
<1>7. ASSUME NEW listing \in Listings, Local(s, q(Got(listing))) PROVE BooksIInv'
  <2> DEFINE h == Got(listing)
  <2>1. h \in Seq(Range(h)) /\ Range(h) \subseteq Held
    BY ListingIsHeld
  <2> HIDE DEF h
  <2>2. Progress(q(h))
    BY <1>3, <1>5, <2>1, NothingYet
  <2>3. SyncGoesOn(q(h), r, draft[s], View(s), db)
    BY <1>3, <1>5, <2>2 DEF SyncGoesOn, Syncing, SyncWant, AtHolding
  <2> QED  BY <1>1, <1>7, <2>3, SyncReads DEF Syncing, h
<1> QED  BY <1>2, <1>6, <1>7, BooksRollbackKeeps

\* The next holding, and what becomes of it.
LEMMA NextHolding ==
  ASSUME NEW s \in Sessions, NEW r, r = sess[s], Progress(r), r.todo # <<>>
  PROVE  /\ Head(r.todo) \in Held
         /\ \E n \in Nat :
               /\ n + 1 \in Nat /\ Number(s) = n + 1
               /\ Remainder(Tail(r.todo), r.listed, n + 1) /\ Head(r.todo) = r.listed[n + 1]
               /\ r.failed \subseteq 1..n /\ Normalized(r, n)
               /\ Len(r.holdings) + Cardinality(r.failed) = n
<1>1. PICK n \in Nat :
         /\ Remainder(r.todo, r.listed, n) /\ r.failed \subseteq 1..n
         /\ Len(r.holdings) + Cardinality(r.failed) = n /\ Normalized(r, n)
  BY DEF Progress
<1>2. /\ Remainder(Tail(r.todo), r.listed, n + 1) /\ Head(r.todo) = r.listed[n + 1]
      /\ Head(r.todo) \in Range(r.listed)
  BY <1>1, RestNext
<1>3. Number(s) = n + 1
  <2>1. Len(r.todo) \in Nat /\ Len(r.listed) \in Nat /\ n + Len(r.todo) = Len(r.listed)
    BY <1>1, LenProperties DEF Remainder
  <2>2. Number(s) = Len(r.listed) - Len(r.todo) + 1
    BY DEF Number
  <2> DEFINE a == Len(r.listed)
             b == Len(r.todo)
  <2>3. a \in Nat /\ b \in Nat /\ n + b = a /\ Number(s) = a - b + 1
    BY <2>1, <2>2
  <2> HIDE DEF a, b
  <2>4. a - b + 1 = n + 1
    BY <2>3
  <2> QED  BY <2>3, <2>4
<1>4. Head(r.todo) \in Held
  BY <1>2 DEF Progress
<1> QED  BY <1>1, <1>2, <1>3, <1>4

LEMMA SkippedProgress ==
  ASSUME NEW s \in Sessions, NEW r, r = sess[s], Progress(r), r.todo # <<>>, NEW q,
         q.listed = r.listed, q.todo = Tail(r.todo), q.holdings = r.holdings,
         q.failed = r.failed \cup {Number(s)}
  PROVE  Progress(q)
<1>1. PICK n \in Nat :
         /\ n + 1 \in Nat /\ Number(s) = n + 1
         /\ Remainder(Tail(r.todo), r.listed, n + 1) /\ Head(r.todo) = r.listed[n + 1]
         /\ r.failed \subseteq 1..n /\ Normalized(r, n)
         /\ Len(r.holdings) + Cardinality(r.failed) = n
  BY NextHolding
<1> DEFINE m == n + 1
<1>2. m \notin 1..n /\ 1..m = 1..n \cup {m} /\ m \in Nat
  OBVIOUS
<1>3. IsFiniteSet(r.failed)
  <2>1. IsFiniteSet(1..n)
    BY FS_Interval
  <2> QED  BY <1>1, <2>1, FS_Subset
<1>4. Cardinality(q.failed) = Cardinality(r.failed) + 1 /\ Cardinality(r.failed) \in Nat
  <2>1. m \notin r.failed /\ q.failed = r.failed \cup {m}
    BY <1>1, <1>2
  <2> HIDE DEF m
  <2>2. Cardinality(r.failed \cup {m}) = Cardinality(r.failed) + 1
    BY <1>3, <2>1, FS_AddElement
  <2> QED  BY <1>3, <2>1, <2>2, FS_CardinalityType
<1>5. \E S : r.holdings \in Seq(S)
  BY DEF Progress
<1>6. Len(q.holdings) + Cardinality(q.failed) = m
  <2>1. Len(r.holdings) \in Nat
    BY <1>5, LenProperties
  <2> QED  BY <1>1, <1>4, <2>1
<1>7. (1..m) \ q.failed = (1..n) \ r.failed
  BY <1>1, <1>2
<1>8. Normalized(q, m)
  BY <1>1, <1>7 DEF Normalized
<1>9. q.failed \subseteq 1..m /\ Remainder(q.todo, q.listed, m)
  BY <1>1, <1>2
<1> HIDE DEF m
<1> QED  BY <1>2, <1>5, <1>6, <1>8, <1>9 DEF Progress

LEMMA ResolvedProgress ==
  ASSUME NEW s \in Sessions, NEW r, r = sess[s], Progress(r), r.todo # <<>>, NEW q, NEW item,
         item.symbol = Head(r.todo).symbol,
         item.value = Head(r.todo).quantity * Head(r.todo).price,
         q.listed = r.listed, q.todo = Tail(r.todo), q.holdings = Append(r.holdings, item),
         q.failed = r.failed
  PROVE  Progress(q)
<1>1. PICK n \in Nat :
         /\ n + 1 \in Nat /\ Number(s) = n + 1
         /\ Remainder(Tail(r.todo), r.listed, n + 1) /\ Head(r.todo) = r.listed[n + 1]
         /\ r.failed \subseteq 1..n /\ Normalized(r, n)
         /\ Len(r.holdings) + Cardinality(r.failed) = n
  BY NextHolding
<1> DEFINE m == n + 1
<1>2. 1..m = 1..n \cup {m} /\ m \in Nat
  OBVIOUS
<1>3. PICK S : r.holdings \in Seq(S)
  BY DEF Progress
<1> DEFINE T == S \cup {item}
           old == r.holdings
           new == q.holdings
<1>4. old \in Seq(T)
  <2>1. S \subseteq T
    OBVIOUS
  <2> HIDE DEF T
  <2> QED  BY <1>3, <2>1
<1>5. /\ new \in Seq(T) /\ Len(new) = Len(old) + 1 /\ Len(old) \in Nat
      /\ new[Len(old) + 1] = item /\ \A i \in 1..Len(old) : new[i] = old[i]
      /\ DOMAIN old = 1..Len(old) /\ DOMAIN new = 1..Len(new)
  <2>1. item \in T
    OBVIOUS
  <2> HIDE DEF T
  <2> QED  BY <1>4, <2>1, AppendProperties, LenProperties
<1>6. Len(new) + Cardinality(q.failed) = m
  <2>1. Cardinality(r.failed) \in Nat
    <3>1. IsFiniteSet(1..n)
      BY FS_Interval
    <3> QED  BY <1>1, <3>1, FS_Subset, FS_CardinalityType
  <2>2. Len(new) = Len(old) + 1 /\ Len(old) \in Nat
    BY <1>5
  <2>3. Len(old) + Cardinality(r.failed) = n /\ q.failed = r.failed
    BY <1>1
  <2> HIDE DEF old, new
  <2> QED  BY <2>1, <2>2, <2>3
<1>7. Normalized(q, m)
  <2> SUFFICES ASSUME NEW i \in (1..m) \ q.failed
               PROVE  \E j \in DOMAIN new :
                         /\ new[j].symbol = q.listed[i].symbol
                         /\ new[j].value = q.listed[i].quantity * q.listed[i].price
    BY DEF Normalized
  <2>1. CASE i = m
    <3>1. Len(old) + 1 \in DOMAIN new
      BY <1>5
    <3> QED  BY <1>1, <1>5, <2>1, <3>1
  <2>2. CASE i # m
    <3>1. i \in (1..n) \ r.failed
      BY <1>2, <2>2
    <3>2. PICK j \in DOMAIN old :
             /\ old[j].symbol = r.listed[i].symbol
             /\ old[j].value = r.listed[i].quantity * r.listed[i].price
      BY <1>1, <3>1 DEF Normalized
    <3>3. j \in DOMAIN new /\ new[j] = old[j]
      BY <1>5
    <3> QED  BY <3>2, <3>3
  <2> QED  BY <2>1, <2>2
<1>8. q.failed \subseteq 1..m /\ Remainder(q.todo, q.listed, m)
  BY <1>1, <1>2
<1> HIDE DEF m
<1>9. \E U : q.holdings \in Seq(U)
  BY <1>5
<1>10. Range(q.listed) \subseteq Held
  BY DEF Progress
<1> QED  BY <1>2, <1>6, <1>7, <1>8, <1>9, <1>10 DEF Progress

\* At the next holding, or before it: what holds of the state.
LEMMA AtNext ==
  ASSUME NEW r, NEW D, NEW V, NEW R, SyncOk(r, D, V, R), r.pc \in Syncing \ {"fetch"}
  PROVE  /\ Progress(r) /\ r.kind = "sync"
         /\ r.pc \in AtHolding => r.todo # <<>> /\ Head(r.todo).symbol # NONE
         /\ r.pc \notin {"stub", "instrument"} => r.want = NONE
         /\ KeepsIdentity(D, R, r.blank)
  BY DEF SyncOk, Syncing, AtHolding, SyncWant

\* The holding is done with.
LEMMA ResolvedIs ==
  ASSUME NEW s \in Sessions, NEW r, r = sess[s], BooksShape(r, SyncFields), Progress(r),
         r.todo # <<>>, NEW company, NEW D, NEW V, NEW R, KeepsIdentity(D, R, r.blank), NEW q,
         \/ q = Resolved(s, company) /\ r.want = NONE
         \/ q = [Resolved(s, company) EXCEPT !.want = NONE]
  PROVE  SyncGoesOn(q, r, D, V, R)
<1> DEFINE h == Head(r.todo)
           item == [symbol |-> h.symbol, isin |-> h.isin, company |-> company,
                    value |-> h.quantity * h.price]
           p == [r EXCEPT !.pc = "resolve", !.todo = Tail(r.todo), !.company = NONE,
                    !.link = FALSE, !.holdings = Append(r.holdings, item)]
           o == [p EXCEPT !.want = NONE]
<1>1. Resolved(s, company) = p
  BY DEF Resolved, Holding
<1>2. item.symbol = h.symbol /\ item.value = h.quantity * h.price
  OBVIOUS
<1> HIDE DEF item
<1>3. /\ BooksShape(p, SyncFields) /\ p.kind = r.kind /\ p.run = r.run /\ p.pc = "resolve"
      /\ p.listed = r.listed /\ p.todo = Tail(r.todo) /\ p.failed = r.failed
      /\ p.holdings = Append(r.holdings, item) /\ p.want = r.want /\ p.blank = r.blank
  BY DEF BooksShape, SyncFields
<1>4. /\ BooksShape(o, SyncFields) /\ o.kind = r.kind /\ o.run = r.run /\ o.pc = "resolve"
      /\ o.listed = r.listed /\ o.todo = Tail(r.todo) /\ o.failed = r.failed
      /\ o.holdings = Append(r.holdings, item) /\ o.want = NONE /\ o.blank = r.blank
  BY DEF BooksShape, SyncFields
<1>5. (q = p /\ r.want = NONE) \/ q = o
  BY <1>1
<1> HIDE DEF p, o
<1>6. /\ BooksShape(q, SyncFields) /\ q.kind = r.kind /\ q.run = r.run /\ q.pc = "resolve"
      /\ q.listed = r.listed /\ q.todo = Tail(r.todo) /\ q.failed = r.failed
      /\ q.holdings = Append(r.holdings, item) /\ q.want = NONE /\ q.blank = r.blank
  BY <1>3, <1>4, <1>5
<1>7. Progress(q)
  BY <1>2, <1>6, ResolvedProgress
<1> QED  BY <1>6, <1>7 DEF SyncGoesOn, SyncWant, Syncing, AtHolding

\* The company is known; the instrument is next.
LEMMA ToInstrumentIs ==
  ASSUME NEW s \in Sessions, NEW r, r = sess[s], BooksShape(r, SyncFields), Progress(r),
         r.todo # <<>>, Head(r.todo).symbol # NONE, NEW company, NEW link, NEW D, NEW V, NEW R,
         KeepsIdentity(D, R, r.blank), NEW q,
         \/ q = ToInstrument(s, company, link) /\ r.want = NONE
         \/ q = [ToInstrument(s, company, link) EXCEPT !.want = NONE]
  PROVE  SyncGoesOn(q, r, D, V, R)
<1> DEFINE p == [r EXCEPT !.pc = "instrument", !.company = company, !.link = link]
           o == [p EXCEPT !.want = NONE]
<1>1. ToInstrument(s, company, link) = p
  BY DEF ToInstrument
<1>2. /\ BooksShape(p, SyncFields) /\ p.kind = r.kind /\ p.run = r.run /\ p.pc = "instrument"
      /\ SameProgress(p, r) /\ p.want = r.want /\ p.blank = r.blank
  BY DEF BooksShape, SyncFields, SameProgress
<1>3. /\ BooksShape(o, SyncFields) /\ o.kind = r.kind /\ o.run = r.run /\ o.pc = "instrument"
      /\ SameProgress(o, r) /\ o.want = NONE /\ o.blank = r.blank
  BY DEF BooksShape, SyncFields, SameProgress
<1>4. (q = p /\ r.want = NONE) \/ q = o
  BY <1>1
<1> HIDE DEF p, o
<1>5. /\ BooksShape(q, SyncFields) /\ q.kind = r.kind /\ q.run = r.run /\ q.pc = "instrument"
      /\ SameProgress(q, r) /\ q.want = NONE /\ q.blank = r.blank
  BY <1>2, <1>3, <1>4
<1>6. Progress(q) /\ q.todo = r.todo
  BY <1>5, ProgressKept DEF SameProgress
<1> QED  BY <1>5, <1>6 DEF SyncGoesOn, SyncWant, Syncing, AtHolding, LinkOk

\* More read as not known allows no less.
LEMMA MoreBlank ==
  ASSUME NEW D, NEW R, NEW blank, NEW more, KeepsIdentity(D, R, blank), blank \subseteq more
  PROVE  KeepsIdentity(D, R, more)
  BY DEF KeepsIdentity, IdentityRowOk, Stands

\* The next place to look for it.
LEMMA LookOn ==
  ASSUME NEW r, BooksShape(r, SyncFields), Progress(r), r.todo # <<>>,
         Head(r.todo).symbol # NONE, r.want = NONE, NEW pc \in AtHolding, NEW D, NEW V, NEW R,
         KeepsIdentity(D, R, r.blank), NEW blank, r.blank \subseteq blank,
         pc = "stub" => Company(Head(r.todo).symbol) \in blank, NEW q,
         \/ q = [r EXCEPT !.pc = pc] /\ blank = r.blank
         \/ q = [r EXCEPT !.pc = pc, !.blank = blank]
  PROVE  SyncGoesOn(q, r, D, V, R)
<1>1. /\ BooksShape(q, SyncFields) /\ q.kind = r.kind /\ q.run = r.run /\ q.pc = pc
      /\ SameProgress(q, r) /\ q.want = NONE /\ q.blank = blank
  BY DEF BooksShape, SyncFields, SameProgress
<1>2. Progress(q) /\ q.todo = r.todo
  BY <1>1, ProgressKept DEF SameProgress
<1>3. (pc = "stub" => StubOk(q)) /\ LinkOk(q)
  BY <1>1, <1>2 DEF StubOk, LinkOk
<1>4. KeepsIdentity(D, R, q.blank)
  BY <1>1, MoreBlank
<1> QED  BY <1>1, <1>2, <1>3, <1>4 DEF SyncGoesOn, SyncWant, Syncing, AtHolding

LEMMA ResolveKeeps ==
  ASSUME BooksIInv, NEW s \in Sessions, Resolve(s)
  PROVE  BooksIInv'
<1> DEFINE r == sess[s]
           h == Head(r.todo)
           instruments == WithIsin(s, "instrument", h.isin)
           skip == [r EXCEPT !.todo = Tail(r.todo), !.failed = r.failed \cup {Number(s)}]
           known == [r EXCEPT !.pc = "known"]
<1>1. /\ SyncOk(r, draft[s], View(s), db) /\ BooksShape(r, SyncFields) /\ r.pc = "resolve"
      /\ r.todo # <<>>
  BY SyncIs DEF Resolve, Syncing
<1>2. \/ Local(s, skip)
      \/ h.symbol # NONE /\ \E c : Local(s, ToInstrument(s, c, FALSE))
      \/ h.symbol # NONE /\ Local(s, known)
  BY DEF Resolve, Holding
<1>3. Progress(r) /\ r.want = NONE /\ r.pc \in Syncing /\ KeepsIdentity(draft[s], db, r.blank)
  BY <1>1, AtNext DEF Syncing, AtHolding
<1>4. CASE Local(s, skip)
  <2>1. /\ BooksShape(skip, SyncFields) /\ skip.kind = r.kind /\ skip.run = r.run
        /\ skip.pc = "resolve" /\ skip.want = r.want /\ skip.listed = r.listed
        /\ skip.todo = Tail(r.todo) /\ skip.holdings = r.holdings
        /\ skip.failed = r.failed \cup {Number(s)} /\ skip.blank = r.blank
    BY <1>1 DEF BooksShape, SyncFields
  <2> HIDE DEF skip
  <2>2. Progress(skip)
    BY <1>1, <1>3, <2>1, SkippedProgress
  <2>3. SyncGoesOn(skip, r, draft[s], View(s), db)
    BY <1>3, <2>1, <2>2 DEF SyncGoesOn, SyncWant, Syncing, AtHolding
  <2> QED  BY <1>1, <1>3, <1>4, <2>3, SyncReads
<1>5. ASSUME h.symbol # NONE, NEW c, Local(s, ToInstrument(s, c, FALSE)) PROVE BooksIInv'
  <2> DEFINE q == ToInstrument(s, c, FALSE)
  <2>1. SyncGoesOn(q, r, draft[s], View(s), db)
    BY <1>1, <1>3, <1>5, ToInstrumentIs
  <2> HIDE DEF q
  <2>2. Local(s, q)
    BY <1>5 DEF q
  <2> QED  BY <1>1, <1>3, <2>1, <2>2, SyncReads
<1>6. CASE h.symbol # NONE /\ Local(s, known)
  <2>1. SyncGoesOn(known, r, draft[s], View(s), db)
    BY <1>1, <1>3, <1>6, LookOn DEF AtHolding
  <2> HIDE DEF known
  <2> QED  BY <1>1, <1>3, <1>6, <2>1, SyncReads
<1> QED  BY <1>2, <1>4, <1>5, <1>6

\* A place where a holding is looked for.
LEMMA LookingIs ==
  ASSUME BooksIInv, NEW s \in Sessions, NEW pc \in {"known", "isin", "symbol"}, At(s, pc)
  PROVE  /\ SyncOk(sess[s], draft[s], View(s), db) /\ BooksShape(sess[s], SyncFields)
         /\ sess[s].pc \in Syncing /\ Progress(sess[s]) /\ sess[s].want = NONE
         /\ sess[s].todo # <<>> /\ Head(sess[s].todo).symbol # NONE
         /\ KeepsIdentity(draft[s], db, sess[s].blank)
<1>1. SyncOk(sess[s], draft[s], View(s), db) /\ BooksShape(sess[s], SyncFields) /\ sess[s].pc = pc
  BY SyncIs DEF Syncing, AtHolding
<1>2. sess[s].pc \in Syncing \ {"fetch"} /\ sess[s].pc \in AtHolding
      /\ sess[s].pc \notin {"stub", "instrument"}
  BY <1>1 DEF Syncing, AtHolding
<1> QED  BY <1>1, <1>2, AtNext

LEMMA FoundKeeps ==
  ASSUME BooksIInv, NEW s \in Sessions, NEW pc \in {"known", "isin", "symbol"}, At(s, pc),
         NEW q, Local(s, q), NEW c, NEW link,
         q = Resolved(s, c) \/ q = ToInstrument(s, c, link)
  PROVE  BooksIInv'
<1> DEFINE r == sess[s]
<1>1. /\ SyncOk(r, draft[s], View(s), db) /\ BooksShape(r, SyncFields)
      /\ r.pc \in Syncing /\ Progress(r) /\ r.want = NONE
      /\ r.todo # <<>> /\ Head(r.todo).symbol # NONE /\ KeepsIdentity(draft[s], db, r.blank)
  BY LookingIs
<1>2. SyncGoesOn(q, r, draft[s], View(s), db)
  BY <1>1, ResolvedIs, ToInstrumentIs
<1> QED  BY <1>1, <1>2, SyncReads

LEMMA NotFoundKeeps ==
  ASSUME BooksIInv, NEW s \in Sessions, NEW pc \in {"known", "isin", "symbol"}, At(s, pc),
         NEW next \in AtHolding, NEW blank, sess[s].blank \subseteq blank,
         next = "stub" => Company(Head(sess[s].todo).symbol) \in blank, NEW q, Local(s, q),
         \/ q = [sess[s] EXCEPT !.pc = next] /\ blank = sess[s].blank
         \/ q = [sess[s] EXCEPT !.pc = next, !.blank = blank]
  PROVE  BooksIInv'
<1> DEFINE r == sess[s]
<1>1. /\ SyncOk(r, draft[s], View(s), db) /\ BooksShape(r, SyncFields)
      /\ r.pc \in Syncing /\ Progress(r) /\ r.want = NONE
      /\ r.todo # <<>> /\ Head(r.todo).symbol # NONE /\ KeepsIdentity(draft[s], db, r.blank)
  BY LookingIs
<1>2. SyncGoesOn(q, r, draft[s], View(s), db)
  BY <1>1, LookOn
<1> QED  BY <1>1, <1>2, SyncReads

LEMMA FindInstrumentKeeps ==
  ASSUME BooksIInv, NEW s \in Sessions, FindInstrument(s)
  PROVE  BooksIInv'
<1>1. \/ \E c : Local(s, Resolved(s, c))
      \/ Local(s, [sess[s] EXCEPT !.pc = "isin"])
  BY DEF FindInstrument
<1>2. At(s, "known") /\ "isin" \in AtHolding /\ "isin" # "stub"
  BY DEF FindInstrument, AtHolding
<1>3. ASSUME NEW c, Local(s, Resolved(s, c)) PROVE BooksIInv'
  BY <1>2, <1>3, FoundKeeps
<1>4. ASSUME Local(s, [sess[s] EXCEPT !.pc = "isin"]) PROVE BooksIInv'
  BY <1>2, <1>4, NotFoundKeeps
<1> QED  BY <1>1, <1>3, <1>4

LEMMA FindByIsinKeeps ==
  ASSUME BooksIInv, NEW s \in Sessions, FindByIsin(s)
  PROVE  BooksIInv'
<1>1. \/ \E c : Local(s, ToInstrument(s, c, TRUE))
      \/ Local(s, [sess[s] EXCEPT !.pc = "symbol"])
  BY DEF FindByIsin
<1>2. At(s, "isin") /\ "symbol" \in AtHolding /\ "symbol" # "stub"
  BY DEF FindByIsin, AtHolding
<1>3. ASSUME NEW c, Local(s, ToInstrument(s, c, TRUE)) PROVE BooksIInv'
  BY <1>2, <1>3, FoundKeeps
<1>4. ASSUME Local(s, [sess[s] EXCEPT !.pc = "symbol"]) PROVE BooksIInv'
  BY <1>2, <1>4, NotFoundKeeps
<1> QED  BY <1>1, <1>3, <1>4

LEMMA FindBySymbolKeeps ==
  ASSUME BooksIInv, NEW s \in Sessions, FindBySymbol(s)
  PROVE  BooksIInv'
<1> DEFINE blank == sess[s].blank \cup {Company(Head(sess[s].todo).symbol)}
           q == [sess[s] EXCEPT !.pc = "stub", !.blank = blank]
<1>1. (\E c : Local(s, ToInstrument(s, c, TRUE))) \/ Local(s, q)
  BY DEF FindBySymbol, Holding
<1>2. At(s, "symbol") /\ "stub" \in AtHolding
  BY DEF FindBySymbol, AtHolding
<1>3. sess[s].blank \subseteq blank /\ Company(Head(sess[s].todo).symbol) \in blank
  OBVIOUS
<1>4. q = [sess[s] EXCEPT !.pc = "stub", !.blank = blank]
  OBVIOUS
<1> HIDE DEF blank, q
<1>5. ASSUME NEW c, Local(s, ToInstrument(s, c, TRUE)) PROVE BooksIInv'
  BY <1>2, <1>5, FoundKeeps
<1>6. ASSUME Local(s, q) PROVE BooksIInv'
  BY <1>2, <1>3, <1>4, <1>6, NotFoundKeeps
<1> QED  BY <1>1, <1>5, <1>6

\* The row to write has been looked for.
LEMMA WantedKeeps ==
  ASSUME BooksIInv, NEW s \in Sessions, NEW pc \in {"stub", "instrument"}, At(s, pc),
         NEW key, NEW known, known # NONE => key \in DOMAIN View(s),
         \/ pc = "stub" /\ key = Company(Head(sess[s].todo).symbol)
         \/ /\ pc = "instrument"
            /\ key = Instrument(Head(sess[s].todo).symbol, Head(sess[s].todo).exchange),
         NEW blank, sess[s].blank \subseteq blank,
         pc = "instrument" /\ known # NONE /\ known.company = NONE => key \in blank,
         NEW q, Local(s, q),
         \/ q = [sess[s] EXCEPT !.want = key, !.known = known] /\ blank = sess[s].blank
         \/ q = [sess[s] EXCEPT !.want = key, !.known = known, !.blank = blank]
  PROVE  BooksIInv'
<1> DEFINE r == sess[s]
<1>1. SyncOk(r, draft[s], View(s), db) /\ BooksShape(r, SyncFields) /\ r.pc = pc
  BY SyncIs DEF Syncing, AtHolding
<1>2. /\ BooksShape(q, SyncFields) /\ q.kind = r.kind /\ q.run = r.run /\ q.pc = pc
      /\ SameProgress(q, r) /\ q.want = key /\ q.known = known /\ q.blank = blank
  BY <1>1 DEF BooksShape, SyncFields, SameProgress
<1>3. KeepsIdentity(draft[s], db, q.blank)
  <2>1. KeepsIdentity(draft[s], db, r.blank)
    BY <1>1 DEF SyncOk
  <2> QED  BY <1>2, <2>1, MoreBlank
<1>4. Progress(r) /\ r.pc \in Syncing /\ r.pc \in AtHolding
  BY <1>1, AtNext DEF Syncing, AtHolding
<1>5. r.todo # <<>> /\ Head(r.todo).symbol # NONE
  BY <1>1, <1>4, AtNext DEF Syncing, AtHolding
<1>6. Progress(q) /\ q.todo = r.todo
  BY <1>2, <1>4, ProgressKept DEF SameProgress
<1>7. SyncWant(q, View(s))
  BY <1>2, <1>6 DEF SyncWant
<1>8. (pc = "stub" => StubOk(q)) /\ (pc = "instrument" => LinkOk(q))
  BY <1>1, <1>2, <1>6 DEF SyncOk, StubOk, LinkOk
<1>9. SyncGoesOn(q, r, draft[s], View(s), db)
  BY <1>1, <1>2, <1>3, <1>4, <1>5, <1>6, <1>7, <1>8 DEF SyncGoesOn
<1> QED  BY <1>1, <1>4, <1>9, SyncReads

\* A row written at a holding.
LEMMA AtWriteIs ==
  ASSUME BooksIInv, NEW s \in Sessions, NEW pc \in {"stub", "instrument"}, At(s, pc)
  PROVE  /\ SyncOk(sess[s], draft[s], View(s), db) /\ BooksShape(sess[s], SyncFields)
         /\ sess[s].pc = pc /\ sess[s].pc \in Syncing /\ Progress(sess[s])
         /\ sess[s].todo # <<>> /\ Head(sess[s].todo).symbol # NONE
         /\ Head(sess[s].todo) \in Held /\ SyncWant(sess[s], View(s))
<1>1. SyncOk(sess[s], draft[s], View(s), db) /\ BooksShape(sess[s], SyncFields) /\ sess[s].pc = pc
  BY SyncIs DEF Syncing, AtHolding
<1>2. sess[s].pc \in Syncing \ {"fetch"} /\ sess[s].pc \in AtHolding
  BY <1>1 DEF Syncing, AtHolding
<1>3. Progress(sess[s]) /\ sess[s].todo # <<>> /\ Head(sess[s].todo).symbol # NONE
  BY <1>1, <1>2, AtNext
<1>4. Head(sess[s].todo) \in Held
  BY <1>3, NextHolding
<1> QED  BY <1>1, <1>2, <1>3, <1>4 DEF SyncOk

\* What a session sees of a row, and the draft with a row that stands.
LEMMA SeenStands ==
  ASSUME NEW D, NEW V, NEW R, NEW blank, Overlay(D, V, R), KeepsIdentity(D, R, blank),
         NEW key \in DOMAIN V
  PROVE  IdentityRowOk(key, V[key], R, blank)
<1>1. key \in DOMAIN D => IdentityRowOk(key, V[key], R, blank)
  BY DEF Overlay, KeepsIdentity
<1>2. key \notin DOMAIN D => V[key] = R[key]
  BY DEF Overlay
<1> QED  BY <1>1, <1>2 DEF IdentityRowOk, Stands

LEMMA IdentityRow ==
  ASSUME NEW D, NEW R, NEW blank, KeepsIdentity(D, R, blank), NEW key, NEW row,
         IdentityRowOk(key, row, R, blank), NEW D2, D2 = AddRow(D, key, row)
  PROVE  KeepsIdentity(D2, R, blank)
<1>1. DOMAIN D2 = DOMAIN D \cup {key} /\ D2[key] = row
      /\ \A k \in DOMAIN D : k # key => D2[k] = D[k]
  BY DEF AddRow
<1> QED  BY <1>1 DEF KeepsIdentity

LEMMA CreateStubKeeps ==
  ASSUME BooksIInv, NEW s \in Sessions, CreateStub(s)
  PROVE  BooksIInv'
<1> DEFINE r == sess[s]
           D == draft[s]
           h == Head(r.todo)
           key == Company(h.symbol)
           after == ToInstrument(s, key, TRUE)
           q == [after EXCEPT !.want = NONE]
           changed == [isin |-> Assigned(r.known.isin, h.isin, View(s)[key].isin)]
           stub == [isin |-> h.isin]
<1>1. /\ SyncOk(r, D, View(s), db) /\ BooksShape(r, SyncFields)
      /\ r.pc = "stub" /\ r.pc \in Syncing /\ Progress(r)
      /\ r.todo # <<>> /\ h.symbol # NONE /\ h \in Held /\ SyncWant(r, View(s)) /\ At(s, "stub")
  <2>1. At(s, "stub")
    BY DEF CreateStub
  <2> QED  BY <2>1, AtWriteIs
<1>2. \/ Local(s, [r EXCEPT !.want = key, !.known = IF Sees(s, key) THEN View(s)[key] ELSE NONE])
      \/ Rollback(s)
      \/ r.want # NONE /\ FlushNew(s, stub, after)
      \/ r.want # NONE /\ r.known # NONE /\ FlushUpdate(s, changed, after)
  BY DEF CreateStub, Holding
<1>3. CASE Local(s, [r EXCEPT !.want = key,
                        !.known = IF Sees(s, key) THEN View(s)[key] ELSE NONE])
  <2> DEFINE known == IF Sees(s, key) THEN View(s)[key] ELSE NONE
  <2>1. known # NONE => key \in DOMAIN View(s)
    BY DEF Sees, View
  <2>2. Local(s, [r EXCEPT !.want = key, !.known = known])
    BY <1>3
  <2> HIDE DEF known
  <2> QED  BY <1>1, <2>1, <2>2, WantedKeeps
<1>4. r.want # NONE => r.want = key /\ (r.known # NONE => key \in DOMAIN View(s))
  BY <1>1 DEF SyncWant
<1>5. KeepsIdentity(D, db, r.blank) /\ key \in r.blank
  BY <1>1 DEF SyncOk, StubOk
<1>6. ASSUME NEW row, NEW D2, D2 = AddRow(D, key, row), IdentityRowOk(key, row, db, r.blank)
      PROVE  BooksOk(q, D2, Seen(D2, db), db)
  <2>0. KeepsIdentity(D2, db, r.blank)
    BY <1>5, <1>6, IdentityRow
  <2>1. SyncGoesOn(q, r, D2, Seen(D2, db), db)
    BY <1>1, <2>0, ToInstrumentIs
  <2>2. key[1] \in {"company", "instrument"}
    BY DEF Company
  <2> HIDE DEF q, key
  <2>3. SyncOk(q, D2, Seen(D2, db), db)
    BY <1>1, <1>6, <2>1, <2>2, SyncRow
  <2> QED  BY <2>3 DEF BooksOk
<1>7. CASE r.want # NONE /\ FlushNew(s, stub, after)
  <2>1. BooksRowOk(key, stub, db)
    BY DEF Company, BooksRowOk, BooksTables
  <2>2. key = r.want
    BY <1>4, <1>7
  <2> DEFINE D2 == AddRow(D, key, stub)
  <2>3. key \notin DOMAIN db => BooksOk(q, D2, Seen(D2, db), db)
    BY <1>6 DEF IdentityRowOk
  <2>4. q = [after EXCEPT !.want = NONE] /\ D2 = AddRow(D, key, stub) /\ FlushNew(s, stub, after)
    BY <1>7
  <2> HIDE DEF q, D2, stub, after, key
  <2> QED  BY <2>1, <2>2, <2>3, <2>4, BooksFlushKeeps
<1>8. CASE r.want # NONE /\ r.known # NONE /\ FlushUpdate(s, changed, after)
  <2>1. key = r.want /\ key \in DOMAIN View(s)
    BY <1>4, <1>8
  <2>2. BooksRowOk(key, changed, db) /\ key[1] = "company"
    BY DEF Company, BooksRowOk, BooksTables
  <2> DEFINE D2 == AddRow(D, key, changed)
  <2>3. BooksOk(q, D2, Seen(D2, db), db)
    <3>1. IdentityRowOk(key, View(s)[key], db, r.blank)
      BY <1>5, <2>1, ViewIs, SeenStands
    <3>2. View(s)[key].isin # NONE => changed.isin # NONE
      BY DEF Assigned
    <3> HIDE DEF changed
    <3>3. IdentityRowOk(key, changed, db, r.blank)
      BY <1>5, <2>2, <3>1, <3>2 DEF IdentityRowOk, Stands
    <3> QED  BY <1>6, <3>3
  <2>4. /\ q = [after EXCEPT !.want = NONE] /\ D2 = AddRow(D, key, changed)
        /\ FlushUpdate(s, changed, after)
    BY <1>8
  <2> HIDE DEF q, D2, changed, after, key
  <2> QED  BY <2>1, <2>2, <2>3, <2>4, BooksUpdateKeeps
<1> QED  BY <1>2, <1>3, <1>7, <1>8, BooksRollbackKeeps

LEMMA UpsertInstrumentKeeps ==
  ASSUME BooksIInv, NEW s \in Sessions, UpsertInstrument(s)
  PROVE  BooksIInv'
<1> DEFINE r == sess[s]
           D == draft[s]
           h == Head(r.todo)
           key == Instrument(h.symbol, h.exchange)
           link == IF r.link THEN r.company ELSE NONE
           now == View(s)[key]
           after == Resolved(s, r.company)
           q == [after EXCEPT !.want = NONE]
           changed == [isin |-> Assigned(r.known.isin, h.isin, now.isin),
                       company |-> Linked(r.known.company, link, now.company)]
           new == [isin |-> h.isin, company |-> link]
           blank == IF Sees(s, key) /\ now.company = NONE THEN r.blank \cup {key} ELSE r.blank
<1>1. /\ SyncOk(r, D, View(s), db) /\ BooksShape(r, SyncFields)
      /\ r.pc = "instrument" /\ r.pc \in Syncing /\ Progress(r)
      /\ r.todo # <<>> /\ SyncWant(r, View(s)) /\ At(s, "instrument")
  <2>1. At(s, "instrument")
    BY DEF UpsertInstrument
  <2> QED  BY <2>1, AtWriteIs
<1>2. \/ Local(s, [r EXCEPT !.want = key, !.known = IF Sees(s, key) THEN now ELSE NONE,
                              !.blank = blank])
      \/ FlushNew(s, new, after)
      \/ r.known # NONE /\ FlushUpdate(s, changed, after)
  BY DEF UpsertInstrument, Holding
<1>3. CASE Local(s, [r EXCEPT !.want = key, !.known = IF Sees(s, key) THEN now ELSE NONE,
                              !.blank = blank])
  <2> DEFINE known == IF Sees(s, key) THEN now ELSE NONE
             q3 == [r EXCEPT !.want = key, !.known = known, !.blank = blank]
  <2>1. known # NONE => key \in DOMAIN View(s)
    BY DEF Sees, View
  <2>2. Local(s, q3) /\ q3 = [r EXCEPT !.want = key, !.known = known, !.blank = blank]
    BY <1>3
  <2>3. r.blank \subseteq blank /\ (known # NONE /\ known.company = NONE => key \in blank)
    OBVIOUS
  <2> HIDE DEF known, blank, q3
  <2> QED  BY <1>1, <2>1, <2>2, <2>3, WantedKeeps
<1>4. r.want # NONE => r.want = key /\ (r.known # NONE => key \in DOMAIN View(s))
  BY <1>1 DEF SyncWant
<1>5. key[1] = "instrument"
  BY DEF Instrument
<1>9. KeepsIdentity(D, db, r.blank) /\ LinkOk(r)
  BY <1>1 DEF SyncOk
<1>6. ASSUME NEW row, NEW D2, D2 = AddRow(D, key, row), IdentityRowOk(key, row, db, r.blank)
      PROVE  BooksOk(q, D2, Seen(D2, db), db)
  <2>0. KeepsIdentity(D2, db, r.blank)
    BY <1>6, <1>9, IdentityRow
  <2>1. SyncGoesOn(q, r, D2, Seen(D2, db), db)
    BY <1>1, <2>0, ResolvedIs
  <2>2. key[1] \in {"company", "instrument"}
    BY <1>5
  <2> HIDE DEF q, key
  <2>3. SyncOk(q, D2, Seen(D2, db), db)
    BY <1>1, <1>6, <2>1, <2>2, SyncRow
  <2> QED  BY <2>3 DEF BooksOk
<1>7. CASE FlushNew(s, new, after)
  <2>1. key \notin DOMAIN db => BooksRowOk(key, new, db)
    BY <1>5 DEF BooksRowOk, BooksTables
  <2>2. r.want # NONE => key = r.want
    BY <1>4
  <2>3. r.want # NONE
    BY <1>7 DEF FlushNew
  <2> DEFINE D2 == AddRow(D, key, new)
  <2>4. key \notin DOMAIN db => BooksOk(q, D2, Seen(D2, db), db)
    BY <1>6 DEF IdentityRowOk
  <2>5. q = [after EXCEPT !.want = NONE] /\ D2 = AddRow(D, key, new) /\ FlushNew(s, new, after)
    BY <1>7
  <2> HIDE DEF q, D2, new, after, key
  <2> QED  BY <2>1, <2>2, <2>3, <2>4, <2>5, BooksFlushKeeps
<1>8. CASE r.known # NONE /\ FlushUpdate(s, changed, after)
  <2>1. key = r.want /\ key \in DOMAIN View(s)
    BY <1>4, <1>8 DEF FlushUpdate
  <2>2. BooksRowOk(key, changed, db)
    BY <1>5 DEF BooksRowOk, BooksTables
  <2> DEFINE D2 == AddRow(D, key, changed)
  <2>3. BooksOk(q, D2, Seen(D2, db), db)
    <3>1. IdentityRowOk(key, now, db, r.blank)
      BY <1>9, <2>1, ViewIs, SeenStands
    <3>2. r.known.company = NONE => key \in r.blank
      BY <1>8, <1>9, <2>1 DEF LinkOk, FlushUpdate
    <3>3. changed.company = now.company \/ (changed.company # NONE /\ key \in r.blank)
      BY <3>2 DEF Linked, Assigned
    <3> HIDE DEF changed, now
    <3>4. IdentityRowOk(key, changed, db, r.blank)
      BY <1>5, <3>1, <3>3 DEF IdentityRowOk, Stands
    <3> QED  BY <1>6, <3>4
  <2>4. /\ q = [after EXCEPT !.want = NONE] /\ D2 = AddRow(D, key, changed)
        /\ FlushUpdate(s, changed, after)
    BY <1>8
  <2> HIDE DEF q, D2, changed, after, key
  <2> QED  BY <2>1, <2>2, <2>3, <2>4, BooksUpdateKeeps
<1> QED  BY <1>2, <1>3, <1>7, <1>8

\* The run and its snapshot.
LEMMA PersistKeeps ==
  ASSUME BooksIInv, NEW s \in Sessions, Persist(s), IsFiniteSet(Sessions)
  PROVE  BooksIInv'
<1> DEFINE r == sess[s]
           D == draft[s]
           u == r.run
           p == Snapshot(Fresh("snapshot"))
           ended == [status |-> StatusOf(r.failed), ingested |-> Len(r.holdings),
                     failed |-> Cardinality(r.failed)]
           taken == [run |-> r.run, holdings |-> r.holdings, total |-> TotalOf(r.holdings)]
           rows == [k \in {u, p} |-> IF k = u THEN ended ELSE taken]
           q == [r EXCEPT !.pc = "commit"]
           D2 == [k \in DOMAIN D \cup DOMAIN rows |-> IF k \in DOMAIN rows THEN rows[k] ELSE D[k]]
<1>1. SyncOk(r, D, View(s), db) /\ BooksShape(r, SyncFields) /\ r.pc = "resolve" /\ r.todo = <<>>
  BY SyncIs DEF Persist, Syncing
<1>2. Insert(s, rows, q)
  BY DEF Persist
<1>3. Progress(r) /\ r.want = NONE /\ r.kind = "sync"
  BY <1>1, AtNext DEF Syncing, AtHolding
<1>4. Of(D, "run") = {u} /\ Of(D, "snapshot") = {} /\ Only(D, BooksTables \ {"lots", "adjustment"})
  BY <1>1 DEF SyncOk, AtHolding
<1>5. u \in DOMAIN D /\ u[1] = "run" /\ u \notin DOMAIN db
  <2>1. u \in Of(D, "run") /\ BooksDraftOk(D, db)
    BY <1>4 DEF BooksIInv
  <2> QED  BY <2>1 DEF Of, BooksDraftOk
<1>6. p[1] = "snapshot" /\ p \notin DOMAIN db /\ \A t \in Sessions : p \notin DOMAIN draft[t]
  BY BooksFreshKey DEF Snapshot
<1>7. /\ BooksShape(q, SyncFields) /\ q.kind = r.kind /\ q.pc = "commit" /\ q.want = r.want
      /\ q.run = r.run /\ q.todo = r.todo /\ SameProgress(q, r) /\ q.blank = r.blank
  BY <1>1 DEF BooksShape, SyncFields, SameProgress
<1>8. u # p
  BY <1>5, <1>6
<1>9. DOMAIN rows = {u, p} /\ rows[u] = ended /\ rows[p] = taken
  BY <1>8
<1>10. D2 = [k \in DOMAIN D \cup DOMAIN rows |-> IF k \in DOMAIN rows THEN rows[k] ELSE D[k]]
  OBVIOUS
<1>11. taken.run = r.run /\ taken.holdings = r.holdings
  OBVIOUS
<1>12. ended = [status |-> StatusOf(r.failed), ingested |-> Len(r.holdings),
                failed |-> Cardinality(r.failed)]
  OBVIOUS
<1> HIDE DEF p, ended, taken, rows, q, D2
<1>13. /\ DOMAIN D2 = DOMAIN D \cup {u, p} /\ D2[u] = ended /\ D2[p] = taken
       /\ \A k \in DOMAIN D : k # u /\ k # p => D2[k] = D[k]
  BY <1>9, <1>10
<1>14. \A t \in Sessions : t # s => DOMAIN rows \cap DOMAIN draft[t] = {}
  BY <1>5, <1>6, <1>9 DEF BooksIInv, DraftsDisjoint
<1>15. BooksDraftOk(D2, db)
  <2>1. BooksDraftOk(D, db)
    BY DEF BooksIInv
  <2>2. IsFiniteSet(DOMAIN D2)
    <3>1. IsFiniteSet(DOMAIN D)
      BY <2>1 DEF BooksDraftOk
    <3>2. IsFiniteSet(DOMAIN D \cup {u})
      BY <3>1, FS_AddElement
    <3>3. IsFiniteSet((DOMAIN D \cup {u}) \cup {p})
      BY <3>2, FS_AddElement
    <3>4. DOMAIN D2 = (DOMAIN D \cup {u}) \cup {p}
      BY <1>13
    <3> QED  BY <3>3, <3>4
  <2>3. \A k \in DOMAIN D : BooksRowOk(k, D[k], db)
    BY <2>1, DraftOkByRow
  <2>4. BooksRowOk(u, D2[u], db) /\ BooksRowOk(p, D2[p], db)
    BY <1>5, <1>6 DEF BooksRowOk, BooksTables
  <2>5. \A k \in DOMAIN D2 : BooksRowOk(k, D2[k], db)
    BY <1>13, <2>3, <2>4
  <2> QED  BY <2>2, <2>5, DraftOkByRow
<1>16. Of(D2, "run") = {u} /\ Of(D2, "snapshot") = {p}
  BY <1>4, <1>5, <1>6, <1>13 DEF Of
<1>17. Persisted(q, D2)
  BY <1>1, <1>7, <1>11, <1>12, <1>13, <1>16 DEF Persisted, SameProgress
<1>18. Only(D2, BooksTables \ {"lots", "adjustment"})
  BY <1>4, <1>5, <1>6, <1>13 DEF Only, BooksTables
<1>19. Progress(q)
  BY <1>3, <1>7, ProgressKept
<1>20. KeepsIdentity(D2, db, q.blank)
  <2>1. KeepsIdentity(D, db, r.blank)
    BY <1>1 DEF SyncOk
  <2> QED  BY <1>5, <1>6, <1>7, <1>13, <2>1 DEF KeepsIdentity, IdentityRowOk
<1>21. SyncOk(q, D2, Seen(D2, db), db)
  BY <1>3, <1>7, <1>16, <1>17, <1>18, <1>19, <1>20 DEF SyncOk, SyncWant, AtHolding
<1> QED  BY <1>2, <1>10, <1>14, <1>15, <1>21, BooksInsertKeeps DEF BooksOk

-----------------------------------------------------------------------------
(* The invariant.                                                          *)

LEMMA BooksInitOk ==
  ASSUME BooksAssumption, BooksInit
  PROVE  BooksIInv
<1>1. PICK rows \in Past : InitTransactions(rows)
  BY DEF BooksInit
<1>2. /\ db = rows /\ draft = [s \in Sessions |-> Nothing] /\ sess = [s \in Sessions |-> Idle]
      /\ DOMAIN Nothing = {} /\ Booked(rows)
  BY <1>1 DEF InitTransactions, Nothing, BooksAssumption
<1>3. \A s \in Sessions : draft[s] = Nothing /\ sess[s] = Idle
  BY <1>2
<1>4. \A s \in Sessions : BooksOk(sess[s], draft[s], View(s), db) /\ BooksDraftOk(draft[s], db)
  BY <1>2, <1>3, EmptyDraftIsOk DEF BooksOk
<1>5. DraftsDisjoint
  BY <1>2, <1>3 DEF DraftsDisjoint
<1>6. draft = [s \in Sessions |-> draft[s]] /\ sess = [s \in Sessions |-> sess[s]] /\ Booked(db)
  BY <1>2
<1> QED  BY <1>4, <1>5, <1>6 DEF BooksIInv

LEMMA PortfolioSyncKeeps ==
  ASSUME BooksIInv, NEW s \in Sessions, PortfolioSyncProceed(s), PortfolioSyncAssumption
  PROVE  BooksIInv'
<1>1. IsFiniteSet(Sessions)
  BY DEF PortfolioSyncAssumption
<1>2. CASE InsertRun(s)  BY <1>1, <1>2, InsertRunKeeps
<1>3. CASE FetchHoldings(s)  BY <1>3, FetchHoldingsKeeps
<1>4. CASE Resolve(s)  BY <1>4, ResolveKeeps
<1>5. CASE FindInstrument(s)  BY <1>5, FindInstrumentKeeps
<1>6. CASE FindByIsin(s)  BY <1>6, FindByIsinKeeps
<1>7. CASE FindBySymbol(s)  BY <1>7, FindBySymbolKeeps
<1>8. CASE CreateStub(s)  BY <1>8, CreateStubKeeps
<1>9. CASE UpsertInstrument(s)  BY <1>9, UpsertInstrumentKeeps
<1>10. CASE Persist(s)  BY <1>1, <1>10, PersistKeeps
<1>11. CASE FinishSync(s)  BY <1>11, BooksCommitKeeps DEF FinishSync
<1> QED  BY <1>2, <1>3, <1>4, <1>5, <1>6, <1>7, <1>8, <1>9, <1>10, <1>11
         DEF PortfolioSyncProceed

LEMMA ReconstructionKeeps ==
  ASSUME BooksIInv, NEW s \in Sessions, ReconstructionProceed(s), IsFiniteSet(Sessions),
         ReconstructionAssumption, StatementsAssumption
  PROVE  BooksIInv'
<1>1. CASE AdjustedCompany(s)  BY <1>1, AdjustedCompanyKeeps
<1>2. CASE Adjust(s)  BY <1>2, AdjustKeeps
<1>3. CASE FinishAdjustment(s)  BY <1>3, BooksCommitKeeps DEF FinishAdjustment
<1>4. CASE ReadLatest(s)  BY <1>4, ReadLatestKeeps
<1>5. CASE ReadTrades(s)  BY <1>5, ReadTradesKeeps
<1>6. CASE ReadActions(s)  BY <1>6, ReadActionsKeeps
<1>7. CASE ReadOpenings(s)  BY <1>7, ReadOpeningsKeeps
<1>8. CASE BeginDelete(s)  BY <1>8, BeginDeleteKeeps
<1>9. CASE DeleteLots(s)  BY <1>9, DeleteLotsKeeps
<1>10. CASE InsertLots(s)  BY <1>10, InsertLotsKeeps
<1>11. CASE FinishRebuild(s)  BY <1>11, BooksCommitKeeps DEF FinishRebuild
<1>12. CASE Compare(s)  BY <1>12, CompareKeeps
<1>13. CASE Report(s)  BY <1>13, BooksRollbackKeeps DEF Report
<1> QED  BY <1>1, <1>2, <1>3, <1>4, <1>5, <1>6, <1>7, <1>8, <1>9, <1>10, <1>11, <1>12, <1>13
         DEF ReconstructionProceed

LEMMA BooksStepKeeps ==
  ASSUME BooksIInv, NEW s \in Sessions, BeginBooks(s) \/ ProceedBooks(s) \/ Crash(s),
         PortfolioSyncAssumption, ReconstructionAssumption, StatementsAssumption
  PROVE  BooksIInv'
<1>1. IsFiniteSet(Sessions)
  BY DEF PortfolioSyncAssumption
<1>2. CASE BeginPortfolioSync(s)  BY <1>2, BeginPortfolioSyncKeeps
<1>3. CASE BeginAdjustment(s)  BY <1>3, BeginAdjustmentKeeps
<1>4. CASE Import(s)  BY <1>4, ImportKeeps
<1>5. CASE BeginRebuild(s)  BY <1>5, BeginRebuildKeeps
<1>6. CASE BeginReconcile(s)  BY <1>6, BeginReconcileKeeps
<1>7. CASE PortfolioSyncProceed(s)  BY <1>7, PortfolioSyncKeeps
<1>8. CASE ReconstructionProceed(s)  BY <1>1, <1>8, ReconstructionKeeps
<1>9. CASE DeadlockVictim(s)  BY <1>9, BooksRollbackKeeps DEF DeadlockVictim
<1>10. CASE Crash(s)  BY <1>10, BooksRollbackKeeps DEF Crash
<1> QED  BY <1>2, <1>3, <1>4, <1>5, <1>6, <1>7, <1>8, <1>9, <1>10
         DEF BeginBooks, BeginReconstruction, ProceedBooks

LEMMA BooksStutterKeeps ==
  ASSUME BooksIInv, UNCHANGED txvars
  PROVE  BooksIInv'
<1>1. db' = db /\ draft' = draft /\ sess' = sess
  BY DEF txvars
<1>2. \A s \in Sessions : View(s)' = View(s)
  BY <1>1 DEF View
<1>3. DraftsDisjoint' /\ Booked(db)'
  BY <1>1 DEF BooksIInv, DraftsDisjoint
<1> QED  BY <1>1, <1>2, <1>3 DEF BooksIInv

LEMMA BooksInductive ==
  ASSUME BooksIInv, [BooksNext]_txvars
  PROVE  BooksIInv'
<1>1. CASE BooksNext
  BY <1>1, BooksStepKeeps, PortfolioSyncAssumption, ReconstructionAssumption,
     StatementsAssumption DEF BooksNext
<1> QED  BY <1>1, BooksStutterKeeps

LEMMA BooksInvariant == BooksSpec => []BooksIInv
<1>1. BooksInit => BooksIInv
  BY BooksInitOk, BooksAssumption
<1>2. BooksIInv /\ [BooksNext]_txvars => BooksIInv'
  BY BooksInductive
<1> QED  BY <1>1, <1>2, PTL DEF BooksSpec

-----------------------------------------------------------------------------
(* What a run of the commands promises.                                    *)

LEMMA SyncLeavesAll ==
  ASSUME BooksIInv
  PROVE  SyncIsComplete
<1>1. Reported(db)
  BY DEF BooksIInv, Booked
<1>2. ASSUME NEW s \in Sessions, At(s, "commit"), sess[s].kind = "sync"
      PROVE  LET row == draft[s][sess[s].run]
             IN  /\ row.ingested + row.failed = Len(sess[s].listed)
                 /\ Normalized(sess[s], Len(sess[s].listed))
  <2> DEFINE r == sess[s]
             D == draft[s]
             row == D[r.run]
  <2>1. BooksOk(r, D, View(s), db) /\ r.pc = "commit" /\ r.kind = "sync"
    BY <1>2 DEF BooksIInv, At
  <2>2. SyncOk(r, D, View(s), db)
    BY <2>1 DEF BooksOk, Idle, AdjustOk, RebuildOk, ReconcileOk
  <2>3. Persisted(r, D) /\ Progress(r)
    BY <2>1, <2>2 DEF SyncOk
  <2>4. row.ingested = Len(r.holdings) /\ row.failed = Cardinality(r.failed) /\ r.todo = <<>>
    BY <2>3 DEF Persisted
  <2>5. PICK n \in Nat :
           /\ Remainder(r.todo, r.listed, n)
           /\ Len(r.holdings) + Cardinality(r.failed) = n /\ Normalized(r, n)
    BY <2>3 DEF Progress
  <2>6. n = Len(r.listed)
    BY <2>4, <2>5, RestOfNone
  <2> QED  BY <2>4, <2>5, <2>6
<1> QED  BY <1>1, <1>2 DEF SyncIsComplete

\* The rows change with a commit, or an import.
LEMMA WhatCommits ==
  ASSUME BooksIInv, NEW s \in Sessions, BeginBooks(s) \/ ProceedBooks(s) \/ Crash(s)
  PROVE  db' = db \/ Import(s)
         \/ (db' = View(s) /\ (FinishSync(s) \/ FinishAdjustment(s) \/ FinishRebuild(s)))
<1>1. \A state : Local(s, state) \/ Start(s, state) \/ Rollback(s) => db' = db
  BY DEF Local, Start, Rollback
<1>2. \A rows, state : Insert(s, rows, state) => db' = db
  BY DEF Insert
<1>3. \A row, state :
        Flush(s, row, state) \/ FlushUpdate(s, row, state) \/ FlushNew(s, row, state) => db' = db
  BY <1>1, <1>2 DEF FlushUpdate, FlushNew, Flush, InsertRow
<1>4. Commit(s, Idle) => db' = View(s)
  BY DEF Commit
<1>5. BeginBooks(s) => db' = db \/ Import(s)
  BY <1>1 DEF BeginBooks, BeginPortfolioSync, BeginReconstruction, BeginAdjustment, BeginRebuild,
              BeginReconcile
<1>6. Crash(s) \/ DeadlockVictim(s) => db' = db
  BY <1>1 DEF Crash, DeadlockVictim
<1>7. PortfolioSyncProceed(s) => db' = db \/ FinishSync(s)
  <2>1. InsertRun(s) \/ Persist(s) => db' = db
    BY <1>2 DEF InsertRun, InsertRow, Persist
  <2>2. FetchHoldings(s) => db' = db
    BY <1>1 DEF FetchHoldings
  <2>3. Resolve(s) \/ FindInstrument(s) \/ FindByIsin(s) \/ FindBySymbol(s) => db' = db
    BY <1>1 DEF Resolve, FindInstrument, FindByIsin, FindBySymbol
  <2>4. CreateStub(s) => db' = db
    BY <1>1, <1>3 DEF CreateStub
  <2>5. UpsertInstrument(s) => db' = db
    BY <1>1, <1>3 DEF UpsertInstrument
  <2> QED  BY <2>1, <2>2, <2>3, <2>4, <2>5 DEF PortfolioSyncProceed
<1>8. ReconstructionProceed(s) => db' = db \/ FinishAdjustment(s) \/ FinishRebuild(s)
  <2>1. AdjustedCompany(s) => db' = db
    BY <1>1, <1>3 DEF AdjustedCompany, GetOrCreate
  <2>2. Adjust(s) => db' = db
    BY <1>1, <1>3 DEF Adjust
  <2>3. ReadLatest(s) \/ ReadTrades(s) \/ ReadActions(s) \/ ReadOpenings(s) => db' = db
    BY <1>1 DEF ReadLatest, ReadTrades, ReadActions, ReadOpenings
  <2>4. BeginDelete(s) => db' = db
    BY <1>1 DEF BeginDelete
  <2>5. DeleteLots(s) => db' = db
    BY <1>1, <1>3 DEF DeleteLots
  <2>6. InsertLots(s) => db' = db
    BY <1>2 DEF InsertLots, InsertRow
  <2>7. Compare(s) \/ Report(s) => db' = db
    BY <1>1 DEF Compare, Report
  <2> QED  BY <2>1, <2>2, <2>3, <2>4, <2>5, <2>6, <2>7 DEF ReconstructionProceed
<1>9. FinishSync(s) \/ FinishAdjustment(s) \/ FinishRebuild(s) => Commit(s, Idle)
  BY DEF FinishSync, FinishAdjustment, FinishRebuild
<1> QED  BY <1>4, <1>5, <1>6, <1>7, <1>8, <1>9 DEF ProceedBooks

\* The draft of a command that ends leaves what is known of the rows it has, unless it
\* is a sync that read them as not known.
LEMMA CommitIdentity ==
  ASSUME BooksIInv, NEW s \in Sessions,
         FinishSync(s) \/ FinishAdjustment(s) \/ FinishRebuild(s), NEW k \in DOMAIN db
  PROVE  IdentityRowOk(k, View(s)[k], db, IF FinishSync(s) THEN sess[s].blank ELSE {})
<1> DEFINE r == sess[s]
           D == draft[s]
           blank == IF FinishSync(s) THEN r.blank ELSE {}
<1>1. BooksOk(r, D, View(s), db) /\ Overlay(D, View(s), db) /\ r.pc = "commit"
  BY ViewIs DEF BooksIInv, At, FinishSync, FinishAdjustment, FinishRebuild
<1>2. CASE FinishSync(s)
  <2>1. SyncOk(r, D, View(s), db)
    BY <1>1, <1>2 DEF BooksOk, Idle, AdjustOk, RebuildOk, ReconcileOk, FinishSync
  <2>2. KeepsIdentity(D, db, blank) /\ k \in DOMAIN View(s)
    BY <1>1, <1>2, <2>1 DEF SyncOk, Overlay
  <2> HIDE DEF blank, D
  <2> QED  BY <1>1, <2>2, SeenStands DEF blank
<1>3. CASE ~FinishSync(s)
  <2>1. AdjustOk(r, D, View(s), db) \/ RebuildOk(r, D, View(s), db)
    BY <1>1, <1>3 DEF BooksOk, Idle, SyncOk, ReconcileOk, FinishAdjustment, FinishRebuild
  <2>2. \A c \in DOMAIN D : c \in DOMAIN db => c[1] # "company" /\ c[1] # "instrument"
    BY <2>1 DEF AdjustOk, RebuildOk, Only, Of
  <2>3. KeepsIdentity(D, db, blank) /\ k \in DOMAIN View(s)
    BY <1>1, <2>2 DEF KeepsIdentity, IdentityRowOk, Overlay
  <2> HIDE DEF blank, D
  <2> QED  BY <1>1, <2>3, SeenStands DEF blank
<1> QED  BY <1>2, <1>3

LEMMA IdentityStep ==
  ASSUME BooksIInv, [BooksNext]_txvars
  PROVE  IdentityStandsStep
<1>1. CASE db' = db
  BY <1>1 DEF IdentityStandsStep, Of
<1>2. ASSUME NEW s \in Sessions, Import(s) PROVE IdentityStandsStep
  <2>1. \A k \in DOMAIN db : k \in DOMAIN db' /\ db'[k] = db[k]
    BY <1>2 DEF Import
  <2> QED  BY <2>1 DEF IdentityStandsStep, Of
<1>3. ASSUME NEW s \in Sessions, db' = View(s),
             FinishSync(s) \/ FinishAdjustment(s) \/ FinishRebuild(s)
      PROVE  IdentityStandsStep
  <2> DEFINE blank == IF FinishSync(s) THEN sess[s].blank ELSE {}
  <2>1. ASSUME NEW k \in DOMAIN db
        PROVE  /\ k \in DOMAIN db' /\ IdentityRowOk(k, db'[k], db, blank)
               /\ k \in blank => Overwrites(s, k)
    <3>1. k \in DOMAIN db'
      BY <1>3, ViewIs DEF Overlay
    <3>2. IdentityRowOk(k, View(s)[k], db, blank)
      BY <1>3, CommitIdentity
    <3> QED  BY <1>3, <3>1, <3>2 DEF Overwrites
  <2> HIDE DEF blank
  <2>2. ASSUME NEW k \in Of(db, "instrument"), db[k].company # NONE
        PROVE  /\ k \in DOMAIN db' /\ db'[k].company # NONE
               /\ db'[k].company = db[k].company \/ \E t \in Sessions : Overwrites(t, k)
    <3>1. k \in DOMAIN db /\ k[1] = "instrument"
      BY DEF Of
    <3> QED  BY <2>1, <2>2, <3>1 DEF IdentityRowOk, Stands
  <2>3. ASSUME NEW k \in Of(db, "company")
        PROVE  /\ k \in DOMAIN db'
               /\ db[k].isin # NONE =>
                     /\ db'[k].isin # NONE
                     /\ db'[k].isin = db[k].isin \/ \E t \in Sessions : Overwrites(t, k)
    <3>1. k \in DOMAIN db /\ k[1] = "company"
      BY DEF Of
    <3> QED  BY <2>1, <3>1 DEF IdentityRowOk, Stands
  <2> QED  BY <2>2, <2>3 DEF IdentityStandsStep
<1>4. BooksNext => db' = db \/ \E s \in Sessions :
                      \/ Import(s)
                      \/ db' = View(s) /\ (FinishSync(s) \/ FinishAdjustment(s) \/ FinishRebuild(s))
  BY WhatCommits DEF BooksNext
<1>5. UNCHANGED txvars => db' = db
  BY DEF txvars
<1> QED  BY <1>1, <1>2, <1>3, <1>4, <1>5

\* What a sync leaves is all that the broker listed, or says that it is not, at every
\* moment (PortfolioSyncService.sync, _persist): each run that is stored has ended
\* with its one snapshot, and each holding of the list is in it, with its value, or
\* counted as skipped.
THEOREM SyncsAreComplete == BooksSpec => []SyncIsComplete
<1>1. BooksIInv => SyncIsComplete
  BY SyncLeavesAll
<1> QED  BY <1>1, BooksInvariant, PTL

\* However many syncs find and write the same rows between each other's reads and
\* writes, under whatever ISINs a symbol is listed: no step takes from an instrument
\* its company or from a company its ISIN, and only the commit of a sync that had read
\* it as not known leaves another in its place (InstrumentRepository.upsert,
\* CompanyRepository.upsert, instrument_resolver.py:111).
THEOREM IdentitiesStand == BooksSpec => IdentityStands
<1>1. BooksIInv /\ [BooksNext]_txvars => [IdentityStandsStep]_txvars
  BY IdentityStep
<1> QED  BY <1>1, BooksInvariant, PTL DEF BooksSpec, IdentityStands

\* A rebuild that commits (reconstruct_account) leaves none of the lots it found
\* alive, and lots of its own.
THEOREM RebuildsReplace == BooksSpec => RebuildReplaces
<1>1. BooksIInv => RebuildReplacesStep
  BY RebuildReplacesAll
<1> QED  BY <1>1, BooksInvariant, PTL DEF BooksSpec, RebuildReplaces

\* A comparison (reconcile_account) that began when all that the statements rest on
\* was recorded finds no difference that a statement's gaps do not explain, whatever
\* is written while it reads.
THEOREM CompleteBooksAreClean == BooksSpec => []CompleteBooksReconcile
<1>1. BooksIInv => CompleteBooksReconcile
  BY ComparisonIsClean
<1> QED  BY <1>1, BooksInvariant, PTL
=============================================================================
