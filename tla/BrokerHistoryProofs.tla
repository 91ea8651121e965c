------------------------ MODULE BrokerHistoryProofs -------------------------
(***************************************************************************)
(* The two ends of a broker account's history: what the import stores of   *)
(* the statements, and what the replay of the stored trades computes.      *)
(*                                                                         *)
(* The import.  For every set of concurrent commands, files and keys and   *)
(* every content of the files: a run reported SUCCESS is stored            *)
(* completely, every stored row is traceable to its run, and nothing       *)
(* recorded changes.  SuccessIsComplete is not inductive: it needs that    *)
(* the counts of a running import are those of the rows it has inserted    *)
(* so far (Account), and that no two transactions hold one file or one     *)
(* key (Apart), which is what the two unique indexes are for.              *)
(*                                                                         *)
(* The replay.  For every set of symbols, quantities, prices and ratios,   *)
(* every precision and every timeline: the two copies FifoLots keeps of    *)
(* the open lots agree, lots are consumed first in, first out, the figures *)
(* kept beside the lots are theirs, and splits keep to their date.  That a *)
(* split keeps the order of consumption needs that no lot holds more than  *)
(* it opened with, and that rounding neither closes an open lot nor        *)
(* reverses an order of quantities.                                        *)
(***************************************************************************)
EXTENDS BrokerImport, FifoLots, FiniteSetTheorems, WellFoundedInduction, TLAPS

(***************************************************************************)
(* THE IMPORT OF STATEMENTS (BrokerImport).                                *)
(***************************************************************************)

\* What the import c has done so far, none of it committed.
Account(c) ==
    /\ runs[c.file] = ABSENT
    /\ IsFiniteSet(c.inserted)
    /\ c.created = Cardinality(c.inserted)
    /\ c.row <= Len(Content[c.file]) + 1
    /\ c.created + c.skipped = c.row - 1
    /\ \A k \in c.inserted : rows[k] = ABSENT /\ k \in KeysOf(c.file)
    /\ \A i \in DOMAIN Content[c.file] :
          i < c.row => Content[c.file][i].key \in c.inserted
                         \/ rows[Content[c.file][i].key] # ABSENT
    /\ c.status = "FAILED" => c.pc = "raised" /\ c.inserted = {}

Fresh(c) ==
    c.row = 1 /\ c.created = 0 /\ c.skipped = 0 /\ c.inserted = {} /\ c.status = "PARTIAL"

Apart(s, t) ==
    (s # t /\ InTransaction(s) /\ InTransaction(t)) =>
        /\ sess[s].file # sess[t].file
        /\ sess[s].inserted \cap sess[t].inserted = {}

SessionsInv ==
    /\ \A s \in Sessions : InTransaction(s) => Account(sess[s])
    /\ \A s \in Sessions : sess[s].pc \in {"claiming", "parsing"} => Fresh(sess[s])
    /\ \A s, t \in Sessions : Apart(s, t)

ImportsInv == ImportsTypeOK /\ SessionsInv /\ RowsAreTraceable /\ SuccessIsComplete

-----------------------------------------------------------------------------
(* Steps that leave the tables alone.                                      *)

LEMMA InTransactionType ==
  ASSUME ImportsTypeOK, NEW s \in Sessions
  PROVE  /\ InTransaction(s) <=> sess[s].pc \in {"parsing", "looking", "inserting", "raised"}
         /\ InTransaction(s) => sess[s] \in Importing
         /\ sess[s].pc = "claiming" => sess[s] \in Importing
  BY DEF ImportsTypeOK, InTransaction, Importing, Idle

\* The tables' own invariants survive a step that changes neither.
LEMMA TablesKept ==
  ASSUME RowsAreTraceable, SuccessIsComplete, UNCHANGED <<runs, rows>>
  PROVE  RowsAreTraceable' /\ SuccessIsComplete'
  BY DEF RowsAreTraceable, SuccessIsComplete, SourcedBy

LEMMA KeysOfType ==
  ASSUME NEW g \in Files
  PROVE  KeysOf(g) \subseteq Keys
  <1>1. Content[g] \in Seq(ImportRow)
    BY BrokerImportAssumption
  <1>2. \A i \in DOMAIN Content[g] : Content[g][i] \in ImportRow
    BY <1>1
  <1> QED BY <1>2 DEF KeysOf, ImportRow

\* A session leaves its transaction, or has not entered one.
LEMMA LeaveKeeps ==
  ASSUME ImportsInv, NEW s \in Sessions, UNCHANGED <<runs, rows>>,
         NEW c \in {Idle} \cup [pc : {"broken"}, file : Files] \cup Importing,
         c.pc \in {"idle", "broken", "claiming"},
         c.pc = "claiming" => Fresh(c),
         sess' = [sess EXCEPT ![s] = c]
  PROVE  ImportsInv'
  <1>1. ImportsTypeOK'
    BY DEF ImportsInv, ImportsTypeOK, Exhausted
  <1>2. \A t \in Sessions : sess'[t] = IF t = s THEN c ELSE sess[t]
    BY DEF ImportsInv, ImportsTypeOK
  <1>3. \A t \in Sessions : InTransaction(t)' => t # s /\ InTransaction(t)
    BY <1>2 DEF InTransaction
  <1>4. \A t \in Sessions : InTransaction(t)' => Account(sess[t])'
    BY <1>2, <1>3 DEF ImportsInv, SessionsInv, Account
  <1>5. \A t \in Sessions : sess'[t].pc \in {"claiming", "parsing"} => Fresh(sess[t])'
    BY <1>2 DEF ImportsInv, SessionsInv, Fresh
  <1>6. \A t, u \in Sessions : Apart(t, u)'
    BY <1>2, <1>3 DEF ImportsInv, SessionsInv, Apart
  <1> QED BY <1>1, <1>4, <1>5, <1>6, TablesKept DEF ImportsInv, SessionsInv

\* A session goes on inside its transaction.
LEMMA StayKeeps ==
  ASSUME ImportsInv, NEW s \in Sessions, UNCHANGED <<runs, rows>>,
         NEW c \in Importing, c.pc # "claiming",
         c.pc = "parsing" => Fresh(c),
         c.pc = "inserting" => c.row <= Len(Content[c.file]),
         Account(c),
         \A t \in Sessions \ {s} :
            InTransaction(t) => sess[t].file # c.file /\ sess[t].inserted \cap c.inserted = {},
         sess' = [sess EXCEPT ![s] = c]
  PROVE  ImportsInv'
  <1>1. \A t \in Sessions : sess'[t] = IF t = s THEN c ELSE sess[t]
    BY DEF ImportsInv, ImportsTypeOK
  <1>2. Len(Content[c.file]) \in Nat /\ c.row \in Nat
    BY BrokerImportAssumption DEF Importing
  <1>3. ImportsTypeOK'
    BY <1>1, <1>2 DEF ImportsInv, ImportsTypeOK, Exhausted
  <1>4. \A t \in Sessions : t # s => (InTransaction(t)' <=> InTransaction(t))
    BY <1>1 DEF InTransaction
  <1>5. \A t \in Sessions : InTransaction(t)' => Account(sess[t])'
    BY <1>1, <1>4 DEF ImportsInv, SessionsInv, Account
  <1>6. \A t \in Sessions : sess'[t].pc \in {"claiming", "parsing"} => Fresh(sess[t])'
    BY <1>1 DEF ImportsInv, SessionsInv, Fresh
  <1>7. \A t, u \in Sessions : Apart(t, u)'
    BY <1>1, <1>4 DEF ImportsInv, SessionsInv, Apart
  <1> QED BY <1>3, <1>5, <1>6, <1>7, TablesKept DEF ImportsInv, SessionsInv

-----------------------------------------------------------------------------
(* Commits.                                                                *)

LEMMA CommitKeeps ==
  ASSUME ImportsInv, NEW s \in Sessions, InTransaction(s), NEW run \in Run,
         run.status = "FAILED" => sess[s].inserted = {},
         run.status = "SUCCESS" =>
            /\ run.created = sess[s].created /\ run.skipped = sess[s].skipped
            /\ sess[s].row = Len(Content[sess[s].file]) + 1,
         CommitAs(s, run)
  PROVE  ImportsInv'
  <1> DEFINE c == sess[s]
             f == sess[s].file
  <1>1. /\ c \in Importing /\ f \in Files /\ Account(c)
        /\ runs \in [Files -> Run \cup {ABSENT}] /\ rows \in [Keys -> Files \cup {ABSENT}]
    BY InTransactionType DEF ImportsInv, SessionsInv, ImportsTypeOK, Importing
  <1>2. /\ \A g \in Files : runs'[g] = IF g = f THEN run ELSE runs[g]
        /\ \A k \in Keys : rows'[k] = IF k \in c.inserted THEN f ELSE rows[k]
        /\ \A t \in Sessions : sess'[t] = IF t = s THEN Idle ELSE sess[t]
    BY <1>1 DEF CommitAs, ImportsInv, ImportsTypeOK
  <1>3. runs[f] = ABSENT /\ ABSENT \notin Files /\ \A k \in c.inserted : rows[k] = ABSENT
    BY <1>1, BrokerImportAssumption DEF Account
  <1>4. ImportsTypeOK'
    <2>1. runs' \in [Files -> Run \cup {ABSENT}] /\ rows' \in [Keys -> Files \cup {ABSENT}]
      BY <1>1 DEF CommitAs
    <2> QED BY <2>1, <1>2 DEF CommitAs, ImportsInv, ImportsTypeOK, Exhausted, Idle
  <1>5. \A t \in Sessions : InTransaction(t)' => t # s /\ InTransaction(t)
    BY <1>2 DEF InTransaction, Idle
  <1>6. \A t \in Sessions : InTransaction(t)' => Account(sess[t])'
    <2> SUFFICES ASSUME NEW t \in Sessions, InTransaction(t)'
                 PROVE  Account(sess[t])'
      OBVIOUS
    <2>1. /\ t # s /\ InTransaction(t) /\ sess'[t] = sess[t] /\ Account(sess[t])
          /\ sess[t].file # f /\ sess[t].inserted \cap c.inserted = {}
      BY <1>2, <1>5 DEF ImportsInv, SessionsInv, Apart
    <2>2. sess[t] \in Importing
      BY <2>1, InTransactionType DEF ImportsInv
    <2>3. sess[t].file \in Files /\ sess[t].inserted \subseteq Keys
      BY <2>2 DEF Importing
    <2>4. runs'[sess[t].file] = ABSENT
      BY <2>1, <2>3, <1>2 DEF Account
    <2>5. \A k \in sess[t].inserted : rows'[k] = ABSENT
      BY <2>1, <2>3, <1>2 DEF Account
    <2>6. \A i \in DOMAIN Content[sess[t].file] : Content[sess[t].file][i].key \in Keys
      BY <2>3, KeysOfType DEF KeysOf
    <2>7. \A k \in Keys : rows[k] # ABSENT => rows'[k] # ABSENT
      BY <1>2, <1>3, <1>1
    <2> QED BY <2>1, <2>4, <2>5, <2>6, <2>7 DEF Account, KeysOf
  <1>7. \A t \in Sessions : sess'[t].pc \in {"claiming", "parsing"} => Fresh(sess[t])'
    BY <1>2 DEF ImportsInv, SessionsInv, Fresh, Idle
  <1>8. \A t, u \in Sessions : Apart(t, u)'
    BY <1>2, <1>5 DEF ImportsInv, SessionsInv, Apart
  <1>9. RowsAreTraceable'
    <2> SUFFICES ASSUME NEW k \in Keys, rows'[k] # ABSENT
                 PROVE  /\ runs'[rows'[k]] # ABSENT /\ runs'[rows'[k]].status # "FAILED"
                        /\ k \in KeysOf(rows'[k])
      BY DEF RowsAreTraceable, KeysOf
    <2>1. run # ABSENT
      BY BrokerImportAssumption
    <2>2. CASE k \in c.inserted
      BY <2>2, <2>1, <1>1, <1>2 DEF Account
    <2>3. CASE k \notin c.inserted
      <3>1. rows'[k] = rows[k] /\ rows[k] \in Files /\ rows[k] # f
        BY <2>3, <1>1, <1>2, <1>3 DEF ImportsInv, RowsAreTraceable
      <3> QED BY <3>1, <1>2 DEF ImportsInv, RowsAreTraceable
    <2> QED BY <2>2, <2>3
  <1>10. SuccessIsComplete'
    <2> SUFFICES ASSUME NEW g \in Files, runs'[g] # ABSENT, runs'[g].status = "SUCCESS"
                 PROVE  /\ \A k \in KeysOf(g) : rows'[k] # ABSENT
                        /\ runs'[g].created = Cardinality(SourcedBy(g)')
                        /\ runs'[g].created + runs'[g].skipped = Len(Content[g])
      BY DEF SuccessIsComplete, KeysOf
    <2>1. KeysOf(g) \subseteq Keys
      BY KeysOfType
    <2>2. CASE g = f
      <3>1. SourcedBy(g)' = c.inserted
        <4>1. \A k \in Keys : rows[k] # f
          BY <1>1, <1>3 DEF ImportsInv, RowsAreTraceable
        <4>2. c.inserted \subseteq Keys
          BY <1>1 DEF Importing
        <4> QED BY <4>1, <4>2, <2>2, <1>2 DEF SourcedBy
      <3>2. \A i \in DOMAIN Content[f] : i < c.row
        <4>1. Content[f] \in Seq(ImportRow)
          BY <1>1, BrokerImportAssumption
        <4> QED BY <4>1, <2>2, <1>2
      <3>3. \A k \in KeysOf(f) : rows'[k] # ABSENT
        BY <3>2, <2>1, <2>2, <1>1, <1>2, <1>3 DEF Account, KeysOf
      <3>4. c.created + c.skipped = Len(Content[f])
        <4>1. Len(Content[f]) \in Nat
          BY <1>1, BrokerImportAssumption
        <4> QED BY <4>1, <2>2, <1>1, <1>2 DEF Account
      <3> QED BY <3>1, <3>3, <3>4, <2>2, <1>1, <1>2 DEF Account
    <2>3. CASE g # f
      <3>1. runs'[g] = runs[g]
        BY <2>3, <1>2
      <3>2. SourcedBy(g)' = SourcedBy(g)
        BY <2>3, <1>1, <1>2, <1>3 DEF SourcedBy
      <3>3. \A k \in KeysOf(g) : rows'[k] # ABSENT
        BY <3>1, <2>1, <1>1, <1>2, <1>3 DEF ImportsInv, SuccessIsComplete
      <3> QED BY <3>1, <3>2, <3>3 DEF ImportsInv, SuccessIsComplete
    <2> QED BY <2>2, <2>3
  <1> QED BY <1>4, <1>6, <1>7, <1>8, <1>9, <1>10 DEF ImportsInv, SessionsInv

-----------------------------------------------------------------------------

LEMMA InitImportsInv == InitImports => ImportsInv
  BY DEF InitImports, ImportsInv, ImportsTypeOK, SessionsInv, RowsAreTraceable,
         SuccessIsComplete, Apart,
         InTransaction, Idle

\* What every step inside a transaction starts from.
LEMMA Inside ==
  ASSUME ImportsInv, NEW s \in Sessions, InTransaction(s)
  PROVE  /\ sess[s] \in Importing /\ Account(sess[s])
         /\ Content[sess[s].file] \in Seq(ImportRow)
         /\ \A t \in Sessions \ {s} :
               InTransaction(t) => /\ sess[t].file # sess[s].file
                                   /\ sess[t].inserted \cap sess[s].inserted = {}
         /\ sess[s].pc = "parsing" => Fresh(sess[s])
         /\ sess[s].pc = "inserting" => ~Exhausted(s)
  BY InTransactionType, BrokerImportAssumption
     DEF ImportsInv, SessionsInv, ImportsTypeOK, Apart, Importing

LEMMA BreakKeeps ==
  ASSUME ImportsInv, NEW s \in Sessions, sess[s] \in Importing, Break(s), UNCHANGED <<runs, rows>>
  PROVE  ImportsInv'
  <1>1. [pc |-> "broken", file |-> sess[s].file] \in [pc : {"broken"}, file : Files]
    BY DEF Importing
  <1> QED BY <1>1, LeaveKeeps DEF Break

LEMMA IdleKeeps ==
  ASSUME ImportsInv, NEW s \in Sessions, sess' = [sess EXCEPT ![s] = Idle], UNCHANGED <<runs, rows>>
  PROVE  ImportsInv'
  <1>1. Idle.pc = "idle"
    BY DEF Idle
  <1> QED BY <1>1, LeaveKeeps

LEMMA SelectKeeps ==
  ASSUME ImportsInv, NEW s \in Sessions, Select(s)
  PROVE  ImportsInv'
  <1>1. PICK f \in Files :
           sess' = [sess EXCEPT ![s] =
                [pc |-> "claiming", file |-> f, row |-> 1, created |-> 0, skipped |-> 0,
                 inserted |-> {}, status |-> "PARTIAL"]]
    BY DEF Select
  <1> DEFINE c == [pc |-> "claiming", file |-> f, row |-> 1, created |-> 0, skipped |-> 0,
                   inserted |-> {}, status |-> "PARTIAL"]
  <1>2. c \in Importing /\ Fresh(c) /\ c.pc = "claiming"
    BY DEF Importing, Fresh
  <1> HIDE DEF c
  <1> QED BY <1>1, <1>2, LeaveKeeps DEF Select, c

\* The run of a file is flushed only if no other transaction holds it.
LEMMA ClaimKeeps ==
  ASSUME ImportsInv, NEW s \in Sessions, Claim(s)
  PROVE  ImportsInv'
  <1>1. sess[s] \in Importing /\ Fresh(sess[s]) /\ sess[s].pc = "claiming"
    BY InTransactionType DEF Claim, ImportsInv, SessionsInv
  <1>2. CASE runs[sess[s].file] = ABSENT
    <2> DEFINE c == [sess[s] EXCEPT !.pc = "parsing"]
    <2>1. sess' = [sess EXCEPT ![s] = c]
      BY <1>2 DEF Claim, FlushRun, ImportsInv, ImportsTypeOK
    <2>2. c \in Importing /\ Fresh(c) /\ c.pc = "parsing" /\ c.file = sess[s].file
      BY <1>1 DEF Importing, Fresh
    <2>3. Account(c)
      <3>1. Len(Content[c.file]) \in Nat
        BY <2>2, BrokerImportAssumption DEF Importing
      <3>2. IsFiniteSet({}) /\ Cardinality({}) = 0
        BY FS_EmptySet
      <3>3. \A i \in DOMAIN Content[c.file] : ~(i < 1)
        BY <2>2, BrokerImportAssumption DEF Importing
      <3>4. c.row = 1 /\ c.created = 0 /\ c.skipped = 0 /\ c.inserted = {} /\ c.status = "PARTIAL"
        BY <2>2 DEF Fresh
      <3>5. c.row <= Len(Content[c.file]) + 1 /\ c.created + c.skipped = c.row - 1
        BY <3>1, <3>4
      <3>6. IsFiniteSet(c.inserted) /\ c.created = Cardinality(c.inserted)
        BY <3>2, <3>4
      <3> QED BY <3>3, <3>4, <3>5, <3>6, <2>2, <1>2 DEF Account
    <2>4. \A t \in Sessions \ {s} :
             InTransaction(t) => sess[t].file # c.file /\ sess[t].inserted \cap c.inserted = {}
      BY <1>1, <2>2 DEF Claim, Waits, WaitsFor, HoldsRun, Fresh
    <2> HIDE DEF c
    <2> QED BY <2>1, <2>2, <2>3, <2>4, StayKeeps DEF Claim
  <1>3. CASE runs[sess[s].file] # ABSENT
    BY <1>1, <1>3, BreakKeeps DEF Claim, FlushRun
  <1> QED BY <1>2, <1>3

LEMMA ParseKeeps ==
  ASSUME ImportsInv, NEW s \in Sessions, Parse(s)
  PROVE  ImportsInv'
  <1> DEFINE c == IF sess[s].file \in Unreadable
                  THEN [sess[s] EXCEPT !.pc = "raised", !.status = "FAILED"]
                  ELSE [sess[s] EXCEPT !.pc = "looking"]
  <1>1. InTransaction(s) /\ sess[s].pc = "parsing"
    BY DEF Parse, InTransaction
  <1>2. sess[s] \in Importing /\ Fresh(sess[s]) /\ Account(sess[s])
    BY <1>1, Inside
  <1>3. sess' = [sess EXCEPT ![s] = c]
    BY DEF Parse, ImportsInv, ImportsTypeOK
  <1>4. c \in Importing /\ c.pc \in {"raised", "looking"}
    BY <1>2 DEF Importing
  <1>5. /\ c.file = sess[s].file /\ c.inserted = sess[s].inserted /\ c.row = sess[s].row
        /\ c.created = sess[s].created /\ c.skipped = sess[s].skipped
        /\ c.status = "FAILED" => c.pc = "raised"
    BY <1>2 DEF Importing, Fresh
  <1> HIDE DEF c
  <1>6. Account(c)
    BY <1>2, <1>5 DEF Account, Fresh
  <1>7. \A t \in Sessions \ {s} :
           InTransaction(t) => sess[t].file # c.file /\ sess[t].inserted \cap c.inserted = {}
    BY <1>1, <1>5, Inside
  <1> QED BY <1>3, <1>4, <1>6, <1>7, StayKeeps DEF Parse

LEMMA RefuseKeeps ==
  ASSUME ImportsInv, NEW s \in Sessions, Refuse(s)
  PROVE  ImportsInv'
  <1> DEFINE c == [sess[s] EXCEPT !.pc = "raised"]
  <1>1. InTransaction(s)
    BY DEF Refuse, InTransaction
  <1>2. sess[s] \in Importing /\ Account(sess[s])
    BY <1>1, Inside
  <1>3. sess' = [sess EXCEPT ![s] = c]
    BY DEF Refuse, ImportsInv, ImportsTypeOK
  <1>4. /\ c \in Importing /\ c.pc = "raised"
        /\ c.file = sess[s].file /\ c.inserted = sess[s].inserted /\ c.row = sess[s].row
        /\ c.created = sess[s].created /\ c.skipped = sess[s].skipped
        /\ c.status = sess[s].status
    BY <1>2 DEF Importing
  <1> HIDE DEF c
  <1>5. Account(c)
    BY <1>2, <1>4 DEF Account
  <1>6. \A t \in Sessions \ {s} :
           InTransaction(t) => sess[t].file # c.file /\ sess[t].inserted \cap c.inserted = {}
    BY <1>1, <1>4, Inside
  <1> QED BY <1>3, <1>4, <1>5, <1>6, StayKeeps DEF Refuse

\* A row whose key is already stored is counted as skipped.
LEMMA LookUpKeeps ==
  ASSUME ImportsInv, NEW s \in Sessions, LookUp(s)
  PROVE  ImportsInv'
  <1>1. InTransaction(s)
    BY DEF LookUp, InTransaction
  <1>2. /\ sess[s] \in Importing /\ Account(sess[s])
        /\ Content[sess[s].file] \in Seq(ImportRow)
    BY <1>1, Inside
  <1>3. /\ sess[s].row \in Nat \ {0} /\ Len(Content[sess[s].file]) \in Nat
        /\ sess[s].row <= Len(Content[sess[s].file])
        /\ sess[s].created \in Nat /\ sess[s].skipped \in Nat
    BY <1>2 DEF LookUp, Exhausted, Importing
  <1>4. CASE Exists(s, Row(s).key)
    <2> DEFINE c == [sess[s] EXCEPT !.row = @ + 1, !.skipped = @ + 1]
    <2>1. sess' = [sess EXCEPT ![s] = c]
      BY <1>4 DEF LookUp, Skip, ImportsInv, ImportsTypeOK
    <2>2. /\ c \in Importing /\ c.pc = "looking"
          /\ c.file = sess[s].file /\ c.inserted = sess[s].inserted /\ c.row = sess[s].row + 1
          /\ c.created = sess[s].created /\ c.skipped = sess[s].skipped + 1
          /\ c.status = sess[s].status
      <3>1. sess[s].pc = "looking"
        BY DEF LookUp
      <3>2. sess[s].row + 1 \in Nat \ {0} /\ sess[s].skipped + 1 \in Nat
        BY <1>3
      <3> QED BY <3>1, <3>2, <1>2 DEF Importing
    <2> HIDE DEF c
    <2>3. Account(c)
      <3>1. \A i \in DOMAIN Content[c.file] :
               i < c.row => Content[c.file][i].key \in c.inserted
                              \/ rows[Content[c.file][i].key] # ABSENT
        <4> SUFFICES ASSUME NEW i \in DOMAIN Content[c.file], i < c.row
                     PROVE  Content[c.file][i].key \in c.inserted
                              \/ rows[Content[c.file][i].key] # ABSENT
          OBVIOUS
        <4>1. i \in Nat
          BY <1>2, <2>2
        <4>2. CASE i = sess[s].row
          BY <4>2, <1>4, <2>2 DEF Exists, Row
        <4>3. CASE i < sess[s].row
          BY <4>3, <1>2, <2>2 DEF Account
        <4> QED BY <4>1, <4>2, <4>3, <2>2, <1>3
      <3>2. c.row <= Len(Content[c.file]) + 1 /\ c.created + c.skipped = c.row - 1
        <4>1. sess[s].created + sess[s].skipped = sess[s].row - 1
          BY <1>2 DEF Account
        <4>2. c.row <= Len(Content[sess[s].file]) + 1
          BY <2>2, <1>3
        <4>3. c.row <= Len(Content[c.file]) + 1
          BY <4>2, <2>2, Zenon
        <4>4. c.created + c.skipped = c.row - 1
          <5> DEFINE a == sess[s].created
                     b == sess[s].skipped
                     n == sess[s].row
          <5>1. a \in Nat /\ b \in Nat /\ n \in Nat /\ a + b = n - 1
            BY <4>1, <1>3
          <5>2. c.created = a /\ c.skipped = b + 1 /\ c.row = n + 1
            BY <2>2
          <5> HIDE DEF a, b, n
          <5> QED BY <5>1, <5>2
        <4> QED BY <4>3, <4>4
      <3>3. c.status # "FAILED"
        BY <2>2, <1>2 DEF LookUp, Account
      <3> QED BY <3>1, <3>2, <3>3, <2>2, <1>2 DEF Account
    <2>4. \A t \in Sessions \ {s} :
             InTransaction(t) => sess[t].file # c.file /\ sess[t].inserted \cap c.inserted = {}
      BY <1>1, <2>2, Inside
    <2> QED BY <2>1, <2>2, <2>3, <2>4, StayKeeps DEF LookUp
  <1>5. CASE ~Exists(s, Row(s).key)
    <2> DEFINE c == [sess[s] EXCEPT !.pc = "inserting"]
    <2>1. sess' = [sess EXCEPT ![s] = c]
      BY <1>5 DEF LookUp, ImportsInv, ImportsTypeOK
    <2>2. /\ c \in Importing /\ c.pc = "inserting"
          /\ c.file = sess[s].file /\ c.inserted = sess[s].inserted /\ c.row = sess[s].row
          /\ c.created = sess[s].created /\ c.skipped = sess[s].skipped
          /\ c.status = sess[s].status
      BY <1>2 DEF Importing
    <2> HIDE DEF c
    <2>3. Account(c)
      BY <1>2, <2>2 DEF Account, LookUp
    <2>4. \A t \in Sessions \ {s} :
             InTransaction(t) => sess[t].file # c.file /\ sess[t].inserted \cap c.inserted = {}
      BY <1>1, <2>2, Inside
    <2>5. c.row <= Len(Content[c.file])
      BY <1>3, <2>2
    <2> QED BY <2>1, <2>2, <2>3, <2>4, <2>5, StayKeeps DEF LookUp
  <1> QED BY <1>4, <1>5

\* A key is inserted only if it is stored nowhere: not committed, and in no
\* transaction, this one included.
LEMMA InsertKeeps ==
  ASSUME ImportsInv, NEW s \in Sessions, Insert(s)
  PROVE  ImportsInv'
  <1>1. InTransaction(s)
    BY DEF Insert, InTransaction
  <1>2. /\ sess[s] \in Importing /\ Account(sess[s])
        /\ Content[sess[s].file] \in Seq(ImportRow)
        /\ ~Exhausted(s)
    BY <1>1, Inside DEF Insert
  <1>3. /\ sess[s].row \in Nat \ {0} /\ Len(Content[sess[s].file]) \in Nat
        /\ sess[s].row <= Len(Content[sess[s].file])
        /\ sess[s].row \in DOMAIN Content[sess[s].file]
        /\ sess[s].created \in Nat /\ sess[s].skipped \in Nat
    BY <1>2 DEF Exhausted, Importing
  <1>4. CASE Taken(s)
    BY <1>2, <1>4, BreakKeeps DEF Insert
  <1>5. CASE ~Taken(s)
    <2> DEFINE key == Row(s).key
               c == [sess[s] EXCEPT !.pc = "looking", !.row = @ + 1, !.created = @ + 1,
                                    !.inserted = @ \cup {key}]
    <2>1. sess' = [sess EXCEPT ![s] = c]
      BY <1>5 DEF Insert, Add, ImportsInv, ImportsTypeOK
    <2>2. /\ key \in Keys /\ key \in KeysOf(sess[s].file)
          /\ rows[key] = ABSENT /\ key \notin sess[s].inserted
      <3>1. key \in KeysOf(sess[s].file) /\ sess[s].file \in Files
        BY <1>2, <1>3 DEF Row, KeysOf, Importing
      <3> QED BY <3>1, <1>5, KeysOfType DEF Taken, Exists
    <2>3. /\ c \in Importing /\ c.pc = "looking"
          /\ c.file = sess[s].file /\ c.row = sess[s].row + 1
          /\ c.inserted = sess[s].inserted \cup {key}
          /\ c.created = sess[s].created + 1 /\ c.skipped = sess[s].skipped
          /\ c.status = sess[s].status
      <3>1. sess[s].row + 1 \in Nat \ {0} /\ sess[s].created + 1 \in Nat
        BY <1>3
      <3>2. sess[s].inserted \cup {key} \in SUBSET Keys
        BY <1>2, <2>2 DEF Importing
      <3> QED BY <3>1, <3>2, <1>2 DEF Importing
    <2> HIDE DEF c
    <2>4. Account(c)
      <3>1. /\ IsFiniteSet(c.inserted)
            /\ Cardinality(c.inserted) = Cardinality(sess[s].inserted) + 1
        BY <1>2, <2>2, <2>3, FS_AddElement DEF Account
      <3>2. \A i \in DOMAIN Content[c.file] :
               i < c.row => Content[c.file][i].key \in c.inserted
                              \/ rows[Content[c.file][i].key] # ABSENT
        <4> SUFFICES ASSUME NEW i \in DOMAIN Content[c.file], i < c.row
                     PROVE  Content[c.file][i].key \in c.inserted
                              \/ rows[Content[c.file][i].key] # ABSENT
          OBVIOUS
        <4>1. i \in Nat
          BY <1>2, <2>3
        <4>2. CASE i = sess[s].row
          BY <4>2, <2>3 DEF Row
        <4>3. CASE i < sess[s].row
          BY <4>3, <1>2, <2>3 DEF Account
        <4> QED BY <4>1, <4>2, <4>3, <2>3, <1>3
      <3>3. c.status # "FAILED"
        BY <1>2, <2>3 DEF Insert, Account
      <3>4. c.row <= Len(Content[c.file]) + 1 /\ c.created + c.skipped = c.row - 1
        <4>1. sess[s].created + sess[s].skipped = sess[s].row - 1
          BY <1>2 DEF Account
        <4>2. c.row <= Len(Content[sess[s].file]) + 1
          BY <2>3, <1>3
        <4>3. c.row <= Len(Content[c.file]) + 1
          BY <4>2, <2>3, Zenon
        <4>4. c.created + c.skipped = c.row - 1
          <5> DEFINE a == sess[s].created
                     b == sess[s].skipped
                     n == sess[s].row
          <5>1. a \in Nat /\ b \in Nat /\ n \in Nat /\ a + b = n - 1
            BY <4>1, <1>3
          <5>2. c.created = a + 1 /\ c.skipped = b /\ c.row = n + 1
            BY <2>3
          <5> HIDE DEF a, b, n
          <5> QED BY <5>1, <5>2
        <4> QED BY <4>3, <4>4
      <3>5. c.created = Cardinality(c.inserted)
        BY <3>1, <2>3, <1>2 DEF Account
      <3>6. \A k \in c.inserted : rows[k] = ABSENT /\ k \in KeysOf(c.file)
        BY <2>2, <2>3, <1>2 DEF Account
      <3>7. runs[c.file] = ABSENT
        BY <2>3, <1>2 DEF Account
      <3> QED BY <3>1, <3>2, <3>3, <3>4, <3>5, <3>6, <3>7 DEF Account
    <2>5. \A t \in Sessions \ {s} :
             InTransaction(t) => sess[t].file # c.file /\ sess[t].inserted \cap c.inserted = {}
      <3>1. \A t \in Sessions \ {s} : InTransaction(t) => key \notin sess[t].inserted
        BY DEF Insert, Waits, WaitsFor, HoldsKey
      <3> QED BY <3>1, <1>1, <2>3, Inside
    <2> QED BY <2>1, <2>3, <2>4, <2>5, StayKeeps DEF Insert
  <1> QED BY <1>4, <1>5

\* The counts of a run that reaches the end of its file cover the whole file.
LEMMA FinishKeeps ==
  ASSUME ImportsInv, NEW s \in Sessions, Finish(s)
  PROVE  ImportsInv'
  <1> DEFINE run == [status |-> "SUCCESS", created |-> sess[s].created,
                     skipped |-> sess[s].skipped]
  <1>1. InTransaction(s)
    BY DEF Finish, InTransaction
  <1>2. sess[s] \in Importing /\ Account(sess[s]) /\ Content[sess[s].file] \in Seq(ImportRow)
    BY <1>1, Inside
  <1>3. run \in Run /\ run.status = "SUCCESS"
    BY <1>2 DEF Run, Importing
  <1>4. sess[s].row = Len(Content[sess[s].file]) + 1
    <2>1. Len(Content[sess[s].file]) \in Nat /\ sess[s].row \in Nat
      BY <1>2 DEF Importing
    <2> QED BY <2>1, <1>2 DEF Finish, Exhausted, Account
  <1> QED BY <1>1, <1>3, <1>4, CommitKeeps DEF Finish

LEMMA HandleErrorKeeps ==
  ASSUME ImportsInv, NEW s \in Sessions, HandleError(s)
  PROVE  ImportsInv'
  <1>1. CASE sess[s].pc = "raised" /\ CommitRaised(s)
    <2> DEFINE run == [status |-> sess[s].status, created |-> 0, skipped |-> 0]
    <2>1. InTransaction(s)
      BY <1>1 DEF InTransaction
    <2>2. sess[s] \in Importing /\ Account(sess[s])
      BY <2>1, Inside
    <2>3. /\ run \in Run /\ run.status # "SUCCESS"
          /\ run.status = "FAILED" => sess[s].inserted = {}
      BY <2>2 DEF Run, Importing, Account
    <2> QED BY <2>1, <2>3, <1>1, CommitKeeps DEF CommitRaised
  <1>2. CASE sess' = [sess EXCEPT ![s] = Idle] /\ UNCHANGED <<runs, rows>>
    BY <1>2, IdleKeeps
  <1> QED BY <1>1, <1>2 DEF HandleError

LEMMA NextImportsInv == ImportsInv /\ [NextImport]_importvars => ImportsInv'
  <1> SUFFICES ASSUME ImportsInv, [NextImport]_importvars
               PROVE  ImportsInv'
    OBVIOUS
  <1>1. ASSUME NEW s \in Sessions, Select(s) PROVE ImportsInv'
    BY <1>1, SelectKeeps
  <1>2. ASSUME NEW s \in Sessions, Proceed(s) PROVE ImportsInv'
    <2>1. ASSUME DeadlockVictim(s) PROVE ImportsInv'
      <3>1. PICK t \in Sessions : WaitsFor(s, t)
        BY <2>1 DEF DeadlockVictim
      <3>2. sess[s] \in Importing
        BY <3>1, InTransactionType DEF WaitsFor, InTransaction, ImportsInv
      <3> QED BY <2>1, <3>2, BreakKeeps DEF DeadlockVictim
    <2> QED BY <1>2, <2>1, ClaimKeeps, ParseKeeps, RefuseKeeps, LookUpKeeps, InsertKeeps,
                FinishKeeps, HandleErrorKeeps DEF Proceed
  <1>3. ASSUME NEW s \in Sessions, Crash(s) PROVE ImportsInv'
    BY <1>3, IdleKeeps DEF Crash
  <1>4. CASE UNCHANGED importvars
    <2>1. ImportsTypeOK'
      BY <1>4 DEF importvars, ImportsInv, ImportsTypeOK, Exhausted
    <2>2. SessionsInv'
      BY <1>4 DEF importvars, ImportsInv, SessionsInv, Account, Fresh, Apart, InTransaction
    <2> QED BY <2>1, <2>2, <1>4, TablesKept DEF importvars, ImportsInv
  <1> QED BY <1>1, <1>2, <1>3, <1>4 DEF NextImport

LEMMA ImportsInvariance == ImportSpec => []ImportsInv
  BY InitImportsInv, NextImportsInv, PTL DEF ImportSpec

\* Runs, rows and sessions keep their types under any number of commands.
THEOREM ImportsTypeCorrect == ImportSpec => []ImportsTypeOK
  <1>1. ImportsInv => ImportsTypeOK
    BY DEF ImportsInv
  <1> QED BY <1>1, ImportsInvariance, PTL

\* A file whose import is reported SUCCESS is stored, all of it, and the
\* counts reported are right, whatever imports ran at the same time.
THEOREM SuccessMeansStored == ImportSpec => []SuccessIsComplete
  <1>1. ImportsInv => SuccessIsComplete
    BY DEF ImportsInv
  <1> QED BY <1>1, ImportsInvariance, PTL

\* No stored row is without the committed run of a file that lists it.
THEOREM EveryRowTraceable == ImportSpec => []RowsAreTraceable
  <1>1. ImportsInv => RowsAreTraceable
    BY DEF ImportsInv
  <1> QED BY <1>1, ImportsInvariance, PTL

LEMMA CommitOnlyAdds ==
  ASSUME ImportsInv, NEW s \in Sessions, InTransaction(s), NEW run, CommitAs(s, run)
  PROVE  ImportsOnlyAddStep
  <1>1. Account(sess[s]) /\ runs \in [Files -> Run \cup {ABSENT}]
    BY Inside DEF ImportsInv, ImportsTypeOK
  <1> QED BY <1>1 DEF CommitAs, Account, ImportsOnlyAddStep

LEMMA NextOnlyAdds == ImportsInv /\ [NextImport]_importvars => ImportsOnlyAddStep
  <1> SUFFICES ASSUME ImportsInv, [NextImport]_importvars
               PROVE  ImportsOnlyAddStep
    OBVIOUS
  <1>1. ASSUME UNCHANGED <<runs, rows>> PROVE ImportsOnlyAddStep
    BY <1>1 DEF ImportsOnlyAddStep
  <1>2. ASSUME NEW s \in Sessions, Finish(s) PROVE ImportsOnlyAddStep
    BY <1>2, CommitOnlyAdds DEF Finish, InTransaction
  <1>3. ASSUME NEW s \in Sessions, HandleError(s) PROVE ImportsOnlyAddStep
    <2>1. CASE sess[s].pc = "raised" /\ CommitRaised(s)
      BY <2>1, CommitOnlyAdds DEF CommitRaised, InTransaction
    <2> QED BY <2>1, <1>1, <1>3 DEF HandleError
  <1>4. ASSUME NEW s \in Sessions, Select(s) \/ Proceed(s) \/ Crash(s)
        PROVE  UNCHANGED <<runs, rows>> \/ Finish(s) \/ HandleError(s)
    BY <1>4 DEF Select, Proceed, Crash, Claim, Parse, Refuse, LookUp, Insert, DeadlockVictim
  <1> QED BY <1>1, <1>2, <1>3, <1>4 DEF NextImport, importvars

\* Whatever imports follow or run at once, a stored row keeps its source and a
\* recorded run its status and counts.
THEOREM NothingIsRewritten == ImportSpec => ImportsOnlyAdd
  BY ImportsInvariance, NextOnlyAdds, PTL DEF ImportSpec, ImportsOnlyAdd

(***************************************************************************)
(* THE REPLAY OF THE TRADES (FifoLots).                                    *)
(***************************************************************************)

\* No lot has more shares left than it opened with.
NoneGrows == \A i \in DOMAIN all_lots :
                all_lots[i].quantity_remaining <= all_lots[i].quantity_opened

IInv == TypeOK /\ QueueMatchesLots /\ NoneGrows /\ ConsumedInOrder

SaleState == [symbol : Symbols, date : Date, price : Nat,
              remaining_to_sell : Nat, realized_delta : Int]

-----------------------------------------------------------------------------
(* Arithmetic.                                                             *)

LEMMA Division ==
  ASSUME NEW a \in Nat, NEW b \in Nat \ {0}
  PROVE  /\ a \div b \in Nat
         /\ b * (a \div b) <= a
         /\ a < b * (a \div b) + b
  OBVIOUS

LEMMA DivisionMonotone ==
  ASSUME NEW a \in Nat, NEW c \in Nat, NEW b \in Nat \ {0}, a <= c
  PROVE  a \div b <= c \div b
  <1> DEFINE x == a \div b
             y == c \div b
  <1>1. /\ x \in Nat /\ y \in Nat
        /\ b * x <= a /\ c < b * y + b
    BY Division
  <1> HIDE DEF x, y
  <1>2. ASSUME x >= y + 1 PROVE FALSE
    <2>1. b * x >= b * (y + 1)
      BY <1>1, <1>2
    <2>2. b * (y + 1) = b * y + b
      BY <1>1
    <2>3. b * x \in Int /\ b * y \in Int
      BY <1>1
    <2> QED BY <2>1, <2>2, <2>3, <1>1
  <1>3. x <= y
    BY <1>1, <1>2
  <1> QED BY <1>3 DEF x, y

LEMMA RoundDivType ==
  ASSUME NEW a \in Nat, NEW b \in Nat \ {0}
  PROVE  RoundDiv(a, b) \in Nat
  <1>1. 2 * a + b \in Nat /\ 2 * b \in Nat \ {0}
    OBVIOUS
  <1> QED BY <1>1, Division DEF RoundDiv

LEMMA RoundDivMonotone ==
  ASSUME NEW a \in Nat, NEW c \in Nat, NEW b \in Nat \ {0}, a <= c
  PROVE  RoundDiv(a, b) <= RoundDiv(c, b)
  <1>1. /\ 2 * a + b \in Nat /\ 2 * c + b \in Nat /\ 2 * b \in Nat \ {0}
        /\ 2 * a + b <= 2 * c + b
    OBVIOUS
  <1> QED BY <1>1, DivisionMonotone DEF RoundDiv

\* A product keeps the sign of its quantity.
LEMMA TimesType ==
  ASSUME NEW q \in Nat, NEW f \in Nat \ {0}
  PROVE  /\ Times(q, f) \in Nat
         /\ q > 0 => Times(q, f) > 0
  <1>1. q * f \in Nat /\ (q > 0 => q * f > 0)
    OBVIOUS
  <1>2. RoundDiv(q * f, Scale) \in Nat
    BY <1>1, RoundDivType, FifoAssumption
  <1> QED BY <1>1, <1>2 DEF Times, Positive

\* Rounding keeps the order of quantities.
LEMMA TimesMonotone ==
  ASSUME NEW q \in Nat, NEW r \in Nat, NEW f \in Nat \ {0}, q <= r
  PROVE  Times(q, f) <= Times(r, f)
  <1>1. q * f \in Nat /\ r * f \in Nat /\ q * f <= r * f
    OBVIOUS
  <1>2. /\ RoundDiv(q * f, Scale) \in Nat /\ RoundDiv(r * f, Scale) \in Nat
        /\ RoundDiv(q * f, Scale) <= RoundDiv(r * f, Scale)
    BY <1>1, RoundDivType, RoundDivMonotone, FifoAssumption
  <1>3. q * f # 0 => r * f # 0
    BY <1>1
  <1> QED BY <1>1, <1>2, <1>3 DEF Times, Positive

LEMMA OverType ==
  ASSUME NEW c \in Nat, NEW f \in Nat \ {0}
  PROVE  Over(c, f) \in Nat
  <1>1. c * Scale \in Nat
    BY FifoAssumption
  <1>2. RoundDiv(c * Scale, f) \in Nat
    BY <1>1, RoundDivType
  <1> QED BY <1>2 DEF Over, Positive

LEMMA FactorType ==
  ASSUME NEW ratio \in Ratios
  PROVE  Factor(ratio) \in Nat \ {0}
  <1>1. ratio[1] \in Nat \ {0} /\ ratio[2] * Scale \in Nat
    BY FifoAssumption
  <1>2. RoundDiv(ratio[2] * Scale, ratio[1]) \in Nat
    BY <1>1, RoundDivType
  <1> QED BY <1>2 DEF Factor, Positive

-----------------------------------------------------------------------------
(* Steps.                                                                  *)

\* What the invariant says of the lots alone.
LotsInv == QueueMatchesLots /\ NoneGrows /\ ConsumedInOrder
LotsType == /\ all_lots \in Seq(Lot)
            /\ open_lots_by_symbol \in [Symbols -> Seq(Nat)]

\* Applying an event moves the sort key forward within its type.
LEMMA KeyKeeps ==
  ASSUME IInv, NEW date \in Date,
         NEW kind \in {"OPENING", "CORPORATE_ACTION", "TRADE"},
         Follows(date, kind), Advance(date, kind)
  PROVE  last' \in [date : Date, priority : 0..2] /\ applied' \in 0..MaxEvents
  <1>1. Priority[kind] \in 0..2
    BY DEF Priority
  <1> QED BY <1>1, FifoAssumption DEF IInv, TypeOK, Follows, Advance

\* A new lot goes to the end of its symbol's queue.
LEMMA OpenKeeps ==
  ASSUME IInv, NEW s \in Symbols, NEW date \in Date, NEW q \in Nat \ {0}, NEW p \in Nat,
         NEW origin \in {"TRADE", "OPENING_ADJUSTMENT"},
         Open(NewLot(s, date, q, p, origin))
  PROVE  LotsType' /\ LotsInv'
  <1> DEFINE lot == NewLot(s, date, q, p, origin)
             n == Len(all_lots) + 1
  <1>1. /\ lot \in Lot /\ lot.symbol = s /\ lot.closed_date = NONE
        /\ lot.quantity_remaining = q /\ lot.quantity_opened = q
    BY DEF NewLot, Lot
  <1>2. /\ all_lots' = Append(all_lots, lot)
        /\ open_lots_by_symbol' = [open_lots_by_symbol EXCEPT ![s] = Append(@, n)]
    BY <1>1 DEF Open, Enqueue
  <1> HIDE DEF lot
  <1>3. /\ all_lots' \in Seq(Lot) /\ n \in Nat \ {0}
        /\ DOMAIN all_lots = 1..(n - 1) /\ DOMAIN all_lots' = 1..n
        /\ \A i \in 1..(n - 1) : all_lots'[i] = all_lots[i]
        /\ all_lots'[n] = lot
    BY <1>1, <1>2 DEF IInv, TypeOK
  <1>4. /\ open_lots_by_symbol' \in [Symbols -> Seq(Nat)]
        /\ \A t \in Symbols : t # s => open_lots_by_symbol'[t] = open_lots_by_symbol[t]
        /\ open_lots_by_symbol'[s] = Append(open_lots_by_symbol[s], n)
    BY <1>2, <1>3 DEF IInv, TypeOK
  <1> HIDE DEF n
  <1>5. \A i \in 1..(n - 1) : all_lots[i] \in Lot
    BY <1>3 DEF IInv, TypeOK
  <1>6. QueueMatchesLots'
    <2>1. ASSUME NEW t \in Symbols
          PROVE  /\ \A i \in DOMAIN open_lots_by_symbol'[t] :
                      /\ open_lots_by_symbol'[t][i] \in DOMAIN all_lots'
                      /\ all_lots'[open_lots_by_symbol'[t][i]].symbol = t
                      /\ all_lots'[open_lots_by_symbol'[t][i]].quantity_remaining > 0
                 /\ \A i, j \in DOMAIN open_lots_by_symbol'[t] :
                      i < j => open_lots_by_symbol'[t][i] < open_lots_by_symbol'[t][j]
      <3>1. /\ open_lots_by_symbol[t] \in Seq(Nat)
            /\ \A i \in DOMAIN open_lots_by_symbol[t] :
                 /\ open_lots_by_symbol[t][i] \in 1..(n - 1)
                 /\ all_lots[open_lots_by_symbol[t][i]].symbol = t
                 /\ all_lots[open_lots_by_symbol[t][i]].quantity_remaining > 0
            /\ \A i, j \in DOMAIN open_lots_by_symbol[t] :
                 i < j => open_lots_by_symbol[t][i] < open_lots_by_symbol[t][j]
        BY <1>3 DEF IInv, TypeOK, QueueMatchesLots
      <3>2. CASE t # s
        BY <3>1, <3>2, <1>3, <1>4
      <3>3. CASE t = s
        <4> DEFINE m == Len(open_lots_by_symbol[s])
        <4>1. /\ m \in Nat /\ DOMAIN open_lots_by_symbol[s] = 1..m
              /\ DOMAIN open_lots_by_symbol'[s] = 1..(m + 1)
              /\ open_lots_by_symbol'[s][m + 1] = n
              /\ \A i \in 1..m : open_lots_by_symbol'[s][i] = open_lots_by_symbol[s][i]
          BY <3>1, <3>3, <1>3, <1>4
        <4> HIDE DEF m
        <4>2. ASSUME NEW i \in 1..(m + 1)
              PROVE  /\ open_lots_by_symbol'[s][i] \in DOMAIN all_lots'
                     /\ all_lots'[open_lots_by_symbol'[s][i]].symbol = s
                     /\ all_lots'[open_lots_by_symbol'[s][i]].quantity_remaining > 0
          <5>1. CASE i = m + 1
            BY <5>1, <4>1, <1>1, <1>3
          <5>2. CASE i # m + 1
            <6>1. i \in 1..m
              BY <5>2, <4>1
            <6>2. /\ open_lots_by_symbol[s][i] \in 1..(n - 1)
                  /\ all_lots[open_lots_by_symbol[s][i]].symbol = s
                  /\ all_lots[open_lots_by_symbol[s][i]].quantity_remaining > 0
              BY <6>1, <4>1, <3>1, <3>3
            <6>3. open_lots_by_symbol'[s][i] = open_lots_by_symbol[s][i]
              BY <6>1, <4>1
            <6> QED BY <6>2, <6>3, <1>3
          <5> QED BY <5>1, <5>2
        <4>3. ASSUME NEW i \in 1..(m + 1), NEW j \in 1..(m + 1), i < j
              PROVE  open_lots_by_symbol'[s][i] < open_lots_by_symbol'[s][j]
          <5>1. i \in 1..m
            BY <4>1, <4>3
          <5>2. CASE j = m + 1
            <6>1. open_lots_by_symbol[s][i] \in 1..(n - 1)
              BY <5>1, <4>1, <3>1, <3>3
            <6>2. /\ open_lots_by_symbol'[s][i] = open_lots_by_symbol[s][i]
                  /\ open_lots_by_symbol'[s][j] = n
              BY <5>1, <5>2, <4>1
            <6> QED BY <6>1, <6>2, <1>3
          <5>3. CASE j # m + 1
            <6>1. j \in 1..m
              BY <5>3, <4>1
            <6>2. \A x, y \in 1..m :
                     x < y => open_lots_by_symbol[s][x] < open_lots_by_symbol[s][y]
              BY <3>1, <3>3, <4>1
            <6> QED BY <5>1, <6>1, <6>2, <4>1, <4>3
          <5> QED BY <5>2, <5>3
        <4> QED BY <4>1, <4>2, <4>3, <3>3
      <3> QED BY <3>2, <3>3
    <2>2. ASSUME NEW i \in DOMAIN all_lots'
          PROVE  IF all_lots'[i].quantity_remaining > 0
                 THEN /\ all_lots'[i].closed_date = NONE
                      /\ \E k \in DOMAIN open_lots_by_symbol'[all_lots'[i].symbol] :
                           open_lots_by_symbol'[all_lots'[i].symbol][k] = i
                 ELSE all_lots'[i].closed_date # NONE
      <3>1. CASE i = n
        <4>1. Len(open_lots_by_symbol[s]) + 1 \in DOMAIN open_lots_by_symbol'[s]
          BY <1>4 DEF IInv, TypeOK
        <4>2. open_lots_by_symbol'[s][Len(open_lots_by_symbol[s]) + 1] = n
          BY <1>4 DEF IInv, TypeOK
        <4> QED BY <4>1, <4>2, <3>1, <1>1, <1>3
      <3>2. CASE i # n
        <4>1. i \in 1..(n - 1) /\ all_lots'[i] = all_lots[i]
          BY <3>2, <1>3
        <4>2. all_lots[i].symbol \in Symbols
          BY <4>1, <1>5 DEF Lot
        <4>3. ASSUME all_lots[i].quantity_remaining > 0
              PROVE  \E k \in DOMAIN open_lots_by_symbol'[all_lots[i].symbol] :
                        open_lots_by_symbol'[all_lots[i].symbol][k] = i
          <5>1. PICK k \in DOMAIN open_lots_by_symbol[all_lots[i].symbol] :
                       open_lots_by_symbol[all_lots[i].symbol][k] = i
            BY <4>1, <4>3, <1>3 DEF IInv, QueueMatchesLots, OpenIndices
          <5>2. /\ k \in DOMAIN open_lots_by_symbol'[all_lots[i].symbol]
                /\ open_lots_by_symbol'[all_lots[i].symbol][k] = i
            <6>1. CASE all_lots[i].symbol # s
              BY <5>1, <6>1, <4>2, <1>4
            <6>2. CASE all_lots[i].symbol = s
              <7>1. open_lots_by_symbol[s] \in Seq(Nat)
                BY DEF IInv, TypeOK
              <7>2. k \in 1..Len(open_lots_by_symbol[s]) /\ open_lots_by_symbol[s][k] = i
                BY <7>1, <5>1, <6>2
              <7>3. /\ k \in DOMAIN Append(open_lots_by_symbol[s], n)
                    /\ Append(open_lots_by_symbol[s], n)[k] = i
                BY <7>1, <7>2, <1>3
              <7> QED BY <7>3, <6>2, <1>4
            <6> QED BY <6>1, <6>2
          <5> QED BY <5>2
        <4> QED BY <4>1, <4>3, <1>3 DEF IInv, QueueMatchesLots
      <3> QED BY <3>1, <3>2
    <2>3. \A i \in DOMAIN all_lots' :
            IF all_lots'[i].quantity_remaining > 0
            THEN /\ all_lots'[i].closed_date = NONE
                 /\ i \in {open_lots_by_symbol'[all_lots'[i].symbol][k] :
                            k \in DOMAIN open_lots_by_symbol'[all_lots'[i].symbol]}
            ELSE all_lots'[i].closed_date # NONE
      BY <2>2
    <2> QED BY ONLY <2>1, <2>3 DEF QueueMatchesLots, OpenIndices
  <1>7. NoneGrows'
    BY <1>1, <1>3 DEF IInv, NoneGrows
  <1>8. ConsumedInOrder'
    BY <1>1, <1>3 DEF IInv, ConsumedInOrder
  <1> QED BY <1>3, <1>4, <1>6, <1>7, <1>8 DEF LotsType, LotsInv

\* A split scales every open lot of one symbol.
LEMMA SplitKeeps ==
  ASSUME IInv, NEW s \in Symbols, NEW f \in Nat \ {0},
         all_lots' = [i \in DOMAIN all_lots |->
                        IF i \in OpenIndices(s) THEN Split(all_lots[i], f) ELSE all_lots[i]],
         open_lots_by_symbol' = open_lots_by_symbol
  PROVE  LotsType' /\ LotsInv'
  <1>1. ASSUME NEW lot \in Lot
        PROVE  /\ Split(lot, f) \in Lot
               /\ Split(lot, f).symbol = lot.symbol
               /\ Split(lot, f).closed_date = lot.closed_date
               /\ Split(lot, f).quantity_opened = Times(lot.quantity_opened, f)
               /\ Split(lot, f).quantity_remaining = Times(lot.quantity_remaining, f)
    <2>1. /\ lot.quantity_opened \in Nat /\ lot.quantity_remaining \in Nat
          /\ lot.cost_price \in Nat
      BY DEF Lot
    <2>2. /\ Times(lot.quantity_opened, f) \in Nat
          /\ Times(lot.quantity_remaining, f) \in Nat /\ Over(lot.cost_price, f) \in Nat
      BY <2>1, TimesType, OverType
    <2> QED BY <2>2 DEF Lot, Split
  <1>2. /\ DOMAIN all_lots' = DOMAIN all_lots /\ DOMAIN all_lots = 1..Len(all_lots)
        /\ Len(all_lots) \in Nat
        /\ \A i \in DOMAIN all_lots : all_lots[i] \in Lot
        /\ \A i \in DOMAIN all_lots :
             all_lots'[i] = IF i \in OpenIndices(s) THEN Split(all_lots[i], f)
                            ELSE all_lots[i]
    BY DEF IInv, TypeOK
  <1>3. \A i \in DOMAIN all_lots :
          /\ all_lots'[i] \in Lot
          /\ all_lots'[i].symbol = all_lots[i].symbol
          /\ all_lots'[i].closed_date = all_lots[i].closed_date
    BY <1>1, <1>2
  <1>4. \A i \in DOMAIN all_lots :
          /\ all_lots[i].quantity_remaining \in Nat /\ all_lots[i].quantity_opened \in Nat
          /\ all_lots'[i].quantity_remaining \in Nat /\ all_lots'[i].quantity_opened \in Nat
    BY <1>2, <1>3 DEF Lot
  <1>5. \A i \in DOMAIN all_lots : i \in OpenIndices(s) => all_lots[i].quantity_remaining > 0
    BY DEF IInv, QueueMatchesLots, OpenIndices
  <1>6. \A i \in DOMAIN all_lots :
          all_lots'[i].quantity_remaining > 0 <=> all_lots[i].quantity_remaining > 0
    BY <1>1, <1>2, <1>4, <1>5, TimesType
  <1>7. \A i \in DOMAIN all_lots :
          /\ all_lots[i].quantity_remaining <= all_lots[i].quantity_opened
          /\ all_lots'[i].quantity_remaining <= all_lots'[i].quantity_opened
          /\ all_lots[i].quantity_remaining = all_lots[i].quantity_opened =>
               all_lots'[i].quantity_remaining = all_lots'[i].quantity_opened
    BY <1>1, <1>2, <1>4, TimesMonotone DEF IInv, NoneGrows
  <1>8. LotsType'
    <2>1. all_lots' \in Seq(Lot)
      BY <1>2, <1>3
    <2> QED BY <2>1 DEF LotsType, IInv, TypeOK
  <1>9. QueueMatchesLots'
    <2>1. ASSUME NEW t \in Symbols
          PROVE  /\ \A i \in DOMAIN open_lots_by_symbol[t] :
                      /\ open_lots_by_symbol[t][i] \in DOMAIN all_lots'
                      /\ all_lots'[open_lots_by_symbol[t][i]].symbol = t
                      /\ all_lots'[open_lots_by_symbol[t][i]].quantity_remaining > 0
                 /\ \A i, j \in DOMAIN open_lots_by_symbol[t] :
                      i < j => open_lots_by_symbol[t][i] < open_lots_by_symbol[t][j]
      BY <1>2, <1>3, <1>6 DEF IInv, QueueMatchesLots
    <2>2. ASSUME NEW i \in DOMAIN all_lots
          PROVE  IF all_lots'[i].quantity_remaining > 0
                 THEN /\ all_lots'[i].closed_date = NONE
                      /\ \E k \in DOMAIN open_lots_by_symbol[all_lots'[i].symbol] :
                           open_lots_by_symbol[all_lots'[i].symbol][k] = i
                 ELSE all_lots'[i].closed_date # NONE
      BY <1>3, <1>6 DEF IInv, QueueMatchesLots, OpenIndices
    <2>3. \A i \in DOMAIN all_lots' :
            IF all_lots'[i].quantity_remaining > 0
            THEN /\ all_lots'[i].closed_date = NONE
                 /\ i \in {open_lots_by_symbol'[all_lots'[i].symbol][k] :
                            k \in DOMAIN open_lots_by_symbol'[all_lots'[i].symbol]}
            ELSE all_lots'[i].closed_date # NONE
      BY <2>2, <1>2
    <2>4. open_lots_by_symbol' = open_lots_by_symbol
      OBVIOUS
    <2> QED BY ONLY <2>1, <2>3, <2>4 DEF QueueMatchesLots, OpenIndices
  <1>10. ConsumedInOrder'
    <2>1. ASSUME NEW i \in DOMAIN all_lots, NEW j \in DOMAIN all_lots, i < j,
                 all_lots'[i].symbol = all_lots'[j].symbol,
                 all_lots'[j].quantity_remaining < all_lots'[j].quantity_opened
          PROVE  all_lots'[i].quantity_remaining = 0
      <3>1. all_lots[j].quantity_remaining < all_lots[j].quantity_opened
        BY <2>1, <1>4, <1>7
      <3>2. all_lots[i].quantity_remaining = 0
        BY <2>1, <3>1, <1>3 DEF IInv, ConsumedInOrder
      <3> QED BY <3>2, <1>4, <1>6
    <2> QED BY <2>1, <1>2 DEF ConsumedInOrder
  <1>11. NoneGrows'
    BY <1>2, <1>7 DEF NoneGrows
  <1> QED BY <1>8, <1>9, <1>10, <1>11 DEF LotsInv

\* The queue of the symbol being sold, its head and its older lots.
LEMMA HeadFacts ==
  ASSUME IInv, NEW s \in Symbols, open_lots_by_symbol[s] # <<>>,
         NEW h, h = Head(open_lots_by_symbol[s])
  PROVE  /\ h \in DOMAIN all_lots /\ all_lots[h] \in Lot
         /\ all_lots[h].symbol = s /\ all_lots[h].quantity_remaining > 0
         /\ all_lots[h].closed_date = NONE
         /\ h = open_lots_by_symbol[s][1] /\ 1 \in DOMAIN open_lots_by_symbol[s]
         /\ \A i \in DOMAIN all_lots :
              i < h /\ all_lots[i].symbol = s => all_lots[i].quantity_remaining = 0
  <1>1. /\ open_lots_by_symbol[s] \in Seq(Nat)
        /\ h = open_lots_by_symbol[s][1] /\ 1 \in DOMAIN open_lots_by_symbol[s]
    BY DEF IInv, TypeOK
  <1>2. /\ h \in DOMAIN all_lots
        /\ all_lots[h].symbol = s /\ all_lots[h].quantity_remaining > 0
    BY <1>1 DEF IInv, QueueMatchesLots
  <1>3. all_lots[h] \in Lot /\ all_lots[h].closed_date = NONE
    BY <1>2 DEF IInv, TypeOK, QueueMatchesLots
  <1>4. ASSUME NEW i \in DOMAIN all_lots, i < h, all_lots[i].symbol = s,
               all_lots[i].quantity_remaining > 0
        PROVE  FALSE
    <2>1. PICK k \in DOMAIN open_lots_by_symbol[s] : open_lots_by_symbol[s][k] = i
      BY <1>4 DEF IInv, QueueMatchesLots, OpenIndices
    <2>2. k = 1 \/ 1 < k
      BY <1>1, <2>1
    <2>3. 1 < k => open_lots_by_symbol[s][1] < open_lots_by_symbol[s][k]
      BY <1>1, <2>1 DEF IInv, QueueMatchesLots
    <2>4. i \in Nat /\ h \in Nat
      BY <1>2, <1>4 DEF IInv, TypeOK
    <2> QED BY <2>1, <2>2, <2>3, <2>4, <1>1, <1>4
  <1>5. \A i \in DOMAIN all_lots : all_lots[i].quantity_remaining \in Nat
    <2>1. \A i \in DOMAIN all_lots : all_lots[i] \in Lot
      BY DEF IInv, TypeOK
    <2> QED BY <2>1 DEF Lot
  <1> QED BY <1>1, <1>2, <1>3, <1>4, <1>5

\* The fields of the head lot after one iteration.
LEMMA ConsumeFacts ==
  ASSUME sale \in SaleState, sale.remaining_to_sell > 0,
         NEW lot \in Lot, lot.quantity_remaining > 0, lot.closed_date = NONE,
         lot.quantity_remaining <= lot.quantity_opened
  PROVE  /\ Matched(lot) \in Nat /\ Matched(lot) > 0
         /\ Matched(lot) <= lot.quantity_remaining
         /\ Matched(lot) <= sale.remaining_to_sell
         /\ Consume(lot) \in Lot /\ Consume(lot).symbol = lot.symbol
         /\ Consume(lot).quantity_opened = lot.quantity_opened
         /\ Consume(lot).quantity_remaining = lot.quantity_remaining - Matched(lot)
         /\ lot.quantity_remaining = Matched(lot) => Consume(lot).closed_date # NONE
         /\ lot.quantity_remaining # Matched(lot) => Consume(lot).closed_date = NONE
  <1>1. /\ lot.quantity_remaining \in Nat /\ lot.quantity_opened \in Nat
        /\ lot.cost_price \in Nat /\ lot.realized_pnl \in Int
        /\ lot.closed_date \in Date \cup {NONE}
        /\ sale.remaining_to_sell \in Nat /\ sale.price \in Nat /\ sale.date \in Date
    BY DEF Lot, SaleState
  <1>2. /\ Matched(lot) \in Nat /\ Matched(lot) > 0
        /\ Matched(lot) <= lot.quantity_remaining
        /\ Matched(lot) <= sale.remaining_to_sell
    BY <1>1 DEF Matched
  <1>3. Matched(lot) * (sale.price - lot.cost_price) \in Int
    BY <1>1, <1>2
  <1>4. sale.date # NONE
    BY <1>1, FifoAssumption DEF Date
  <1>5. lot.quantity_remaining - Matched(lot) \in Nat
    BY <1>1, <1>2
  <1>6. PICK m : m = Matched(lot)
    OBVIOUS
  <1>7. PICK delta : delta = Matched(lot) * (sale.price - lot.cost_price)
    OBVIOUS
  <1>8. Consume(lot) = [lot EXCEPT
          !.quantity_remaining = @ - m,
          !.realized_pnl = @ + delta,
          !.closed_date = IF lot.quantity_remaining = m THEN sale.date ELSE @]
    BY <1>6, <1>7 DEF Consume
  <1>9. lot.realized_pnl + delta \in Int /\ lot.quantity_remaining - m \in Nat
    BY <1>1, <1>3, <1>5, <1>6, <1>7
  <1>10. /\ Consume(lot) \in Lot /\ Consume(lot).symbol = lot.symbol
         /\ Consume(lot).quantity_opened = lot.quantity_opened
         /\ Consume(lot).quantity_remaining = lot.quantity_remaining - m
         /\ Consume(lot).closed_date = IF lot.quantity_remaining = m
                                       THEN sale.date ELSE NONE
    BY <1>1, <1>8, <1>9 DEF Lot
  <1> QED BY <1>2, <1>4, <1>6, <1>10

\* A sale takes from the head lot of a symbol, and pops it once it is empty.
LEMMA ConsumeHead ==
  ASSUME IInv, NEW s \in Symbols, open_lots_by_symbol[s] # <<>>,
         NEW h, h = Head(open_lots_by_symbol[s]),
         NEW lot \in Lot, lot.symbol = s,
         lot.quantity_opened = all_lots[h].quantity_opened,
         lot.quantity_remaining < all_lots[h].quantity_remaining,
         lot.quantity_remaining = 0 <=> lot.closed_date # NONE,
         all_lots' = [all_lots EXCEPT ![h] = lot],
         open_lots_by_symbol' =
           [open_lots_by_symbol EXCEPT
              ![s] = IF lot.quantity_remaining = 0 THEN Tail(@) ELSE @]
  PROVE  LotsType' /\ LotsInv'
  <1>1. /\ h \in DOMAIN all_lots /\ all_lots[h] \in Lot
        /\ all_lots[h].symbol = s /\ all_lots[h].quantity_remaining > 0
        /\ h = open_lots_by_symbol[s][1] /\ 1 \in DOMAIN open_lots_by_symbol[s]
        /\ \A i \in DOMAIN all_lots :
             i < h /\ all_lots[i].symbol = s => all_lots[i].quantity_remaining = 0
    BY HeadFacts
  <1>2. /\ open_lots_by_symbol[s] \in Seq(Nat)
        /\ open_lots_by_symbol' \in [Symbols -> Seq(Nat)]
        /\ \A t \in Symbols : t # s => open_lots_by_symbol'[t] = open_lots_by_symbol[t]
        /\ open_lots_by_symbol'[s] = IF lot.quantity_remaining = 0
                                     THEN Tail(open_lots_by_symbol[s])
                                     ELSE open_lots_by_symbol[s]
    BY DEF IInv, TypeOK
  <1>3. /\ DOMAIN all_lots' = DOMAIN all_lots
        /\ all_lots' \in Seq(Lot)
        /\ all_lots'[h] = lot
        /\ \A i \in DOMAIN all_lots : i # h => all_lots'[i] = all_lots[i]
        /\ \A i \in DOMAIN all_lots : all_lots[i] \in Lot /\ i \in Nat
    BY <1>1 DEF IInv, TypeOK
  <1>4. /\ lot.quantity_remaining \in Nat /\ lot.quantity_opened \in Nat
        /\ \A i \in DOMAIN all_lots : /\ all_lots[i].quantity_remaining \in Nat
                                      /\ all_lots[i].quantity_opened \in Nat
                                      /\ all_lots[i].symbol \in Symbols
    BY <1>3 DEF Lot
  <1>5. \A t \in Symbols :
          /\ open_lots_by_symbol[t] \in Seq(Nat)
          /\ \A i \in DOMAIN open_lots_by_symbol[t] :
               /\ open_lots_by_symbol[t][i] \in DOMAIN all_lots
               /\ all_lots[open_lots_by_symbol[t][i]].symbol = t
               /\ all_lots[open_lots_by_symbol[t][i]].quantity_remaining > 0
          /\ \A i, j \in DOMAIN open_lots_by_symbol[t] :
               i < j => open_lots_by_symbol[t][i] < open_lots_by_symbol[t][j]
    BY DEF IInv, TypeOK, QueueMatchesLots
  <1>6. \A i \in DOMAIN all_lots :
          IF all_lots[i].quantity_remaining > 0
          THEN /\ all_lots[i].closed_date = NONE
               /\ \E k \in DOMAIN open_lots_by_symbol[all_lots[i].symbol] :
                    open_lots_by_symbol[all_lots[i].symbol][k] = i
          ELSE all_lots[i].closed_date # NONE
    BY DEF IInv, QueueMatchesLots, OpenIndices
  <1>7. QueueMatchesLots'
    <2>1. ASSUME NEW t \in Symbols
          PROVE  /\ \A i \in DOMAIN open_lots_by_symbol'[t] :
                      /\ open_lots_by_symbol'[t][i] \in DOMAIN all_lots'
                      /\ all_lots'[open_lots_by_symbol'[t][i]].symbol = t
                      /\ all_lots'[open_lots_by_symbol'[t][i]].quantity_remaining > 0
                 /\ \A i, j \in DOMAIN open_lots_by_symbol'[t] :
                      i < j => open_lots_by_symbol'[t][i] < open_lots_by_symbol'[t][j]
      <3>1. CASE t # s
        <4>1. open_lots_by_symbol'[t] = open_lots_by_symbol[t]
          BY <3>1, <1>2
        <4>2. \A i \in DOMAIN open_lots_by_symbol[t] :
                 all_lots'[open_lots_by_symbol[t][i]] = all_lots[open_lots_by_symbol[t][i]]
          BY <3>1, <1>1, <1>3, <1>5
        <4>3. \A i \in DOMAIN open_lots_by_symbol[t] :
                 /\ open_lots_by_symbol[t][i] \in DOMAIN all_lots'
                 /\ all_lots'[open_lots_by_symbol[t][i]].symbol = t
                 /\ all_lots'[open_lots_by_symbol[t][i]].quantity_remaining > 0
          BY <4>2, <1>3, <1>5
        <4>4. \A i, j \in DOMAIN open_lots_by_symbol[t] :
                 i < j => open_lots_by_symbol[t][i] < open_lots_by_symbol[t][j]
          BY <1>5
        <4> QED BY ONLY <4>1, <4>3, <4>4
      <3>2. CASE t = s /\ lot.quantity_remaining # 0
        <4>1. open_lots_by_symbol'[t] = open_lots_by_symbol[t] /\ lot.quantity_remaining > 0
          BY <3>2, <1>2, <1>4
        <4>2. \A i \in DOMAIN open_lots_by_symbol[t] :
                 /\ all_lots'[open_lots_by_symbol[t][i]].symbol = t
                 /\ all_lots'[open_lots_by_symbol[t][i]].quantity_remaining > 0
          BY <4>1, <3>2, <1>3, <1>5
        <4> QED BY <4>1, <4>2, <1>3, <1>5
      <3>3. CASE t = s /\ lot.quantity_remaining = 0
        <4> DEFINE n == Len(open_lots_by_symbol[s]) - 1
        <4>1. /\ DOMAIN open_lots_by_symbol'[s] = 1..n
              /\ \A i \in 1..n : /\ open_lots_by_symbol'[s][i] = open_lots_by_symbol[s][i + 1]
                                 /\ i + 1 \in DOMAIN open_lots_by_symbol[s]
                                 /\ 1 < i + 1 /\ i \in Int
          BY <3>3, <1>1, <1>2
        <4> HIDE DEF n
        <4>2. ASSUME NEW i \in 1..n
              PROVE  /\ open_lots_by_symbol'[s][i] \in DOMAIN all_lots'
                     /\ all_lots'[open_lots_by_symbol'[s][i]].symbol = s
                     /\ all_lots'[open_lots_by_symbol'[s][i]].quantity_remaining > 0
          <5>1. open_lots_by_symbol[s][1] < open_lots_by_symbol[s][i + 1]
            BY <4>1, <1>1, <1>5
          <5>2. open_lots_by_symbol[s][i + 1] \in DOMAIN all_lots
            BY <4>1, <1>5
          <5>3. open_lots_by_symbol[s][i + 1] # h
            BY <5>1, <5>2, <1>1, <1>3
          <5>4. all_lots'[open_lots_by_symbol'[s][i]] = all_lots[open_lots_by_symbol[s][i + 1]]
            BY <5>2, <5>3, <4>1, <1>3
          <5> QED BY <5>2, <5>4, <4>1, <1>3, <1>5
        <4>3. ASSUME NEW i \in 1..n, NEW j \in 1..n, i < j
              PROVE  open_lots_by_symbol'[s][i] < open_lots_by_symbol'[s][j]
          <5>1. i + 1 < j + 1
            BY <4>1, <4>3
          <5> QED BY <5>1, <4>1, <1>5
        <4> QED BY <4>1, <4>2, <4>3, <3>3
      <3> QED BY <3>1, <3>2, <3>3
    <2>2. ASSUME NEW i \in DOMAIN all_lots
          PROVE  IF all_lots'[i].quantity_remaining > 0
                 THEN /\ all_lots'[i].closed_date = NONE
                      /\ \E k \in DOMAIN open_lots_by_symbol'[all_lots'[i].symbol] :
                           open_lots_by_symbol'[all_lots'[i].symbol][k] = i
                 ELSE all_lots'[i].closed_date # NONE
      <3>1. CASE i = h
        <4>1. CASE lot.quantity_remaining = 0
          BY <3>1, <4>1, <1>3
        <4>2. CASE lot.quantity_remaining # 0
          BY <3>1, <4>2, <1>1, <1>2, <1>3, <1>4
        <4> QED BY <4>1, <4>2
      <3>2. CASE i # h
        <4>1. all_lots'[i] = all_lots[i] /\ all_lots[i].symbol \in Symbols
          BY <3>2, <1>3, <1>4
        <4>2. ASSUME all_lots[i].quantity_remaining > 0
              PROVE  \E k \in DOMAIN open_lots_by_symbol'[all_lots[i].symbol] :
                        open_lots_by_symbol'[all_lots[i].symbol][k] = i
          <5>1. PICK k \in DOMAIN open_lots_by_symbol[all_lots[i].symbol] :
                       open_lots_by_symbol[all_lots[i].symbol][k] = i
            BY <4>2, <1>6
          <5>2. CASE all_lots[i].symbol # s \/ lot.quantity_remaining # 0
            <6>1. open_lots_by_symbol'[all_lots[i].symbol]
                    = open_lots_by_symbol[all_lots[i].symbol]
              BY <5>2, <4>1, <1>2
            <6> QED BY <5>1, <6>1
          <5>3. CASE all_lots[i].symbol = s /\ lot.quantity_remaining = 0
            <6>1. k \in DOMAIN open_lots_by_symbol[s] /\ open_lots_by_symbol[s][k] = i /\ k # 1
              BY <5>1, <5>3, <3>2, <1>1
            <6>2. /\ k - 1 \in DOMAIN Tail(open_lots_by_symbol[s])
                  /\ Tail(open_lots_by_symbol[s])[k - 1] = i
              BY <6>1, <1>2
            <6> QED BY <6>2, <5>3, <1>2
          <5> QED BY <5>2, <5>3
        <4> QED BY <4>1, <4>2, <1>6
      <3> QED BY <3>1, <3>2
    <2>3. \A i \in DOMAIN all_lots' :
            IF all_lots'[i].quantity_remaining > 0
            THEN /\ all_lots'[i].closed_date = NONE
                 /\ i \in {open_lots_by_symbol'[all_lots'[i].symbol][k] :
                            k \in DOMAIN open_lots_by_symbol'[all_lots'[i].symbol]}
            ELSE all_lots'[i].closed_date # NONE
      BY <2>2, <1>3
    <2> QED BY ONLY <2>1, <2>3 DEF QueueMatchesLots, OpenIndices
  <1>8. NoneGrows'
    BY <1>1, <1>3, <1>4 DEF IInv, NoneGrows
  <1>9. ConsumedInOrder'
    <2>1. ASSUME NEW i \in DOMAIN all_lots, NEW j \in DOMAIN all_lots, i < j,
                 all_lots'[i].symbol = all_lots'[j].symbol,
                 all_lots'[j].quantity_remaining < all_lots'[j].quantity_opened
          PROVE  all_lots'[i].quantity_remaining = 0
      <3>1. all_lots[i].symbol = all_lots[j].symbol
        BY <2>1, <1>1, <1>3
      <3>2. CASE j = h
        <4>1. i # h /\ all_lots'[i] = all_lots[i]
          BY <3>2, <2>1, <1>3
        <4> QED BY <4>1, <3>1, <3>2, <2>1, <1>1
      <3>3. CASE j # h
        <4>1. all_lots[i].quantity_remaining = 0
          BY <3>1, <3>3, <2>1, <1>3 DEF IInv, ConsumedInOrder
        <4>2. i # h
          BY <4>1, <1>1
        <4> QED BY <4>1, <4>2, <1>3
      <3> QED BY <3>2, <3>3
    <2> QED BY <2>1, <1>3 DEF ConsumedInOrder
  <1> QED BY <1>2, <1>3, <1>7, <1>8, <1>9 DEF LotsType, LotsInv

\* One iteration of a sale.
LEMMA MatchKeeps ==
  ASSUME IInv, MatchLot
  PROVE  LotsType' /\ LotsInv' /\ sale' \in SaleState
  <1>1. /\ sale \in SaleState /\ sale.remaining_to_sell > 0
        /\ open_lots_by_symbol[sale.symbol] # <<>> /\ sale.symbol \in Symbols
    BY DEF MatchLot, IInv, TypeOK, SaleState
  <1>2. PICK h : h = Head(open_lots_by_symbol[sale.symbol])
    OBVIOUS
  <1>3. PICK lot : lot = all_lots[h]
    OBVIOUS
  <1>4. /\ h \in DOMAIN all_lots /\ lot \in Lot
        /\ lot.symbol = sale.symbol /\ lot.quantity_remaining > 0 /\ lot.closed_date = NONE
    BY <1>1, <1>2, <1>3, HeadFacts
  <1>5. lot.quantity_remaining <= lot.quantity_opened
    BY <1>3, <1>4 DEF IInv, NoneGrows
  <1>6. /\ Matched(lot) \in Nat /\ Matched(lot) > 0
        /\ Matched(lot) <= lot.quantity_remaining
        /\ Matched(lot) <= sale.remaining_to_sell
        /\ Consume(lot) \in Lot /\ Consume(lot).symbol = lot.symbol
        /\ Consume(lot).quantity_opened = lot.quantity_opened
        /\ Consume(lot).quantity_remaining = lot.quantity_remaining - Matched(lot)
        /\ lot.quantity_remaining = Matched(lot) => Consume(lot).closed_date # NONE
        /\ lot.quantity_remaining # Matched(lot) => Consume(lot).closed_date = NONE
    BY <1>1, <1>4, <1>5, ConsumeFacts
  <1>7. lot.quantity_remaining \in Nat
    BY <1>4 DEF Lot
  <1>8. /\ Consume(lot).quantity_remaining = 0 <=> lot.quantity_remaining = Matched(lot)
        /\ Consume(lot).quantity_remaining < lot.quantity_remaining
    BY <1>6, <1>7
  <1>9. /\ all_lots' = [all_lots EXCEPT ![h] = Consume(lot)]
        /\ sale' = [sale EXCEPT
             !.remaining_to_sell = @ - Matched(lot),
             !.realized_delta = @ + Matched(lot) * (sale.price - lot.cost_price)]
        /\ open_lots_by_symbol' =
             [open_lots_by_symbol EXCEPT
                ![sale.symbol] = AfterMatch(open_lots_by_symbol[sale.symbol], lot)]
    BY <1>2, <1>3 DEF MatchLot
  <1>10. open_lots_by_symbol' =
           [open_lots_by_symbol EXCEPT
              ![sale.symbol] = IF Consume(lot).quantity_remaining = 0 THEN Tail(@) ELSE @]
    BY <1>1, <1>8, <1>9 DEF AfterMatch, IInv, TypeOK
  <1>11. LotsType' /\ LotsInv'
    <2>1. PICK new : new = Consume(lot)
      OBVIOUS
    <2>2. /\ new \in Lot /\ new.symbol = sale.symbol
          /\ new.quantity_opened = all_lots[h].quantity_opened
          /\ new.quantity_remaining < all_lots[h].quantity_remaining
          /\ new.quantity_remaining = 0 <=> new.closed_date # NONE
      BY <2>1, <1>3, <1>4, <1>6, <1>8
    <2>3. /\ all_lots' = [all_lots EXCEPT ![h] = new]
          /\ open_lots_by_symbol' =
               [open_lots_by_symbol EXCEPT
                  ![sale.symbol] = IF new.quantity_remaining = 0 THEN Tail(@) ELSE @]
      BY <2>1, <1>9, <1>10
    <2> QED BY <2>2, <2>3, <1>1, <1>2, ConsumeHead
  <1>12. sale' \in SaleState
    <2>1. Matched(lot) * (sale.price - lot.cost_price) \in Int
      BY <1>1, <1>4, <1>6 DEF SaleState, Lot
    <2>2. sale.remaining_to_sell - Matched(lot) \in Nat
      BY <1>1, <1>6 DEF SaleState
    <2>3. PICK delta : delta = Matched(lot) * (sale.price - lot.cost_price)
      OBVIOUS
    <2>4. PICK left : left = sale.remaining_to_sell - Matched(lot)
      OBVIOUS
    <2>5. sale.realized_delta + delta \in Int /\ left \in Nat
      BY <2>1, <2>2, <2>3, <2>4, <1>1 DEF SaleState
    <2>6. sale' = [sale EXCEPT !.remaining_to_sell = left,
                               !.realized_delta = @ + delta]
      BY <2>3, <2>4, <1>9
    <2> QED BY <2>5, <2>6, <1>1 DEF SaleState
  <1> QED BY <1>11, <1>12

\* The end of a sale: what no lot could cover becomes a closed lot, after every
\* lot of the symbol has been used up.
LEMMA SellEndKeeps ==
  ASSUME IInv, SellEnd
  PROVE  LotsType' /\ LotsInv' /\ realized_pnl_by_symbol' \in [Symbols -> Int]
  <1>1. /\ sale \in SaleState /\ sale.symbol \in Symbols /\ sale.date \in Date
        /\ sale.price \in Nat /\ sale.remaining_to_sell \in Nat
        /\ sale.realized_delta \in Int
        /\ sale.remaining_to_sell = 0 \/ open_lots_by_symbol[sale.symbol] = <<>>
        /\ open_lots_by_symbol' = open_lots_by_symbol
    BY DEF SellEnd, IInv, TypeOK, SaleState
  <1>2. realized_pnl_by_symbol' \in [Symbols -> Int]
    <2>1. RealizedDelta \in Int
      <3>1. sale.remaining_to_sell * sale.price \in Int
        BY <1>1
      <3> QED BY <3>1, <1>1 DEF RealizedDelta
    <2>2. realized_pnl_by_symbol' =
            [realized_pnl_by_symbol EXCEPT ![sale.symbol] = @ + RealizedDelta]
      BY DEF SellEnd
    <2> QED BY <2>1, <2>2, <1>1 DEF IInv, TypeOK
  <1>3. /\ open_lots_by_symbol \in [Symbols -> Seq(Nat)]
        /\ \A i \in DOMAIN all_lots : all_lots[i] \in Lot
        /\ DOMAIN all_lots = 1..Len(all_lots) /\ Len(all_lots) \in Nat
    BY DEF IInv, TypeOK
  <1>4. CASE sale.remaining_to_sell = 0
    <2>1. all_lots' = all_lots
      BY <1>1, <1>4 DEF SellEnd
    <2>2. LotsType'
      BY <1>1, <2>1 DEF IInv, TypeOK, LotsType
    <2>3. QueueMatchesLots'
      BY <1>1, <2>1 DEF IInv, QueueMatchesLots, OpenIndices
    <2>4. NoneGrows' /\ ConsumedInOrder'
      BY <2>1 DEF IInv, NoneGrows, ConsumedInOrder
    <2> QED BY <1>2, <2>2, <2>3, <2>4 DEF LotsInv
  <1>5. CASE sale.remaining_to_sell # 0
    <2>1. sale.remaining_to_sell > 0 /\ open_lots_by_symbol[sale.symbol] = <<>>
      BY <1>1, <1>5
    <2>2. PICK lot : lot = OversellLot
      OBVIOUS
    <2>3. /\ lot \in Lot /\ lot.symbol = sale.symbol
          /\ lot.quantity_remaining = 0 /\ lot.quantity_opened \in Nat
          /\ lot.closed_date # NONE
      <3>1. sale.remaining_to_sell * sale.price \in Int
        BY <1>1
      <3>2. sale.date # NONE
        BY <1>1, FifoAssumption DEF Date
      <3> QED BY <3>1, <3>2, <1>1, <2>2 DEF OversellLot, Lot
    <2>4. all_lots' = Append(all_lots, lot)
      BY <2>1, <2>2 DEF SellEnd
    <2>5. PICK n : n = Len(all_lots) + 1
      OBVIOUS
    <2>6. /\ all_lots' \in Seq(Lot) /\ n \in Nat \ {0}
          /\ DOMAIN all_lots = 1..(n - 1) /\ DOMAIN all_lots' = 1..n
          /\ \A i \in 1..(n - 1) : all_lots'[i] = all_lots[i]
          /\ all_lots'[n] = lot
      BY <2>3, <2>4, <2>5 DEF IInv, TypeOK
    <2>7. \A i \in 1..(n - 1) : /\ all_lots[i].quantity_remaining \in Nat
                                /\ all_lots[i].quantity_opened \in Nat
                                /\ all_lots[i].symbol \in Symbols
      BY <1>3, <2>6 DEF Lot
    <2>8. ASSUME NEW i \in 1..(n - 1), all_lots[i].symbol = sale.symbol
          PROVE  all_lots[i].quantity_remaining = 0
      <3>1. DOMAIN open_lots_by_symbol[sale.symbol] = {}
        BY <2>1
      <3>2. ~(all_lots[i].quantity_remaining > 0)
        BY <2>6, <2>8, <3>1 DEF IInv, QueueMatchesLots, OpenIndices
      <3> QED BY <3>2, <2>7
    <2>9. QueueMatchesLots'
      <3>1. ASSUME NEW t \in Symbols
            PROVE  /\ \A i \in DOMAIN open_lots_by_symbol[t] :
                        /\ open_lots_by_symbol[t][i] \in DOMAIN all_lots'
                        /\ all_lots'[open_lots_by_symbol[t][i]].symbol = t
                        /\ all_lots'[open_lots_by_symbol[t][i]].quantity_remaining > 0
                   /\ \A i, j \in DOMAIN open_lots_by_symbol[t] :
                        i < j => open_lots_by_symbol[t][i] < open_lots_by_symbol[t][j]
        <4>1. /\ \A i \in DOMAIN open_lots_by_symbol[t] :
                   /\ open_lots_by_symbol[t][i] \in 1..(n - 1)
                   /\ all_lots[open_lots_by_symbol[t][i]].symbol = t
                   /\ all_lots[open_lots_by_symbol[t][i]].quantity_remaining > 0
              /\ \A i, j \in DOMAIN open_lots_by_symbol[t] :
                   i < j => open_lots_by_symbol[t][i] < open_lots_by_symbol[t][j]
          BY <2>6 DEF IInv, QueueMatchesLots
        <4>2. 1..(n - 1) \subseteq 1..n
          BY <2>6
        <4> QED BY <4>1, <4>2, <2>6
      <3>2. ASSUME NEW i \in 1..n
            PROVE  IF all_lots'[i].quantity_remaining > 0
                   THEN /\ all_lots'[i].closed_date = NONE
                        /\ \E k \in DOMAIN open_lots_by_symbol[all_lots'[i].symbol] :
                             open_lots_by_symbol[all_lots'[i].symbol][k] = i
                   ELSE all_lots'[i].closed_date # NONE
        <4>1. CASE i = n
          BY <4>1, <2>3, <2>6
        <4>2. CASE i # n
          <5>1. i \in 1..(n - 1) /\ all_lots'[i] = all_lots[i]
            BY <4>2, <2>6
          <5>2. IF all_lots[i].quantity_remaining > 0
                THEN /\ all_lots[i].closed_date = NONE
                     /\ \E k \in DOMAIN open_lots_by_symbol[all_lots[i].symbol] :
                          open_lots_by_symbol[all_lots[i].symbol][k] = i
                ELSE all_lots[i].closed_date # NONE
            BY <5>1, <2>6 DEF IInv, QueueMatchesLots, OpenIndices
          <5> QED BY ONLY <5>1, <5>2
        <4> QED BY <4>1, <4>2
      <3>3. \A i \in DOMAIN all_lots' :
              IF all_lots'[i].quantity_remaining > 0
              THEN /\ all_lots'[i].closed_date = NONE
                   /\ i \in {open_lots_by_symbol'[all_lots'[i].symbol][k] :
                              k \in DOMAIN open_lots_by_symbol'[all_lots'[i].symbol]}
              ELSE all_lots'[i].closed_date # NONE
        BY <3>2, <2>6, <1>1
      <3>4. open_lots_by_symbol' = open_lots_by_symbol
        BY <1>1
      <3> QED BY ONLY <3>1, <3>3, <3>4 DEF QueueMatchesLots, OpenIndices
    <2>10. NoneGrows'
      BY <2>3, <2>6 DEF IInv, NoneGrows
    <2>11. ConsumedInOrder'
      <3>1. ASSUME NEW i \in 1..n, NEW j \in 1..n, i < j,
                   all_lots'[i].symbol = all_lots'[j].symbol,
                   all_lots'[j].quantity_remaining < all_lots'[j].quantity_opened
            PROVE  all_lots'[i].quantity_remaining = 0
        <4>1. i \in 1..(n - 1) /\ all_lots'[i] = all_lots[i]
          BY <3>1, <2>6
        <4>2. CASE j = n
          BY <4>1, <4>2, <3>1, <2>3, <2>6, <2>8
        <4>3. CASE j # n
          <5>1. j \in 1..(n - 1) /\ all_lots'[j] = all_lots[j]
            BY <4>3, <2>6
          <5> QED BY <4>1, <5>1, <3>1, <2>6 DEF IInv, ConsumedInOrder
        <4> QED BY <4>2, <4>3
      <3> QED BY <3>1, <2>6 DEF ConsumedInOrder
    <2>12. LotsType'
      BY <2>6, <1>1, <1>3 DEF LotsType
    <2> QED BY <1>2, <2>9, <2>10, <2>11, <2>12 DEF LotsInv
  <1> QED BY <1>4, <1>5

\* A step that leaves the lots and the queues alone.
LEMMA LotsUntouched ==
  ASSUME IInv, UNCHANGED <<all_lots, open_lots_by_symbol>>
  PROVE  LotsType' /\ LotsInv'
  <1>1. LotsType'
    BY DEF IInv, TypeOK, LotsType
  <1>2. QueueMatchesLots'
    BY DEF IInv, QueueMatchesLots, OpenIndices
  <1>3. NoneGrows' /\ ConsumedInOrder'
    BY DEF IInv, NoneGrows, ConsumedInOrder
  <1> QED BY <1>1, <1>2, <1>3 DEF LotsInv

-----------------------------------------------------------------------------
(* The invariant.                                                          *)

LEMMA InitIInv == Init => IInv
  <1> SUFFICES ASSUME Init PROVE IInv
    OBVIOUS
  <1>1. /\ all_lots = <<>> /\ DOMAIN all_lots = {}
        /\ \A s \in Symbols : open_lots_by_symbol[s] = <<>>
                              /\ DOMAIN open_lots_by_symbol[s] = {}
    BY DEF Init
  <1>2. TypeOK
    <2>1. 0 \in Date /\ 0 \in 0..2 /\ 0 \in 0..MaxEvents
      BY FifoAssumption DEF Date
    <2> QED BY <2>1 DEF Init, TypeOK, NoSale
  <1>3. QueueMatchesLots
    BY <1>1 DEF QueueMatchesLots
  <1>4. NoneGrows /\ ConsumedInOrder
    BY <1>1 DEF NoneGrows, ConsumedInOrder
  <1> QED BY <1>2, <1>3, <1>4 DEF IInv

\* Every action keeps the invariant.
LEMMA NextIInv == IInv /\ [Next]_vars => IInv'
  <1> SUFFICES ASSUME IInv, [Next]_vars PROVE IInv'
    OBVIOUS
  <1>1. ASSUME NEW s \in Symbols, NEW date \in Date, NEW q \in Quantities, NEW p \in Prices
        PROVE  q * Scale \in Nat \ {0} /\ p * Scale \in Nat
    BY FifoAssumption
  <1>2. ASSUME NEW s \in Symbols, NEW date \in Date, NEW q \in Quantities, NEW p \in Prices,
               _apply_opening_adjustment(s, date, q * Scale, p * Scale)
        PROVE  IInv'
    <2>1. LotsType' /\ LotsInv'
      BY <1>1, <1>2, OpenKeeps DEF _apply_opening_adjustment
    <2>2. last' \in [date : Date, priority : 0..2] /\ applied' \in 0..MaxEvents
      BY <1>2, KeyKeeps DEF _apply_opening_adjustment
    <2> QED BY <2>1, <2>2, <1>2
            DEF _apply_opening_adjustment, LotsType, LotsInv, IInv, TypeOK
  <1>3. ASSUME NEW s \in Symbols, NEW date \in Date, NEW q \in Quantities, NEW p \in Prices,
               Buy(s, date, q * Scale, p * Scale)
        PROVE  IInv'
    <2>1. LotsType' /\ LotsInv'
      BY <1>1, <1>3, OpenKeeps DEF Buy
    <2>2. last' \in [date : Date, priority : 0..2] /\ applied' \in 0..MaxEvents
      BY <1>3, KeyKeeps DEF Buy
    <2>3. cash_from_trades' \in Int
      <3>1. (q * Scale) * (p * Scale) \in Int
        BY <1>1
      <3> QED BY <3>1, <1>3 DEF Buy, IInv, TypeOK
    <2> QED BY <2>1, <2>2, <2>3, <1>3 DEF Buy, LotsType, LotsInv, IInv, TypeOK
  <1>4. ASSUME NEW s \in Symbols, NEW date \in Date, NEW q \in Quantities, NEW p \in Prices,
               SellBegin(s, date, q * Scale, p * Scale)
        PROVE  IInv'
    <2>1. LotsType' /\ LotsInv'
      BY <1>4, LotsUntouched DEF SellBegin
    <2>2. last' \in [date : Date, priority : 0..2] /\ applied' \in 0..MaxEvents
      BY <1>4, KeyKeeps DEF SellBegin
    <2>3. cash_from_trades' \in Int
      <3>1. (q * Scale) * (p * Scale) \in Int
        BY <1>1
      <3> QED BY <3>1, <1>4 DEF SellBegin, IInv, TypeOK
    <2>4. sale' \in SaleState
      BY <1>1, <1>4 DEF SellBegin, SaleState
    <2> QED BY <2>1, <2>2, <2>3, <2>4, <1>4
            DEF SellBegin, LotsType, LotsInv, IInv, TypeOK, SaleState
  <1>5. ASSUME NEW s \in Symbols, NEW date \in Date, NEW ratio \in Ratios,
               _apply_corporate_action(s, date, ratio)
        PROVE  IInv'
    <2>1. LotsType' /\ LotsInv'
      <3>1. CASE open_lots_by_symbol[s] = <<>>
        BY <1>5, <3>1, LotsUntouched DEF _apply_corporate_action
      <3>2. CASE open_lots_by_symbol[s] # <<>>
        <4>1. /\ all_lots' = [i \in DOMAIN all_lots |->
                                IF i \in OpenIndices(s)
                                THEN Split(all_lots[i], Factor(ratio)) ELSE all_lots[i]]
              /\ open_lots_by_symbol' = open_lots_by_symbol
          BY <1>5, <3>2 DEF _apply_corporate_action
        <4>2. Factor(ratio) \in Nat \ {0}
          BY FactorType
        <4> QED BY <4>1, <4>2, SplitKeeps
      <3> QED BY <3>1, <3>2
    <2>2. last' \in [date : Date, priority : 0..2] /\ applied' \in 0..MaxEvents
      BY <1>5, KeyKeeps DEF _apply_corporate_action
    <2> QED BY <2>1, <2>2, <1>5
            DEF _apply_corporate_action, LotsType, LotsInv, IInv, TypeOK
  <1>6. CASE MatchLot
    <2>1. LotsType' /\ LotsInv' /\ sale' \in SaleState
      BY <1>6, MatchKeeps
    <2>2. UNCHANGED <<realized_pnl_by_symbol, cash_from_trades, adjustments, last, applied>>
      BY <1>6 DEF MatchLot
    <2> QED BY <2>1, <2>2 DEF LotsType, LotsInv, IInv, TypeOK, SaleState
  <1>7. CASE SellEnd
    <2>1. LotsType' /\ LotsInv' /\ realized_pnl_by_symbol' \in [Symbols -> Int]
      BY <1>7, SellEndKeeps
    <2>2. sale' = NoSale /\ UNCHANGED <<cash_from_trades, adjustments, last, applied>>
      BY <1>7 DEF SellEnd
    <2> QED BY <2>1, <2>2 DEF LotsType, LotsInv, IInv, TypeOK
  <1>8. CASE UNCHANGED vars
    <2>1. LotsType' /\ LotsInv'
      BY <1>8, LotsUntouched DEF vars
    <2> QED BY <2>1, <1>8 DEF vars, LotsType, LotsInv, IInv, TypeOK
  <1> QED BY <1>2, <1>3, <1>4, <1>5, <1>6, <1>7, <1>8 DEF Next

LEMMA Invariance == Spec => []IInv
  BY InitIInv, NextIInv, PTL DEF Spec

\* Every replay keeps its lots, queues, totals and sort key in their types:
\* no quantity, open or closed, ever becomes negative.
THEOREM TypeCorrect == Spec => []TypeOK
  <1>1. IInv => TypeOK
    BY DEF IInv
  <1> QED BY <1>1, Invariance, PTL

\* The list of all lots and the per-symbol queues of open ones agree at every
\* point of a replay.
THEOREM QueuesMatchLots == Spec => []QueueMatchesLots
  <1>1. IInv => QueueMatchesLots
    BY DEF IInv
  <1> QED BY <1>1, Invariance, PTL

\* First in, first out, whatever the splits, their rounding and the oversells.
THEOREM FirstInFirstOut == Spec => []ConsumedInOrder
  <1>1. IInv => ConsumedInOrder
    BY DEF IInv
  <1> QED BY <1>1, Invariance, PTL

-----------------------------------------------------------------------------
(* What SumFunction computes.  It is a fold that picks its elements with    *)
(* CHOOSE and recurs on what is left; that it is a sum is found by way of a *)
(* least counterexample, the least by the number of elements.              *)

LEMMA LeastNumber ==
  ASSUME NEW N \in SUBSET Nat, N # {}
  PROVE  \E n \in N : \A m \in N : n <= m
  <1> DEFINE R == OpToRel(<, Nat)
  <1>1. IsWellFoundedOn(R, Nat)
    BY NatLessThanWellFounded
  <1>2. \A x, y \in Nat : y < x => <<y, x>> \in R
    BY DEF OpToRel
  <1> HIDE DEF R
  <1>3. PICK x \in N : \A y \in N : ~(<<y, x>> \in R)
    BY <1>1, WFMin
  <1>4. ASSUME NEW y \in N PROVE x <= y
    <2>1. x \in Nat /\ y \in Nat /\ ~(<<y, x>> \in R)
      BY <1>3
    <2>2. ~(y < x)
      BY <1>2, <2>1
    <2> QED BY <2>1, <2>2
  <1> QED BY <1>3, <1>4

\* A family of finite sets that has a member has one of which no other member is a part.
LEMMA SmallestSet ==
  ASSUME NEW F, F # {}, \A u \in F : IsFiniteSet(u)
  PROVE  \E u \in F : \A v \in SUBSET u : v # u => v \notin F
  <1> DEFINE N == {Cardinality(u) : u \in F}
  <1>1. N \in SUBSET Nat /\ N # {}
    BY FS_CardinalityType
  <1>2. PICK n \in N : \A m \in N : n <= m
    BY <1>1, LeastNumber
  <1>3. PICK u \in F : n = Cardinality(u)
    OBVIOUS
  <1>4. ASSUME NEW v \in SUBSET u, v # u, v \in F PROVE FALSE
    <2>1. Cardinality(v) <= Cardinality(u) /\ Cardinality(v) # Cardinality(u)
      BY <1>4, FS_Subset
    <2>2. Cardinality(u) <= Cardinality(v)
      BY <1>2, <1>3, <1>4
    <2>3. Cardinality(u) \in Nat /\ Cardinality(v) \in Nat
      BY <1>4, FS_CardinalityType
    <2> QED BY <2>1, <2>2, <2>3
  <1> QED BY <1>3, <1>4

Chosen(s) == CHOOSE x \in s : TRUE

\* h is the fold of f over the subsets of S.
Sums(f, h, S) ==
  h = [s \in SUBSET S |-> IF s = {} THEN 0 ELSE f[Chosen(s)] + h[s \ {Chosen(s)}]]

LEMMA SumIsFold ==
  \A f, S : SumFunctionOnSet(f, S) = (CHOOSE h : Sums(f, h, S))[S]
  BY DEF SumFunctionOnSet, FoldFunctionOnSet, MapThenFoldSet, Sums, Chosen

\* Two such functions agree where both are defined.
LEMMA SumsAgree ==
  ASSUME NEW f, NEW S, IsFiniteSet(S), NEW T, NEW g, NEW h, Sums(f, g, S), Sums(f, h, T),
         NEW w, w \in SUBSET S, w \in SUBSET T
  PROVE  g[w] = h[w]
  <1> DEFINE F == {u \in SUBSET S : u \in SUBSET T /\ g[u] # h[u]}
  <1> SUFFICES ASSUME F # {} PROVE FALSE
    OBVIOUS
  <1>1. \A u \in F : IsFiniteSet(u)
    BY FS_Subset
  <1>2. PICK u \in F : \A v \in SUBSET u : v # u => v \notin F
    BY <1>1, SmallestSet
  <1>3. u # {}
    BY DEF Sums
  <1>4. Chosen(u) \in u
    BY <1>3 DEF Chosen
  <1>5. g[u \ {Chosen(u)}] = h[u \ {Chosen(u)}]
    BY <1>2, <1>4
  <1>6. /\ g[u] = f[Chosen(u)] + g[u \ {Chosen(u)}]
        /\ h[u] = f[Chosen(u)] + h[u \ {Chosen(u)}]
    BY <1>3 DEF Sums
  <1> QED BY <1>5, <1>6

\* There is such a function.
LEMMA SumsExist ==
  ASSUME NEW f, NEW S, IsFiniteSet(S)
  PROVE  \E h : Sums(f, h, S)
  <1> DEFINE F == {u \in SUBSET S : ~\E h : Sums(f, h, u)}
  <1> SUFFICES ASSUME F # {} PROVE FALSE
    OBVIOUS
  <1>1. \A u \in F : IsFiniteSet(u)
    BY FS_Subset
  <1>2. PICK u \in F : \A v \in SUBSET u : v # u => v \notin F
    BY <1>1, SmallestSet
  <1>3. u \in SUBSET S /\ IsFiniteSet(u)
    BY <1>1
  <1> DEFINE G(v) == CHOOSE h : Sums(f, h, v)
             g == [s \in SUBSET u |->
                     IF s = {} THEN 0
                     ELSE f[Chosen(s)] + G(s \ {Chosen(s)})[s \ {Chosen(s)}]]
  <1>4. ASSUME NEW v \in SUBSET u, v # u PROVE Sums(f, G(v), v)
    <2>1. \E h : Sums(f, h, v)
      BY <1>2, <1>3, <1>4
    <2> QED BY <2>1
  <1>5. ASSUME NEW s \in SUBSET u, s # {}
        PROVE  G(s \ {Chosen(s)})[s \ {Chosen(s)}] = g[s \ {Chosen(s)}]
    <2> DEFINE v == s \ {Chosen(s)}
    <2>1. Chosen(s) \in s
      BY <1>5 DEF Chosen
    <2>2. v \in SUBSET u /\ v # u /\ IsFiniteSet(v)
      BY <1>3, <2>1, FS_Subset
    <2>3. Sums(f, G(v), v)
      BY <1>4, <2>2
    <2> HIDE DEF G, v
    <2>4. CASE v = {}
      <3>1. G(v)[v] = 0
        BY <2>3, <2>4 DEF Sums
      <3> QED BY <2>2, <2>4, <3>1 DEF v
    <2>5. CASE v # {}
      <3> DEFINE w == v \ {Chosen(v)}
      <3>1. Chosen(v) \in v
        BY <2>5 DEF Chosen
      <3>2. w \in SUBSET v /\ w \in SUBSET u /\ w # u
        BY <2>2, <3>1
      <3>3. Sums(f, G(w), w)
        BY <1>4, <3>2
      <3>4. G(v)[v] = f[Chosen(v)] + G(v)[w]
        BY <2>3, <2>5 DEF Sums
      <3>5. G(v)[w] = G(w)[w]
        BY <2>2, <2>3, <3>2, <3>3, SumsAgree
      <3>6. g[v] = f[Chosen(v)] + G(w)[w]
        BY <2>2, <2>5
      <3> QED BY <3>4, <3>5, <3>6 DEF v
    <2> QED BY <2>4, <2>5
  <1>6. Sums(f, g, u)
    <2> HIDE DEF G
    <2>1. g = [s \in SUBSET u |->
                 IF s = {} THEN 0 ELSE f[Chosen(s)] + g[s \ {Chosen(s)}]]
      BY <1>5
    <2> HIDE DEF g
    <2> QED BY <2>1 DEF Sums
  <1> QED BY <1>3, <1>6

LEMMA SumOfNone ==
  ASSUME NEW f
  PROVE  SumFunctionOnSet(f, {}) = 0
  <1> DEFINE g == CHOOSE h : Sums(f, h, {})
  <1>1. Sums(f, g, {})
    <2>1. \E h : Sums(f, h, {})
      BY SumsExist, FS_EmptySet
    <2> QED BY <2>1
  <1> HIDE DEF g
  <1>2. g[{}] = 0
    BY <1>1 DEF Sums
  <1> QED BY <1>2, SumIsFold DEF g

\* The recursive equation, for the element the fold picks.
LEMMA SumOfPicked ==
  ASSUME NEW f, NEW S, IsFiniteSet(S), S # {}
  PROVE  \E x \in S : SumFunctionOnSet(f, S) = f[x] + SumFunctionOnSet(f, S \ {x})
  <1> DEFINE x == Chosen(S)
             T == S \ {x}
             g == CHOOSE h : Sums(f, h, S)
             k == CHOOSE h : Sums(f, h, T)
  <1>1. x \in S /\ T \in SUBSET S /\ IsFiniteSet(T)
    BY FS_Subset DEF Chosen
  <1>2. Sums(f, g, S) /\ Sums(f, k, T)
    <2>1. (\E h : Sums(f, h, S)) /\ \E h : Sums(f, h, T)
      BY <1>1, SumsExist
    <2> QED BY <2>1
  <1>3. SumFunctionOnSet(f, S) = g[S] /\ SumFunctionOnSet(f, T) = k[T]
    BY SumIsFold
  <1> HIDE DEF g, k
  <1>4. g[T] = k[T]
    BY <1>1, <1>2, SumsAgree
  <1>5. g[S] = f[x] + g[T]
    BY <1>2 DEF Sums
  <1> HIDE DEF x
  <1> QED BY <1>1, <1>3, <1>4, <1>5

LEMMA SumIsInt ==
  ASSUME NEW f, NEW S, IsFiniteSet(S), \A x \in S : f[x] \in Int
  PROVE  SumFunctionOnSet(f, S) \in Int
  <1> DEFINE F == {u \in SUBSET S : SumFunctionOnSet(f, u) \notin Int}
  <1> SUFFICES ASSUME F # {} PROVE FALSE
    OBVIOUS
  <1>1. \A u \in F : IsFiniteSet(u)
    BY FS_Subset
  <1>2. PICK u \in F : \A v \in SUBSET u : v # u => v \notin F
    BY <1>1, SmallestSet
  <1>3. u # {}
    BY SumOfNone
  <1>4. PICK x \in u : SumFunctionOnSet(f, u) = f[x] + SumFunctionOnSet(f, u \ {x})
    BY <1>1, <1>3, SumOfPicked
  <1>5. SumFunctionOnSet(f, u \ {x}) \in Int /\ f[x] \in Int
    BY <1>2
  <1> QED BY <1>4, <1>5

\* Whichever element is taken out, the sum is the same.
LEMMA SumOfAny ==
  ASSUME NEW f, NEW S, IsFiniteSet(S), \A x \in S : f[x] \in Int, NEW y \in S
  PROVE  SumFunctionOnSet(f, S) = f[y] + SumFunctionOnSet(f, S \ {y})
  <1> DEFINE Takes(u, e) ==
                SumFunctionOnSet(f, u) = f[e] + SumFunctionOnSet(f, u \ {e})
             F == {u \in SUBSET S : \E e \in u : ~Takes(u, e)}
  <1> SUFFICES ASSUME F # {} PROVE FALSE
    OBVIOUS
  <1>1. \A u \in F : IsFiniteSet(u)
    BY FS_Subset
  <1>2. PICK u \in F : \A v \in SUBSET u : v # u => v \notin F
    BY <1>1, SmallestSet
  <1>3. PICK e \in u : ~Takes(u, e)
    OBVIOUS
  <1>4. PICK c \in u : Takes(u, c)
    BY <1>1, <1>3, SumOfPicked
  <1>5. c # e
    BY <1>3, <1>4
  <1>6. Takes(u \ {e}, c) /\ Takes(u \ {c}, e)
    BY <1>2, <1>3, <1>4, <1>5
  <1> DEFINE rest == SumFunctionOnSet(f, (u \ {e}) \ {c})
  <1>7. (u \ {e}) \ {c} = (u \ {c}) \ {e}
    OBVIOUS
  <1>8. /\ SumFunctionOnSet(f, u \ {e}) = f[c] + rest
        /\ SumFunctionOnSet(f, u \ {c}) = f[e] + rest
    BY <1>6, <1>7
  <1>9. rest \in Int /\ f[c] \in Int /\ f[e] \in Int
    <2>1. IsFiniteSet((u \ {e}) \ {c}) /\ \A x \in (u \ {e}) \ {c} : f[x] \in Int
      BY <1>1, FS_Subset
    <2> QED BY <2>1, SumIsInt
  <1> HIDE DEF rest
  <1>10. SumFunctionOnSet(f, u) = f[e] + SumFunctionOnSet(f, u \ {e})
    BY <1>4, <1>8, <1>9
  <1> QED BY <1>3, <1>10

\* A sum depends on nothing but the values.
LEMMA SumOfSame ==
  ASSUME NEW f, NEW g, NEW S, IsFiniteSet(S),
         \A x \in S : f[x] = g[x] /\ f[x] \in Int
  PROVE  SumFunctionOnSet(f, S) = SumFunctionOnSet(g, S)
  <1> DEFINE F == {u \in SUBSET S : SumFunctionOnSet(f, u) # SumFunctionOnSet(g, u)}
  <1> SUFFICES ASSUME F # {} PROVE FALSE
    OBVIOUS
  <1>1. \A u \in F : IsFiniteSet(u)
    BY FS_Subset
  <1>2. PICK u \in F : \A v \in SUBSET u : v # u => v \notin F
    BY <1>1, SmallestSet
  <1>3. u # {}
    BY SumOfNone
  <1>4. PICK x : x \in u
    BY <1>3
  <1>5. /\ SumFunctionOnSet(f, u) = f[x] + SumFunctionOnSet(f, u \ {x})
        /\ SumFunctionOnSet(g, u) = g[x] + SumFunctionOnSet(g, u \ {x})
    <2>1. \A y \in u : f[y] \in Int /\ g[y] \in Int
      OBVIOUS
    <2> QED BY <1>1, <1>4, <2>1, SumOfAny
  <1>6. u \ {x} \notin F
    BY <1>2, <1>4
  <1> QED BY <1>4, <1>5, <1>6

\* One more number.
LEMMA SumOfOneMore ==
  ASSUME NEW f, NEW g, IsFiniteSet(DOMAIN f), NEW n, n \notin DOMAIN f,
         DOMAIN g = DOMAIN f \cup {n}, \A x \in DOMAIN f : g[x] = f[x],
         \A x \in DOMAIN g : g[x] \in Int
  PROVE  SumFunction(g) = SumFunction(f) + g[n]
  <1>1. IsFiniteSet(DOMAIN g) /\ DOMAIN g \ {n} = DOMAIN f
    BY FS_AddElement
  <1>2. SumFunctionOnSet(g, DOMAIN g) = g[n] + SumFunctionOnSet(g, DOMAIN f)
    BY <1>1, SumOfAny
  <1>3. SumFunctionOnSet(g, DOMAIN f) = SumFunctionOnSet(f, DOMAIN f)
    BY SumOfSame
  <1>4. g[n] \in Int /\ SumFunctionOnSet(g, DOMAIN f) \in Int
    BY SumIsInt
  <1> QED BY <1>2, <1>3, <1>4 DEF SumFunction

\* One number that changes.
LEMMA SumOfOneChanged ==
  ASSUME NEW f, NEW g, IsFiniteSet(DOMAIN f), NEW n \in DOMAIN f, DOMAIN g = DOMAIN f,
         \A x \in DOMAIN f : x # n => g[x] = f[x],
         \A x \in DOMAIN f : f[x] \in Int /\ g[x] \in Int
  PROVE  SumFunction(g) = SumFunction(f) - f[n] + g[n]
  <1> DEFINE S == DOMAIN f \ {n}
  <1>1. IsFiniteSet(S)
    BY FS_Subset
  <1>2. /\ SumFunctionOnSet(f, DOMAIN f) = f[n] + SumFunctionOnSet(f, S)
        /\ SumFunctionOnSet(g, DOMAIN f) = g[n] + SumFunctionOnSet(g, S)
    BY SumOfAny
  <1>3. SumFunctionOnSet(g, S) = SumFunctionOnSet(f, S)
    BY <1>1, SumOfSame
  <1>4. f[n] \in Int /\ g[n] \in Int /\ SumFunctionOnSet(f, S) \in Int
    BY <1>1, SumIsInt
  <1> QED BY <1>2, <1>3, <1>4 DEF SumFunction

-----------------------------------------------------------------------------
(* The figures beside the lots.  CashIdentity speaks of the time between    *)
(* two sales; while one is matched its proceeds are booked already, and its *)
(* gains not yet.                                                          *)

CashOf == [i \in DOMAIN all_lots |-> NetCash(all_lots[i])]
LotsOf(s) == {n \in DOMAIN all_lots : all_lots[n].symbol = s}
RealizedOf(s) == [i \in LotsOf(s) |-> all_lots[i].realized_pnl]

\* What the sale at hand is still to bring in, and what it has realized.
Due == IF sale = NoSale THEN 0 ELSE sale.remaining_to_sell * sale.price
Running(s) == IF sale # NoSale /\ sale.symbol = s THEN sale.realized_delta ELSE 0

CashAgrees == cash_from_trades = SumFunction(CashOf) + Due
TotalsAgree ==
  \A s \in Symbols : realized_pnl_by_symbol[s] + Running(s) = SumFunction(RealizedOf(s))

LEMMA ProductIsInt ==
  ASSUME NEW a \in Int, NEW b \in Int
  PROVE  a * b \in Int
  OBVIOUS

LEMMA NetCashIsInt ==
  ASSUME NEW lot \in Lot
  PROVE  NetCash(lot) \in Int
  <1>1. /\ lot.quantity_remaining \in Int /\ lot.quantity_opened \in Int
        /\ lot.cost_price \in Int /\ lot.realized_pnl \in Int
    BY DEF Lot
  <1>2. /\ lot.quantity_remaining * lot.cost_price \in Int
        /\ lot.quantity_opened * lot.cost_price \in Int
    BY <1>1, ProductIsInt
  <1> QED BY <1>1, <1>2 DEF NetCash

LEMMA LotFacts ==
  ASSUME IInv
  PROVE  /\ DOMAIN all_lots = 1..Len(all_lots) /\ Len(all_lots) \in Nat
         /\ IsFiniteSet(DOMAIN all_lots)
         /\ \A s : IsFiniteSet(LotsOf(s))
         /\ \A i \in DOMAIN all_lots : /\ all_lots[i] \in Lot /\ NetCash(all_lots[i]) \in Int
                                       /\ all_lots[i].realized_pnl \in Int
  <1>1. DOMAIN all_lots = 1..Len(all_lots) /\ Len(all_lots) \in Nat
    BY DEF IInv, TypeOK
  <1>2. IsFiniteSet(DOMAIN all_lots)
    BY <1>1, FS_Interval
  <1>3. \A s : IsFiniteSet(LotsOf(s))
    BY <1>2, FS_Subset DEF LotsOf
  <1>4. \A i \in DOMAIN all_lots : all_lots[i] \in Lot
    BY DEF IInv, TypeOK
  <1>5. \A i \in DOMAIN all_lots : all_lots[i].realized_pnl \in Int
    BY <1>4 DEF Lot
  <1> QED BY <1>1, <1>2, <1>3, <1>4, <1>5, NetCashIsInt

\* A lot that is added.
LEMMA LotAdded ==
  ASSUME IInv, NEW lot \in Lot, all_lots' = Append(all_lots, lot)
  PROVE  /\ SumFunction(CashOf)' = SumFunction(CashOf) + NetCash(lot)
         /\ \A s : SumFunction(RealizedOf(s))' =
              SumFunction(RealizedOf(s)) + (IF lot.symbol = s THEN lot.realized_pnl ELSE 0)
  <1> DEFINE n == Len(all_lots) + 1
  <1>1. /\ DOMAIN all_lots' = DOMAIN all_lots \cup {n} /\ n \notin DOMAIN all_lots
        /\ \A i \in DOMAIN all_lots : all_lots'[i] = all_lots[i]
        /\ all_lots'[n] = lot
    BY LotFacts
  <1>2. NetCash(lot) \in Int /\ lot.realized_pnl \in Int
    BY NetCashIsInt DEF Lot
  <1> HIDE DEF n
  <1>3. SumFunction(CashOf') = SumFunction(CashOf) + NetCash(lot)
    <2>1. /\ DOMAIN CashOf = DOMAIN all_lots /\ DOMAIN CashOf' = DOMAIN all_lots \cup {n}
          /\ \A i \in DOMAIN CashOf : CashOf'[i] = CashOf[i] /\ CashOf[i] \in Int
          /\ CashOf'[n] = NetCash(lot)
      BY <1>1, LotFacts DEF CashOf
    <2>2. IsFiniteSet(DOMAIN CashOf)
      BY <2>1, LotFacts
    <2> HIDE DEF CashOf
    <2> QED BY <1>1, <1>2, <2>1, <2>2, SumOfOneMore
  <1>4. ASSUME NEW s
        PROVE  SumFunction(RealizedOf(s)') =
                 SumFunction(RealizedOf(s)) + (IF lot.symbol = s THEN lot.realized_pnl ELSE 0)
    <2> DEFINE f == RealizedOf(s)
    <2>1. IsFiniteSet(DOMAIN f) /\ DOMAIN f = LotsOf(s) /\ n \notin DOMAIN f
      BY <1>1, LotFacts DEF RealizedOf, LotsOf
    <2>2. CASE lot.symbol = s
      <3>1. DOMAIN f' = LotsOf(s) \cup {n}
        BY <1>1, <2>2 DEF RealizedOf, LotsOf
      <3>2. f'[n] = lot.realized_pnl /\ \A i \in LotsOf(s) : f'[i] = f[i] /\ f[i] \in Int
        BY <1>1, <2>2, LotFacts DEF RealizedOf, LotsOf
      <3> HIDE DEF f
      <3>3. \A x \in DOMAIN f' : f'[x] \in Int
        BY <1>2, <2>1, <3>1, <3>2
      <3>4. SumFunction(f') = SumFunction(f) + f'[n]
        BY <2>1, <3>1, <3>2, <3>3, SumOfOneMore
      <3> QED BY <2>2, <3>2, <3>4 DEF f
    <2>3. CASE lot.symbol # s
      <3>1. LotsOf(s)' = LotsOf(s)
        BY <1>1, <2>3 DEF LotsOf
      <3>2. f' = f
        BY <1>1, <3>1 DEF RealizedOf, LotsOf
      <3>3. SumFunction(f) \in Int
        <4>1. \A i \in DOMAIN f : f[i] \in Int
          BY LotFacts DEF RealizedOf, LotsOf
        <4> HIDE DEF f
        <4> QED BY <2>1, <4>1, SumIsInt DEF SumFunction
      <3> QED BY <2>3, <3>2, <3>3
    <2> QED BY <2>2, <2>3
  <1> QED BY <1>3, <1>4

\* A lot that becomes another one of its symbol.
LEMMA LotChanged ==
  ASSUME IInv, NEW h \in DOMAIN all_lots, NEW lot \in Lot, lot.symbol = all_lots[h].symbol,
         all_lots' = [all_lots EXCEPT ![h] = lot]
  PROVE  /\ SumFunction(CashOf)' = SumFunction(CashOf) - NetCash(all_lots[h]) + NetCash(lot)
         /\ \A s : SumFunction(RealizedOf(s))' =
              IF lot.symbol = s
              THEN SumFunction(RealizedOf(s)) - all_lots[h].realized_pnl + lot.realized_pnl
              ELSE SumFunction(RealizedOf(s))
  <1>1. /\ DOMAIN all_lots' = DOMAIN all_lots /\ all_lots'[h] = lot
        /\ \A i \in DOMAIN all_lots : i # h => all_lots'[i] = all_lots[i]
    OBVIOUS
  <1>2. NetCash(lot) \in Int /\ lot.realized_pnl \in Int
    BY NetCashIsInt DEF Lot
  <1>3. SumFunction(CashOf') = SumFunction(CashOf) - NetCash(all_lots[h]) + NetCash(lot)
    <2>1. /\ DOMAIN CashOf = DOMAIN all_lots /\ DOMAIN CashOf' = DOMAIN CashOf
          /\ \A i \in DOMAIN CashOf : /\ i # h => CashOf'[i] = CashOf[i]
                                      /\ CashOf[i] \in Int
          /\ CashOf[h] = NetCash(all_lots[h]) /\ CashOf'[h] = NetCash(lot)
      BY <1>1, LotFacts DEF CashOf
    <2>2. IsFiniteSet(DOMAIN CashOf)
      BY <2>1, LotFacts
    <2> HIDE DEF CashOf
    <2>3. \A i \in DOMAIN CashOf : CashOf[i] \in Int /\ CashOf'[i] \in Int
      BY <1>2, <2>1
    <2> QED BY <2>1, <2>2, <2>3, SumOfOneChanged
  <1>4. ASSUME NEW s
        PROVE  SumFunction(RealizedOf(s)') =
                 IF lot.symbol = s
                 THEN SumFunction(RealizedOf(s)) - all_lots[h].realized_pnl + lot.realized_pnl
                 ELSE SumFunction(RealizedOf(s))
    <2> DEFINE f == RealizedOf(s)
    <2>1. LotsOf(s)' = LotsOf(s)
      BY <1>1 DEF LotsOf
    <2>2. /\ IsFiniteSet(DOMAIN f) /\ DOMAIN f = LotsOf(s) /\ DOMAIN f' = LotsOf(s)
      BY <2>1, LotFacts DEF RealizedOf
    <2>3. CASE lot.symbol = s
      <3>1. h \in LotsOf(s)
        BY <2>3 DEF LotsOf
      <3>2. /\ f[h] = all_lots[h].realized_pnl /\ f'[h] = lot.realized_pnl
            /\ \A i \in LotsOf(s) : /\ i # h => f'[i] = f[i]
                                    /\ f[i] \in Int
        BY <1>1, <2>1, <3>1, LotFacts DEF RealizedOf, LotsOf
      <3> HIDE DEF f
      <3>3. \A i \in DOMAIN f : f[i] \in Int /\ f'[i] \in Int
        BY <1>2, <2>2, <3>2
      <3>4. SumFunction(f') = SumFunction(f) - f[h] + f'[h]
        BY <2>2, <3>1, <3>2, <3>3, SumOfOneChanged
      <3> QED BY <2>3, <3>2, <3>4 DEF f
    <2>4. CASE lot.symbol # s
      <3>1. f' = f
        BY <1>1, <2>1, <2>4 DEF RealizedOf, LotsOf
      <3> QED BY <2>4, <3>1
    <2> QED BY <2>3, <2>4
  <1> QED BY <1>3, <1>4

\* Lots that change without a change of what they are worth.
LEMMA SameWorth ==
  ASSUME IInv, DOMAIN all_lots' = DOMAIN all_lots,
         \A i \in DOMAIN all_lots : /\ all_lots'[i].symbol = all_lots[i].symbol
                                    /\ all_lots'[i].realized_pnl = all_lots[i].realized_pnl
  PROVE  /\ \A s : SumFunction(RealizedOf(s))' = SumFunction(RealizedOf(s))
         /\ (\A i \in DOMAIN all_lots : NetCash(all_lots'[i]) = NetCash(all_lots[i]))
              => SumFunction(CashOf)' = SumFunction(CashOf)
  <1>1. ASSUME NEW s PROVE RealizedOf(s)' = RealizedOf(s)
    <2>1. LotsOf(s)' = LotsOf(s)
      BY DEF LotsOf
    <2> QED BY <2>1 DEF RealizedOf, LotsOf
  <1>2. ASSUME \A i \in DOMAIN all_lots : NetCash(all_lots'[i]) = NetCash(all_lots[i])
        PROVE  CashOf' = CashOf
    BY <1>2 DEF CashOf
  <1> QED BY <1>1, <1>2

\* A lot is worth after a split what it was worth before: nothing is rounded away.
Exact(lot, factor) ==
  LET after == Split(lot, factor)
  IN  /\ after.quantity_remaining * after.cost_price = lot.quantity_remaining * lot.cost_price
      /\ lot.lot_origin = "OPENING_ADJUSTMENT" =>
           after.quantity_opened * after.cost_price = lot.quantity_opened * lot.cost_price

\* A step that, if it is a split, is an exact one.
ExactSplit ==
  \A s \in Symbols, date \in Date, ratio \in Ratios :
    _apply_corporate_action(s, date, ratio) =>
      \A i \in OpenIndices(s) : Exact(all_lots[i], Factor(ratio))

\* A split of k shares for one is exact where the cost is k times something.
LEMMA WholeSplitIsExact ==
  ASSUME NEW lot \in Lot, NEW k \in Nat \ {0}, NEW c \in Nat, lot.cost_price = k * c
  PROVE  Exact(lot, k * Scale)
  <1> DEFINE f == k * Scale
  <1>1. f \in Nat \ {0} /\ Scale \in Nat \ {0}
    BY FifoAssumption
  <1>2. ASSUME NEW a \in Nat, NEW b \in Nat \ {0} PROVE RoundDiv(a * b, b) = a
    <2> DEFINE n == 2 * (a * b) + b
               d == n \div (2 * b)
    <2>1. /\ a * b \in Nat /\ n \in Nat /\ 2 * b \in Nat \ {0}
          /\ (2 * b) * a = 2 * (a * b)
      OBVIOUS
    <2>2. d \in Nat /\ (2 * b) * d <= n /\ n < (2 * b) * d + 2 * b
      BY <2>1, Division
    <2> HIDE DEF d
    <2>3. CASE d >= a + 1
      <3>1. (2 * b) * d >= (2 * b) * (a + 1)
        BY <2>2, <2>3
      <3>2. (2 * b) * (a + 1) = 2 * (a * b) + 2 * b
        BY <2>1
      <3>3. (2 * b) * d \in Int
        BY <2>1, <2>2
      <3> QED BY <2>1, <2>2, <3>1, <3>2, <3>3
    <2>4. CASE a >= d + 1
      <3>1. (2 * b) * a >= (2 * b) * (d + 1)
        BY <2>2, <2>4
      <3>2. (2 * b) * (d + 1) = (2 * b) * d + 2 * b
        BY <2>1, <2>2
      <3>3. (2 * b) * d \in Int
        BY <2>1, <2>2
      <3> QED BY <2>1, <2>2, <3>1, <3>2, <3>3
    <2>5. d = a
      BY <2>2, <2>3, <2>4
    <2> QED BY <2>5 DEF RoundDiv, d
  <1>3. ASSUME NEW q \in Nat PROVE Times(q, f) = q * k
    <2>1. q * k \in Nat /\ q * f = (q * k) * Scale
      BY <1>1
    <2>2. RoundDiv(q * f, Scale) = q * k
      BY <1>1, <1>2, <2>1
    <2>3. q * f # 0 => q * k # 0
      BY <1>1, <2>1
    <2> HIDE DEF f
    <2> QED BY <2>2, <2>3 DEF Times, Positive
  <1>4. Over(lot.cost_price, f) = c
    <2>1. lot.cost_price * Scale = c * f
      BY <1>1
    <2>2. RoundDiv(lot.cost_price * Scale, f) = c
      BY <1>1, <1>2, <2>1
    <2>3. lot.cost_price # 0 => c # 0
      OBVIOUS
    <2> HIDE DEF f
    <2> QED BY <2>2, <2>3 DEF Over, Positive
  <1>5. /\ Split(lot, f).quantity_remaining = lot.quantity_remaining * k
        /\ Split(lot, f).quantity_opened = lot.quantity_opened * k
        /\ Split(lot, f).cost_price = c
    <2>1. lot.quantity_remaining \in Nat /\ lot.quantity_opened \in Nat
      BY DEF Lot
    <2> HIDE DEF f
    <2> QED BY <1>3, <1>4, <2>1 DEF Split, Lot
  <1>6. \A q \in Nat : (q * k) * c = q * (k * c)
    OBVIOUS
  <1>7. lot.quantity_remaining \in Nat /\ lot.quantity_opened \in Nat
    BY DEF Lot
  <1> HIDE DEF f
  <1>8. Exact(lot, f)
    BY <1>5, <1>6, <1>7 DEF Exact
  <1> QED BY <1>8 DEF f

LEMMA SaleIs ==
  ASSUME IInv, sale # NoSale
  PROVE  /\ sale \in SaleState /\ sale.symbol \in Symbols /\ sale.date \in Date
         /\ sale.price \in Nat /\ sale.remaining_to_sell \in Nat /\ sale.realized_delta \in Int
  BY DEF IInv, TypeOK, SaleState

LEMMA SaleIsOne ==
  ASSUME NEW x \in SaleState
  PROVE  x # NoSale
  <1>1. DOMAIN NoSale = {"symbol"} /\ "price" \in DOMAIN x
    BY DEF SaleState, NoSale
  <1> QED BY <1>1

LEMMA TotalsType ==
  ASSUME IInv
  PROVE  /\ SumFunction(CashOf) \in Int /\ cash_from_trades \in Int
         /\ \A s : SumFunction(RealizedOf(s)) \in Int
         /\ \A s \in Symbols : realized_pnl_by_symbol[s] \in Int
  <1>1. SumFunction(CashOf) \in Int
    <2>1. DOMAIN CashOf = DOMAIN all_lots /\ \A i \in DOMAIN CashOf : CashOf[i] \in Int
      BY LotFacts DEF CashOf
    <2> HIDE DEF CashOf
    <2> QED BY <2>1, LotFacts, SumIsInt DEF SumFunction
  <1>2. ASSUME NEW s PROVE SumFunction(RealizedOf(s)) \in Int
    <2> DEFINE f == RealizedOf(s)
    <2>1. DOMAIN f = LotsOf(s) /\ \A i \in DOMAIN f : f[i] \in Int
      BY LotFacts DEF RealizedOf, LotsOf
    <2> HIDE DEF f
    <2>2. SumFunction(f) \in Int
      BY <2>1, LotFacts, SumIsInt DEF SumFunction
    <2> QED BY <2>2 DEF f
  <1> QED BY <1>1, <1>2 DEF IInv, TypeOK

\* What a sale takes from a lot moves from what is due to what the lot says.
LEMMA MatchAgrees ==
  ASSUME IInv, MatchLot
  PROVE  /\ CashAgrees => CashAgrees'
         /\ TotalsAgree => TotalsAgree'
  <1>1. /\ sale # NoSale /\ sale.remaining_to_sell > 0
        /\ open_lots_by_symbol[sale.symbol] # <<>>
    BY DEF MatchLot
  <1>2. PICK h : h = Head(open_lots_by_symbol[sale.symbol])
    OBVIOUS
  <1>3. PICK lot : lot = all_lots[h]
    OBVIOUS
  <1>4. /\ h \in DOMAIN all_lots /\ lot \in Lot
        /\ lot.symbol = sale.symbol /\ lot.quantity_remaining > 0 /\ lot.closed_date = NONE
    BY <1>1, <1>2, <1>3, SaleIs, HeadFacts
  <1>5. PICK m : m = Matched(lot)
    OBVIOUS
  <1>6. PICK delta : delta = m * (sale.price - lot.cost_price)
    OBVIOUS
  <1>7. PICK new : new = Consume(lot)
    OBVIOUS
  <1>8. m \in Nat /\ new \in Lot /\ new.symbol = lot.symbol
    <2>1. lot.quantity_remaining <= lot.quantity_opened
      BY <1>3, <1>4 DEF IInv, NoneGrows
    <2> QED BY <1>1, <1>4, <1>5, <1>7, <2>1, SaleIs, ConsumeFacts
  <1>9. /\ lot.quantity_remaining \in Nat /\ lot.cost_price \in Nat /\ lot.realized_pnl \in Int
        /\ lot.quantity_opened \in Nat /\ sale.price \in Nat /\ sale.realized_delta \in Int
        /\ sale.remaining_to_sell \in Nat
    BY <1>1, <1>4, SaleIs DEF Lot
  <1>10. delta \in Int
    BY <1>6, <1>8, <1>9
  <1>11. /\ new.quantity_remaining = lot.quantity_remaining - m
         /\ new.realized_pnl = lot.realized_pnl + delta
         /\ new.cost_price = lot.cost_price /\ new.quantity_opened = lot.quantity_opened
         /\ new.lot_origin = lot.lot_origin
    <2>1. new = [lot EXCEPT
             !.quantity_remaining = @ - m, !.realized_pnl = @ + delta,
             !.closed_date = IF lot.quantity_remaining = m THEN sale.date ELSE @]
      BY <1>5, <1>6, <1>7 DEF Consume
    <2> QED BY <1>4, <2>1 DEF Lot
  <1>12. /\ all_lots' = [all_lots EXCEPT ![h] = new]
         /\ sale' = [sale EXCEPT !.remaining_to_sell = @ - m, !.realized_delta = @ + delta]
         /\ cash_from_trades' = cash_from_trades
         /\ realized_pnl_by_symbol' = realized_pnl_by_symbol
    BY <1>2, <1>3, <1>5, <1>6, <1>7 DEF MatchLot
  <1>13. /\ sale' # NoSale /\ sale'.symbol = sale.symbol /\ sale'.price = sale.price
         /\ sale'.remaining_to_sell = sale.remaining_to_sell - m
         /\ sale'.realized_delta = sale.realized_delta + delta
    <2>1. sale' \in SaleState
      BY MatchKeeps
    <2>2. sale \in SaleState
      BY <1>1, SaleIs
    <2> QED BY <1>12, <2>1, <2>2, SaleIsOne DEF SaleState
  <1>14. /\ SumFunction(CashOf)' = SumFunction(CashOf) - NetCash(lot) + NetCash(new)
         /\ \A s : SumFunction(RealizedOf(s))' =
              IF new.symbol = s
              THEN SumFunction(RealizedOf(s)) - lot.realized_pnl + new.realized_pnl
              ELSE SumFunction(RealizedOf(s))
    <2>1. /\ h \in DOMAIN all_lots /\ new \in Lot /\ new.symbol = all_lots[h].symbol
          /\ all_lots' = [all_lots EXCEPT ![h] = new]
      BY <1>3, <1>4, <1>8, <1>12
    <2> QED BY <1>3, <2>1, LotChanged
  <1>15. NetCash(new) = NetCash(lot) + m * sale.price
    <2>1. PICK worth : worth = (IF lot.lot_origin = "OPENING_ADJUSTMENT"
                                THEN lot.quantity_opened * lot.cost_price ELSE 0)
      OBVIOUS
    <2>2. worth \in Int
      BY <1>9, <2>1, ProductIsInt
    <2>3. /\ NetCash(lot) = lot.realized_pnl - lot.quantity_remaining * lot.cost_price + worth
          /\ NetCash(new) = (lot.realized_pnl + delta)
                            - (lot.quantity_remaining - m) * lot.cost_price + worth
      BY <1>11, <2>1 DEF NetCash
    <2>4. (lot.quantity_remaining - m) * lot.cost_price =
             lot.quantity_remaining * lot.cost_price - m * lot.cost_price
      BY <1>8, <1>9
    <2>5. delta = m * sale.price - m * lot.cost_price
      BY <1>6, <1>8, <1>9
    <2>6. /\ lot.quantity_remaining * lot.cost_price \in Int
          /\ m * lot.cost_price \in Int /\ m * sale.price \in Int
      BY <1>8, <1>9
    <2> QED BY <1>9, <2>2, <2>3, <2>4, <2>5, <2>6
  <1>16. Due' = Due - m * sale.price
    <2>1. (sale.remaining_to_sell - m) * sale.price =
             sale.remaining_to_sell * sale.price - m * sale.price
      BY <1>8, <1>9
    <2> QED BY <1>1, <1>13, <2>1 DEF Due
  <1>17. ASSUME CashAgrees PROVE CashAgrees'
    <2>1. Due \in Int /\ m * sale.price \in Int /\ NetCash(lot) \in Int
      BY <1>1, <1>4, <1>8, <1>9, ProductIsInt, NetCashIsInt DEF Due
    <2>2. cash_from_trades = SumFunction(CashOf) + Due
      BY <1>17 DEF CashAgrees
    <2>3. cash_from_trades' = SumFunction(CashOf)' + Due'
      BY <1>12, <1>14, <1>15, <1>16, <2>1, <2>2, TotalsType
    <2> QED BY <2>3 DEF CashAgrees
  <1>18. ASSUME TotalsAgree PROVE TotalsAgree'
    <2> SUFFICES ASSUME NEW s \in Symbols
                 PROVE  realized_pnl_by_symbol'[s] + Running(s)' = SumFunction(RealizedOf(s))'
      BY DEF TotalsAgree
    <2>1. realized_pnl_by_symbol[s] + Running(s) = SumFunction(RealizedOf(s))
      BY <1>18 DEF TotalsAgree
    <2>2. Running(s)' = IF sale.symbol = s THEN Running(s) + delta ELSE Running(s)
      BY <1>1, <1>13 DEF Running
    <2>3. Running(s) \in Int
      BY <1>9 DEF Running
    <2> QED BY <1>4, <1>8, <1>9, <1>10, <1>11, <1>12, <1>14, <2>1, <2>2, <2>3, TotalsType
  <1> QED BY <1>17, <1>18

\* The end of a sale: the excess is a lot of its own, and the total is booked.
LEMMA SellEndAgrees ==
  ASSUME IInv, SellEnd
  PROVE  /\ CashAgrees => CashAgrees'
         /\ TotalsAgree => TotalsAgree'
  <1>1. /\ sale # NoSale /\ sale' = NoSale /\ cash_from_trades' = cash_from_trades
        /\ realized_pnl_by_symbol' =
             [realized_pnl_by_symbol EXCEPT ![sale.symbol] = @ + RealizedDelta]
    BY DEF SellEnd
  <1>2. /\ sale.symbol \in Symbols /\ sale.date \in Date /\ sale.price \in Nat
        /\ sale.remaining_to_sell \in Nat /\ sale.realized_delta \in Int
    BY <1>1, SaleIs
  <1>3. PICK due : due = sale.remaining_to_sell * sale.price
    OBVIOUS
  <1>4. due \in Int /\ Due = due /\ Due' = 0
    BY <1>1, <1>2, <1>3, ProductIsInt DEF Due
  <1>5. /\ SumFunction(CashOf)' = SumFunction(CashOf) + due
        /\ \A s : SumFunction(RealizedOf(s))' =
             SumFunction(RealizedOf(s)) + (IF sale.symbol = s THEN due ELSE 0)
    <2>1. CASE sale.remaining_to_sell = 0
      <3>1. all_lots' = all_lots /\ due = 0
        BY <1>2, <1>3, <2>1 DEF SellEnd
      <3>2. /\ SumFunction(CashOf)' = SumFunction(CashOf)
            /\ \A s : SumFunction(RealizedOf(s))' = SumFunction(RealizedOf(s))
        BY <3>1, SameWorth
      <3> QED BY <3>1, <3>2, TotalsType
    <2>2. CASE sale.remaining_to_sell # 0
      <3>1. PICK lot : lot = OversellLot
        OBVIOUS
      <3>2. lot \in Lot
        <4>1. due \in Int
          BY <1>4
        <4> QED BY <1>2, <1>3, <3>1, <4>1 DEF OversellLot, Lot
      <3>3. /\ lot.symbol = sale.symbol /\ lot.realized_pnl = due
            /\ lot.quantity_remaining = 0 /\ lot.cost_price = 0
            /\ lot.lot_origin = "OVERSELL_SYNTHETIC"
        BY <1>3, <3>1 DEF OversellLot
      <3>4. NetCash(lot) = due
        BY <1>4, <3>3 DEF NetCash
      <3>5. all_lots' = Append(all_lots, lot)
        BY <1>2, <2>2, <3>1 DEF SellEnd
      <3> QED BY <3>2, <3>3, <3>4, <3>5, LotAdded
    <2> QED BY <2>1, <2>2
  <1>6. ASSUME CashAgrees PROVE CashAgrees'
    <2>1. cash_from_trades' = SumFunction(CashOf)' + Due'
      BY <1>1, <1>4, <1>5, <1>6, TotalsType DEF CashAgrees
    <2> QED BY <2>1 DEF CashAgrees
  <1>7. ASSUME TotalsAgree PROVE TotalsAgree'
    <2> SUFFICES ASSUME NEW s \in Symbols
                 PROVE  realized_pnl_by_symbol'[s] + Running(s)' = SumFunction(RealizedOf(s))'
      BY DEF TotalsAgree
    <2>1. realized_pnl_by_symbol[s] + Running(s) = SumFunction(RealizedOf(s))
      BY <1>7 DEF TotalsAgree
    <2>2. Running(s)' = 0
      BY <1>1 DEF Running
    <2>3. Running(s) = IF sale.symbol = s THEN sale.realized_delta ELSE 0
      BY <1>1 DEF Running
    <2>4. realized_pnl_by_symbol'[s] =
            IF sale.symbol = s THEN realized_pnl_by_symbol[s] + (sale.realized_delta + due)
            ELSE realized_pnl_by_symbol[s]
      BY <1>1, <1>2, <1>3 DEF RealizedDelta, IInv, TypeOK
    <2> QED BY <1>2, <1>4, <1>5, <2>1, <2>2, <2>3, <2>4, TotalsType
  <1> QED BY <1>6, <1>7

\* A lot that comes in by a purchase or an opening adjustment.
LEMMA OpenAgrees ==
  ASSUME IInv, NEW s \in Symbols, NEW date \in Date, NEW q \in Nat, NEW p \in Nat,
         NEW origin \in {"TRADE", "OPENING_ADJUSTMENT"},
         Open(NewLot(s, date, q, p, origin)),
         sale' = sale, realized_pnl_by_symbol' = realized_pnl_by_symbol,
         cash_from_trades' = cash_from_trades - (IF origin = "TRADE" THEN q * p ELSE 0)
  PROVE  /\ CashAgrees => CashAgrees'
         /\ TotalsAgree => TotalsAgree'
  <1> DEFINE lot == NewLot(s, date, q, p, origin)
  <1>1. /\ lot \in Lot /\ lot.realized_pnl = 0 /\ lot.cost_price = p
        /\ lot.quantity_remaining = q /\ lot.quantity_opened = q /\ lot.lot_origin = origin
    BY DEF NewLot, Lot
  <1>2. all_lots' = Append(all_lots, lot)
    BY DEF Open
  <1> HIDE DEF lot
  <1>3. PICK cost : cost = q * p
    OBVIOUS
  <1>4. cost \in Int
    BY <1>3, ProductIsInt
  <1>5. NetCash(lot) = IF origin = "TRADE" THEN -cost ELSE 0
    BY <1>1, <1>3, <1>4 DEF NetCash
  <1>6. /\ SumFunction(CashOf)' = SumFunction(CashOf) + NetCash(lot)
        /\ \A t : SumFunction(RealizedOf(t))' =
             SumFunction(RealizedOf(t)) + (IF lot.symbol = t THEN lot.realized_pnl ELSE 0)
    BY <1>1, <1>2, LotAdded
  <1>7. Due' = Due /\ \A t : Running(t)' = Running(t)
    BY DEF Due, Running
  <1>8. Due \in Int
    BY SaleIs, ProductIsInt DEF Due
  <1>9. ASSUME CashAgrees PROVE CashAgrees'
    <2>1. cash_from_trades' = SumFunction(CashOf)' + Due'
      BY <1>3, <1>4, <1>5, <1>6, <1>7, <1>8, <1>9, TotalsType DEF CashAgrees
    <2> QED BY <2>1 DEF CashAgrees
  <1>10. ASSUME TotalsAgree PROVE TotalsAgree'
    BY <1>1, <1>6, <1>7, <1>10, TotalsType DEF TotalsAgree
  <1> QED BY <1>9, <1>10

LEMMA SellBeginAgrees ==
  ASSUME IInv, NEW s \in Symbols, NEW date \in Date, NEW q \in Nat, NEW p \in Nat,
         SellBegin(s, date, q, p)
  PROVE  /\ CashAgrees => CashAgrees'
         /\ TotalsAgree => TotalsAgree'
  <1> DEFINE new == [symbol |-> s, date |-> date, price |-> p,
                     remaining_to_sell |-> q, realized_delta |-> 0]
  <1>1. /\ sale = NoSale /\ sale' = new /\ cash_from_trades' = cash_from_trades + q * p
        /\ all_lots' = all_lots /\ realized_pnl_by_symbol' = realized_pnl_by_symbol
    BY DEF SellBegin, Follows
  <1>2. sale' # NoSale
    <2>1. sale' \in SaleState
      BY <1>1 DEF SaleState
    <2> QED BY <2>1, SaleIsOne
  <1>3. Due = 0 /\ Due' = q * p /\ \A t : Running(t) = 0 /\ Running(t)' = 0
    BY <1>1, <1>2 DEF Due, Running
  <1>4. /\ SumFunction(CashOf)' = SumFunction(CashOf)
        /\ \A t : SumFunction(RealizedOf(t))' = SumFunction(RealizedOf(t))
    BY <1>1, SameWorth
  <1>5. q * p \in Int
    BY ProductIsInt
  <1>6. ASSUME CashAgrees PROVE CashAgrees'
    <2>1. cash_from_trades' = SumFunction(CashOf)' + Due'
      BY <1>1, <1>3, <1>4, <1>5, <1>6, TotalsType DEF CashAgrees
    <2> QED BY <2>1 DEF CashAgrees
  <1>7. ASSUME TotalsAgree PROVE TotalsAgree'
    BY <1>1, <1>3, <1>4, <1>7 DEF TotalsAgree
  <1> QED BY <1>6, <1>7

\* A split realizes nothing, and an exact one moves no value.
LEMMA SplitAgrees ==
  ASSUME IInv, NEW s \in Symbols, NEW date \in Date, NEW ratio \in Ratios,
         _apply_corporate_action(s, date, ratio)
  PROVE  /\ ExactSplit => (CashAgrees => CashAgrees')
         /\ TotalsAgree => TotalsAgree'
  <1>1. /\ sale' = sale /\ cash_from_trades' = cash_from_trades
        /\ realized_pnl_by_symbol' = realized_pnl_by_symbol
    BY DEF _apply_corporate_action
  <1>2. Due' = Due /\ \A t : Running(t)' = Running(t)
    BY <1>1 DEF Due, Running
  <1>3. /\ DOMAIN all_lots' = DOMAIN all_lots
        /\ \A i \in DOMAIN all_lots :
             \/ all_lots'[i] = all_lots[i]
             \/ i \in OpenIndices(s) /\ all_lots'[i] = Split(all_lots[i], Factor(ratio))
    BY DEF _apply_corporate_action
  <1>4. ASSUME NEW i \in DOMAIN all_lots, all_lots'[i] = Split(all_lots[i], Factor(ratio))
        PROVE  /\ all_lots'[i].symbol = all_lots[i].symbol
               /\ all_lots'[i].realized_pnl = all_lots[i].realized_pnl
               /\ Exact(all_lots[i], Factor(ratio)) => NetCash(all_lots'[i]) = NetCash(all_lots[i])
    <2> DEFINE lot == all_lots[i]
               new == Split(lot, Factor(ratio))
    <2>1. lot \in Lot
      BY LotFacts
    <2>2. /\ new.symbol = lot.symbol /\ new.realized_pnl = lot.realized_pnl
          /\ new.lot_origin = lot.lot_origin
      BY <2>1 DEF Split, Lot
    <2>3. Exact(lot, Factor(ratio)) =>
            /\ new.quantity_remaining * new.cost_price = lot.quantity_remaining * lot.cost_price
            /\ lot.lot_origin = "OPENING_ADJUSTMENT" =>
                 new.quantity_opened * new.cost_price = lot.quantity_opened * lot.cost_price
      BY DEF Exact
    <2>4. all_lots'[i] = new
      BY <1>4
    <2> HIDE DEF lot, new
    <2>5. Exact(lot, Factor(ratio)) => NetCash(new) = NetCash(lot)
      BY <2>2, <2>3 DEF NetCash
    <2> QED BY <2>2, <2>4, <2>5 DEF lot
  <1>5. /\ \A t : SumFunction(RealizedOf(t))' = SumFunction(RealizedOf(t))
        /\ ExactSplit => SumFunction(CashOf)' = SumFunction(CashOf)
    <2>1. \A i \in DOMAIN all_lots : /\ all_lots'[i].symbol = all_lots[i].symbol
                                     /\ all_lots'[i].realized_pnl = all_lots[i].realized_pnl
      BY <1>3, <1>4
    <2>2. ASSUME ExactSplit
          PROVE  \A i \in DOMAIN all_lots : NetCash(all_lots'[i]) = NetCash(all_lots[i])
      <3>1. \A i \in OpenIndices(s) : Exact(all_lots[i], Factor(ratio))
        BY <2>2 DEF ExactSplit
      <3> QED BY <1>3, <1>4, <3>1
    <2> QED BY <1>3, <2>1, <2>2, SameWorth
  <1>6. ASSUME ExactSplit, CashAgrees PROVE CashAgrees'
    <2>1. cash_from_trades' = SumFunction(CashOf)' + Due'
      BY <1>1, <1>2, <1>5, <1>6 DEF CashAgrees
    <2> QED BY <2>1 DEF CashAgrees
  <1>7. ASSUME TotalsAgree PROVE TotalsAgree'
    BY <1>1, <1>2, <1>5, <1>7 DEF TotalsAgree
  <1> QED BY <1>6, <1>7

LEMMA InitAgrees == Init => CashAgrees /\ TotalsAgree
  <1> SUFFICES ASSUME Init PROVE CashAgrees /\ TotalsAgree
    OBVIOUS
  <1>1. DOMAIN all_lots = {} /\ sale = NoSale /\ cash_from_trades = 0
    BY DEF Init
  <1>2. DOMAIN CashOf = {} /\ \A s : DOMAIN RealizedOf(s) = {}
    BY <1>1 DEF CashOf, RealizedOf, LotsOf
  <1>3. SumFunction(CashOf) = 0 /\ \A s : SumFunction(RealizedOf(s)) = 0
    BY <1>2, SumOfNone DEF SumFunction
  <1>4. Due = 0 /\ \A s : Running(s) = 0
    BY <1>1 DEF Due, Running
  <1>5. \A s \in Symbols : realized_pnl_by_symbol[s] = 0
    BY DEF Init
  <1> QED BY <1>1, <1>3, <1>4, <1>5 DEF CashAgrees, TotalsAgree

LEMMA NextAgrees ==
  ASSUME IInv, [Next]_vars
  PROVE  /\ [ExactSplit]_vars => (CashAgrees => CashAgrees')
         /\ TotalsAgree => TotalsAgree'
  <1> DEFINE P == /\ [ExactSplit]_vars => (CashAgrees => CashAgrees')
                  /\ TotalsAgree => TotalsAgree'
  <1>1. ASSUME NEW q \in Quantities, NEW p \in Prices
        PROVE  q * Scale \in Nat /\ p * Scale \in Nat
    BY FifoAssumption
  <1>2. ASSUME NEW s \in Symbols, NEW date \in Date, NEW q \in Quantities, NEW p \in Prices,
               _apply_opening_adjustment(s, date, q * Scale, p * Scale)
        PROVE  P
    <2>1. cash_from_trades' = cash_from_trades - 0
      BY <1>2 DEF _apply_opening_adjustment, IInv, TypeOK
    <2> QED BY <1>1, <1>2, <2>1, OpenAgrees DEF _apply_opening_adjustment
  <1>3. ASSUME NEW s \in Symbols, NEW date \in Date, NEW q \in Quantities, NEW p \in Prices,
               Buy(s, date, q * Scale, p * Scale)
        PROVE  P
    BY <1>1, <1>3, OpenAgrees DEF Buy
  <1>4. ASSUME NEW s \in Symbols, NEW date \in Date, NEW q \in Quantities, NEW p \in Prices,
               SellBegin(s, date, q * Scale, p * Scale)
        PROVE  P
    BY <1>1, <1>4, SellBeginAgrees
  <1>5. ASSUME NEW s \in Symbols, NEW date \in Date, NEW ratio \in Ratios,
               _apply_corporate_action(s, date, ratio)
        PROVE  P
    <2>1. last' # last \/ applied' # applied
      BY <1>5 DEF _apply_corporate_action, Advance, IInv, TypeOK
    <2>2. [ExactSplit]_vars => ExactSplit
      BY <2>1 DEF vars
    <2> QED BY <1>5, <2>2, SplitAgrees
  <1>6. CASE MatchLot
    BY <1>6, MatchAgrees
  <1>7. CASE SellEnd
    BY <1>7, SellEndAgrees
  <1>8. CASE UNCHANGED vars
    <2>1. /\ all_lots' = all_lots /\ sale' = sale /\ cash_from_trades' = cash_from_trades
          /\ realized_pnl_by_symbol' = realized_pnl_by_symbol
      BY <1>8 DEF vars
    <2> QED BY <2>1 DEF CashAgrees, TotalsAgree, CashOf, RealizedOf, LotsOf, Due, Running
  <1> QED BY <1>2, <1>3, <1>4, <1>5, <1>6, <1>7, <1>8 DEF Next

\* Whatever is rounded, the realized total kept for a symbol is, between two
\* sales, the sum of what its lots have realized.
PnlIsOfTheLots == sale = NoSale => \A s \in Symbols :
                    realized_pnl_by_symbol[s] = SumFunction(RealizedOf(s))

LEMMA AtRest ==
  ASSUME IInv, sale = NoSale
  PROVE  /\ TotalsAgree => \A s \in Symbols :
                             realized_pnl_by_symbol[s] = SumFunction(RealizedOf(s))
         /\ CashAgrees => cash_from_trades = SumFunction(CashOf)
  BY TotalsType DEF TotalsAgree, CashAgrees, Running, Due

\* For every timeline and precision, the total beside the lots is that of the lots:
\* no partial fill, split or oversell is booked in one and not in the other.
THEOREM TotalsAreOfTheLots == Spec => []PnlIsOfTheLots
  <1>1. Init => TotalsAgree
    BY InitAgrees
  <1>2. IInv /\ TotalsAgree /\ [Next]_vars => TotalsAgree'
    BY NextAgrees
  <1>3. IInv /\ TotalsAgree => PnlIsOfTheLots
    BY AtRest DEF PnlIsOfTheLots
  <1> QED BY <1>1, <1>2, <1>3, Invariance, PTL DEF Spec

\* Where no split rounds value away, the cash the trades moved is, between two
\* sales, what the lots account for, whatever was bought, sold, split or oversold.
THEOREM CashIsOfTheLots == Spec /\ [][ExactSplit]_vars => []CashIdentity
  <1>1. Init => CashAgrees /\ TotalsAgree
    BY InitAgrees
  <1>2. IInv /\ CashAgrees /\ [Next]_vars /\ [ExactSplit]_vars => CashAgrees'
    BY NextAgrees
  <1>3. IInv /\ TotalsAgree /\ [Next]_vars => TotalsAgree'
    BY NextAgrees
  <1>4. IInv /\ CashAgrees /\ TotalsAgree => CashIdentity
    BY AtRest DEF CashIdentity, CashOf, RealizedOf, LotsOf
  <1> QED BY <1>1, <1>2, <1>3, <1>4, Invariance, PTL DEF Spec

-----------------------------------------------------------------------------
(* Splits and dates.                                                       *)

\* A lot is no younger than the last event, and a lot opened by a trade or closed
\* on the day of the last event was followed by no corporate action.
LotsInThePast ==
  \A i \in DOMAIN all_lots :
    /\ all_lots[i].opened_date <= last.date
    /\ all_lots[i].opened_date = last.date =>
         all_lots[i].lot_origin = "OPENING_ADJUSTMENT" \/ last.priority = 2
    /\ all_lots[i].closed_date # NONE =>
         /\ all_lots[i].closed_date <= last.date
         /\ all_lots[i].closed_date = last.date => last.priority = 2
SaleIsLast == sale # NoSale => sale.date = last.date /\ last.priority = 2

LEMMA DatesAre ==
  ASSUME IInv
  PROVE  /\ last.date \in Int /\ last.priority \in Int
         /\ \A i \in DOMAIN all_lots :
              /\ all_lots[i].opened_date \in Int
              /\ all_lots[i].closed_date # NONE => all_lots[i].closed_date \in Int
  <1>1. last.date \in Int /\ last.priority \in Int
    BY DEF IInv, TypeOK, Date
  <1>2. ASSUME NEW lot \in Lot
        PROVE  /\ lot.opened_date \in Date
               /\ lot.closed_date \in Date \cup {NONE}
    BY DEF Lot
  <1>3. ASSUME NEW i \in DOMAIN all_lots
        PROVE  /\ all_lots[i].opened_date \in Int
               /\ all_lots[i].closed_date # NONE => all_lots[i].closed_date \in Int
    <2>1. all_lots[i] \in Lot
      BY LotFacts
    <2> QED BY <2>1, <1>2 DEF Date
  <1> QED BY <1>1, <1>3

\* What an event that is no trade finds was opened before its day, or as an
\* opening adjustment, and is open or was closed before its day.
LEMMA BeforeTheEvent ==
  ASSUME IInv, LotsInThePast, NEW date \in Date, NEW kind \in {"OPENING", "CORPORATE_ACTION"},
         Follows(date, kind)
  PROVE  \A i \in DOMAIN all_lots :
           /\ all_lots[i].opened_date <= date
           /\ all_lots[i].opened_date = date => all_lots[i].lot_origin = "OPENING_ADJUSTMENT"
           /\ all_lots[i].closed_date # NONE => all_lots[i].closed_date < date
  <1>1. date \in Int /\ Priority[kind] \in {0, 1}
    BY DEF Date, Priority
  <1>2. date > last.date \/ (date = last.date /\ Priority[kind] >= last.priority)
    BY DEF Follows
  <1> QED BY <1>1, <1>2, DatesAre DEF LotsInThePast

\* A split leaves the dates and the origins of the lots alone.
LEMMA SplitKeepsDates ==
  ASSUME IInv, NEW s \in Symbols, NEW date \in Date, NEW ratio \in Ratios,
         _apply_corporate_action(s, date, ratio)
  PROVE  /\ DOMAIN all_lots' = DOMAIN all_lots
         /\ \A i \in DOMAIN all_lots : /\ all_lots'[i].opened_date = all_lots[i].opened_date
                                       /\ all_lots'[i].lot_origin = all_lots[i].lot_origin
                                       /\ all_lots'[i].closed_date = all_lots[i].closed_date
  <1>1. /\ DOMAIN all_lots' = DOMAIN all_lots
        /\ \A i \in DOMAIN all_lots :
             \/ all_lots'[i] = all_lots[i]
             \/ all_lots'[i] = Split(all_lots[i], Factor(ratio))
    BY DEF _apply_corporate_action
  <1>2. ASSUME NEW lot \in Lot, NEW f
        PROVE  /\ Split(lot, f).opened_date = lot.opened_date
               /\ Split(lot, f).lot_origin = lot.lot_origin
               /\ Split(lot, f).closed_date = lot.closed_date
    BY DEF Split, Lot
  <1> QED BY <1>1, <1>2, LotFacts

\* An iteration of a sale changes no origin or cost, nor the day of opening; it
\* closes a lot on its own day.
LEMMA MatchKeepsDates ==
  ASSUME IInv, MatchLot
  PROVE  /\ DOMAIN all_lots' = DOMAIN all_lots
         /\ \A i \in DOMAIN all_lots : /\ all_lots'[i].opened_date = all_lots[i].opened_date
                                       /\ all_lots'[i].lot_origin = all_lots[i].lot_origin
                                       /\ all_lots'[i].cost_price = all_lots[i].cost_price
                                       /\ all_lots'[i].quantity_opened = all_lots[i].quantity_opened
                                       /\ \/ all_lots'[i].closed_date = all_lots[i].closed_date
                                          \/ all_lots'[i].closed_date = sale.date
  <1>1. PICK h : all_lots' = [all_lots EXCEPT ![h] = Consume(all_lots[h])]
    BY DEF MatchLot
  <1>2. ASSUME NEW lot \in Lot
        PROVE  /\ Consume(lot).opened_date = lot.opened_date
               /\ Consume(lot).lot_origin = lot.lot_origin
               /\ Consume(lot).cost_price = lot.cost_price
               /\ Consume(lot).quantity_opened = lot.quantity_opened
               /\ Consume(lot).closed_date \in {lot.closed_date, sale.date}
    BY DEF Consume, Lot
  <1>3. \A i \in DOMAIN all_lots : all_lots'[i] = all_lots[i] \/ all_lots'[i] = Consume(all_lots[i])
    BY <1>1
  <1> QED BY <1>1, <1>2, <1>3, LotFacts

\* Opening a lot leaves the others alone.
LEMMA OpenAdds ==
  ASSUME IInv, NEW lot, all_lots' = Append(all_lots, lot)
  PROVE  \E n : /\ DOMAIN all_lots' = DOMAIN all_lots \cup {n}
                /\ \A i \in DOMAIN all_lots : i # n /\ all_lots'[i] = all_lots[i]
                /\ all_lots'[n] = lot
  <1> DEFINE n == Len(all_lots) + 1
  <1>1. /\ DOMAIN all_lots' = DOMAIN all_lots \cup {n}
        /\ \A i \in DOMAIN all_lots : i # n /\ all_lots'[i] = all_lots[i]
        /\ all_lots'[n] = lot
    BY LotFacts
  <1> QED BY <1>1

LEMMA PastKeeps ==
  ASSUME IInv, LotsInThePast, SaleIsLast, [Next]_vars
  PROVE  LotsInThePast' /\ SaleIsLast'
  <1> DEFINE P == LotsInThePast' /\ SaleIsLast'
  <1>1. ASSUME NEW s \in Symbols, NEW date \in Date, NEW q, NEW p,
               _apply_opening_adjustment(s, date, q, p)
        PROVE  P
    <2>1. PICK n : /\ DOMAIN all_lots' = DOMAIN all_lots \cup {n}
                   /\ \A i \in DOMAIN all_lots : i # n /\ all_lots'[i] = all_lots[i]
                   /\ all_lots'[n] = NewLot(s, date, q, p, "OPENING_ADJUSTMENT")
      BY <1>1, OpenAdds DEF _apply_opening_adjustment, Open
    <2>2. last'.date = date /\ sale = NoSale /\ sale' = NoSale /\ Follows(date, "OPENING")
      BY <1>1 DEF _apply_opening_adjustment, Follows, Advance
    <2>3. /\ all_lots'[n].opened_date = date
          /\ all_lots'[n].lot_origin = "OPENING_ADJUSTMENT"
          /\ all_lots'[n].closed_date = NONE
      BY <2>1 DEF NewLot
    <2>4. \A i \in DOMAIN all_lots :
            /\ all_lots[i].opened_date <= date
            /\ all_lots[i].opened_date = date => all_lots[i].lot_origin = "OPENING_ADJUSTMENT"
            /\ all_lots[i].closed_date # NONE => all_lots[i].closed_date < date
      BY <2>2, BeforeTheEvent
    <2>5. /\ date \in Int
          /\ \A i \in DOMAIN all_lots :
               all_lots[i].closed_date # NONE => all_lots[i].closed_date \in Int
      BY DatesAre DEF Date
    <2>6. ASSUME NEW i \in DOMAIN all_lots'
          PROVE  /\ all_lots'[i].opened_date <= last'.date
                 /\ all_lots'[i].opened_date = last'.date =>
                      all_lots'[i].lot_origin = "OPENING_ADJUSTMENT" \/ last'.priority = 2
                 /\ all_lots'[i].closed_date # NONE =>
                      /\ all_lots'[i].closed_date <= last'.date
                      /\ all_lots'[i].closed_date = last'.date => last'.priority = 2
      <3>1. CASE i = n
        BY <3>1, <2>2, <2>3, <2>5
      <3>2. CASE i \in DOMAIN all_lots
        <4>1. all_lots'[i] = all_lots[i]
          BY <2>1, <3>2
        <4> QED BY <3>2, <4>1, <2>2, <2>4, <2>5
      <3> QED BY <2>1, <3>1, <3>2
    <2>7. LotsInThePast'
      BY <2>6 DEF LotsInThePast
    <2> QED BY <2>2, <2>7 DEF SaleIsLast
  <1>2. ASSUME NEW s \in Symbols, NEW date \in Date, NEW q, NEW p, Buy(s, date, q, p)
        PROVE  P
    <2>1. PICK n : /\ DOMAIN all_lots' = DOMAIN all_lots \cup {n}
                   /\ \A i \in DOMAIN all_lots : i # n /\ all_lots'[i] = all_lots[i]
                   /\ all_lots'[n] = NewLot(s, date, q, p, "TRADE")
      BY <1>2, OpenAdds DEF Buy, Open
    <2>2. /\ last'.date = date /\ last'.priority = 2 /\ sale = NoSale /\ sale' = NoSale
          /\ date >= last.date
      BY <1>2, DatesAre DEF Buy, Follows, Advance, Priority, Date
    <2>3. all_lots'[n].opened_date = date /\ all_lots'[n].closed_date = NONE
      BY <2>1 DEF NewLot
    <2>4. date \in Int /\ last.date \in Int
      BY DatesAre DEF Date
    <2>5. ASSUME NEW i \in DOMAIN all_lots'
          PROVE  /\ all_lots'[i].opened_date <= last'.date
                 /\ all_lots'[i].opened_date = last'.date =>
                      all_lots'[i].lot_origin = "OPENING_ADJUSTMENT" \/ last'.priority = 2
                 /\ all_lots'[i].closed_date # NONE =>
                      /\ all_lots'[i].closed_date <= last'.date
                      /\ all_lots'[i].closed_date = last'.date => last'.priority = 2
      <3>1. CASE i = n
        BY <3>1, <2>2, <2>3, <2>4
      <3>2. CASE i \in DOMAIN all_lots
        <4>1. all_lots'[i] = all_lots[i]
          BY <2>1, <3>2
        <4>2. /\ all_lots[i].opened_date \in Int
              /\ all_lots[i].closed_date # NONE => all_lots[i].closed_date \in Int
              /\ all_lots[i].opened_date <= last.date
              /\ all_lots[i].closed_date # NONE => all_lots[i].closed_date <= last.date
          BY <3>2, DatesAre DEF LotsInThePast
        <4> QED BY <4>1, <4>2, <2>2, <2>4
      <3> QED BY <2>1, <3>1, <3>2
    <2>6. LotsInThePast'
      BY <2>5 DEF LotsInThePast
    <2> QED BY <2>2, <2>6 DEF SaleIsLast
  <1>3. ASSUME NEW s \in Symbols, NEW date \in Date, NEW q, NEW p, SellBegin(s, date, q, p)
        PROVE  P
    <2>1. /\ last'.date = date /\ last'.priority = 2 /\ sale'.date = date
          /\ all_lots' = all_lots /\ date >= last.date /\ date \in Int
      BY <1>3, DatesAre DEF SellBegin, Follows, Advance, Priority, Date
    <2>2. LotsInThePast'
      BY <2>1, DatesAre DEF LotsInThePast
    <2> QED BY <2>1, <2>2 DEF SaleIsLast
  <1>4. ASSUME NEW s \in Symbols, NEW date \in Date, NEW ratio \in Ratios,
               _apply_corporate_action(s, date, ratio)
        PROVE  P
    <2>1. /\ last'.date = date /\ sale = NoSale /\ sale' = NoSale
          /\ Follows(date, "CORPORATE_ACTION")
      BY <1>4 DEF _apply_corporate_action, Follows, Advance
    <2>2. \A i \in DOMAIN all_lots :
            /\ all_lots[i].opened_date <= date
            /\ all_lots[i].opened_date = date => all_lots[i].lot_origin = "OPENING_ADJUSTMENT"
            /\ all_lots[i].closed_date # NONE => all_lots[i].closed_date < date
      BY <2>1, BeforeTheEvent
    <2>3. /\ DOMAIN all_lots' = DOMAIN all_lots
          /\ \A i \in DOMAIN all_lots :
               /\ all_lots'[i].opened_date = all_lots[i].opened_date
               /\ all_lots'[i].lot_origin = all_lots[i].lot_origin
               /\ all_lots'[i].closed_date = all_lots[i].closed_date
      BY <1>4, SplitKeepsDates
    <2>4. /\ date \in Int
          /\ \A i \in DOMAIN all_lots :
               all_lots[i].closed_date # NONE => all_lots[i].closed_date \in Int
      BY DatesAre DEF Date
    <2>5. LotsInThePast'
      BY <2>1, <2>2, <2>3, <2>4 DEF LotsInThePast
    <2> QED BY <2>1, <2>5 DEF SaleIsLast
  <1>5. CASE MatchLot
    <2>1. /\ last' = last /\ sale # NoSale /\ sale'.date = sale.date
          /\ sale.date = last.date /\ last.priority = 2
      <3>1. sale # NoSale /\ last' = last
        BY <1>5 DEF MatchLot
      <3>2. sale \in SaleState
        BY <3>1, SaleIs
      <3> QED BY <1>5, <3>1, <3>2 DEF MatchLot, SaleState, SaleIsLast
    <2>2. LotsInThePast'
      BY <1>5, <2>1, MatchKeepsDates, DatesAre DEF LotsInThePast
    <2> QED BY <2>1, <2>2 DEF SaleIsLast
  <1>6. CASE SellEnd
    <2>1. /\ last' = last /\ sale' = NoSale /\ sale.date = last.date /\ last.priority = 2
          /\ sale # NoSale
      BY <1>6 DEF SellEnd, SaleIsLast
    <2>2. CASE all_lots' = all_lots
      BY <2>1, <2>2 DEF LotsInThePast, SaleIsLast
    <2>3. CASE all_lots' = Append(all_lots, OversellLot)
      <3>1. PICK n : /\ DOMAIN all_lots' = DOMAIN all_lots \cup {n}
                     /\ \A i \in DOMAIN all_lots : i # n /\ all_lots'[i] = all_lots[i]
                     /\ all_lots'[n] = OversellLot
        BY <2>3, OpenAdds
      <3>2. all_lots'[n].opened_date = last.date /\ all_lots'[n].closed_date = last.date
        BY <2>1, <3>1 DEF OversellLot
      <3>3. LotsInThePast'
        BY <2>1, <3>1, <3>2, DatesAre DEF LotsInThePast
      <3> QED BY <2>1, <3>3 DEF SaleIsLast
    <2> QED BY <1>6, <2>2, <2>3 DEF SellEnd
  <1>7. CASE UNCHANGED vars
    BY <1>7 DEF vars, LotsInThePast, SaleIsLast
  <1> QED BY <1>1, <1>2, <1>3, <1>4, <1>5, <1>6, <1>7 DEF Next

\* What an event that is no trade finds open was held when its day began, and
\* nothing else was.
LEMMA HeldIsOpen ==
  ASSUME IInv, LotsInThePast, NEW s \in Symbols, NEW date \in Date, NEW i \in DOMAIN all_lots,
         Follows(date, "CORPORATE_ACTION")
  PROVE  i \in OpenIndices(s) <=> all_lots[i].symbol = s /\ HeldInto(all_lots[i], date)
  <1> DEFINE lot == all_lots[i]
  <1>1. /\ lot.opened_date <= date
        /\ lot.opened_date = date => lot.lot_origin = "OPENING_ADJUSTMENT"
        /\ lot.closed_date # NONE => lot.closed_date < date
    BY BeforeTheEvent
  <1>2. date \in Int /\ lot.opened_date \in Int
        /\ (lot.closed_date # NONE => lot.closed_date \in Int)
    BY DatesAre DEF Date
  <1>3. HeldInto(lot, date) <=> lot.closed_date = NONE
    BY <1>1, <1>2 DEF HeldInto
  <1>4. lot.closed_date = NONE => i \in OpenIndices(lot.symbol)
    BY DEF IInv, QueueMatchesLots
  <1>5. i \in OpenIndices(s) => lot.symbol = s /\ lot.closed_date = NONE
    <2> SUFFICES ASSUME i \in OpenIndices(s) PROVE lot.symbol = s /\ lot.closed_date = NONE
      OBVIOUS
    <2>1. PICK j \in DOMAIN open_lots_by_symbol[s] : i = open_lots_by_symbol[s][j]
      BY DEF OpenIndices
    <2> QED BY <2>1 DEF IInv, QueueMatchesLots
  <1> QED BY <1>3, <1>4, <1>5

\* Whatever is recorded and in whatever order, a split adjusts exactly what was
\* held of its symbol when its day began, and only splits adjust (fifo.py:164).
THEOREM SplitsKeepToTheirDate == Spec => SplitScope
  <1>1. Init => LotsInThePast /\ SaleIsLast
    BY DEF Init, LotsInThePast, SaleIsLast
  <1>2. IInv /\ LotsInThePast /\ SaleIsLast /\ [Next]_vars => LotsInThePast' /\ SaleIsLast'
    BY PastKeeps
  <1>3. IInv /\ LotsInThePast /\ [Next]_vars => [SplitScopeStep]_vars
    <2> SUFFICES ASSUME IInv, LotsInThePast, Next PROVE SplitScopeStep
      OBVIOUS
    <2>1. ASSUME NEW s \in Symbols, NEW date \in Date, NEW ratio \in Ratios,
                 _apply_corporate_action(s, date, ratio), NEW i \in DOMAIN all_lots
          PROVE  all_lots'[i] = IF all_lots[i].symbol = s /\ HeldInto(all_lots[i], date)
                                THEN Split(all_lots[i], Factor(ratio)) ELSE all_lots[i]
      <3>1. Follows(date, "CORPORATE_ACTION")
        BY <2>1 DEF _apply_corporate_action
      <3>2. i \in OpenIndices(s) <=> all_lots[i].symbol = s /\ HeldInto(all_lots[i], date)
        BY <3>1, HeldIsOpen
      <3>3. all_lots'[i] = IF i \in OpenIndices(s) THEN Split(all_lots[i], Factor(ratio))
                           ELSE all_lots[i]
        <4>1. CASE open_lots_by_symbol[s] = <<>>
          BY <2>1, <4>1 DEF _apply_corporate_action, OpenIndices
        <4>2. CASE open_lots_by_symbol[s] # <<>>
          BY <2>1, <4>2 DEF _apply_corporate_action
        <4> QED BY <4>1, <4>2
      <3> QED BY <3>2, <3>3
    <2>2. ASSUME NEW i \in DOMAIN all_lots,
                 \/ all_lots'[i].cost_price # all_lots[i].cost_price
                 \/ all_lots'[i].quantity_opened # all_lots[i].quantity_opened
          PROVE  \E s \in Symbols, date \in Date, ratio \in Ratios :
                    _apply_corporate_action(s, date, ratio)
      <3>1. ASSUME NEW lot, all_lots' = Append(all_lots, lot) PROVE FALSE
        BY <2>2, <3>1, OpenAdds
      <3>2. ~MatchLot /\ ~SellEnd
        BY <2>2, <3>1, MatchKeepsDates DEF SellEnd
      <3> QED BY <2>2, <3>1, <3>2 DEF Next, _apply_opening_adjustment, Buy, SellBegin, Open
    <2> QED BY <2>1, <2>2 DEF SplitScopeStep
  <1> QED BY <1>1, <1>2, <1>3, Invariance, PTL DEF Spec, SplitScope
=============================================================================
