------------------------- MODULE TransactionsProofs -------------------------
(***************************************************************************)
(* What the unique constraints give to commands that only insert: for any  *)
(* number of sessions no key is drafted twice, no draft touches a          *)
(* committed row, and so no step changes or removes one.                   *)
(***************************************************************************)
EXTENDS Transactions, FiniteSetTheorems, TLAPS

\* The drafts hold new keys only, each of them one session's.
OnlyInserts ==
    /\ draft = [s \in Sessions |-> draft[s]]
    /\ DraftsDisjoint
    /\ \A s \in Sessions : DOMAIN draft[s] \cap DOMAIN db = {}

RowsStand == \A k \in DOMAIN db : k \in DOMAIN db' /\ db'[k] = db[k]

\* A read, a computation or the start of a command.
LEMMA QuietStep ==
  ASSUME OnlyInserts, UNCHANGED <<db, draft>>
  PROVE  OnlyInserts' /\ RowsStand
  BY DEF OnlyInserts, DraftsDisjoint, RowsStand

\* A draft that is dropped, by a rollback or with the next command.
LEMMA DroppedDraft ==
  ASSUME OnlyInserts, NEW s \in Sessions,
         draft' = [draft EXCEPT ![s] = Nothing], db' = db
  PROVE  OnlyInserts' /\ RowsStand
<1>1. draft' = [t \in Sessions |-> IF t = s THEN Nothing ELSE draft[t]]
  BY DEF OnlyInserts
<1>2. DOMAIN Nothing = {}
  BY DEF Nothing
<1> QED  BY <1>1, <1>2 DEF OnlyInserts, DraftsDisjoint, RowsStand

LEMMA RollbackStep ==
  ASSUME OnlyInserts, NEW s \in Sessions, Rollback(s)
  PROVE  OnlyInserts' /\ RowsStand
  BY DroppedDraft DEF Rollback

\* New rows under keys that no other session and no committed row has.
LEMMA InsertStep ==
  ASSUME OnlyInserts, NEW s \in Sessions, NEW rows, NEW state, Insert(s, rows, state),
         DOMAIN rows \cap DOMAIN db = {},
         \A t \in Sessions : t # s => DOMAIN rows \cap DOMAIN draft[t] = {}
  PROVE  OnlyInserts' /\ RowsStand
<1>1. draft' = [t \in Sessions |->
                  IF t = s
                  THEN [k \in DOMAIN draft[s] \cup DOMAIN rows |->
                          IF k \in DOMAIN rows THEN rows[k] ELSE draft[s][k]]
                  ELSE draft[t]]
  BY DEF OnlyInserts, Insert
<1>2. DOMAIN draft'[s] = DOMAIN draft[s] \cup DOMAIN rows
  BY <1>1
<1>3. \A t \in Sessions : t # s => draft'[t] = draft[t]
  BY <1>1
<1>4. db' = db
  BY DEF Insert
<1>5. DraftsDisjoint'
  BY <1>2, <1>3 DEF OnlyInserts, DraftsDisjoint
<1>6. \A t \in Sessions : DOMAIN draft'[t] \cap DOMAIN db' = {}
  BY <1>2, <1>3, <1>4 DEF OnlyInserts
<1>7. draft' = [t \in Sessions |-> draft'[t]]
  BY <1>1
<1> QED  BY <1>4, <1>5, <1>6, <1>7 DEF OnlyInserts, RowsStand

\* The unique constraint: the key is free, or the command ends.
LEMMA FlushNewStep ==
  ASSUME OnlyInserts, NEW s \in Sessions, NEW row, NEW state, FlushNew(s, row, state)
  PROVE  OnlyInserts' /\ RowsStand
<1>1. CASE Sees(s, sess[s].want)
  BY <1>1, RollbackStep DEF FlushNew
<1>2. CASE ~Sees(s, sess[s].want)
  <2> DEFINE rows == [k \in {sess[s].want} |-> row]
             after == [state EXCEPT !.want = NONE]
  <2>1. Insert(s, rows, after)
    BY <1>2 DEF FlushNew, Flush, InsertRow
  <2>2. DOMAIN rows = {sess[s].want}
    OBVIOUS
  <2>3. DOMAIN rows \cap DOMAIN db = {}
    BY <1>2, <2>2 DEF Sees
  <2>4. \A t \in Sessions : t # s => DOMAIN rows \cap DOMAIN draft[t] = {}
    BY <2>2 DEF FlushNew, Free, WaitsFor
  <2> HIDE DEF rows, after
  <2> QED  BY <2>1, <2>3, <2>4, InsertStep
<1> QED  BY <1>1, <1>2

\* A commit publishes a draft whose keys nobody had.
LEMMA CommitStep ==
  ASSUME OnlyInserts, NEW s \in Sessions, NEW state, Commit(s, state)
  PROVE  OnlyInserts' /\ RowsStand
<1>1. draft' = [t \in Sessions |-> IF t = s THEN Nothing ELSE draft[t]]
  BY DEF OnlyInserts, Commit
<1>2. DOMAIN Nothing = {}
  BY DEF Nothing
<1>3. db' = View(s)
  BY DEF Commit
<1>4. DOMAIN db' = DOMAIN db \cup DOMAIN draft[s]
  BY <1>3 DEF View
<1>5. RowsStand
  BY <1>3, <1>4 DEF View, OnlyInserts, RowsStand
<1>6. \A t \in Sessions : DOMAIN draft'[t] \cap DOMAIN db' = {}
  BY <1>1, <1>2, <1>4 DEF OnlyInserts, DraftsDisjoint
<1> QED  BY <1>1, <1>2, <1>5, <1>6 DEF OnlyInserts, DraftsDisjoint

-----------------------------------------------------------------------------
(* Generated ids.                                                          *)

\* Finitely many rows of a table are stored or drafted.
FiniteTable(tag) ==
    /\ IsFiniteSet(Of(db, tag))
    /\ \A s \in Sessions : IsFiniteSet(Of(draft[s], tag))

\* The id drawn for a new row is no row's yet, committed or not.
LEMMA FreshIsNew ==
  ASSUME IsFiniteSet(Sessions), NEW tag, FiniteTable(tag)
  PROVE  /\ <<tag, Fresh(tag)>> \notin DOMAIN db
         /\ \A t \in Sessions : <<tag, Fresh(tag)>> \notin DOMAIN draft[t]
<1> DEFINE drafted == {Of(draft[t], tag) : t \in Sessions}
           used == Of(db, tag) \cup UNION drafted
           ids == 1..(Cardinality(used) + 1)
<1>1. IsFiniteSet(drafted)
  <2> DEFINE f == [t \in Sessions |-> Of(draft[t], tag)]
  <2>1. f \in Surjection(Sessions, drafted)
    BY DEF Surjection
  <2> HIDE DEF f, drafted
  <2> QED  BY <2>1, FS_Surjection
<1>2. IsFiniteSet(used) /\ Cardinality(used) \in Nat
  <2>1. \A T \in drafted : IsFiniteSet(T)
    BY DEF FiniteTable
  <2>2. IsFiniteSet(UNION drafted)
    <3> HIDE DEF drafted
    <3> QED  BY <1>1, <2>1, FS_UNION
  <2>3. IsFiniteSet(Of(db, tag))
    BY DEF FiniteTable
  <2> HIDE DEF drafted
  <2> QED  BY <2>2, <2>3, FS_Union, FS_CardinalityType
<1>3. \E n \in ids : <<tag, n>> \notin used
  <2> SUFFICES ASSUME \A n \in ids : <<tag, n>> \in used PROVE FALSE
    OBVIOUS
  <2> DEFINE f == [n \in ids |-> <<tag, n>>]
  <2> HIDE DEF used
  <2>1. f \in [ids -> used]
    OBVIOUS
  <2>2. IsFiniteSet(ids) /\ Cardinality(ids) = Cardinality(used) + 1
    BY <1>2, FS_Interval
  <2>3. \A x, y \in ids : f[x] = f[y] => x = y
    OBVIOUS
  <2> HIDE DEF f, ids
  <2> QED  BY <1>2, <2>1, <2>2, <2>3, FS_PigeonHole
<1>4. <<tag, Fresh(tag)>> \notin used
  BY <1>3 DEF Fresh
<1>5. <<tag, Fresh(tag)>>[1] = tag
  OBVIOUS
<1> QED  BY <1>4, <1>5 DEF Of
=============================================================================
