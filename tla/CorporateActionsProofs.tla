----------------------- MODULE CorporateActionsProofs -----------------------
(***************************************************************************)
(* The table corporate_actions for every set of sessions, keys, values and *)
(* instants: its types, its flag, its history as a chain of versions       *)
(* (VersionChain), and the past that is settled.                           *)
(***************************************************************************)
EXTENDS CorporateActions, SequenceTheorems, WellFoundedInduction, TLAPS

-----------------------------------------------------------------------------
(* The inductive invariant.  LatestIsHighest says nothing of what is not   *)
(* committed, and a commit installs it: what each session has drafted must *)
(* be well flagged and continue the committed chain, no two sessions may   *)
(* draft one chain, and what a session has read must still be there.       *)

WellFlagged(chain) == Latest(chain) = IF chain = <<>> THEN {} ELSE {Len(chain)}

\* new continues old: what was recorded is kept, and each new version, of the
\* instant started, differs from the one before it.
Continues(old, new, started) ==
    /\ Len(old) <= Len(new)
    /\ \A v \in 1..Len(old) :
          new[v].value = old[v].value /\ new[v].available_at = old[v].available_at
    /\ \A v \in 1..Len(new) : v > Len(old) =>
          /\ new[v].available_at = started
          /\ v > 1 => new[v].value # new[v - 1].value

SessionsTyped == sess = [s \in Sessions |-> sess[s]]

DraftsContinue ==
    \A s \in Sessions : \A k \in Key : draft[s][k] # <<>> =>
        /\ Open(s)
        /\ WellFlagged(draft[s][k])
        /\ Continues(table[k], draft[s][k], sess[s].started)

OneWriter ==
    \A s, t \in Sessions : \A k \in Key :
        draft[s][k] # <<>> /\ draft[t][k] # <<>> => s = t

\* What upsert_versioned has read: a version that is still there.
ReadStands ==
    \A s \in Sessions : sess[s].pc = "writing" =>
        LET chain == View(s, Cand(s).key)
        IN  /\ sess[s].version <= Len(chain)
            /\ sess[s].version # 0 => sess[s].existing = chain[sess[s].version].value

IInv ==
    /\ TypeOK /\ SessionsTyped
    /\ LatestIsHighest /\ DraftsContinue /\ OneWriter /\ ReadStands

-----------------------------------------------------------------------------
(* Chains.                                                                 *)

LEMMA NewRowType ==
  ASSUME NEW data \in Candidate, NEW started \in Nat
  PROVE  /\ NewRow(data, started) \in Row
         /\ NewRow(data, started).value = data.value
         /\ NewRow(data, started).available_at = started
         /\ NewRow(data, started).is_latest
  BY DEF NewRow, Row, Candidate

\* new is chain with one row more, and the flag of one version taken away.
OneMore(new, chain, version, row) ==
    /\ new \in Seq(Row) /\ Len(new) = Len(chain) + 1 /\ new # <<>>
    /\ new[Len(chain) + 1] = row
    /\ \A v \in 1..Len(chain) :
          /\ new[v].value = chain[v].value
          /\ new[v].available_at = chain[v].available_at
          /\ new[v].is_latest <=> (chain[v].is_latest /\ v # version)

LEMMA SupersedeChain ==
  ASSUME NEW chain \in Seq(Row), NEW version \in Nat, NEW row \in Row
  PROVE  OneMore(Supersede(chain, version, row), chain, version, row)
<1> DEFINE old == [v \in DOMAIN chain |->
                     IF v = version THEN [chain[v] EXCEPT !.is_latest = FALSE] ELSE chain[v]]
           new == Append(old, row)
<1>1. /\ Len(chain) \in Nat /\ DOMAIN chain = 1..Len(chain)
      /\ \A v \in 1..Len(chain) : chain[v] \in Row
  BY LenProperties, ElementOfSeq
<1>2. \A v \in 1..Len(chain) :
         /\ old[v] \in Row
         /\ old[v].value = chain[v].value
         /\ old[v].available_at = chain[v].available_at
         /\ old[v].is_latest <=> (chain[v].is_latest /\ v # version)
  BY <1>1 DEF Row
<1>3. old \in Seq(Row) /\ Len(old) = Len(chain)
  <2>1. old \in [1..Len(chain) -> Row]
    BY <1>1, <1>2
  <2> HIDE DEF old
  <2> QED  BY <1>1, <2>1, SeqDef, LenProperties
<1> HIDE DEF old
<1>4. /\ new \in Seq(Row) /\ Len(new) = Len(chain) + 1
      /\ new[Len(chain) + 1] = row
      /\ \A v \in 1..Len(chain) : new[v] = old[v]
  BY <1>1, <1>3, AppendProperties
<1>5. new # <<>>
  BY <1>1, <1>4, EmptySeq
<1> QED  BY <1>2, <1>4, <1>5 DEF Supersede, old, OneMore

LEMMA SupersedeFlagged ==
  ASSUME NEW chain \in Seq(Row), NEW row \in Row, row.is_latest, WellFlagged(chain)
  PROVE  WellFlagged(Supersede(chain, Len(chain), row))
<1> DEFINE new == Supersede(chain, Len(chain), row)
<1>1. Len(chain) \in Nat
  BY LenProperties
<1>2. /\ new \in Seq(Row) /\ Len(new) = Len(chain) + 1 /\ new # <<>>
      /\ new[Len(chain) + 1] = row
      /\ \A v \in 1..Len(chain) : new[v].is_latest <=> (chain[v].is_latest /\ v # Len(chain))
  <2>1. OneMore(new, chain, Len(chain), row)
    BY <1>1, SupersedeChain
  <2> HIDE DEF new
  <2> QED  BY <2>1 DEF OneMore
<1>3. \A v \in 1..Len(chain) : ~new[v].is_latest
  <2>1. DOMAIN chain = 1..Len(chain)
    BY LenProperties
  <2> QED  BY <1>1, <1>2, <2>1, EmptySeq DEF WellFlagged, Latest
<1>4. DOMAIN new = 1..(Len(chain) + 1)
  BY <1>2, LenProperties
<1> HIDE DEF new
<1> QED  BY <1>1, <1>2, <1>3, <1>4 DEF WellFlagged, Latest, new

LEMMA SupersedeContinues ==
  ASSUME NEW old \in Seq(Row), NEW chain \in Seq(Row), NEW row \in Row,
         NEW started, Continues(old, chain, started), row.available_at = started,
         chain # <<>> => row.value # chain[Len(chain)].value
  PROVE  Continues(old, Supersede(chain, Len(chain), row), started)
<1> DEFINE new == Supersede(chain, Len(chain), row)
<1>1. Len(old) \in Nat /\ Len(chain) \in Nat
  BY LenProperties
<1>2. /\ Len(new) = Len(chain) + 1
      /\ new[Len(chain) + 1] = row
      /\ \A v \in 1..Len(chain) :
            new[v].value = chain[v].value /\ new[v].available_at = chain[v].available_at
  <2>1. OneMore(new, chain, Len(chain), row)
    BY <1>1, SupersedeChain
  <2> HIDE DEF new
  <2> QED  BY <2>1 DEF OneMore
<1> HIDE DEF new
<1>3. Len(old) <= Len(new)
  BY <1>1, <1>2 DEF Continues
<1>4. \A v \in 1..Len(old) :
         new[v].value = old[v].value /\ new[v].available_at = old[v].available_at
  BY <1>1, <1>2 DEF Continues
<1>5. ASSUME NEW v \in 1..Len(new), v > Len(old)
      PROVE  new[v].available_at = started /\ (v > 1 => new[v].value # new[v - 1].value)
  <2>1. CASE v = Len(chain) + 1
    <3>1. v > 1 => chain # <<>>
      BY <1>1, <2>1, EmptySeq
    <3> QED  BY <1>1, <1>2, <2>1, <3>1
  <2>2. CASE v # Len(chain) + 1
    BY <1>1, <1>2, <1>5, <2>2 DEF Continues
  <2> QED  BY <2>1, <2>2
<1> QED  BY <1>3, <1>4, <1>5 DEF Continues, new

LEMMA GetLatest ==
  ASSUME NEW chain \in Seq(Row), WellFlagged(chain)
  PROVE  get_latest(chain) = Len(chain)
<1>1. CASE chain = <<>>
  BY <1>1, EmptySeq DEF WellFlagged, get_latest
<1>2. CASE chain # <<>>
  BY <1>2 DEF WellFlagged, get_latest
<1> QED  BY <1>1, <1>2

LEMMA ContinuesItself ==
  ASSUME NEW chain \in Seq(Row), NEW started
  PROVE  Continues(chain, chain, started)
<1>1. Len(chain) \in Nat
  BY LenProperties
<1> QED  BY <1>1 DEF Continues

-----------------------------------------------------------------------------
(* What a session sees.                                                    *)

LEMMA ViewType ==
  ASSUME IInv, NEW s \in Sessions, NEW k \in Key
  PROVE  /\ table[k] \in Seq(Row) /\ draft[s][k] \in Seq(Row)
         /\ View(s, k) \in Seq(Row) /\ WellFlagged(View(s, k))
  BY DEF IInv, TypeOK, View, LatestIsHighest, DraftsContinue, WellFlagged

LEMMA ViewContinues ==
  ASSUME IInv, NEW s \in Sessions, NEW k \in Key
  PROVE  Continues(table[k], View(s, k), sess[s].started)
<1>1. CASE draft[s][k] = <<>>
  BY <1>1, ContinuesItself DEF IInv, TypeOK, View
<1>2. CASE draft[s][k] # <<>>
  BY <1>2 DEF IInv, DraftsContinue, View
<1> QED  BY <1>1, <1>2

LEMMA CandType ==
  ASSUME IInv, NEW s \in Sessions, sess[s].pc \in {"reading", "writing"}
  PROVE  /\ sess[s].todo \in Seq(Candidate) /\ sess[s].todo # <<>>
         /\ Cand(s) \in Candidate /\ Cand(s).key \in Key
         /\ sess[s].started \in 0..clock
<1>1. sess[s].todo \in Seq(Candidate) /\ sess[s].todo # <<>> /\ sess[s].started \in 0..clock
  BY DEF IInv, TypeOK
<1>2. Cand(s) \in Candidate
  BY <1>1, HeadTailProperties DEF Cand
<1> QED  BY <1>1, <1>2 DEF Candidate

-----------------------------------------------------------------------------
(* The steps.                                                              *)

\* What a session may be doing, seen from a clock.
StateTyped(r) ==
    /\ r.pc \in {"idle", "fetching", "reading", "writing", "committing"}
    /\ r.pc # "idle" => r.started \in 0..clock
    /\ r.pc \in {"reading", "writing"} => r.todo \in Seq(Candidate) /\ r.todo # <<>>
    /\ r.pc = "writing" => r.version \in Nat

\* A step that moves a session on and writes nothing.
LEMMA ControlStep ==
  ASSUME IInv, NEW s \in Sessions, NEW r, StateTyped(r),
         sess' = [sess EXCEPT ![s] = r], UNCHANGED <<table, draft, clock>>,
         r.pc # "idle",
         Open(s) => r.started = sess[s].started,
         r.pc = "writing" =>
            LET chain == View(s, Head(r.todo).key)
            IN  /\ r.version <= Len(chain)
                /\ r.version # 0 => r.existing = chain[r.version].value
  PROVE  IInv'
<1>1. sess' = [t \in Sessions |-> IF t = s THEN r ELSE sess[t]]
  BY DEF IInv, SessionsTyped
<1>2. sess'[s] = r /\ \A t \in Sessions : t # s => sess'[t] = sess[t]
  BY <1>1
<1>3. TypeOK' /\ SessionsTyped'
  BY <1>1, <1>2 DEF IInv, TypeOK, SessionsTyped, StateTyped
<1>4. DraftsContinue'
  BY <1>2 DEF IInv, DraftsContinue, Open
<1>5. ReadStands'
  BY <1>2 DEF IInv, ReadStands, Cand, View
<1> QED  BY <1>3, <1>4, <1>5 DEF IInv, LatestIsHighest, OneWriter

LEMMA NormalizeType ==
  ASSUME NEW date \in Dates, NEW amount \in Amounts \cup {NoRatio}
  PROVE  normalize(date, amount) \in Candidate
  BY DEF normalize, Candidate, Key, Value, SplitKey, DividendKey

LEMMA SplitCandidateType ==
  ASSUME NEW date \in Dates, NEW ratio \in Ratios, NEW source \in ManualSources
  PROVE  SplitCandidate(date, ratio, source) \in Candidate
  BY DEF SplitCandidate, Candidate, Key, Value, SplitKey

LEMMA ResponseType ==
  ASSUME NEW response \in Responses
  PROVE  response \in Seq(Candidate) /\ response # <<>>
<1>1. PICK n \in 1..MaxRows : response \in [1..n -> NseRows]
  BY DEF Responses
<1>2. response \in [1..n -> Candidate]
  BY <1>1, NormalizeType DEF NseRows
<1>3. n \in Nat \ {0} /\ Len(response) = n
  BY <1>2, CorporateActionsAssumption
<1> QED  BY <1>2, <1>3, SeqDef, EmptySeq

LEMMA BeginSteps ==
  ASSUME IInv, NEW s \in Sessions, SyncBegin(s) \/ Fetched(s) \/ RecordBegin(s)
  PROVE  IInv'
<1>1. clock \in Nat
  BY CorporateActionsAssumption DEF IInv, TypeOK
<1>2. CASE SyncBegin(s)
  <2> DEFINE r == [pc |-> "fetching", started |-> clock]
  <2>1. StateTyped(r) /\ ~Open(s) /\ r.pc = "fetching"
    BY <1>1, <1>2 DEF StateTyped, SyncBegin, Open
  <2>2. sess' = [sess EXCEPT ![s] = r] /\ UNCHANGED <<table, draft, clock>>
    BY <1>2 DEF SyncBegin
  <2> HIDE DEF r
  <2> QED  BY <2>1, <2>2, ControlStep
<1>3. CASE Fetched(s)
  <2>1. PICK response \in Responses : Upserting(s, sess[s].started, response)
    BY <1>3 DEF Fetched
  <2> DEFINE r == [pc |-> "reading", started |-> sess[s].started, todo |-> response]
  <2>2. StateTyped(r) /\ r.pc = "reading" /\ r.started = sess[s].started
    BY <1>3, ResponseType DEF StateTyped, Fetched, IInv, TypeOK
  <2>3. sess' = [sess EXCEPT ![s] = r] /\ UNCHANGED <<table, draft, clock>>
    BY <1>3, <2>1 DEF Fetched, Upserting
  <2> HIDE DEF r
  <2> QED  BY <2>2, <2>3, ControlStep
<1>4. CASE RecordBegin(s)
  <2>1. PICK date \in Dates, ratio \in Ratios, source \in ManualSources :
           Upserting(s, clock, <<SplitCandidate(date, ratio, source)>>)
    BY <1>4 DEF RecordBegin
  <2> DEFINE c == SplitCandidate(date, ratio, source)
             r == [pc |-> "reading", started |-> clock, todo |-> <<c>>]
  <2>2. c \in Candidate
    BY SplitCandidateType
  <2>3. sess' = [sess EXCEPT ![s] = r] /\ UNCHANGED <<table, draft, clock>> /\ ~Open(s)
    BY <1>4, <2>1 DEF RecordBegin, Upserting, Open
  <2> HIDE DEF c
  <2>4. StateTyped(r) /\ r.pc = "reading"
    BY <1>1, <2>2 DEF StateTyped
  <2> HIDE DEF r
  <2> QED  BY <2>3, <2>4, ControlStep
<1> QED  BY <1>2, <1>3, <1>4

LEMMA ReadLatestStep ==
  ASSUME IInv, NEW s \in Sessions, ReadLatest(s)
  PROVE  IInv'
<1> DEFINE chain == View(s, Cand(s).key)
           v == get_latest(chain)
           r == [pc |-> "writing", started |-> sess[s].started, todo |-> sess[s].todo,
                 version |-> v, existing |-> IF v = 0 THEN NONE ELSE chain[v].value]
<1>1. /\ sess[s].todo \in Seq(Candidate) /\ sess[s].todo # <<>>
      /\ Cand(s).key \in Key /\ sess[s].started \in 0..clock
  BY CandType DEF ReadLatest
<1>2. v = Len(chain) /\ v \in Nat
  BY <1>1, ViewType, GetLatest, LenProperties
<1>3. sess' = [sess EXCEPT ![s] = r] /\ UNCHANGED <<table, draft, clock>>
  BY DEF ReadLatest
<1>4. /\ r.pc = "writing" /\ r.started = sess[s].started /\ r.todo = sess[s].todo
      /\ r.version = v /\ (v # 0 => r.existing = chain[v].value)
  OBVIOUS
<1> HIDE DEF r, v
<1>5. StateTyped(r)
  BY <1>1, <1>2, <1>4 DEF StateTyped
<1>6. chain = View(s, Head(r.todo).key)
  BY <1>4 DEF Cand
<1>7. Len(chain) \in Nat
  BY <1>1, ViewType, LenProperties
<1> HIDE DEF chain
<1>8. /\ r.version <= Len(View(s, Head(r.todo).key))
      /\ r.version # 0 => r.existing = View(s, Head(r.todo).key)[r.version].value
  BY <1>2, <1>4, <1>6, <1>7
<1> QED  BY <1>3, <1>4, <1>5, <1>8, ControlStep

\* Where the loop over the candidates goes on.
NextState(s) ==
    IF Len(sess[s].todo) > 1
    THEN [pc |-> "reading", started |-> sess[s].started, todo |-> Tail(sess[s].todo)]
    ELSE [pc |-> "committing", started |-> sess[s].started]

LEMMA TailOfLonger ==
  ASSUME NEW S, NEW seq \in Seq(S), Len(seq) > 1
  PROVE  Tail(seq) \in Seq(S) /\ Tail(seq) # <<>>
<1> DEFINE tail == Tail(seq)
<1>1. seq # <<>> /\ Len(seq) \in Nat
  BY LenProperties, EmptySeq
<1>2. tail \in Seq(S) /\ Len(tail) = Len(seq) - 1
  BY <1>1, HeadTailProperties
<1> HIDE DEF tail
<1>3. Len(tail) # 0
  BY <1>1, <1>2
<1>4. tail # <<>>
  BY <1>3, EmptySeq
<1> QED  BY <1>2, <1>4 DEF tail

LEMMA NextStateTyped ==
  ASSUME IInv, NEW s \in Sessions, sess[s].pc = "writing"
  PROVE  /\ StateTyped(NextState(s)) /\ NextState(s).pc \in {"reading", "committing"}
         /\ NextState(s).started = sess[s].started
<1>1. /\ sess[s].todo \in Seq(Candidate) /\ sess[s].todo # <<>>
      /\ sess[s].started \in 0..clock
  BY CandType
<1>2. CASE Len(sess[s].todo) > 1
  <2>1. Tail(sess[s].todo) \in Seq(Candidate) /\ Tail(sess[s].todo) # <<>>
    BY <1>1, <1>2, TailOfLonger
  <2> QED  BY <1>1, <1>2, <2>1 DEF NextState, StateTyped
<1>3. CASE ~(Len(sess[s].todo) > 1)
  BY <1>1, <1>3 DEF NextState, StateTyped
<1> QED  BY <1>2, <1>3

LEMMA UnchangedStep ==
  ASSUME IInv, NEW s \in Sessions, Unchanged(s)
  PROVE  IInv'
<1>1. sess[s].pc = "writing" /\ UNCHANGED <<table, draft, clock>>
  BY DEF Unchanged
<1>2. sess' = [sess EXCEPT ![s] = NextState(s)]
  BY DEF Unchanged, NextCandidate, NextState
<1> QED  BY <1>1, <1>2, NextStateTyped, ControlStep

\* The new version: the drafted chain is that of the session alone, since no
\* other has one of this key, and goes on from what the session sees.
LEMMA InsertVersionStep ==
  ASSUME IInv, NEW s \in Sessions, InsertVersion(s)
  PROVE  IInv'
<1> DEFINE k == Cand(s).key
           chain == View(s, k)
           row == NewRow(Cand(s), sess[s].started)
           new == Supersede(chain, sess[s].version, row)
<1>1. /\ sess[s].pc = "writing" /\ ~Blocked(s) /\ sess[s].version = Len(chain)
      /\ sess[s].existing # Cand(s).value
      /\ draft' = [draft EXCEPT ![s][k] = new]
      /\ UNCHANGED <<table, clock>>
  BY DEF InsertVersion, VersionTaken, _values_equal
<1>2. sess' = [sess EXCEPT ![s] = NextState(s)]
  BY DEF InsertVersion, NextCandidate, NextState
<1>3. /\ Cand(s) \in Candidate /\ k \in Key /\ sess[s].started \in 0..clock /\ clock \in Nat
  BY <1>1, CandType, CorporateActionsAssumption DEF IInv, TypeOK
<1>4. /\ chain \in Seq(Row) /\ WellFlagged(chain) /\ table[k] \in Seq(Row)
      /\ Continues(table[k], chain, sess[s].started) /\ Len(chain) \in Nat
  BY <1>3, ViewType, ViewContinues, LenProperties
<1>5. /\ row \in Row /\ row.value = Cand(s).value /\ row.available_at = sess[s].started
      /\ row.is_latest
  BY <1>3, NewRowType
<1>6. chain # <<>> => row.value # chain[Len(chain)].value
  <2>1. chain # <<>> => Len(chain) # 0
    BY <1>4, EmptySeq
  <2> QED  BY <1>1, <1>5, <2>1 DEF IInv, ReadStands
<1> HIDE DEF row
<1>7. new \in Seq(Row) /\ new # <<>>
  BY <1>1, <1>4, <1>5, SupersedeChain DEF OneMore
<1>8. WellFlagged(new) /\ Continues(table[k], new, sess[s].started)
  BY <1>1, <1>4, <1>5, <1>6, SupersedeFlagged, SupersedeContinues
<1> HIDE DEF new, chain, k
<1>9. \A t \in Sessions : \A j \in Key :
         draft'[t][j] = IF t = s /\ j = k THEN new ELSE draft[t][j]
  BY <1>1, <1>3 DEF IInv, TypeOK
<1>10. draft' \in [Sessions -> [Key -> Seq(Row)]]
  BY <1>1, <1>3, <1>7 DEF IInv, TypeOK
<1>11. sess' = [t \in Sessions |-> IF t = s THEN NextState(s) ELSE sess[t]]
  BY <1>2 DEF IInv, SessionsTyped
<1>12. sess'[s] = NextState(s) /\ \A t \in Sessions : t # s => sess'[t] = sess[t]
  BY <1>11
<1>13. /\ StateTyped(NextState(s)) /\ NextState(s).pc \in {"reading", "committing"}
       /\ NextState(s).started = sess[s].started
  BY <1>1, NextStateTyped
<1>14. TypeOK' /\ SessionsTyped'
  BY <1>1, <1>10, <1>11, <1>12, <1>13 DEF IInv, TypeOK, SessionsTyped, StateTyped
<1>15. DraftsContinue'
  <2> SUFFICES ASSUME NEW t \in Sessions, NEW j \in Key, draft'[t][j] # <<>>
               PROVE  /\ Open(t)' /\ WellFlagged(draft'[t][j])
                      /\ Continues(table[j], draft'[t][j], sess'[t].started)
    BY <1>1 DEF DraftsContinue, WellFlagged, Latest, Continues
  <2>1. sess'[t].started = sess[t].started
    BY <1>12, <1>13
  <2>2. Open(t)' \/ ~Open(t)
    BY <1>12, <1>13 DEF Open
  <2>3. CASE t = s /\ j = k
    BY <2>3, <1>8, <1>9, <1>12, <1>13 DEF Open
  <2>4. CASE ~(t = s /\ j = k)
    BY <2>1, <2>2, <2>4, <1>9 DEF IInv, DraftsContinue
  <2> QED  BY <2>3, <2>4
<1>16. OneWriter'
  <2>1. \A t \in Sessions : t # s => draft[t][k] = <<>>
    BY <1>1 DEF Blocked, k
  <2> QED  BY <1>9, <2>1 DEF IInv, OneWriter
<1>17. ReadStands'
  <2> SUFFICES ASSUME NEW t \in Sessions, sess'[t].pc = "writing"
               PROVE  LET c == View(t, Cand(t).key)'
                      IN  /\ sess'[t].version <= Len(c)
                          /\ sess'[t].version # 0 => sess'[t].existing = c[sess'[t].version].value
    BY DEF ReadStands
  <2>1. t # s /\ sess'[t] = sess[t]
    BY <1>12, <1>13
  <2>2. Cand(t)' = Cand(t) /\ Cand(t).key \in Key
    BY <2>1, CandType DEF Cand
  <2>3. View(t, Cand(t).key)' = View(t, Cand(t).key)
    BY <1>1, <1>9, <2>1, <2>2 DEF View
  <2> QED  BY <2>1, <2>3 DEF IInv, ReadStands
<1> QED  BY <1>1, <1>14, <1>15, <1>16, <1>17 DEF IInv, LatestIsHighest

LEMMA RollbackStep ==
  ASSUME IInv, NEW s \in Sessions, Rollback(s)
  PROVE  IInv'
<1>1. UNCHANGED <<table, clock>>
  BY DEF Rollback
<1>2. /\ sess' = [t \in Sessions |-> IF t = s THEN Idle ELSE sess[t]]
      /\ \A t \in Sessions : t # s => sess'[t] = sess[t] /\ draft'[t] = draft[t]
      /\ sess'[s].pc = "idle" /\ draft'[s] = NoDraft
  BY DEF Rollback, IInv, TypeOK, SessionsTyped, Idle
<1>3. TypeOK' /\ SessionsTyped'
  <2>1. NoDraft \in [Key -> Seq(Row)]
    BY EmptySeq DEF NoDraft
  <2>2. draft' \in [Sessions -> [Key -> Seq(Row)]]
    BY <2>1 DEF Rollback, IInv, TypeOK
  <2> QED  BY <1>1, <1>2, <2>2 DEF IInv, TypeOK, SessionsTyped
<1>4. \A t \in Sessions : \A k \in Key : draft'[t][k] # <<>> => t # s
  BY <1>2 DEF NoDraft
<1>5. DraftsContinue' /\ OneWriter'
  BY <1>1, <1>2, <1>4 DEF IInv, DraftsContinue, OneWriter, Open
<1>6. ReadStands'
  BY <1>1, <1>2 DEF IInv, ReadStands, Cand, View
<1> QED  BY <1>1, <1>3, <1>5, <1>6 DEF IInv, LatestIsHighest

\* A commit: the chains of the session are its own, so what the others have
\* drafted still continues the table, and what they have read is still there.
LEMMA CommitStep ==
  ASSUME IInv, NEW s \in Sessions, Commit(s)
  PROVE  IInv'
<1>1. table' = [k \in Key |-> View(s, k)] /\ clock' = clock
  BY DEF Commit
<1>2. /\ sess' = [t \in Sessions |-> IF t = s THEN Idle ELSE sess[t]]
      /\ \A t \in Sessions : t # s => sess'[t] = sess[t] /\ draft'[t] = draft[t]
      /\ sess'[s].pc = "idle" /\ draft'[s] = NoDraft
  BY DEF Commit, IInv, TypeOK, SessionsTyped, Idle
<1>3. TypeOK' /\ SessionsTyped'
  <2>1. NoDraft \in [Key -> Seq(Row)]
    BY EmptySeq DEF NoDraft
  <2>2. draft' \in [Sessions -> [Key -> Seq(Row)]]
    BY <2>1 DEF Commit, IInv, TypeOK
  <2>3. table' \in [Key -> Seq(Row)]
    BY <1>1, ViewType
  <2> QED  BY <1>1, <1>2, <2>2, <2>3 DEF IInv, TypeOK, SessionsTyped
<1>4. LatestIsHighest'
  BY <1>1, ViewType DEF LatestIsHighest, WellFlagged, Latest
<1>5. \A t \in Sessions : \A k \in Key : draft'[t][k] # <<>> => t # s
  BY <1>2 DEF NoDraft
<1>6. \A t \in Sessions : \A k \in Key : draft'[t][k] # <<>> => table'[k] = table[k]
  BY <1>1, <1>2, <1>5 DEF IInv, OneWriter, View
<1>7. DraftsContinue' /\ OneWriter'
  BY <1>1, <1>2, <1>5, <1>6 DEF IInv, DraftsContinue, OneWriter, Open
<1>8. ReadStands'
  <2> SUFFICES ASSUME NEW t \in Sessions, sess'[t].pc = "writing"
               PROVE  LET c == View(t, Cand(t).key)'
                      IN  /\ sess'[t].version <= Len(c)
                          /\ sess'[t].version # 0 => sess'[t].existing = c[sess'[t].version].value
    BY DEF ReadStands
  <2> DEFINE k == Cand(t).key
  <2>1. t # s /\ sess'[t] = sess[t] /\ draft'[t] = draft[t]
    BY <1>2
  <2>2. Cand(t)' = Cand(t) /\ k \in Key
    BY <2>1, CandType DEF Cand
  <2>3. /\ sess[t].version \in Nat /\ sess[t].version <= Len(View(t, k))
        /\ sess[t].version # 0 => sess[t].existing = View(t, k)[sess[t].version].value
    BY <2>1 DEF IInv, ReadStands, TypeOK
  <2>4. CASE draft[t][k] # <<>>
    <3>1. View(t, Cand(t).key)' = View(t, k)
      BY <2>1, <2>2, <2>4 DEF View
    <3> QED  BY <2>1, <2>3, <3>1
  <2>5. CASE draft[t][k] = <<>>
    <3>1. View(t, Cand(t).key)' = View(s, k) /\ View(t, k) = table[k]
      BY <1>1, <2>1, <2>2, <2>5 DEF View
    <3>2. Continues(table[k], View(s, k), sess[s].started) /\ Len(table[k]) \in Nat
          /\ Len(View(s, k)) \in Nat
      BY <2>2, ViewContinues, ViewType, LenProperties
    <3> HIDE DEF k
    <3> QED  BY <2>1, <2>3, <3>1, <3>2 DEF Continues
  <2> QED  BY <2>4, <2>5
<1> QED  BY <1>3, <1>4, <1>7, <1>8 DEF IInv

LEMMA TickStep ==
  ASSUME IInv, Tick
  PROVE  IInv'
<1>1. TypeOK'
  BY CorporateActionsAssumption DEF Tick, IInv, TypeOK
<1>2. SessionsTyped' /\ LatestIsHighest' /\ DraftsContinue' /\ OneWriter'
  BY DEF Tick, IInv, SessionsTyped, LatestIsHighest, DraftsContinue, OneWriter, Open
<1>3. ReadStands'
  BY DEF Tick, IInv, ReadStands, Cand, View
<1> QED  BY <1>1, <1>2, <1>3 DEF IInv

LEMMA InitialIInv == Init => IInv
<1> SUFFICES ASSUME Init PROVE IInv
  OBVIOUS
<1>1. TypeOK /\ SessionsTyped
  BY EmptySeq, CorporateActionsAssumption DEF Init, TypeOK, SessionsTyped, NoDraft, Idle
<1>2. LatestIsHighest
  BY DEF Init, LatestIsHighest, Latest
<1>3. DraftsContinue /\ OneWriter /\ ReadStands
  BY DEF Init, DraftsContinue, OneWriter, ReadStands, NoDraft, Idle
<1> QED  BY <1>1, <1>2, <1>3 DEF IInv

LEMMA NextIInv == IInv /\ [Next]_vars => IInv'
<1> SUFFICES ASSUME IInv, [Next]_vars PROVE IInv'
  OBVIOUS
<1>1. ASSUME NEW s \in Sessions, SyncBegin(s) \/ Fetched(s) \/ RecordBegin(s) PROVE IInv'
  BY <1>1, BeginSteps
<1>2. ASSUME NEW s \in Sessions, ReadLatest(s) PROVE IInv'
  BY <1>2, ReadLatestStep
<1>3. ASSUME NEW s \in Sessions, Unchanged(s) PROVE IInv'
  BY <1>3, UnchangedStep
<1>4. ASSUME NEW s \in Sessions, InsertVersion(s) PROVE IInv'
  BY <1>4, InsertVersionStep
<1>5. ASSUME NEW s \in Sessions, Commit(s) PROVE IInv'
  BY <1>5, CommitStep
<1>6. ASSUME NEW s \in Sessions, Rollback(s) PROVE IInv'
  BY <1>6, RollbackStep
<1>7. CASE Tick
  BY <1>7, TickStep
<1>8. CASE UNCHANGED vars
  BY <1>8 DEF vars, IInv, TypeOK, SessionsTyped, LatestIsHighest, DraftsContinue, OneWriter,
              ReadStands, Cand, View, Open
<1> QED  BY <1>1, <1>2, <1>3, <1>4, <1>5, <1>6, <1>7, <1>8 DEF Next

LEMMA Invariance == Spec => []IInv
  BY InitialIInv, NextIInv, PTL DEF Spec

-----------------------------------------------------------------------------
(* What follows.                                                           *)

\* For any sessions, dates, values and sources, every variable has its type and
\* what a session works on is a candidate of a response or of the command line.
THEOREM TypeCorrect == Spec => []TypeOK
<1>1. IInv => TypeOK
  BY DEF IInv
<1> QED  BY <1>1, Invariance, PTL

\* Whatever sessions race to write a chain, crash or roll back, the flag names the
\* highest version and no other: list_latest and the reads as of today agree.
THEOREM FlagNamesTheHighest == Spec => []LatestIsHighest
<1>1. IInv => LatestIsHighest
  BY DEF IInv
<1> QED  BY <1>1, Invariance, PTL

\* Only a commit changes the table, to what its session saw.
LEMMA TableStep ==
  ASSUME [Next]_vars
  PROVE  \/ table' = table
         \/ \E s \in Sessions : Open(s) /\ table' = [k \in Key |-> View(s, k)]
  BY DEF Next, vars, SyncBegin, Fetched, RecordBegin, ReadLatest, Unchanged, InsertVersion,
         Commit, Rollback, Tick, Open

\* The values of a chain's versions.
ValuesOf(chain) == [v \in DOMAIN chain |-> chain[v].value]

LEMMA ValuesOfChain ==
  ASSUME NEW chain \in Seq(Row)
  PROVE  /\ ValuesOf(chain) \in Seq(Value) /\ Len(ValuesOf(chain)) = Len(chain)
         /\ \A v \in 1..Len(chain) : ValuesOf(chain)[v] = chain[v].value
<1>1. /\ Len(chain) \in Nat /\ DOMAIN chain = 1..Len(chain)
      /\ \A v \in 1..Len(chain) : chain[v] \in Row
  BY LenProperties, ElementOfSeq
<1>2. ValuesOf(chain) \in [1..Len(chain) -> Value]
  BY <1>1 DEF ValuesOf, Row
<1>3. \A v \in 1..Len(chain) : ValuesOf(chain)[v] = chain[v].value
  BY <1>1 DEF ValuesOf
<1> HIDE DEF ValuesOf
<1> QED  BY <1>1, <1>2, <1>3, SeqDef, LenProperties

LEMMA ContinuesRestated ==
  ASSUME NEW old \in Seq(Row), NEW new \in Seq(Row), NEW started,
         Continues(old, new, started)
  PROVE  Chain!Restated(ValuesOf(old), ValuesOf(new))
<1>1. /\ Len(ValuesOf(old)) = Len(old) /\ Len(ValuesOf(new)) = Len(new)
      /\ \A v \in 1..Len(old) : ValuesOf(old)[v] = old[v].value
      /\ \A v \in 1..Len(new) : ValuesOf(new)[v] = new[v].value
      /\ Len(old) \in Nat /\ Len(new) \in Nat
  BY ValuesOfChain, LenProperties
<1>2. Len(old) <= Len(new)
  BY DEF Continues
<1>3. \A v \in 1..Len(old) : ValuesOf(new)[v] = ValuesOf(old)[v]
  BY <1>1, <1>2 DEF Continues
<1>4. \A v \in 2..Len(new) : v > Len(old) => ValuesOf(new)[v] # ValuesOf(new)[v - 1]
  BY <1>1 DEF Continues
<1> QED  BY <1>1, <1>2, <1>3, <1>4 DEF Chain!Restated

\* For any sessions and values, the table implements VersionChain: racing, crashed and
\* rolled back commands only ever append restatements to what is committed, each
\* differing from the one before it.
THEOREM TableIsChain == Spec => VersionsRecorded
<1> DEFINE versions == [k \in Key |-> [v \in DOMAIN table[k] |-> table[k][v].value]]
<1>1. Init => Chain!Init
  <2> SUFFICES ASSUME Init PROVE versions = [k \in Key |-> <<>>]
    BY DEF Chain!Init
  <2> QED  BY DEF Init
<1>2. IInv /\ IInv' /\ [Next]_vars => [Chain!Record]_versions
  <2> SUFFICES ASSUME IInv, IInv', [Next]_vars PROVE Chain!Record \/ UNCHANGED versions
    OBVIOUS
  <2>1. CASE table' = table
    BY <2>1
  <2>2. ASSUME NEW s \in Sessions, table' = [k \in Key |-> View(s, k)]
        PROVE  Chain!Record
    <3>1. versions = [k \in Key |-> ValuesOf(table[k])]
          /\ versions' = [k \in Key |-> ValuesOf(table'[k])]
      BY DEF ValuesOf
    <3>2. \A k \in Key : /\ table[k] \in Seq(Row) /\ table'[k] \in Seq(Row)
                         /\ Continues(table[k], table'[k], sess[s].started)
      BY <2>2, ViewType, ViewContinues
    <3> HIDE DEF versions
    <3>3. versions' \in [Key -> Seq(Value)]
      BY <3>1, <3>2, ValuesOfChain
    <3>4. \A k \in Key : Chain!Restated(versions[k], versions'[k])
      BY <3>1, <3>2, ContinuesRestated
    <3> QED  BY <3>3, <3>4 DEF Chain!Record, versions
  <2> QED  BY <2>1, <2>2, TableStep
<1> QED  BY <1>1, <1>2, Invariance, PTL DEF Spec, VersionsRecorded, Chain!Spec

-----------------------------------------------------------------------------
(* The settled past.                                                       *)

LEMMA HighestExists ==
  ASSUME NEW n \in Nat, NEW S, S \subseteq 1..n, S # {}
  PROVE  \E v \in S : \A w \in S : w <= v
<1> DEFINE T == {n - v : v \in S}
<1>1. T \subseteq Nat /\ T # {}
  <2>1. \A v \in S : n - v \in Nat
    OBVIOUS
  <2> QED  BY <2>1
<1> DEFINE R == OpToRel(<, Nat)
<1>2. IsWellFoundedOn(R, Nat)
  BY NatLessThanWellFounded
<1>3. \A x, y \in Nat : <<x, y>> \in R <=> x < y
  BY DEF OpToRel
<1> HIDE DEF R
<1>4. PICK x \in T : \A y \in T : ~ (<<y, x>> \in R)
  <2> HIDE DEF T
  <2> QED  BY <1>1, <1>2, WFMin
<1>5. \A y \in T : ~ (y < x)
  BY <1>1, <1>3, <1>4
<1>6. PICK v \in S : x = n - v
  BY <1>4
<1>7. \A w \in S : n - w \in T /\ n - w \in Nat /\ w \in Nat
  BY <1>1
<1> HIDE DEF T
<1>8. \A w \in S : w <= v
  BY <1>5, <1>6, <1>7
<1> QED  BY <1>8

LEMMA KnownAgain ==
  ASSUME NEW old \in Seq(Row), NEW new \in Seq(Row), NEW started \in Nat,
         Continues(old, new, started), NEW t \in Nat, t < started
  PROVE  Known(new, t) = Known(old, t)
<1>1. /\ Len(old) \in Nat /\ Len(new) \in Nat /\ Len(old) <= Len(new)
      /\ DOMAIN old = 1..Len(old) /\ DOMAIN new = 1..Len(new)
  BY LenProperties DEF Continues
<1>2. ASSUME NEW v \in DOMAIN new, new[v].available_at <= t PROVE v <= Len(old)
  BY <1>1, <1>2 DEF Continues
<1> QED  BY <1>1, <1>2 DEF Known, Continues

\* For any sessions and instants, what the table says of an instant is settled once
\* every transaction begun by then has ended: a walk-forward decision frozen at t and
\* the splits FIFO applied as of t read the same ever after.
THEOREM PastIsSettled == Spec => SettledPast
<1>1. IInv /\ [Next]_vars => SettledPastStep
  <2> SUFFICES ASSUME IInv, [Next]_vars, NEW t \in 0..MaxTime,
                      \A s \in Sessions : Open(s) => sess[s].started > t
               PROVE  /\ list_as_of(t)' = list_as_of(t)
                      /\ load_corporate_action_events(t)' = load_corporate_action_events(t)
    BY DEF SettledPastStep
  <2>1. t \in Nat /\ t # NONE
    BY CorporateActionsAssumption
  <2>2. list_as_of(t)' = list_as_of(t)
    <3>1. CASE table' = table
      BY <3>1 DEF list_as_of
    <3>2. ASSUME NEW s \in Sessions, Open(s), table' = [k \in Key |-> View(s, k)]
          PROVE  list_as_of(t)' = list_as_of(t)
      <4>1. sess[s].started \in Nat /\ t < sess[s].started
        BY <3>2, <2>1, CorporateActionsAssumption DEF Open, IInv, TypeOK
      <4>2. ASSUME NEW k \in Key
            PROVE  /\ Known(table'[k], t) = Known(table[k], t)
                   /\ \A v \in Known(table[k], t) : table'[k][v].value = table[k][v].value
        <5>1. /\ table[k] \in Seq(Row) /\ table'[k] \in Seq(Row)
              /\ Continues(table[k], table'[k], sess[s].started)
          BY <3>2, ViewType, ViewContinues
        <5>2. Known(table'[k], t) = Known(table[k], t)
          BY <5>1, <4>1, <2>1, KnownAgain
        <5>3. Known(table[k], t) \subseteq 1..Len(table[k])
          BY <5>1, LenProperties DEF Known
        <5> QED  BY <5>1, <5>2, <5>3 DEF Continues
      <4>3. ASSUME NEW k \in Key, Known(table[k], t) # {}
            PROVE  (CHOOSE v \in Known(table[k], t) : \A w \in Known(table[k], t) : w <= v)
                      \in Known(table[k], t)
        <5>1. Len(table[k]) \in Nat /\ Known(table[k], t) \subseteq 1..Len(table[k])
          BY ViewType, LenProperties, <3>2 DEF Known
        <5>2. \E v \in Known(table[k], t) : \A w \in Known(table[k], t) : w <= v
          BY <4>3, <5>1, HighestExists
        <5> QED  BY <5>2
      <4> QED  BY <4>2, <4>3 DEF list_as_of
    <3> QED  BY <3>1, <3>2, TableStep
  <2>3. load_corporate_action_events(t)' = load_corporate_action_events(t)
    BY <2>1, <2>2 DEF load_corporate_action_events
  <2> QED  BY <2>2, <2>3
<1> QED  BY <1>1, Invariance, PTL DEF Spec, SettledPast
=============================================================================
