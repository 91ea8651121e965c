------------------------ MODULE FinancialFactsProofs ------------------------
(***************************************************************************)
(* Proofs about FinancialFacts for every number of sessions, keys, values  *)
(* and versions.  The argument: a session's view of the table (committed   *)
(* rows overlaid with its own draft) is itself a well-formed version chain, *)
(* and no two drafts hold the same row, so installing a draft at commit     *)
(* leaves every other session's view well-formed too.                      *)
(***************************************************************************)
EXTENDS FinancialFacts, SequenceTheorems, TLAPS

-----------------------------------------------------------------------------
(* The inductive invariant.                                                *)

\* Row locks: two sessions never hold drafts of the same row.
DraftsDisjoint ==
    \A s, t \in Sessions : s # t =>
        \A k \in Key : \A v \in Version :
            draft[s][k][v] = NoRow \/ draft[t][k][v] = NoRow

\* Every session sees well-formed chains.
ViewChains == \A s \in Sessions : \A k \in Key : ChainOf(View(s), k)

\* A session that has written nothing yet holds no locks.
DraftOwner ==
    \A s \in Sessions : sess[s].pc \in {"idle", "verifying"} => draft[s] = NoRows

\* The row a session loaded is still there when it writes, and the session
\* has not drafted the next version itself.
SeenPresent ==
    \A s \in Sessions :
        /\ sess[s].pc = "writing" /\ sess[s].seen # 0 =>
              View(s)[Cand(s).key][sess[s].seen] # NoRow
        /\ sess[s].pc = "writing" /\ NewVersion(s) \in Version =>
              draft[s][Cand(s).key][NewVersion(s)] = NoRow
        /\ sess[s].pc = "verifying" => table[sess[s].key][sess[s].seen] # NoRow

IInv == TypeOK /\ OneLatest /\ DraftsDisjoint /\ ViewChains /\ DraftOwner /\ SeenPresent

-----------------------------------------------------------------------------
(* Lemmas about rows and reads.                                            *)

\* A stored row is never the absence of one.
LEMMA RowIsNotNoRow == \A r \in Row : r # NoRow
  BY DEF Row, NoRow

\* A session's view is a table of rows.
LEMMA ViewType ==
  ASSUME TypeOK, NEW s \in Sessions
  PROVE  View(s) \in Rows
  BY DEF TypeOK, View, Rows

\* The row an insert writes is a row.
LEMMA NewRowType ==
  ASSUME NEW c \in Candidate, NEW i \in Nat
  PROVE  NewRow(c, i) \in Row /\ NewRow(c, i).is_latest
  BY ConstantsAssumption DEF Candidate, NewRow, Row, Stamp

\* Refreshing provenance yields a row and leaves is_latest alone.
LEMMA RefreshType ==
  ASSUME NEW r \in Row, NEW l, NEW c \in Candidate
  PROVE  /\ _refresh_provenance(r, l, c) \in Row
         /\ _refresh_provenance(r, l, c).is_latest = r.is_latest
  BY ConstantsAssumption DEF Candidate, _refresh_provenance, Assign, Row, Stamp

\* So does a manual verification.
LEMMA VerifyType ==
  ASSUME NEW r \in Row, NEW l, NEW d \in Docs, NEW f \in Figures
  PROVE  /\ verify_financial_result_manual(r, l, d, f) \in Row
         /\ verify_financial_result_manual(r, l, d, f).is_latest = r.is_latest
  <1> DEFINE status == Assign(r.status, l.status,
                              IF l.fig = f THEN "verified" ELSE "disputed")
             document == Assign(r.verification_document, l.verification_document, d)
             notes == Assign(r.verification_notes, l.verification_notes,
                             IF l.fig = f THEN <<"matched", d>> ELSE <<"mismatch", f>>)
             available == IF Published[d] # NONE
                          THEN Assign(r.available_at, l.available_at, Published[d])
                          ELSE r.available_at
             precision == IF Published[d] # NONE
                          THEN Assign(r.timestamp_precision, l.timestamp_precision, "EXACT")
                          ELSE r.timestamp_precision
  <1>1. /\ status \in {"unverified", "verified", "disputed"}
        /\ document \in Docs \cup {NONE}
        /\ notes \in Notes \cup {NONE}
    BY DEF Row, Assign, Notes
  <1>2. available \in Nat
    <2>1. Published[d] # NONE => Published[d] \in Nat
      BY ConstantsAssumption
    <2> QED BY <2>1 DEF Row, Assign
  <1>3. precision \in {"EXACT", "DATE_ONLY"}
    BY DEF Row, Assign
  <1>4. verify_financial_result_manual(r, l, d, f) =
          [r EXCEPT !.status = status, !.verification_document = document,
                    !.verification_notes = notes, !.available_at = available,
                    !.timestamp_precision = precision]
    BY DEF verify_financial_result_manual
  <1> HIDE DEF status, document, notes, available, precision
  <1> QED BY <1>1, <1>2, <1>3, <1>4 DEF Row

\* So does superseding a row, which clears is_latest.
LEMMA SupersededType ==
  ASSUME NEW r \in Row
  PROVE  Superseded(r) \in Row /\ ~Superseded(r).is_latest
  BY DEF Superseded, Row

\* The normalizer builds candidates.
LEMMA NormalizeType ==
  ASSUME NEW c \in NseRows
  PROVE  c \in Candidate
  <1>1. PICK p \in Periods, f \in Figures, date \in ResultDates : c = normalize(p, f, date)
    BY DEF NseRows
  <1>2. date # NONE => DayEnd(date) \in Nat
    <2>1. SUFFICES ASSUME date # NONE PROVE DayEnd(date) \in Nat
      OBVIOUS
    <2>2. date \in Nat /\ DayLength \in Nat /\ DayLength - 1 \in Nat
      BY <2>1, ConstantsAssumption
    <2>3. date * DayLength \in Nat
      BY <2>2
    <2> QED BY <2>2, <2>3 DEF DayEnd
  <1> QED
    BY <1>1, <1>2, ConstantsAssumption
    DEF normalize, _derive_provenance_timestamps, Candidate, Key, Sources, Stamp, Dates

\* A transcription is a candidate.
LEMMA TranscriptionType ==
  ASSUME NEW p \in Periods, NEW f \in Figures, NEW d \in Docs
  PROVE  transcription(p, f, d) \in Candidate
  BY ConstantsAssumption DEF transcription, Candidate, Key, Sources, Stamp, Dates, Notes

\* get_latest returns the top of a well-formed chain, or 0 for an empty one.
LEMMA LatestIsTop ==
  ASSUME NEW rows \in Rows, NEW k \in Key, ChainOf(rows, k)
  PROVE  /\ get_latest(rows, k) \in 0..MaxVersion
         /\ get_latest(rows, k) # 0 =>
              /\ get_latest(rows, k) \in Version
              /\ rows[k][get_latest(rows, k)] \in Row
         /\ get_latest(rows, k) + 1 \in Version =>
              rows[k][get_latest(rows, k) + 1] = NoRow
  <1>1. PICK n \in 0..MaxVersion : \A v \in Version :
           /\ rows[k][v] # NoRow <=> v <= n
           /\ rows[k][v] # NoRow => (rows[k][v].is_latest <=> v = n)
    BY DEF ChainOf
  <1>2. \A v \in Version : v \in LatestVersions(rows, k) <=> v = n
    BY <1>1 DEF LatestVersions, Version
  <1>3. get_latest(rows, k) = n
    <2>1. CASE n = 0
      <3>1. LatestVersions(rows, k) = {}
        BY <1>2, <2>1 DEF LatestVersions, Version
      <3> QED BY <2>1, <3>1 DEF get_latest
    <2>2. CASE n # 0
      <3>1. LatestVersions(rows, k) = {n}
        BY <1>2, <2>2, ConstantsAssumption DEF LatestVersions, Version
      <3> QED BY <3>1 DEF get_latest
    <2> QED BY <2>1, <2>2
  <1>4. \A v \in Version : rows[k][v] # NoRow => rows[k][v] \in Row
    BY DEF Rows
  <1> QED BY <1>1, <1>3, <1>4, ConstantsAssumption DEF Version
-----------------------------------------------------------------------------
(* What the shared parts of the actions preserve.                          *)

\* What session t sees depends on the table and on its own draft only.
LEMMA ViewFrame ==
  ASSUME NEW t \in Sessions, table' = table, draft'[t] = draft[t]
  PROVE  View(t)' = View(t)
  BY DEF View

\* The shape of a session's state tells which program points it may be at.
LEMMA SessShape ==
  ASSUME TypeOK, NEW s \in Sessions
  PROVE  /\ sess[s].pc = "reading" => sess[s] \in ReadingState
         /\ sess[s].pc = "writing" => sess[s] \in WritingState
         /\ sess[s].pc = "verifying" => sess[s] \in VerifyingState
  BY DEF TypeOK, ReadingState, WritingState, VerifyingState

\* The candidate a session is on is a candidate.
LEMMA CandType ==
  ASSUME TypeOK, NEW s \in Sessions, sess[s].pc \in {"reading", "writing"}
  PROVE  /\ sess[s].todo \in Queue /\ sess[s].started \in Nat
         /\ Cand(s) \in Candidate /\ Cand(s).key \in Key
  <1>1. sess[s].todo \in Queue /\ sess[s].started \in Instants
    BY SessShape DEF ReadingState, WritingState
  <1>2. Head(sess[s].todo) \in Candidate
    BY <1>1 DEF Queue
  <1> QED BY <1>1, <1>2, ConstantsAssumption DEF Cand, Candidate, Instants

\* Moving on to the next candidate leaves a well-typed session that still
\* holds its draft and remembers no row.
LEMMA NextCandidateType ==
  ASSUME TypeOK, NEW s \in Sessions, sess[s].pc = "writing", NextCandidate(s)
  PROVE  \E q \in ReadingState \cup [pc : {"committing"}] : sess' = [sess EXCEPT ![s] = q]
  <1>1. sess[s].todo \in Queue /\ sess[s].started \in Instants
    BY SessShape DEF WritingState
  <1>2. Len(sess[s].todo) > 1 => Tail(sess[s].todo) \in Queue
    <2>1. SUFFICES ASSUME Len(sess[s].todo) > 1 PROVE Tail(sess[s].todo) \in Queue
      OBVIOUS
    <2>2. sess[s].todo \in Seq(Candidate) /\ sess[s].todo # <<>>
      BY <1>1, <2>1 DEF Queue
    <2>3. Tail(sess[s].todo) \in Seq(Candidate)
          /\ Len(Tail(sess[s].todo)) = Len(sess[s].todo) - 1
      BY <2>2, HeadTailProperties
    <2>4. Len(sess[s].todo) \in Nat
      BY <2>2
    <2> QED BY <2>1, <2>3, <2>4 DEF Queue
  <1> DEFINE q == IF Len(sess[s].todo) > 1
                  THEN Reading(sess[s].started, Tail(sess[s].todo))
                  ELSE [pc |-> "committing"]
  <1>3. q \in ReadingState \cup [pc : {"committing"}]
    BY <1>1, <1>2 DEF Reading, ReadingState
  <1>4. sess' = [sess EXCEPT ![s] = q]
    BY DEF NextCandidate
  <1> QED BY <1>3, <1>4

\* A session that changes only its own control state keeps the invariant.
LEMMA ControlStep ==
  ASSUME IInv, NEW s \in Sessions,
         NEW q \in [pc : {"idle", "committing"}] \cup ReadingState
                    \cup WritingState \cup VerifyingState,
         sess' = [sess EXCEPT ![s] = q],
         table' = table, draft' = draft, clock' \in Instants,
         q.pc \in {"idle", "verifying"} => draft[s] = NoRows,
         q.pc = "writing" /\ q.seen # 0 => View(s)[Head(q.todo).key][q.seen] # NoRow,
         q.pc = "writing" /\ q.seen + 1 \in Version =>
            draft[s][Head(q.todo).key][q.seen + 1] = NoRow,
         q.pc = "verifying" => table[q.key][q.seen] # NoRow
  PROVE  IInv'
  <1>1. TypeOK'
    BY DEF IInv, TypeOK
  <1>2. \A t \in Sessions : View(t)' = View(t)
    BY ViewFrame
  <1>3. OneLatest' /\ DraftsDisjoint'
    BY DEF IInv, OneLatest, DraftsDisjoint
  <1>4. ViewChains'
    BY <1>2 DEF IInv, ViewChains
  <1>5. \A t \in Sessions : t # s => sess'[t] = sess[t]
    BY DEF IInv, TypeOK
  <1>6. sess'[s] = q
    BY DEF IInv, TypeOK
  <1>7. DraftOwner'
    BY <1>5, <1>6 DEF IInv, DraftOwner
  <1>8. SeenPresent'
    <2>1. ASSUME NEW t \in Sessions
          PROVE /\ sess'[t].pc = "writing" /\ sess'[t].seen # 0 =>
                      View(t)[Head(sess'[t].todo).key][sess'[t].seen] # NoRow
                /\ sess'[t].pc = "writing" /\ sess'[t].seen + 1 \in Version =>
                      draft[t][Head(sess'[t].todo).key][sess'[t].seen + 1] = NoRow
                /\ sess'[t].pc = "verifying" => table[sess'[t].key][sess'[t].seen] # NoRow
      BY <1>5, <1>6 DEF IInv, SeenPresent, Cand, NewVersion
    <2> QED BY <2>1, <1>2 DEF SeenPresent, Cand, NewVersion
  <1> QED BY <1>1, <1>3, <1>4, <1>7, <1>8 DEF IInv

\* The rows of key k as session s sees them once its draft of k is f.
Overlaid(k, f) == [v \in Version |-> IF f[v] # NoRow THEN f[v] ELSE table[k][v]]

\* A flush that only drafts rows no other session holds, and leaves the
\* session's own view of the key well-formed, keeps the invariant.
LEMMA DraftStep ==
  ASSUME IInv, NEW s \in Sessions, NEW k \in Key,
         NEW f \in [Version -> Row \cup {NoRow}],
         NEW q \in ReadingState \cup [pc : {"committing"}],
         sess' = [sess EXCEPT ![s] = q],
         table' = table, clock' = clock,
         draft' = [draft EXCEPT ![s][k] = f],
         \A v \in Version : f[v] # NoRow /\ draft[s][k][v] = NoRow => ~LockedFor(s, k, v),
         \E n \in 0..MaxVersion : \A v \in Version :
             /\ Overlaid(k, f)[v] # NoRow <=> v <= n
             /\ Overlaid(k, f)[v] # NoRow => (Overlaid(k, f)[v].is_latest <=> v = n)
  PROVE  IInv'
  <1>1. TypeOK'
    BY DEF IInv, TypeOK, Rows
  <1>2. \A t \in Sessions : t # s => draft'[t] = draft[t] /\ sess'[t] = sess[t]
    BY DEF IInv, TypeOK
  <1>3. draft'[s] = [draft[s] EXCEPT ![k] = f] /\ sess'[s] = q
    BY DEF IInv, TypeOK
  <1>4. \A t \in Sessions : t # s => View(t)' = View(t)
    BY <1>2, ViewFrame
  <1>5. OneLatest'
    BY DEF IInv, OneLatest
  <1>6. DraftsDisjoint'
    <2>1. ASSUME NEW t \in Sessions, t # s, NEW kk \in Key, NEW v \in Version,
                 draft'[s][kk][v] # NoRow
          PROVE  draft'[t][kk][v] = NoRow
      <3>1. CASE kk = k
        <4>1. draft'[s][kk][v] = f[v]
          BY <1>3, <3>1 DEF IInv, TypeOK, Rows
        <4>2. CASE draft[s][k][v] = NoRow
          BY <4>1, <4>2, <2>1, <1>2, <3>1 DEF LockedFor
        <4>3. CASE draft[s][k][v] # NoRow
          BY <4>3, <2>1, <1>2, <3>1 DEF IInv, DraftsDisjoint
        <4> QED BY <4>2, <4>3
      <3>2. CASE kk # k
        <4>1. draft'[s][kk] = draft[s][kk]
          BY <1>3, <3>2 DEF IInv, TypeOK, Rows
        <4> QED BY <4>1, <2>1, <1>2 DEF IInv, DraftsDisjoint
      <3> QED BY <3>1, <3>2
    <2>2. ASSUME NEW t \in Sessions, NEW u \in Sessions, t # u, t # s, u # s,
                 NEW kk \in Key, NEW v \in Version
          PROVE  draft'[t][kk][v] = NoRow \/ draft'[u][kk][v] = NoRow
      BY <2>2, <1>2 DEF IInv, DraftsDisjoint
    <2> QED BY <2>1, <2>2 DEF DraftsDisjoint
  <1>7. \A kk \in Key : View(s)'[kk] = IF kk = k THEN Overlaid(k, f) ELSE View(s)[kk]
    BY <1>3 DEF IInv, TypeOK, Rows, View, Overlaid
  <1>8. ViewChains'
    <2>1. \A kk \in Key : ChainOf(View(s), kk)'
      <3>1. ChainOf(View(s), k)'
        BY <1>7 DEF ChainOf
      <3>2. \A kk \in Key : kk # k => ChainOf(View(s), kk)'
        BY <1>7 DEF ChainOf, IInv, ViewChains
      <3> QED BY <3>1, <3>2
    <2> QED BY <2>1, <1>4 DEF IInv, ViewChains, ChainOf
  <1>9. DraftOwner'
    <2>1. q.pc \notin {"idle", "verifying"}
      BY DEF ReadingState
    <2> QED BY <2>1, <1>2, <1>3 DEF IInv, DraftOwner
  <1>10. SeenPresent'
    <2>1. q.pc \notin {"writing", "verifying"}
      BY DEF ReadingState
    <2>2. ASSUME NEW t \in Sessions, t # s
          PROVE /\ sess'[t].pc = "writing" /\ sess'[t].seen # 0 =>
                      View(t)'[Head(sess'[t].todo).key][sess'[t].seen] # NoRow
                /\ sess'[t].pc = "writing" /\ sess'[t].seen + 1 \in Version =>
                      draft'[t][Head(sess'[t].todo).key][sess'[t].seen + 1] = NoRow
                /\ sess'[t].pc = "verifying" => table'[sess'[t].key][sess'[t].seen] # NoRow
      BY <1>2, <1>4, <2>2 DEF IInv, SeenPresent, Cand, NewVersion
    <2> QED BY <2>1, <2>2, <1>3 DEF SeenPresent, Cand, NewVersion
  <1> QED BY <1>1, <1>5, <1>6, <1>8, <1>9, <1>10 DEF IInv
-----------------------------------------------------------------------------
(* The actions.                                                            *)

\* A sync starts with a queue of normalized rows.
LEMMA SyncBeginKeeps ==
  ASSUME IInv, NEW s \in Sessions, SyncBegin(s)
  PROVE  IInv'
  <1>0. PICK n \in 1..MaxBatch : \E todo \in [1..n -> NseRows] :
               sess' = [sess EXCEPT ![s] = Reading(clock, todo)]
    BY DEF SyncBegin
  <1>1. PICK todo \in [1..n -> NseRows] : sess' = [sess EXCEPT ![s] = Reading(clock, todo)]
    BY <1>0
  <1>2. todo \in Queue
    <2>1. \A i \in 1..n : todo[i] \in Candidate
      BY NormalizeType
    <2>2. todo \in [1..n -> Candidate] /\ n \in Nat /\ n > 0
      BY <2>1
    <2>3. todo \in Seq(Candidate) /\ Len(todo) = n
      BY <2>2
    <2> QED BY <2>2, <2>3 DEF Queue
  <1>3. Reading(clock, todo) \in ReadingState /\ Reading(clock, todo).pc = "reading"
    BY <1>2 DEF Reading, ReadingState, IInv, TypeOK
  <1>4. table' = table /\ draft' = draft /\ clock' \in Instants
    BY DEF SyncBegin, IInv, TypeOK
  <1> QED BY <1>1, <1>3, <1>4, ControlStep

\* A transcription starts with a queue of one.
LEMMA TranscribeBeginKeeps ==
  ASSUME IInv, NEW s \in Sessions, TranscribeBegin(s)
  PROVE  IInv'
  <1>1. PICK p \in Periods, f \in Figures, d \in Docs :
               sess' = [sess EXCEPT ![s] =
                          Reading(clock, <<transcription(p, f, d)>>)]
    BY DEF TranscribeBegin
  <1> DEFINE todo == <<transcription(p, f, d)>>
  <1>2. todo \in Queue
    BY TranscriptionType DEF Queue
  <1>3. Reading(clock, todo) \in ReadingState /\ Reading(clock, todo).pc = "reading"
    BY <1>2 DEF Reading, ReadingState, IInv, TypeOK
  <1>4. table' = table /\ draft' = draft /\ clock' \in Instants
    BY DEF TranscribeBegin, IInv, TypeOK
  <1> QED BY <1>1, <1>3, <1>4, ControlStep

\* get_latest finds the top of the session's view.
LEMMA ReadLatestKeeps ==
  ASSUME IInv, NEW s \in Sessions, ReadLatest(s)
  PROVE  IInv'
  <1> DEFINE k == Head(sess[s].todo).key
             v == get_latest(View(s), k)
             q == [pc |-> "writing", started |-> sess[s].started,
                   todo |-> sess[s].todo, seen |-> v,
                   loaded |-> IF v = 0 THEN NoRow ELSE View(s)[k][v]]
  <1>1. /\ sess' = [sess EXCEPT ![s] = q] /\ sess[s].pc = "reading"
        /\ table' = table /\ draft' = draft /\ clock' \in Instants
    BY DEF ReadLatest, IInv, TypeOK
  <1>2. sess[s] \in ReadingState /\ k \in Key
    BY <1>1, CandType, SessShape DEF IInv, Cand
  <1>3. /\ v \in 0..MaxVersion
        /\ v # 0 => v \in Version /\ View(s)[k][v] \in Row
        /\ v + 1 \in Version => View(s)[k][v + 1] = NoRow
    BY <1>2, ViewType, LatestIsTop DEF IInv, ViewChains
  <1>4. q \in WritingState
    BY <1>2, <1>3 DEF ReadingState, WritingState
  <1>5. q.pc = "writing" /\ (q.seen # 0 => View(s)[Head(q.todo).key][q.seen] # NoRow)
    BY <1>3, RowIsNotNoRow
  <1>6. q.seen + 1 \in Version => draft[s][Head(q.todo).key][q.seen + 1] = NoRow
    BY <1>2, <1>3 DEF View
  <1> HIDE DEF q
  <1> QED BY <1>1, <1>4, <1>5, <1>6, ControlStep

\* The verification target is a committed row.
LEMMA VerifyBeginKeeps ==
  ASSUME IInv, NEW s \in Sessions, VerifyBegin(s)
  PROVE  IInv'
  <1>0. PICK p \in Periods, d \in Docs, f \in Figures :
             \E target \in list_latest_by_period(table, p) :
               sess' = [sess EXCEPT ![s] =
                  [pc |-> "verifying", key |-> target[1], seen |-> target[2],
                   loaded |-> table[target[1]][target[2]], doc |-> d, reported |-> f]]
    BY DEF VerifyBegin
  <1>1. PICK target \in list_latest_by_period(table, p) :
               sess' = [sess EXCEPT ![s] =
                  [pc |-> "verifying", key |-> target[1], seen |-> target[2],
                   loaded |-> table[target[1]][target[2]], doc |-> d, reported |-> f]]
    BY <1>0
  <1> DEFINE q == [pc |-> "verifying", key |-> target[1], seen |-> target[2],
                   loaded |-> table[target[1]][target[2]], doc |-> d, reported |-> f]
  <1>2. target[1] \in Key /\ target[2] \in Version /\ table[target[1]][target[2]] # NoRow
    BY DEF list_latest_by_period
  <1>3. table[target[1]][target[2]] \in Row
    BY <1>2 DEF IInv, TypeOK, Rows
  <1>4. q \in VerifyingState
    BY <1>2, <1>3 DEF VerifyingState
  <1>5. /\ draft[s] = NoRows /\ table' = table /\ draft' = draft /\ clock' \in Instants
    BY DEF VerifyBegin, IInv, TypeOK, DraftOwner
  <1>6. q.pc = "verifying" /\ table[q.key][q.seen] # NoRow
    BY <1>2
  <1>7. sess' = [sess EXCEPT ![s] = q]
    BY <1>1
  <1> HIDE DEF q
  <1> QED BY <1>4, <1>5, <1>6, <1>7, ControlStep

\* A refresh redrafts a row the session sees, without touching is_latest.
LEMMA FlushRefreshKeeps ==
  ASSUME IInv, NEW s \in Sessions, FlushRefresh(s)
  PROVE  IInv'
  <1> DEFINE k == Cand(s).key
             v == sess[s].seen
             r == _refresh_provenance(View(s)[k][v], sess[s].loaded, Cand(s))
             f == [draft[s][k] EXCEPT ![v] = r]
  <1>1. /\ sess[s].pc = "writing" /\ v # 0 /\ NextCandidate(s)
        /\ table' = table /\ clock' = clock
    BY DEF FlushRefresh, Unchanged
  <1>2. k \in Key /\ Cand(s) \in Candidate /\ v \in Version
    BY <1>1, CandType, SessShape, ConstantsAssumption DEF IInv, WritingState, Version
  <1>3. PICK q \in ReadingState \cup [pc : {"committing"}] : sess' = [sess EXCEPT ![s] = q]
    BY <1>1, NextCandidateType DEF IInv
  <1>4. CASE ~RefreshNeeded(s)
    <2>1. draft' = draft
      BY <1>4 DEF FlushRefresh
    <2>2. q \in [pc : {"idle", "committing"}] \cup ReadingState \cup WritingState
                 \cup VerifyingState
          /\ q.pc \notin {"idle", "writing", "verifying"}
      BY DEF ReadingState
    <2>3. clock' \in Instants
      BY <1>1 DEF IInv, TypeOK
    <2> QED BY <1>1, <1>3, <2>1, <2>2, <2>3, ControlStep
  <1>5. CASE RefreshNeeded(s)
    <2>1. draft' = [draft EXCEPT ![s][k] = f] /\ ~LockedFor(s, k, v)
      BY <1>5 DEF FlushRefresh
    <2>2. View(s)[k][v] # NoRow /\ View(s)[k][v] \in Row
      BY <1>1, <1>2, ViewType DEF IInv, SeenPresent, Rows
    <2>3. r \in Row /\ r.is_latest = View(s)[k][v].is_latest /\ r # NoRow
      BY <2>2, <1>2, RefreshType, RowIsNotNoRow
    <2> HIDE DEF r
    <2>4. f \in [Version -> Row \cup {NoRow}]
      BY <2>3, <1>2 DEF IInv, TypeOK, Rows
    <2>5. \A w \in Version : f[w] = IF w = v THEN r ELSE draft[s][k][w]
      BY <1>2 DEF IInv, TypeOK, Rows
    <2>6. \A w \in Version : Overlaid(k, f)[w] = IF w = v THEN r ELSE View(s)[k][w]
      BY <2>3, <2>5, <1>2 DEF Overlaid, View
    <2>7. PICK n \in 0..MaxVersion : \A w \in Version :
             /\ View(s)[k][w] # NoRow <=> w <= n
             /\ View(s)[k][w] # NoRow => (View(s)[k][w].is_latest <=> w = n)
      BY <1>2 DEF IInv, ViewChains, ChainOf
    <2>8. \A w \in Version :
             /\ Overlaid(k, f)[w] # NoRow <=> w <= n
             /\ Overlaid(k, f)[w] # NoRow => (Overlaid(k, f)[w].is_latest <=> w = n)
      BY <2>2, <2>3, <2>6, <2>7, <1>2
    <2>9. \A w \in Version : f[w] # NoRow /\ draft[s][k][w] = NoRow => ~LockedFor(s, k, w)
      BY <2>1, <2>5
    <2>10. \E m \in 0..MaxVersion : \A w \in Version :
             /\ Overlaid(k, f)[w] # NoRow <=> w <= m
             /\ Overlaid(k, f)[w] # NoRow => (Overlaid(k, f)[w].is_latest <=> w = m)
      BY <2>8
    <2> HIDE DEF k, v, f
    <2> QED BY <1>1, <1>2, <1>3, <2>1, <2>4, <2>9, <2>10, DraftStep
  <1> QED BY <1>4, <1>5
\* An insert extends the session's view by the version after its top and
\* clears the flag of the version it supersedes.
LEMMA FlushInsertKeeps ==
  ASSUME IInv, NEW s \in Sessions, FlushInsert(s)
  PROVE  IInv'
  <1> DEFINE k == Cand(s).key
             v == sess[s].seen
             new == NewRow(Cand(s), sess[s].started)
             f == [n \in Version |->
                     IF n = v + 1 THEN new
                     ELSE IF n = v THEN Superseded(View(s)[k][v])
                     ELSE draft[s][k][n]]
  <1>1. /\ sess[s].pc = "writing" /\ NextCandidate(s)
        /\ table' = table /\ clock' = clock
        /\ draft' = [draft EXCEPT ![s][k] = f]
        /\ table[k][v + 1] = NoRow /\ v + 1 <= MaxVersion
        /\ \A n \in {v + 1, v} \ {0} : ~LockedFor(s, k, n)
    BY DEF FlushInsert, NewVersion, Needs
  <1>2. /\ k \in Key /\ Cand(s) \in Candidate /\ sess[s].started \in Nat
        /\ v \in 0..MaxVersion /\ v + 1 \in Version
        /\ v # 0 => v \in Version
    BY <1>1, CandType, SessShape, ConstantsAssumption DEF IInv, WritingState, Version
  <1>3. PICK q \in ReadingState \cup [pc : {"committing"}] : sess' = [sess EXCEPT ![s] = q]
    BY <1>1, NextCandidateType DEF IInv
  <1>4. new \in Row /\ new.is_latest /\ new # NoRow
    BY <1>2, NewRowType, RowIsNotNoRow
  <1>5. v # 0 => View(s)[k][v] \in Row /\ View(s)[k][v] # NoRow
    BY <1>1, <1>2, ViewType DEF IInv, SeenPresent, Rows
  <1> DEFINE old == Superseded(View(s)[k][v])
  <1>6. v # 0 => old \in Row /\ ~old.is_latest /\ old # NoRow
    BY <1>5, SupersededType, RowIsNotNoRow
  <1> HIDE DEF new, old
  <1>7. \A n \in Version : f[n] = IF n = v + 1 THEN new ELSE IF n = v THEN old
                                  ELSE draft[s][k][n]
    BY DEF old
  <1>8. f \in [Version -> Row \cup {NoRow}]
    <2>1. \A n \in Version : draft[s][k][n] \in Row \cup {NoRow}
      BY <1>2 DEF IInv, TypeOK, Rows
    <2>2. \A n \in Version : n = v => v # 0
      BY DEF Version
    <2> QED BY <1>4, <1>6, <2>1, <2>2 DEF old
  <1>9. \A n \in Version : f[n] # NoRow /\ draft[s][k][n] = NoRow => ~LockedFor(s, k, n)
    <2>1. \A n \in Version : n # 0
      BY DEF Version
    <2> QED BY <1>1, <1>7, <2>1
  <1>10. PICK top \in 0..MaxVersion : \A w \in Version :
            /\ View(s)[k][w] # NoRow <=> w <= top
            /\ View(s)[k][w] # NoRow => (View(s)[k][w].is_latest <=> w = top)
    BY <1>2 DEF IInv, ViewChains, ChainOf
  <1>11. top >= v
    BY <1>2, <1>5, <1>10
  <1>12. top = v
    <2>1. draft[s][k][v + 1] = NoRow
      BY <1>1, <1>2 DEF IInv, SeenPresent, NewVersion
    <2>2. View(s)[k][v + 1] = NoRow
      BY <2>1, <1>1, <1>2 DEF View
    <2> QED BY <2>2, <1>2, <1>10, <1>11
  <1>13. \A w \in Version : Overlaid(k, f)[w] = IF w = v + 1 THEN new
                                             ELSE IF w = v THEN old ELSE View(s)[k][w]
    <2>1. \A n \in Version : n = v => v # 0
      BY DEF Version
    <2> QED BY <1>2, <1>4, <1>6, <1>7, <2>1 DEF Overlaid, View
  <1> HIDE DEF f
  <1>14. \A w \in Version :
            /\ Overlaid(k, f)[w] # NoRow <=> w <= v + 1
            /\ Overlaid(k, f)[w] # NoRow => (Overlaid(k, f)[w].is_latest <=> w = v + 1)
    <2>1. ASSUME NEW w \in Version
          PROVE  /\ Overlaid(k, f)[w] # NoRow <=> w <= v + 1
                 /\ Overlaid(k, f)[w] # NoRow =>
                      (Overlaid(k, f)[w].is_latest <=> w = v + 1)
      <3>1. CASE w = v + 1
        BY <3>1, <1>2, <1>4, <1>13
      <3>2. CASE w = v
        BY <3>2, <1>2, <1>6, <1>13 DEF Version
      <3>3. CASE w # v /\ w # v + 1
        BY <3>3, <1>2, <1>10, <1>12, <1>13 DEF Version
      <3> QED BY <3>1, <3>2, <3>3
    <2> QED BY <2>1
  <1>15. \E m \in 0..MaxVersion : \A w \in Version :
            /\ Overlaid(k, f)[w] # NoRow <=> w <= m
            /\ Overlaid(k, f)[w] # NoRow => (Overlaid(k, f)[w].is_latest <=> w = m)
    BY <1>2, <1>14 DEF Version
  <1> HIDE DEF k, v
  <1> QED BY <1>1, <1>2, <1>3, <1>8, <1>9, <1>15, DraftStep

\* A verification redrafts a committed row, without touching is_latest.
LEMMA FlushVerificationKeeps ==
  ASSUME IInv, NEW s \in Sessions, FlushVerification(s)
  PROVE  IInv'
  <1> DEFINE k == sess[s].key
             v == sess[s].seen
             r == verify_financial_result_manual(table[k][v], sess[s].loaded,
                                                 sess[s].doc, sess[s].reported)
             f == [draft[s][k] EXCEPT ![v] = r]
             q == [pc |-> "committing"]
  <1>1. /\ sess[s].pc = "verifying" /\ ~LockedFor(s, k, v)
        /\ draft' = [draft EXCEPT ![s][k] = f]
        /\ sess' = [sess EXCEPT ![s] = q]
        /\ table' = table /\ clock' = clock
    BY DEF FlushVerification
  <1>2. k \in Key /\ v \in Version /\ sess[s].doc \in Docs /\ sess[s].reported \in Figures
    BY <1>1, SessShape DEF IInv, VerifyingState
  <1>3. table[k][v] \in Row /\ table[k][v] # NoRow /\ draft[s] = NoRows
    BY <1>1, <1>2 DEF IInv, SeenPresent, DraftOwner, TypeOK, Rows
  <1>4. r \in Row /\ r.is_latest = table[k][v].is_latest /\ r # NoRow
    BY <1>2, <1>3, VerifyType, RowIsNotNoRow
  <1> HIDE DEF r
  <1>5. f \in [Version -> Row \cup {NoRow}]
    BY <1>2, <1>4 DEF IInv, TypeOK, Rows
  <1>6. \A w \in Version : f[w] = IF w = v THEN r ELSE NoRow
    BY <1>2, <1>3 DEF NoRows
  <1>7. \A w \in Version : Overlaid(k, f)[w] = IF w = v THEN r ELSE table[k][w]
    BY <1>2, <1>4, <1>6 DEF Overlaid
  <1>8. PICK n \in 0..MaxVersion : \A w \in Version :
           /\ table[k][w] # NoRow <=> w <= n
           /\ table[k][w] # NoRow => (table[k][w].is_latest <=> w = n)
    BY <1>2 DEF IInv, OneLatest, ChainOf
  <1>9. \E m \in 0..MaxVersion : \A w \in Version :
           /\ Overlaid(k, f)[w] # NoRow <=> w <= m
           /\ Overlaid(k, f)[w] # NoRow => (Overlaid(k, f)[w].is_latest <=> w = m)
    BY <1>3, <1>4, <1>7, <1>8
  <1>10. \A w \in Version : f[w] # NoRow /\ draft[s][k][w] = NoRow => ~LockedFor(s, k, w)
    BY <1>1, <1>6
  <1>11. q \in ReadingState \cup [pc : {"committing"}]
    OBVIOUS
  <1> HIDE DEF k, v, f, q
  <1> QED BY <1>1, <1>2, <1>5, <1>9, <1>10, <1>11, DraftStep
\* A rollback forgets a draft, which nobody else could see.
LEMMA RollbackKeeps ==
  ASSUME IInv, NEW s \in Sessions, Rollback(s)
  PROVE  IInv'
  <1>1. /\ sess'[s] = Idle /\ draft'[s] = NoRows /\ table' = table /\ clock' = clock
        /\ \A t \in Sessions : t # s => sess'[t] = sess[t] /\ draft'[t] = draft[t]
    BY DEF Rollback, IInv, TypeOK
  <1>2. TypeOK'
    BY DEF IInv, TypeOK, Rollback, Rows, NoRows, Idle
  <1>3. \A t \in Sessions : t # s => View(t)' = View(t)
    BY <1>1, ViewFrame
  <1>4. \A k \in Key : View(s)'[k] = table[k]
    BY <1>1 DEF View, NoRows, IInv, TypeOK, Rows
  <1>5. ViewChains'
    BY <1>3, <1>4 DEF IInv, ViewChains, OneLatest, ChainOf
  <1>6. DraftsDisjoint'
    BY <1>1 DEF IInv, DraftsDisjoint, NoRows
  <1>7. OneLatest' /\ DraftOwner'
    BY <1>1 DEF IInv, OneLatest, DraftOwner, ChainOf
  <1>8. SeenPresent'
    <2>1. ASSUME NEW t \in Sessions, t # s
          PROVE /\ sess'[t].pc = "writing" /\ sess'[t].seen # 0 =>
                      View(t)'[Head(sess'[t].todo).key][sess'[t].seen] # NoRow
                /\ sess'[t].pc = "writing" /\ sess'[t].seen + 1 \in Version =>
                      draft'[t][Head(sess'[t].todo).key][sess'[t].seen + 1] = NoRow
                /\ sess'[t].pc = "verifying" => table'[sess'[t].key][sess'[t].seen] # NoRow
      BY <1>1, <1>3, <2>1 DEF IInv, SeenPresent, Cand, NewVersion
    <2> QED BY <2>1, <1>1 DEF SeenPresent, Cand, NewVersion, Idle
  <1> QED BY <1>2, <1>5, <1>6, <1>7, <1>8 DEF IInv

\* The heart of the argument: installing a draft leaves the other sessions'
\* views well-formed.  Two sessions cannot both have extended a key, since both
\* would hold its next version; and the one that did holds the version it
\* superseded, so nobody else has redrafted that.
LEMMA CommitKeepsViews ==
  ASSUME IInv, NEW s \in Sessions, NEW t \in Sessions, s # t, NEW k \in Key
  PROVE  \E n \in 0..MaxVersion : \A v \in Version :
            LET row == IF draft[t][k][v] # NoRow THEN draft[t][k][v] ELSE View(s)[k][v]
            IN  /\ row # NoRow <=> v <= n
                /\ row # NoRow => (row.is_latest <=> v = n)
  <1> DEFINE tab(v) == table[k][v]
             ds(v) == draft[s][k][v]
             dt(v) == draft[t][k][v]
             vs(v) == IF ds(v) # NoRow THEN ds(v) ELSE tab(v)
             vt(v) == IF dt(v) # NoRow THEN dt(v) ELSE tab(v)
             row(v) == IF dt(v) # NoRow THEN dt(v) ELSE vs(v)
  <1>1. \A v \in Version : View(s)[k][v] = vs(v) /\ View(t)[k][v] = vt(v)
    BY DEF View
  <1>2. \A v \in Version : ds(v) = NoRow \/ dt(v) = NoRow
    BY DEF IInv, DraftsDisjoint
  <1>3. PICK n \in 0..MaxVersion : \A v \in Version :
           (tab(v) # NoRow <=> v <= n) /\ (tab(v) # NoRow => (tab(v).is_latest <=> v = n))
    BY DEF IInv, OneLatest, ChainOf
  <1>4. PICK m \in 0..MaxVersion : \A v \in Version :
           (vs(v) # NoRow <=> v <= m) /\ (vs(v) # NoRow => (vs(v).is_latest <=> v = m))
    BY <1>1 DEF IInv, ViewChains, ChainOf
  <1>5. PICK j \in 0..MaxVersion : \A v \in Version :
           (vt(v) # NoRow <=> v <= j) /\ (vt(v) # NoRow => (vt(v).is_latest <=> v = j))
    BY <1>1 DEF IInv, ViewChains, ChainOf
  <1> HIDE DEF tab, ds, dt
  <1>6. n <= m /\ n <= j
    BY <1>3, <1>4, <1>5, ConstantsAssumption DEF Version
  <1>7. \E x \in 0..MaxVersion : \A v \in Version :
           (row(v) # NoRow <=> v <= x) /\ (row(v) # NoRow => (row(v).is_latest <=> v = x))
    <2>1. CASE m = n
      <3>1. \A v \in Version :
              (row(v) # NoRow <=> v <= j) /\ (row(v) # NoRow => (row(v).is_latest <=> v = j))
        BY <2>1, <1>3, <1>4, <1>5, <1>6 DEF Version
      <3> QED BY <3>1
    <2>2. CASE m > n /\ j = n
      <3>1. ASSUME n # 0 PROVE dt(n) = NoRow
        <4>1. n \in Version
          BY <3>1, ConstantsAssumption DEF Version
        <4>2. ds(n) # NoRow
          BY <4>1, <2>2, <1>3, <1>4
        <4> QED BY <4>1, <4>2, <1>2
      <3>2. \A v \in Version : dt(v) # NoRow => v < n
        BY <3>1, <2>2, <1>5 DEF Version
      <3>3. \A v \in Version :
              (row(v) # NoRow <=> v <= m) /\ (row(v) # NoRow => (row(v).is_latest <=> v = m))
        <4>1. ASSUME NEW v \in Version, dt(v) # NoRow
              PROVE  row(v) = vt(v) /\ v < n /\ v < m /\ v # j
          BY <4>1, <3>2, <2>2 DEF Version
        <4>2. ASSUME NEW v \in Version, dt(v) = NoRow
              PROVE  row(v) = vs(v)
          BY <4>2
        <4> QED BY <4>1, <4>2, <1>4, <1>5 DEF Version
      <3> QED BY <3>3
    <2>3. CASE m > n /\ j > n
      <3>1. n + 1 \in Version /\ ~(n + 1 <= n) /\ n + 1 <= m /\ n + 1 <= j
        BY <2>3, ConstantsAssumption DEF Version
      <3>2. tab(n + 1) = NoRow
        BY <3>1, <1>3
      <3>3. ds(n + 1) # NoRow /\ dt(n + 1) # NoRow
        BY <3>1, <3>2, <1>4, <1>5
      <3> QED BY <3>1, <3>3, <1>2
    <2> QED BY <2>1, <2>2, <2>3, <1>6
  <1> QED BY <1>1, <1>7 DEF dt

\* A commit installs the draft.
LEMMA CommitKeeps ==
  ASSUME IInv, NEW s \in Sessions, Commit(s)
  PROVE  IInv'
  <1>1. /\ sess'[s] = Idle /\ draft'[s] = NoRows /\ table' = View(s) /\ clock' = clock
        /\ \A t \in Sessions : t # s => sess'[t] = sess[t] /\ draft'[t] = draft[t]
    BY DEF Commit, IInv, TypeOK
  <1>2. TypeOK'
    <2>1. table' \in Rows
      BY <1>1, ViewType DEF IInv
    <2> QED BY <2>1 DEF IInv, TypeOK, Commit, Rows, NoRows, Idle
  <1>3. \A k \in Key : View(s)'[k] = table'[k]
    BY <1>1, <1>2 DEF View, NoRows, TypeOK, Rows
  <1>4. ASSUME NEW t \in Sessions, t # s, NEW k \in Key, NEW v \in Version
        PROVE  View(t)'[k][v] =
                 IF draft[t][k][v] # NoRow THEN draft[t][k][v] ELSE View(s)[k][v]
    BY <1>1, <1>4 DEF View
  <1>5. OneLatest'
    BY <1>1 DEF IInv, ViewChains, OneLatest, ChainOf
  <1>6. ViewChains'
    <2>1. ASSUME NEW k \in Key PROVE ChainOf(View(s), k)'
      BY <2>1, <1>3, <1>5 DEF OneLatest, ChainOf
    <2>2. ASSUME NEW t \in Sessions, t # s, NEW k \in Key PROVE ChainOf(View(t), k)'
      BY <2>2, <1>4, CommitKeepsViews DEF ChainOf
    <2> QED BY <2>1, <2>2 DEF ViewChains
  <1>7. DraftsDisjoint'
    BY <1>1 DEF IInv, DraftsDisjoint, NoRows
  <1>8. DraftOwner'
    BY <1>1 DEF IInv, DraftOwner
  <1>9. ASSUME NEW t \in Sessions, t # s, NEW k \in Key, NEW v \in Version
        PROVE  /\ View(t)[k][v] # NoRow => View(t)'[k][v] # NoRow
               /\ table[k][v] # NoRow => table'[k][v] # NoRow
    BY <1>1, <1>4, <1>9 DEF View
  <1>10. SeenPresent'
    <2>1. ASSUME NEW t \in Sessions, t # s
          PROVE /\ sess'[t].pc = "writing" /\ sess'[t].seen # 0 =>
                      View(t)'[Head(sess'[t].todo).key][sess'[t].seen] # NoRow
                /\ sess'[t].pc = "writing" /\ sess'[t].seen + 1 \in Version =>
                      draft'[t][Head(sess'[t].todo).key][sess'[t].seen + 1] = NoRow
                /\ sess'[t].pc = "verifying" => table'[sess'[t].key][sess'[t].seen] # NoRow
      <3>1. sess'[t] = sess[t] /\ draft'[t] = draft[t]
        BY <1>1, <2>1
      <3>2. ASSUME sess[t].pc = "writing"
            PROVE  /\ Head(sess[t].todo).key \in Key
                   /\ sess[t].seen # 0 => sess[t].seen \in Version
        BY <3>2, CandType, SessShape DEF IInv, Cand, WritingState, Version
      <3>3. ASSUME sess[t].pc = "verifying"
            PROVE  sess[t].key \in Key /\ sess[t].seen \in Version
        BY <3>3, SessShape DEF IInv, VerifyingState
      <3> QED BY <2>1, <3>1, <3>2, <3>3, <1>9 DEF IInv, SeenPresent, Cand, NewVersion
    <2> QED BY <2>1, <1>1 DEF SeenPresent, Cand, NewVersion, Idle
  <1> QED BY <1>2, <1>5, <1>6, <1>7, <1>8, <1>10 DEF IInv

-----------------------------------------------------------------------------
(* The theorems.                                                           *)

\* No command has run: no rows, no drafts.
LEMMA InitIInv == Init => IInv
  <1> SUFFICES ASSUME Init PROVE IInv
    OBVIOUS
  <1>1. TypeOK
    BY ConstantsAssumption DEF Init, TypeOK, Rows, NoRows, Idle, Instants
  <1>2. \A k \in Key : ChainOf(NoRows, k)
    BY ConstantsAssumption DEF ChainOf, NoRows, Version
  <1>3. \A s \in Sessions : View(s) = NoRows
    BY DEF Init, View, NoRows
  <1>4. OneLatest /\ ViewChains
    BY <1>2, <1>3 DEF Init, OneLatest, ViewChains
  <1>5. DraftsDisjoint /\ DraftOwner /\ SeenPresent
    BY DEF Init, DraftsDisjoint, DraftOwner, SeenPresent, NoRows, Idle
  <1> QED BY <1>1, <1>4, <1>5 DEF IInv

\* A step that moves nothing but the clock keeps the invariant.
LEMMA ClockKeeps ==
  ASSUME IInv, table' = table, sess' = sess, draft' = draft, clock' \in Instants
  PROVE  IInv'
  <1>1. \A s \in Sessions : View(s)' = View(s)
    BY ViewFrame
  <1>2. TypeOK' /\ OneLatest' /\ DraftsDisjoint' /\ DraftOwner'
    BY DEF IInv, TypeOK, OneLatest, DraftsDisjoint, DraftOwner
  <1>3. ViewChains'
    BY <1>1 DEF IInv, ViewChains, ChainOf
  <1>4. SeenPresent'
    BY <1>1 DEF IInv, SeenPresent, Cand, NewVersion
  <1> QED BY <1>2, <1>3, <1>4 DEF IInv

\* Every step of every command keeps the invariant.
LEMMA NextIInv == IInv /\ [Next]_vars => IInv'
  <1> SUFFICES ASSUME IInv, [Next]_vars PROVE IInv'
    OBVIOUS
  <1>1. ASSUME NEW s \in Sessions, SyncBegin(s) PROVE IInv'
    BY <1>1, SyncBeginKeeps
  <1>2. ASSUME NEW s \in Sessions, TranscribeBegin(s) PROVE IInv'
    BY <1>2, TranscribeBeginKeeps
  <1>3. ASSUME NEW s \in Sessions, VerifyBegin(s) PROVE IInv'
    BY <1>3, VerifyBeginKeeps
  <1>4. ASSUME NEW s \in Sessions, ReadLatest(s) PROVE IInv'
    BY <1>4, ReadLatestKeeps
  <1>5. ASSUME NEW s \in Sessions, FlushRefresh(s) PROVE IInv'
    BY <1>5, FlushRefreshKeeps
  <1>6. ASSUME NEW s \in Sessions, FlushInsert(s) PROVE IInv'
    BY <1>6, FlushInsertKeeps
  <1>7. ASSUME NEW s \in Sessions,
               UniqueViolation(s) \/ VersionBound(s) \/ Abort(s) \/ DeadlockVictim(s)
        PROVE  IInv'
    BY <1>7, RollbackKeeps DEF UniqueViolation, VersionBound, Abort, DeadlockVictim
  <1>8. ASSUME NEW s \in Sessions, FlushVerification(s) PROVE IInv'
    BY <1>8, FlushVerificationKeeps
  <1>9. ASSUME NEW s \in Sessions, Commit(s) PROVE IInv'
    BY <1>9, CommitKeeps
  <1>10. CASE Tick
    <2>1. clock' \in Instants
      BY <1>10, ConstantsAssumption DEF Tick, IInv, TypeOK, Instants
    <2>2. table' = table /\ sess' = sess /\ draft' = draft
      BY <1>10 DEF Tick
    <2> QED BY <2>1, <2>2, ClockKeeps
  <1>11. CASE UNCHANGED vars
    BY <1>11, ClockKeeps DEF vars, IInv, TypeOK
  <1> QED
    BY <1>1, <1>2, <1>3, <1>4, <1>5, <1>6, <1>7, <1>8, <1>9, <1>10, <1>11 DEF Next

\* The inductive invariant holds in every reachable state.
THEOREM Invariance == Spec => []IInv
  BY InitIInv, NextIInv, PTL DEF Spec

\* Every reachable state is well-typed.
THEOREM TypeCorrect == Spec => []TypeOK
  <1>1. IInv => TypeOK
    BY DEF IInv
  <1> QED BY <1>1, Invariance, PTL

\* However commands interleave, abort and deadlock, the committed versions of
\* every key are contiguous and exactly the newest of them is the latest.
THEOREM ExactlyOneLatest == Spec => []OneLatest
  <1>1. IInv => OneLatest
    BY DEF IInv
  <1> QED BY <1>1, Invariance, PTL
-----------------------------------------------------------------------------
(* History.  A draft of a committed row changes its provenance, its         *)
(* verification or its flag, but never the values it reports.              *)

DraftsKeepValues ==
    \A s \in Sessions : \A k \in Key : \A v \in Version :
        draft[s][k][v] # NoRow /\ table[k][v] # NoRow =>
            Values(draft[s][k][v]) = Values(table[k][v])

\* What a session sees of a committed row has the committed values.
LEMMA ViewValues ==
  ASSUME DraftsKeepValues, NEW s \in Sessions, NEW k \in Key, NEW v \in Version,
         table[k][v] # NoRow
  PROVE  View(s)[k][v] # NoRow /\ Values(View(s)[k][v]) = Values(table[k][v])
  BY DEF DraftsKeepValues, View

LEMMA NextDraftsKeepValues ==
  ASSUME IInv, DraftsKeepValues, [Next]_vars
  PROVE  DraftsKeepValues'
  <1>1. ASSUME table' = table, draft' = draft PROVE DraftsKeepValues'
    BY <1>1 DEF DraftsKeepValues
  <1>2. ASSUME NEW s \in Sessions, FlushRefresh(s) PROVE DraftsKeepValues'
    <2> DEFINE k == Cand(s).key
               v == sess[s].seen
               r == _refresh_provenance(View(s)[k][v], sess[s].loaded, Cand(s))
               f == [draft[s][k] EXCEPT ![v] = r]
    <2>1. /\ sess[s].pc = "writing" /\ v # 0 /\ table' = table
          /\ RefreshNeeded(s) => draft' = [draft EXCEPT ![s][k] = f]
          /\ ~RefreshNeeded(s) => draft' = draft
      BY <1>2 DEF FlushRefresh, Unchanged
    <2>2. k \in Key /\ v \in Version
      BY <2>1, CandType, SessShape, ConstantsAssumption DEF IInv, WritingState, Version
    <2>3. View(s)[k][v] \in Row
      BY <2>1, <2>2, ViewType DEF IInv, SeenPresent, Rows
    <2>4. Values(r) = Values(View(s)[k][v])
      BY <2>3 DEF Values, _refresh_provenance, Row
    <2> HIDE DEF r
    <2>5. \A w \in Version : f[w] = IF w = v THEN r ELSE draft[s][k][w]
      BY <2>2 DEF IInv, TypeOK, Rows
    <2>6. \A w \in Version : f[w] # NoRow /\ table[k][w] # NoRow =>
             Values(f[w]) = Values(table[k][w])
      BY <2>2, <2>4, <2>5, ViewValues DEF DraftsKeepValues
    <2> HIDE DEF f, k, v
    <2> QED
      <3>1. CASE RefreshNeeded(s)
        <4>1. \A t \in Sessions : \A kk \in Key :
                draft'[t][kk] = IF t = s /\ kk = k THEN f ELSE draft[t][kk]
          BY <3>1, <2>1, <2>2 DEF IInv, TypeOK, Rows
        <4> QED BY <2>1, <2>6, <4>1 DEF DraftsKeepValues
      <3> QED BY <2>1, <3>1, <1>1
  <1>3. ASSUME NEW s \in Sessions, FlushInsert(s) PROVE DraftsKeepValues'
    <2> DEFINE k == Cand(s).key
               v == sess[s].seen
               f == [n \in Version |->
                     IF n = v + 1 THEN NewRow(Cand(s), sess[s].started)
                     ELSE IF n = v THEN Superseded(View(s)[k][v])
                     ELSE draft[s][k][n]]
    <2>1. /\ sess[s].pc = "writing" /\ table' = table
          /\ draft' = [draft EXCEPT ![s][k] = f] /\ table[k][v + 1] = NoRow
      BY <1>3 DEF FlushInsert, NewVersion
    <2>2. k \in Key /\ v \in 0..MaxVersion
      BY <2>1, CandType, SessShape DEF IInv, WritingState
    <2>3. ASSUME v \in Version PROVE Values(Superseded(View(s)[k][v])) = Values(View(s)[k][v])
      <3>0. v # 0
        BY <2>3 DEF Version
      <3>1. View(s)[k][v] \in Row
        BY <2>1, <2>2, <2>3, <3>0, ViewType DEF IInv, SeenPresent, Rows
      <3> QED BY <3>1 DEF Values, Superseded, Row
    <2>4. \A w \in Version : f[w] # NoRow /\ table[k][w] # NoRow =>
             Values(f[w]) = Values(table[k][w])
      <3>1. ASSUME NEW w \in Version, table[k][w] # NoRow, f[w] # NoRow
            PROVE  Values(f[w]) = Values(table[k][w])
        <4>1. w # v + 1
          BY <3>1, <2>1
        <4>2. CASE w = v
          BY <4>2, <3>1, <2>2, <2>3, ViewValues
        <4>3. CASE w # v
          BY <4>1, <4>3, <3>1, <2>2 DEF DraftsKeepValues
        <4> QED BY <4>2, <4>3
      <3> QED BY <3>1
    <2> HIDE DEF f, k, v
    <2>5. \A t \in Sessions : \A kk \in Key :
            draft'[t][kk] = IF t = s /\ kk = k THEN f ELSE draft[t][kk]
      BY <2>1, <2>2 DEF IInv, TypeOK, Rows
    <2> QED BY <2>1, <2>4, <2>5 DEF DraftsKeepValues
  <1>4. ASSUME NEW s \in Sessions, FlushVerification(s) PROVE DraftsKeepValues'
    <2> DEFINE k == sess[s].key
               v == sess[s].seen
               r == verify_financial_result_manual(table[k][v], sess[s].loaded,
                                                   sess[s].doc, sess[s].reported)
               f == [draft[s][k] EXCEPT ![v] = r]
    <2>1. /\ sess[s].pc = "verifying" /\ table' = table
          /\ draft' = [draft EXCEPT ![s][k] = f]
      BY <1>4 DEF FlushVerification
    <2>2. k \in Key /\ v \in Version
      BY <2>1, SessShape DEF IInv, VerifyingState
    <2>3. table[k][v] \in Row
      BY <2>1, <2>2 DEF IInv, SeenPresent, TypeOK, Rows
    <2>4. Values(r) = Values(table[k][v])
      BY <2>3 DEF Values, verify_financial_result_manual, Row
    <2> HIDE DEF r
    <2>5. \A w \in Version : f[w] = IF w = v THEN r ELSE draft[s][k][w]
      BY <2>2 DEF IInv, TypeOK, Rows
    <2>6. \A w \in Version : f[w] # NoRow /\ table[k][w] # NoRow =>
             Values(f[w]) = Values(table[k][w])
      BY <2>2, <2>4, <2>5 DEF DraftsKeepValues
    <2> HIDE DEF f, k, v
    <2>7. \A t \in Sessions : \A kk \in Key :
            draft'[t][kk] = IF t = s /\ kk = k THEN f ELSE draft[t][kk]
      BY <2>1, <2>2 DEF IInv, TypeOK, Rows
    <2> QED BY <2>1, <2>6, <2>7 DEF DraftsKeepValues
  <1>5. ASSUME NEW s \in Sessions, Rollback(s) PROVE DraftsKeepValues'
    <2>1. table' = table /\ draft'[s] = NoRows
          /\ \A t \in Sessions : t # s => draft'[t] = draft[t]
      BY <1>5 DEF Rollback, IInv, TypeOK
    <2> QED BY <2>1 DEF DraftsKeepValues, NoRows
  <1>6. ASSUME NEW s \in Sessions, Commit(s) PROVE DraftsKeepValues'
    <2>1. table' = View(s) /\ draft'[s] = NoRows
          /\ \A t \in Sessions : t # s => draft'[t] = draft[t]
      BY <1>6 DEF Commit, IInv, TypeOK
    <2>2. ASSUME NEW t \in Sessions, t # s, NEW k \in Key, NEW v \in Version,
                 draft[t][k][v] # NoRow
          PROVE  View(s)[k][v] = table[k][v]
      BY <2>2 DEF IInv, DraftsDisjoint, View
    <2> QED BY <2>1, <2>2 DEF DraftsKeepValues, NoRows
  <1> QED
    BY <1>1, <1>2, <1>3, <1>4, <1>5, <1>6
    DEF Next, vars, SyncBegin, TranscribeBegin, VerifyBegin, ReadLatest, Tick,
        UniqueViolation, VersionBound, Abort, DeadlockVictim

\* Only a commit changes the table, and what it installs is the session's view.
LEMMA TableStep ==
  ASSUME [Next]_vars
  PROVE  table' = table \/ \E s \in Sessions : table' = View(s)
  BY DEF Next, vars, SyncBegin, TranscribeBegin, VerifyBegin, ReadLatest, FlushRefresh,
         FlushInsert, UniqueViolation, VersionBound, FlushVerification, Commit, Abort,
         DeadlockVictim, Rollback, Tick

LEMMA HistoryKept ==
  ASSUME IInv, DraftsKeepValues, [Next]_vars
  PROVE  HistoryStep
  <1>1. CASE table' = table
    BY <1>1 DEF HistoryStep
  <1>2. ASSUME NEW s \in Sessions, table' = View(s) PROVE HistoryStep
    <2>1. ASSUME NEW k \in Key, NEW v \in Version, table[k][v] # NoRow
          PROVE  /\ table'[k][v] # NoRow
                 /\ Values(table'[k][v]) = Values(table[k][v])
                 /\ table'[k][v].is_latest => table[k][v].is_latest
      <3>1. table'[k][v] # NoRow /\ Values(table'[k][v]) = Values(table[k][v])
        BY <1>2, <2>1, ViewValues
      <3>2. PICK n \in 0..MaxVersion : \A w \in Version :
               /\ table[k][w] # NoRow <=> w <= n
               /\ table[k][w] # NoRow => (table[k][w].is_latest <=> w = n)
        BY DEF IInv, OneLatest, ChainOf
      <3>3. PICK m \in 0..MaxVersion : \A w \in Version :
               /\ View(s)[k][w] # NoRow <=> w <= m
               /\ View(s)[k][w] # NoRow => (View(s)[k][w].is_latest <=> w = m)
        BY DEF IInv, ViewChains, ChainOf
      <3>4. n # 0 => n <= m
        <4>1. SUFFICES ASSUME n # 0 PROVE n <= m
          OBVIOUS
        <4>2. n \in Version /\ table[k][n] # NoRow
          BY <4>1, <3>2, ConstantsAssumption DEF Version
        <4> QED BY <4>2, <3>3 DEF View
      <3>5. ASSUME table'[k][v].is_latest PROVE v = n
        BY <3>5, <1>2, <2>1, <3>1, <3>2, <3>3, <3>4 DEF Version
      <3> QED BY <2>1, <3>1, <3>2, <3>5
    <2> QED BY <2>1 DEF HistoryStep
  <1> QED BY <1>1, <1>2, TableStep

\* No command, however it interleaves with others, deletes a committed version,
\* changes what it reports or makes a superseded version the latest again.
THEOREM HistoryIsPreserved == Spec => HistoryPreserved
  <1>1. Init => DraftsKeepValues
    BY DEF Init, DraftsKeepValues, NoRows
  <1>2. IInv /\ DraftsKeepValues /\ [Next]_vars => DraftsKeepValues'
    BY NextDraftsKeepValues
  <1>3. IInv /\ DraftsKeepValues /\ [Next]_vars => [HistoryStep]_vars
    BY HistoryKept
  <1> QED BY <1>1, <1>2, <1>3, Invariance, PTL DEF Spec, HistoryPreserved

-----------------------------------------------------------------------------
(* What is read stays true while a session waits.  A row another session   *)
(* is about to write may be refreshed or verified in between, but its       *)
(* values cannot change, so a comparison made before the wait still holds   *)
(* after it.  Every session's view, not the table only, must have differing *)
(* neighbours and defensible instants: a commit installs a view.            *)

\* Neighbouring versions of a chain differ.
Differ(rows, k) ==
    \A v \in Version : (v > 1 /\ rows[k][v] # NoRow /\ rows[k][v-1] # NoRow)
                          => Values(rows[k][v]) # Values(rows[k][v-1])

ViewsDiffer == \A s \in Sessions : \A k \in Key : Differ(View(s), k)

\* The values loaded are those of the row.
LoadedValues ==
    \A s \in Sessions :
        /\ sess[s].pc = "writing" /\ sess[s].seen # 0 =>
              Values(sess[s].loaded) = Values(View(s)[Cand(s).key][sess[s].seen])
        /\ sess[s].pc = "verifying" =>
              Values(sess[s].loaded) = Values(table[sess[s].key][sess[s].seen])

\* The instant of a row is vouched for.
Defended(r) ==
    \/ r.available_at >= r.ingested_at
    \/ r.result_date # NONE /\ r.available_at = DayEnd(r.result_date)
    \/ \E d \in Docs : r.available_at = Published[d]

DraftsDefended ==
    \A s \in Sessions : \A k \in Key : \A v \in Version :
        draft[s][k][v] # NoRow => Defended(draft[s][k][v])

\* A candidate's instant is vouched for, and one born verified has its filing.
Honest(c) ==
    /\ c.available_at # NONE =>
         \/ c.result_date # NONE /\ c.available_at = DayEnd(c.result_date)
         \/ \E d \in Docs : c.available_at = Published[d]
    /\ c.status = "verified" => c.verification_document # NONE

TodoHonest ==
    \A s \in Sessions : sess[s].pc \in {"reading", "writing"} =>
        \A i \in 1..Len(sess[s].todo) : Honest(sess[s].todo[i])

\* upsert_versioned: re-ingesting unchanged values is never a version of its
\* own, so neighbouring versions report different values.
RestatementsDiffer ==
    \A k \in Key : \A v \in Version :
        (v > 1 /\ table[k][v] # NoRow /\ table[k][v-1] # NoRow)
           => Values(table[k][v]) # Values(table[k][v-1])

Kept == IInv /\ DraftsKeepValues
Evidence == RestatementsDiffer /\ ViewsDiffer /\ LoadedValues
            /\ DefensibleAvailability /\ DraftsDefended /\ TodoHonest

LEMMA DefendedTable ==
  DefensibleAvailability <=> \A k \in Key : \A v \in Version :
                                table[k][v] # NoRow => Defended(table[k][v])
  BY DEF DefensibleAvailability, Defended

LEMMA NormalizeHonest ==
  ASSUME NEW c \in NseRows
  PROVE  Honest(c)
  <1>1. PICK p \in Periods, f \in Figures, date \in ResultDates : c = normalize(p, f, date)
    BY DEF NseRows
  <1> QED
    BY <1>1 DEF normalize, _derive_provenance_timestamps, Honest

LEMMA TranscriptionHonest ==
  ASSUME NEW p \in Periods, NEW f \in Figures, NEW d \in Docs
  PROVE  Honest(transcription(p, f, d))
  BY ConstantsAssumption DEF transcription, Honest

LEMMA CandHonest ==
  ASSUME TypeOK, TodoHonest, NEW s \in Sessions, sess[s].pc = "writing"
  PROVE  Honest(Cand(s))
  <1>1. sess[s].todo \in Seq(Candidate) /\ Len(sess[s].todo) > 0
    BY CandType DEF Queue
  <1>2. 1 \in 1..Len(sess[s].todo) /\ Cand(s) = sess[s].todo[1]
    BY <1>1 DEF Cand
  <1> QED BY <1>2 DEF TodoHonest

\* How a flush of session s may leave row (k, w): revised in place, or inserted.
Redrafted(s, k, w, new) ==
    /\ new # NoRow /\ View(s)[k][w] # NoRow
    /\ Values(new) = Values(View(s)[k][w])
    /\ Defended(View(s)[k][w]) => Defended(new)
Inserted(s, k, w, new) ==
    /\ new # NoRow /\ View(s)[k][w] = NoRow /\ w = NewVersion(s)
    /\ w > 1 /\ View(s)[k][w-1] # NoRow => Values(new) # Values(View(s)[k][w-1])
    /\ Defended(new)
Flushed(s) ==
    /\ table' = table
    /\ \A t \in Sessions : t # s => draft'[t] = draft[t] /\ sess'[t] = sess[t]
    /\ sess'[s].pc \in {"reading", "committing"}
    /\ \A k \in Key : \A w \in Version :
          \/ draft'[s][k][w] = draft[s][k][w]
          \/ Redrafted(s, k, w, draft'[s][k][w])
          \/ Inserted(s, k, w, draft'[s][k][w])

\* A flush writes one chain of its session.
LEMMA FlushOfChain ==
  ASSUME Kept, NEW s \in Sessions, NEW k \in Key, NEW f \in [Version -> Row \cup {NoRow}],
         NEW q \in ReadingState \cup [pc : {"committing"}],
         table' = table, sess' = [sess EXCEPT ![s] = q],
         draft' = [draft EXCEPT ![s][k] = f],
         \A w \in Version : \/ f[w] = draft[s][k][w]
                            \/ Redrafted(s, k, w, f[w]) \/ Inserted(s, k, w, f[w])
  PROVE  Flushed(s)
  <1>1. \A t \in Sessions : t # s => draft'[t] = draft[t] /\ sess'[t] = sess[t]
    BY DEF Kept, IInv, TypeOK
  <1>2. sess'[s] = q /\ q.pc \in {"reading", "committing"}
    BY DEF Kept, IInv, TypeOK, ReadingState
  <1>3. \A j \in Key : draft'[s][j] = IF j = k THEN f ELSE draft[s][j]
    BY DEF Kept, IInv, TypeOK, Rows
  <1> QED BY <1>1, <1>2, <1>3 DEF Flushed

\* What a view sees is defended.
LEMMA ViewDefended ==
  ASSUME Kept, Evidence, NEW s \in Sessions, NEW k \in Key, NEW v \in Version,
         View(s)[k][v] # NoRow
  PROVE  View(s)[k][v] \in Row /\ Defended(View(s)[k][v])
  <1>1. View(s)[k][v] \in Row
    BY ViewType DEF Kept, IInv, Rows
  <1>2. Defended(View(s)[k][v])
    BY DefendedTable DEF View, Evidence, DraftsDefended
  <1> QED BY <1>1, <1>2

LEMMA RefreshedFields ==
  ASSUME NEW old \in Row, NEW l, NEW c
  PROVE  LET r == _refresh_provenance(old, l, c)
         IN  /\ r.fig = old.fig /\ r.result_date = old.result_date
             /\ r.ingested_at = old.ingested_at
             /\ \/ r.available_at = old.available_at
                \/ c.available_at # NONE /\ r.available_at = c.available_at
  BY DEF Row, _refresh_provenance, Assign

\* A refresh: the values compared equal when loaded, and the row has them still,
\* so the instant the candidate derives from its result_date is the row's too.
LEMMA RefreshFlushes ==
  ASSUME Kept, Evidence, NEW s \in Sessions, FlushRefresh(s)
  PROVE  Flushed(s)
  <1> DEFINE k == Cand(s).key
             v == sess[s].seen
             old == View(s)[k][v]
             r == _refresh_provenance(old, sess[s].loaded, Cand(s))
             f == [draft[s][k] EXCEPT ![v] = r]
  <1>1. /\ sess[s].pc = "writing" /\ v # 0 /\ NextCandidate(s) /\ table' = table
        /\ RefreshNeeded(s) => draft' = [draft EXCEPT ![s][k] = f]
        /\ ~RefreshNeeded(s) => draft' = draft
        /\ Values(sess[s].loaded) = Values(Cand(s))
    BY DEF FlushRefresh, Unchanged, _values_equal
  <1>2. k \in Key /\ Cand(s) \in Candidate /\ v \in Version
    BY <1>1, CandType, SessShape, ConstantsAssumption DEF Kept, IInv, WritingState, Version
  <1>3. PICK q \in ReadingState \cup [pc : {"committing"}] : sess' = [sess EXCEPT ![s] = q]
    BY <1>1, NextCandidateType DEF Kept, IInv
  <1>4. q.pc \in {"reading", "committing"}
    BY DEF ReadingState
  <1>5. CASE ~RefreshNeeded(s)
    BY <1>1, <1>3, <1>4, <1>5 DEF Flushed, Kept, IInv, TypeOK
  <1>6. CASE RefreshNeeded(s)
    <2>1. old # NoRow /\ old \in Row /\ Defended(old)
      BY <1>1, <1>2, ViewDefended DEF Kept, IInv, SeenPresent
    <2>2. r \in Row /\ r # NoRow
      BY <1>2, <2>1, RefreshType, RowIsNotNoRow
    <2> HIDE DEF old
    <2>3. /\ r.fig = old.fig /\ r.result_date = old.result_date /\ r.ingested_at = old.ingested_at
          /\ \/ r.available_at = old.available_at
             \/ Cand(s).available_at # NONE /\ r.available_at = Cand(s).available_at
      BY <2>1, RefreshedFields
    <2>4. Values(r) = Values(old)
      BY <2>3 DEF Values
    <2>5. Cand(s).result_date = old.result_date
      <3>1. Values(Cand(s)) = Values(old)
        BY <1>1 DEF Evidence, LoadedValues, old
      <3> QED BY <3>1 DEF Values
    <2>6. Defended(r)
      <3>1. Honest(Cand(s))
        BY <1>1, CandHonest DEF Kept, IInv, Evidence
      <3> HIDE DEF r
      <3> QED BY <2>1, <2>3, <2>5, <3>1 DEF Defended, Honest
    <2> HIDE DEF r
    <2>7. Redrafted(s, k, v, r)
      BY <2>1, <2>2, <2>4, <2>6 DEF Redrafted, old
    <2>8. \A w \in Version : f[w] = IF w = v THEN r ELSE draft[s][k][w]
      BY <1>2 DEF Kept, IInv, TypeOK, Rows
    <2>9. f \in [Version -> Row \cup {NoRow}]
      BY <1>2, <2>2 DEF Kept, IInv, TypeOK, Rows
    <2>10. draft' = [draft EXCEPT ![s][k] = f]
      BY <1>1, <1>6
    <2> HIDE DEF f, k, v
    <2>11. \A w \in Version : \/ f[w] = draft[s][k][w]
                              \/ Redrafted(s, k, w, f[w]) \/ Inserted(s, k, w, f[w])
      BY <2>7, <2>8
    <2>12. k \in Key /\ table' = table
      BY <1>1, <1>2
    <2> QED BY <1>3, <2>9, <2>10, <2>11, <2>12, FlushOfChain
  <1> QED BY <1>5, <1>6

\* An insert: the version before the new one reports other values.
LEMMA InsertFlushes ==
  ASSUME Kept, Evidence, NEW s \in Sessions, FlushInsert(s)
  PROVE  Flushed(s)
  <1> DEFINE k == Cand(s).key
             v == sess[s].seen
             seen == View(s)[k][v]
             new == NewRow(Cand(s), sess[s].started)
             old == Superseded(seen)
             f == [n \in Version |-> IF n = v + 1 THEN new ELSE IF n = v THEN old
                                     ELSE draft[s][k][n]]
  <1>1. /\ sess[s].pc = "writing" /\ NextCandidate(s) /\ table' = table
        /\ draft' = [draft EXCEPT ![s][k] = f] /\ table[k][v + 1] = NoRow
        /\ ~Unchanged(s) /\ v + 1 <= MaxVersion
    BY DEF FlushInsert, NewVersion
  <1> HIDE DEF f, new, old, seen
  <1>2. /\ k \in Key /\ Cand(s) \in Candidate /\ sess[s].started \in Nat
        /\ v \in Nat /\ v + 1 \in Version
        /\ v # 0 => v \in Version
    BY <1>1, CandType, SessShape, ConstantsAssumption DEF Kept, IInv, WritingState, Version
  <1>3. PICK q \in ReadingState \cup [pc : {"committing"}] : sess' = [sess EXCEPT ![s] = q]
    BY <1>1, NextCandidateType DEF Kept, IInv
  <1>5. new \in Row /\ new # NoRow /\ Values(new) = Values(Cand(s)) /\ Defended(new)
    <2>1. new \in Row /\ new # NoRow
      BY <1>2, NewRowType, RowIsNotNoRow DEF new
    <2>2. Values(new) = Values(Cand(s))
      BY DEF NewRow, Values, new
    <2>3. Honest(Cand(s))
      BY <1>1, CandHonest DEF Kept, IInv, Evidence
    <2>4. /\ new.result_date = Cand(s).result_date /\ new.ingested_at = sess[s].started
          /\ new.available_at = IF Cand(s).available_at # NONE THEN Cand(s).available_at
                                ELSE sess[s].started
      BY DEF NewRow, new
    <2>5. Defended(new)
      BY <1>2, <2>3, <2>4 DEF Defended, Honest
    <2> QED BY <2>1, <2>2, <2>5
  <1>6. v # 0 => /\ seen # NoRow /\ seen \in Row /\ Defended(seen)
                 /\ Values(seen) # Values(Cand(s))
    <2>1. SUFFICES ASSUME v # 0
                   PROVE  seen # NoRow /\ seen \in Row /\ Defended(seen)
                          /\ Values(seen) # Values(Cand(s))
      OBVIOUS
    <2>2. seen # NoRow /\ seen \in Row /\ Defended(seen)
      <3>1. v \in Version /\ View(s)[k][v] # NoRow
        BY <1>1, <1>2, <2>1 DEF Kept, IInv, SeenPresent
      <3> QED BY <1>2, <3>1, ViewDefended DEF seen
    <2>3. Values(sess[s].loaded) # Values(Cand(s))
      BY <1>1, <2>1 DEF Unchanged, _values_equal
    <2>4. Values(sess[s].loaded) = Values(seen)
      BY <1>1, <2>1 DEF Evidence, LoadedValues, seen
    <2> QED BY <2>2, <2>3, <2>4
  <1>7. v # 0 => old \in Row /\ Redrafted(s, k, v, old)
    <2>1. SUFFICES ASSUME v # 0 PROVE old \in Row /\ Redrafted(s, k, v, old)
      OBVIOUS
    <2>2. old \in Row /\ old # NoRow
      BY <1>6, <2>1, SupersededType, RowIsNotNoRow DEF old
    <2>3. /\ old.fig = seen.fig /\ old.result_date = seen.result_date
          /\ old.ingested_at = seen.ingested_at /\ old.available_at = seen.available_at
      BY <1>6, <2>1 DEF Row, Superseded, old
    <2> QED BY <1>6, <2>1, <2>2, <2>3 DEF Redrafted, Values, Defended, seen
  <1>8. Inserted(s, k, v + 1, new)
    <2>1. draft[s][k][v + 1] = NoRow
      <3>1. sess[s].pc = "writing" /\ NewVersion(s) = v + 1 /\ v + 1 \in Version
        BY <1>1, <1>2 DEF NewVersion
      <3> QED BY <3>1 DEF Kept, IInv, SeenPresent
    <2>2. View(s)[k][v + 1] = NoRow
      BY <1>1, <1>2, <2>1 DEF View
    <2>3. (v + 1) - 1 = v /\ (v + 1 > 1 => v # 0)
      BY <1>2
    <2>4. v + 1 = NewVersion(s)
      BY DEF NewVersion
    <2> HIDE DEF k, v
    <2> QED BY <1>5, <1>6, <2>2, <2>3, <2>4 DEF Inserted, seen
  <1>9. \A w \in Version : w = v => v # 0
    BY DEF Version
  <1>10. \A w \in Version : f[w] = IF w = v + 1 THEN new ELSE IF w = v THEN old
                                   ELSE draft[s][k][w]
    BY DEF f
  <1>11. f \in [Version -> Row \cup {NoRow}]
    <2>1. \A n \in Version : draft[s][k][n] \in Row \cup {NoRow}
      BY <1>2 DEF Kept, IInv, TypeOK, Rows
    <2> QED BY <1>5, <1>7, <1>9, <2>1 DEF f
  <1> HIDE DEF k, v
  <1>12. \A w \in Version : \/ f[w] = draft[s][k][w]
                            \/ Redrafted(s, k, w, f[w]) \/ Inserted(s, k, w, f[w])
    BY <1>7, <1>8, <1>9, <1>10
  <1>13. k \in Key /\ table' = table /\ draft' = [draft EXCEPT ![s][k] = f]
    BY <1>1, <1>2
  <1> QED BY <1>3, <1>11, <1>12, <1>13, FlushOfChain

\* A verification: the instant becomes the publication of its document, if any.
LEMMA VerificationFlushes ==
  ASSUME Kept, Evidence, NEW s \in Sessions, FlushVerification(s)
  PROVE  Flushed(s)
  <1> DEFINE k == sess[s].key
             v == sess[s].seen
             old == table[k][v]
             r == verify_financial_result_manual(old, sess[s].loaded, sess[s].doc,
                                                 sess[s].reported)
             f == [draft[s][k] EXCEPT ![v] = r]
             q == [pc |-> "committing"]
  <1>1. /\ sess[s].pc = "verifying" /\ table' = table
        /\ draft' = [draft EXCEPT ![s][k] = f] /\ sess' = [sess EXCEPT ![s] = q]
    BY DEF FlushVerification
  <1>2. k \in Key /\ v \in Version /\ sess[s].doc \in Docs /\ sess[s].reported \in Figures
    BY <1>1, SessShape DEF Kept, IInv, VerifyingState
  <1>3. /\ old \in Row /\ old # NoRow /\ View(s)[k][v] = old
    <2>1. old \in Row /\ old # NoRow
      BY <1>1, <1>2 DEF Kept, IInv, SeenPresent, TypeOK, Rows
    <2>2. draft[s] = NoRows
      BY <1>1 DEF Kept, IInv, DraftOwner
    <2> QED BY <1>2, <2>1, <2>2 DEF View, NoRows
  <1>4. r \in Row /\ r # NoRow
    BY <1>2, <1>3, VerifyType, RowIsNotNoRow
  <1>5. /\ r.fig = old.fig /\ r.result_date = old.result_date /\ r.ingested_at = old.ingested_at
        /\ r.available_at = old.available_at \/ r.available_at = Published[sess[s].doc]
    BY <1>3 DEF Row, verify_financial_result_manual, Assign
  <1> HIDE DEF r, old
  <1>6. Redrafted(s, k, v, r)
    BY <1>2, <1>3, <1>4, <1>5 DEF Redrafted, Values, Defended
  <1>7. \A w \in Version : f[w] = IF w = v THEN r ELSE draft[s][k][w]
    BY <1>2 DEF Kept, IInv, TypeOK, Rows
  <1>8. f \in [Version -> Row \cup {NoRow}]
    BY <1>2, <1>4 DEF Kept, IInv, TypeOK, Rows
  <1>9. q \in ReadingState \cup [pc : {"committing"}]
    OBVIOUS
  <1> HIDE DEF f, k, v, q
  <1>10. \A w \in Version : \/ f[w] = draft[s][k][w]
                            \/ Redrafted(s, k, w, f[w]) \/ Inserted(s, k, w, f[w])
    BY <1>6, <1>7
  <1>11. /\ k \in Key /\ table' = table /\ draft' = [draft EXCEPT ![s][k] = f]
         /\ sess' = [sess EXCEPT ![s] = q]
    BY <1>1, <1>2
  <1> QED BY <1>8, <1>9, <1>10, <1>11, FlushOfChain

\* A session changes its queue: the others keep theirs.
LEMMA QueueStep ==
  ASSUME TypeOK, TodoHonest, NEW s \in Sessions, NEW q, sess' = [sess EXCEPT ![s] = q],
         q.pc \in {"reading", "writing"} => \A i \in 1..Len(q.todo) : Honest(q.todo[i])
  PROVE  TodoHonest'
  <1>1. sess'[s] = q /\ \A t \in Sessions : t # s => sess'[t] = sess[t]
    BY DEF TypeOK
  <1>2. ASSUME NEW t \in Sessions, sess'[t].pc \in {"reading", "writing"}
        PROVE  \A i \in 1..Len(sess'[t].todo) : Honest(sess'[t].todo[i])
    <2>1. CASE t = s
      BY <1>1, <1>2, <2>1
    <2>2. CASE t # s
      BY <1>1, <1>2, <2>2 DEF TodoHonest
    <2> QED BY <2>1, <2>2
  <1> QED BY <1>2 DEF TodoHonest, Honest

LEMMA TailOfQueue ==
  ASSUME NEW todo \in Seq(Candidate), todo # <<>>, \A i \in 1..Len(todo) : Honest(todo[i])
  PROVE  \A i \in 1..Len(Tail(todo)) : Honest(Tail(todo)[i])
  <1>1. /\ Len(todo) \in Nat /\ Len(Tail(todo)) = Len(todo) - 1
        /\ \A i \in 1..Len(Tail(todo)) : Tail(todo)[i] = todo[i + 1]
    BY HeadTailProperties, LenProperties
  <1> QED BY <1>1

LEMMA NextTodoHonest ==
  ASSUME IInv, TodoHonest, [Next]_vars
  PROVE  TodoHonest'
  <1>1. ASSUME NEW s \in Sessions, SyncBegin(s) PROVE TodoHonest'
    <2>1. PICK n \in 1..MaxBatch : \E todo \in [1..n -> NseRows] :
                 sess' = [sess EXCEPT ![s] = Reading(clock, todo)]
      BY <1>1 DEF SyncBegin
    <2>2. PICK todo \in [1..n -> NseRows] : sess' = [sess EXCEPT ![s] = Reading(clock, todo)]
      BY <2>1
    <2> DEFINE q == Reading(clock, todo)
    <2>3. q.todo = todo /\ n \in Nat
      BY DEF Reading
    <2>4. Len(todo) = n /\ \A i \in 1..n : Honest(todo[i])
      BY <2>2, <2>3, NormalizeHonest
    <2>5. sess' = [sess EXCEPT ![s] = q]
      BY <2>2
    <2> HIDE DEF q
    <2> QED BY <2>3, <2>4, <2>5, QueueStep DEF IInv
  <1>2. ASSUME NEW s \in Sessions, TranscribeBegin(s) PROVE TodoHonest'
    <2>1. PICK p \in Periods, f \in Figures, d \in Docs :
                 sess' = [sess EXCEPT ![s] = Reading(clock, <<transcription(p, f, d)>>)]
      BY <1>2 DEF TranscribeBegin
    <2> DEFINE c == transcription(p, f, d)
               q == Reading(clock, <<c>>)
    <2>2. Honest(c)
      BY TranscriptionHonest
    <2>3. q.todo = <<c>>
      BY DEF Reading
    <2>4. sess' = [sess EXCEPT ![s] = q]
      BY <2>1
    <2> HIDE DEF c
    <2>5. \A i \in 1..Len(<<c>>) : <<c>>[i] = c
      OBVIOUS
    <2> HIDE DEF q
    <2> QED BY <2>2, <2>3, <2>4, <2>5, QueueStep DEF IInv
  <1>3. ASSUME NEW s \in Sessions, ReadLatest(s) PROVE TodoHonest'
    <2>1. PICK q : /\ sess' = [sess EXCEPT ![s] = q] /\ q.todo = sess[s].todo
                   /\ sess[s].pc = "reading"
      BY <1>3 DEF ReadLatest
    <2>2. \A i \in 1..Len(q.todo) : Honest(q.todo[i])
      BY <2>1 DEF TodoHonest
    <2> QED BY <2>1, <2>2, QueueStep DEF IInv
  <1>4. ASSUME NEW s \in Sessions, sess[s].pc = "writing", NextCandidate(s)
        PROVE  TodoHonest'
    <2> DEFINE q == IF Len(sess[s].todo) > 1 THEN Reading(sess[s].started, Tail(sess[s].todo))
                    ELSE [pc |-> "committing"]
    <2>1. sess[s].todo \in Seq(Candidate) /\ Len(sess[s].todo) > 0
      BY <1>4, CandType DEF IInv, Queue
    <2>2. sess[s].todo # <<>>
      BY <2>1
    <2>3. \A i \in 1..Len(Tail(sess[s].todo)) : Honest(Tail(sess[s].todo)[i])
      BY <1>4, <2>1, <2>2, TailOfQueue DEF TodoHonest
    <2>4. q.pc \in {"reading", "writing"} => q.todo = Tail(sess[s].todo)
      BY DEF Reading
    <2>5. sess' = [sess EXCEPT ![s] = q]
      BY <1>4 DEF NextCandidate
    <2> HIDE DEF q
    <2> QED BY <2>3, <2>4, <2>5, QueueStep DEF IInv
  <1>5. ASSUME NEW s \in Sessions, \A t \in Sessions : t # s => sess'[t] = sess[t],
               sess'[s].pc \notin {"reading", "writing"}
        PROVE  TodoHonest'
    BY <1>5 DEF TodoHonest, Honest
  <1>6. ASSUME NEW s \in Sessions, VerifyBegin(s) PROVE TodoHonest'
    <2>1. PICK p \in Periods, d \in Docs, f \in Figures :
             \E target \in list_latest_by_period(table, p) :
               sess' = [sess EXCEPT ![s] =
                  [pc |-> "verifying", key |-> target[1], seen |-> target[2],
                   loaded |-> table[target[1]][target[2]], doc |-> d, reported |-> f]]
      BY <1>6 DEF VerifyBegin
    <2>2. sess'[s].pc = "verifying" /\ \A t \in Sessions : t # s => sess'[t] = sess[t]
      BY <2>1 DEF IInv, TypeOK
    <2> QED BY <2>2, <1>5
  <1>7. ASSUME NEW s \in Sessions,
               \/ UniqueViolation(s) \/ VersionBound(s) \/ Abort(s) \/ DeadlockVictim(s)
               \/ Commit(s) \/ FlushVerification(s)
        PROVE  TodoHonest'
    <2>1. /\ sess'[s].pc \notin {"reading", "writing"}
          /\ \A t \in Sessions : t # s => sess'[t] = sess[t]
      BY <1>7 DEF IInv, TypeOK, UniqueViolation, VersionBound, Abort, DeadlockVictim, Rollback,
                  Idle, Commit, FlushVerification
    <2> QED BY <2>1, <1>5
  <1>8. ASSUME sess' = sess PROVE TodoHonest'
    BY <1>8 DEF TodoHonest, Honest
  <1> QED BY <1>1, <1>2, <1>3, <1>4, <1>6, <1>7, <1>8
          DEF Next, vars, FlushRefresh, FlushInsert, Tick

\* A chain has no gap: the version before one that is there is there.
LEMMA NoGap ==
  ASSUME IInv, NEW s \in Sessions, NEW k \in Key, NEW v \in Version, v > 1
  PROVE  /\ v - 1 \in Version
         /\ View(s)[k][v] # NoRow => View(s)[k][v - 1] # NoRow
         /\ table[k][v] # NoRow => table[k][v - 1] # NoRow
  <1>1. v - 1 \in Version /\ v \in Nat /\ v - 1 \in Nat
    BY ConstantsAssumption DEF Version
  <1>2. PICK n \in 0..MaxVersion : \A w \in Version : View(s)[k][w] # NoRow <=> w <= n
    BY DEF IInv, ViewChains, ChainOf
  <1>3. PICK m \in 0..MaxVersion : \A w \in Version : table[k][w] # NoRow <=> w <= m
    BY DEF IInv, OneLatest, ChainOf
  <1> QED BY <1>1, <1>2, <1>3, ConstantsAssumption

\* Nothing is written, and only session s moves on.
LEMMA LoadStep ==
  ASSUME Kept, Evidence, NEW s \in Sessions, table' = table, draft' = draft,
         \A t \in Sessions : t # s => sess'[t] = sess[t],
         sess'[s].pc = "writing" /\ sess'[s].seen # 0 =>
            Values(sess'[s].loaded) = Values(View(s)[Head(sess'[s].todo).key][sess'[s].seen]),
         sess'[s].pc = "verifying" =>
            Values(sess'[s].loaded) = Values(table[sess'[s].key][sess'[s].seen])
  PROVE  LoadedValues' /\ ViewsDiffer'
  <1>1. \A t \in Sessions : View(t)' = View(t)
    BY ViewFrame
  <1>2. ViewsDiffer'
    BY <1>1 DEF Evidence, ViewsDiffer, Differ, Values
  <1>3. ASSUME NEW t \in Sessions
        PROVE  /\ sess'[t].pc = "writing" /\ sess'[t].seen # 0 =>
                    Values(sess'[t].loaded) =
                      Values(View(t)[Head(sess'[t].todo).key][sess'[t].seen])
               /\ sess'[t].pc = "verifying" =>
                    Values(sess'[t].loaded) = Values(table[sess'[t].key][sess'[t].seen])
    <2>1. CASE t = s
      BY <2>1
    <2>2. CASE t # s
      BY <2>2 DEF Evidence, LoadedValues, Cand
    <2> QED BY <2>1, <2>2
  <1>4. LoadedValues'
    BY <1>1, <1>3 DEF LoadedValues, Cand, Values
  <1> QED BY <1>2, <1>4

LEMMA FlushKeeps ==
  ASSUME Kept, Evidence, NEW s \in Sessions, Flushed(s)
  PROVE  ViewsDiffer' /\ LoadedValues' /\ DraftsDefended'
  <1>1. /\ table' = table /\ sess'[s].pc \in {"reading", "committing"}
        /\ \A t \in Sessions : t # s => draft'[t] = draft[t] /\ sess'[t] = sess[t]
    BY DEF Flushed
  <1>2. \A t \in Sessions : t # s => View(t)' = View(t)
    BY <1>1, ViewFrame
  <1> DEFINE new(k, w) == View(s)'[k][w]
             old(k, w) == View(s)[k][w]
  <1>3. ASSUME NEW k \in Key, NEW w \in Version
        PROVE  \/ new(k, w) = old(k, w)
               \/ Redrafted(s, k, w, new(k, w))
               \/ Inserted(s, k, w, new(k, w))
    <2>1. \/ draft'[s][k][w] = draft[s][k][w]
          \/ Redrafted(s, k, w, draft'[s][k][w])
          \/ Inserted(s, k, w, draft'[s][k][w])
      BY DEF Flushed
    <2>2. /\ new(k, w) = IF draft'[s][k][w] # NoRow THEN draft'[s][k][w] ELSE table[k][w]
          /\ old(k, w) = IF draft[s][k][w] # NoRow THEN draft[s][k][w] ELSE table[k][w]
      BY <1>1 DEF View
    <2>3. CASE draft'[s][k][w] = draft[s][k][w]
      BY <2>2, <2>3
    <2>4. CASE draft'[s][k][w] # draft[s][k][w]
      <3>1. draft'[s][k][w] # NoRow
        BY <2>1, <2>4 DEF Redrafted, Inserted
      <3> QED BY <2>1, <2>2, <2>4, <3>1
    <2> QED BY <2>3, <2>4
  <1>4. \A k \in Key : Differ(View(s), k)'
    <2> SUFFICES ASSUME NEW k \in Key, NEW v \in Version, v > 1,
                        new(k, v) # NoRow, new(k, v - 1) # NoRow
                 PROVE  Values(new(k, v)) # Values(new(k, v - 1))
      BY DEF Differ, Values
    <2>1. v - 1 \in Version /\ (old(k, v) # NoRow => old(k, v - 1) # NoRow) /\ v # v - 1
      BY NoGap, ConstantsAssumption DEF Kept, Version
    <2>2. old(k, v) # NoRow /\ old(k, v - 1) # NoRow => Values(old(k, v)) # Values(old(k, v - 1))
      BY DEF Evidence, ViewsDiffer, Differ
    <2> HIDE DEF new
    <2>3. CASE old(k, v) # NoRow
      <3>1. Values(new(k, v)) = Values(old(k, v))
        BY <1>3, <2>3 DEF Redrafted, Inserted
      <3>2. Values(new(k, v - 1)) = Values(old(k, v - 1))
        BY <1>3, <2>1, <2>3 DEF Redrafted, Inserted
      <3> QED BY <2>1, <2>2, <2>3, <3>1, <3>2
    <2>4. CASE old(k, v) = NoRow
      <3>1. Inserted(s, k, v, new(k, v))
        BY <1>3, <2>4 DEF Redrafted
      <3>2. old(k, v - 1) # NoRow
        <4>1. v = NewVersion(s)
          BY <3>1 DEF Inserted
        <4>2. ~Inserted(s, k, v - 1, new(k, v - 1))
          BY <2>1, <4>1 DEF Inserted
        <4>3. new(k, v - 1) = old(k, v - 1) \/ Redrafted(s, k, v - 1, new(k, v - 1))
          BY <1>3, <2>1, <4>2
        <4> QED BY <4>3 DEF Redrafted
      <3>3. Values(new(k, v - 1)) = Values(old(k, v - 1))
        BY <1>3, <2>1, <3>2 DEF Redrafted, Inserted
      <3> QED BY <3>1, <3>2, <3>3 DEF Inserted
    <2> QED BY <2>3, <2>4
  <1>5. ViewsDiffer'
    BY <1>2, <1>4 DEF Evidence, ViewsDiffer, Differ, Values
  <1>6. LoadedValues'
    BY <1>1, <1>2 DEF Evidence, LoadedValues, Cand, Values
  <1>7. ASSUME NEW k \in Key, NEW w \in Version, draft'[s][k][w] # NoRow
        PROVE  Defended(draft'[s][k][w])
    BY <1>7, ViewDefended DEF Flushed, Redrafted, Inserted, Evidence, DraftsDefended
  <1>8. DraftsDefended'
    BY <1>1, <1>7 DEF Evidence, DraftsDefended, Defended
  <1> QED BY <1>5, <1>6, <1>8

LEMMA RollbackEvidence ==
  ASSUME Kept, Evidence, NEW s \in Sessions, Rollback(s)
  PROVE  ViewsDiffer' /\ LoadedValues' /\ DraftsDefended'
  <1>1. /\ sess'[s] = Idle /\ draft'[s] = NoRows /\ table' = table
        /\ \A t \in Sessions : t # s => sess'[t] = sess[t] /\ draft'[t] = draft[t]
    BY DEF Rollback, Kept, IInv, TypeOK
  <1>2. \A t \in Sessions : t # s => View(t)' = View(t)
    BY <1>1, ViewFrame
  <1>3. \A k \in Key : \A v \in Version : View(s)'[k][v] = table[k][v]
    BY <1>1 DEF View, NoRows
  <1>4. \A v \in Version : v > 1 => v - 1 \in Version
    BY ConstantsAssumption DEF Version
  <1>5. ViewsDiffer'
    BY <1>2, <1>3, <1>4 DEF Evidence, RestatementsDiffer, ViewsDiffer, Differ, Values
  <1>6. LoadedValues'
    BY <1>1, <1>2 DEF Evidence, LoadedValues, Cand, Values, Idle
  <1>7. DraftsDefended'
    BY <1>1 DEF Evidence, DraftsDefended, Defended, NoRows
  <1> QED BY <1>5, <1>6, <1>7

\* A commit: two rows that become neighbours in the view of another session are
\* neighbours in its own view or in that of the session that commits.
LEMMA CommitEvidence ==
  ASSUME Kept, Evidence, NEW s \in Sessions, Commit(s)
  PROVE  ViewsDiffer' /\ LoadedValues' /\ DraftsDefended'
  <1>1. /\ sess'[s] = Idle /\ draft'[s] = NoRows /\ table' = View(s)
        /\ \A t \in Sessions : t # s => sess'[t] = sess[t] /\ draft'[t] = draft[t]
    BY DEF Commit, Kept, IInv, TypeOK
  <1>2. \A k \in Key : \A v \in Version : View(s)'[k][v] = View(s)[k][v]
    BY <1>1 DEF View, NoRows
  <1>3. \A v \in Version : v > 1 => v - 1 \in Version
    BY ConstantsAssumption DEF Version
  <1>4. \A k \in Key : Differ(View(s), k)'
    BY <1>2, <1>3 DEF Evidence, ViewsDiffer, Differ, Values
  <1>5. ASSUME NEW t \in Sessions, t # s, NEW k \in Key, NEW v \in Version
        PROVE  /\ View(t)'[k][v] = IF draft[t][k][v] # NoRow THEN draft[t][k][v]
                                   ELSE View(s)[k][v]
               /\ draft[t][k][v] # NoRow => /\ View(t)[k][v] = draft[t][k][v]
                                            /\ View(s)[k][v] = table[k][v]
               /\ draft[t][k][v] = NoRow => View(t)[k][v] = table[k][v]
               /\ table[k][v] # NoRow =>
                     /\ Values(View(t)[k][v]) = Values(table[k][v]) /\ View(t)[k][v] # NoRow
                     /\ Values(View(s)[k][v]) = Values(table[k][v]) /\ View(s)[k][v] # NoRow
    <2>1. View(t)'[k][v] = IF draft[t][k][v] # NoRow THEN draft[t][k][v] ELSE View(s)[k][v]
      BY <1>1, <1>5 DEF View
    <2>2. draft[t][k][v] # NoRow => draft[s][k][v] = NoRow
      BY <1>5 DEF Kept, IInv, DraftsDisjoint
    <2>3. table[k][v] # NoRow =>
                     /\ Values(View(t)[k][v]) = Values(table[k][v]) /\ View(t)[k][v] # NoRow
                     /\ Values(View(s)[k][v]) = Values(table[k][v]) /\ View(s)[k][v] # NoRow
      BY ViewValues DEF Kept
    <2> QED BY <2>1, <2>2, <2>3 DEF View
  <1>6. ASSUME NEW t \in Sessions, t # s, NEW k \in Key, NEW v \in Version, v > 1,
               View(t)'[k][v] # NoRow, View(t)'[k][v - 1] # NoRow
        PROVE  Values(View(t)'[k][v]) # Values(View(t)'[k][v - 1])
    <2>1. /\ v - 1 \in Version
          /\ View(t)[k][v] # NoRow => View(t)[k][v - 1] # NoRow
          /\ View(s)[k][v] # NoRow => View(s)[k][v - 1] # NoRow
          /\ table[k][v] # NoRow => table[k][v - 1] # NoRow
      BY <1>6, NoGap DEF Kept
    <2>2. /\ View(t)[k][v] # NoRow /\ View(t)[k][v - 1] # NoRow =>
                Values(View(t)[k][v]) # Values(View(t)[k][v - 1])
          /\ View(s)[k][v] # NoRow /\ View(s)[k][v - 1] # NoRow =>
                Values(View(s)[k][v]) # Values(View(s)[k][v - 1])
      BY <1>6 DEF Evidence, ViewsDiffer, Differ
    <2> DEFINE dt(w) == draft[t][k][w]
               tab(w) == table[k][w]
               vs(w) == View(s)[k][w]
               vt(w) == View(t)[k][w]
               row(w) == View(t)'[k][w]
    <2>3. \A w \in {v - 1, v} :
             /\ row(w) = IF dt(w) # NoRow THEN dt(w) ELSE vs(w)
             /\ dt(w) # NoRow => vt(w) = dt(w) /\ vs(w) = tab(w)
             /\ dt(w) = NoRow => vt(w) = tab(w)
             /\ tab(w) # NoRow => /\ Values(vt(w)) = Values(tab(w)) /\ vt(w) # NoRow
                                  /\ Values(vs(w)) = Values(tab(w)) /\ vs(w) # NoRow
      BY <1>5, <1>6, <2>1
    <2>4. row(v) # NoRow /\ row(v - 1) # NoRow
      BY <1>6
    <2>5. /\ vt(v) # NoRow => vt(v - 1) # NoRow /\ Values(vt(v)) # Values(vt(v - 1))
          /\ vs(v) # NoRow => vs(v - 1) # NoRow /\ Values(vs(v)) # Values(vs(v - 1))
          /\ tab(v) # NoRow => tab(v - 1) # NoRow
      BY <2>1, <2>2
    <2> HIDE DEF dt, tab, vs, vt, row
    <2>6. CASE dt(v) = NoRow
      <3>1. row(v) = vs(v) /\ vs(v) # NoRow /\ vs(v - 1) # NoRow
        BY <2>3, <2>4, <2>5, <2>6
      <3>2. Values(row(v - 1)) = Values(vs(v - 1))
        BY <2>3, <3>1
      <3> QED BY <2>5, <3>1, <3>2 DEF row
    <2>7. CASE dt(v) # NoRow
      <3>1. row(v) = vt(v) /\ vt(v) # NoRow /\ vt(v - 1) # NoRow
        BY <2>3, <2>4, <2>5, <2>7
      <3>2. Values(row(v - 1)) = Values(vt(v - 1))
        BY <2>3, <3>1
      <3> QED BY <2>5, <3>1, <3>2 DEF row
    <2> QED BY <2>6, <2>7
  <1>7. ViewsDiffer'
    BY <1>4, <1>6 DEF ViewsDiffer, Differ, Values
  <1>8. ASSUME NEW t \in Sessions, t # s
        PROVE  /\ sess'[t].pc = "writing" /\ sess'[t].seen # 0 =>
                    Values(sess'[t].loaded) =
                      Values(View(t)'[Head(sess'[t].todo).key][sess'[t].seen])
               /\ sess'[t].pc = "verifying" =>
                    Values(sess'[t].loaded) = Values(table'[sess'[t].key][sess'[t].seen])
    <2>1. sess'[t] = sess[t]
      BY <1>1, <1>8
    <2>2. ASSUME sess[t].pc = "writing", sess[t].seen # 0
          PROVE  Values(sess[t].loaded) = Values(View(t)'[Head(sess[t].todo).key][sess[t].seen])
      <3> DEFINE k == Head(sess[t].todo).key
                 v == sess[t].seen
      <3>1. k \in Key /\ v \in Version
        BY <2>2, CandType, SessShape DEF Kept, IInv, Cand, WritingState, Version
      <3>2. View(t)[k][v] # NoRow
        BY <2>2 DEF Kept, IInv, SeenPresent, Cand
      <3>3. Values(sess[t].loaded) = Values(View(t)[k][v])
        BY <2>2 DEF Evidence, LoadedValues, Cand
      <3> HIDE DEF k, v
      <3>4. Values(View(t)'[k][v]) = Values(View(t)[k][v])
        BY <1>5, <1>8, <3>1, <3>2
      <3> QED BY <3>3, <3>4 DEF k, v
    <2>3. ASSUME sess[t].pc = "verifying"
          PROVE  Values(sess[t].loaded) = Values(table'[sess[t].key][sess[t].seen])
      <3>1. /\ sess[t].key \in Key /\ sess[t].seen \in Version
            /\ table[sess[t].key][sess[t].seen] # NoRow
        BY <2>3, SessShape DEF Kept, IInv, VerifyingState, SeenPresent
      <3>2. Values(sess[t].loaded) = Values(table[sess[t].key][sess[t].seen])
        BY <2>3 DEF Evidence, LoadedValues
      <3> QED BY <1>1, <1>5, <1>8, <3>1, <3>2
    <2> QED BY <2>1, <2>2, <2>3
  <1>9. LoadedValues'
    BY <1>1, <1>8 DEF LoadedValues, Cand, Values, Idle
  <1>10. DraftsDefended'
    BY <1>1 DEF Evidence, DraftsDefended, Defended, NoRows
  <1> QED BY <1>7, <1>9, <1>10

\* A step that starts or continues a command without writing.
LEMMA ReadEvidence ==
  ASSUME Kept, Evidence, NEW s \in Sessions, ReadLatest(s)
  PROVE  ViewsDiffer' /\ LoadedValues' /\ DraftsDefended'
  <1> DEFINE k == Head(sess[s].todo).key
             v == get_latest(View(s), k)
             q == [pc |-> "writing", started |-> sess[s].started,
                   todo |-> sess[s].todo, seen |-> v,
                   loaded |-> IF v = 0 THEN NoRow ELSE View(s)[k][v]]
  <1>1. sess' = [sess EXCEPT ![s] = q] /\ table' = table /\ draft' = draft
    BY DEF ReadLatest
  <1>2. /\ q.pc = "writing" /\ q.todo = sess[s].todo /\ q.seen = v
        /\ v # 0 => q.loaded = View(s)[k][v]
    OBVIOUS
  <1> HIDE DEF q, v
  <1>3. sess'[s] = q /\ \A t \in Sessions : t # s => sess'[t] = sess[t]
    BY <1>1 DEF Kept, IInv, TypeOK
  <1>4. ViewsDiffer' /\ LoadedValues'
    BY <1>1, <1>2, <1>3, LoadStep
  <1>5. DraftsDefended'
    BY <1>1 DEF Evidence, DraftsDefended, Defended
  <1> QED BY <1>4, <1>5

LEMMA BeginEvidence ==
  ASSUME Kept, Evidence, NEW s \in Sessions,
         SyncBegin(s) \/ TranscribeBegin(s) \/ VerifyBegin(s)
  PROVE  ViewsDiffer' /\ LoadedValues' /\ DraftsDefended'
  <1>1. table' = table /\ draft' = draft
    BY DEF SyncBegin, TranscribeBegin, VerifyBegin
  <1>2. DraftsDefended'
    BY <1>1 DEF Evidence, DraftsDefended, Defended
  <1>3. CASE SyncBegin(s) \/ TranscribeBegin(s)
    <2>1. sess'[s].pc = "reading" /\ \A t \in Sessions : t # s => sess'[t] = sess[t]
      BY <1>3 DEF SyncBegin, TranscribeBegin, Reading, Kept, IInv, TypeOK
    <2>2. ViewsDiffer' /\ LoadedValues'
      BY <1>1, <2>1, LoadStep
    <2> QED BY <1>2, <2>2
  <1>4. CASE VerifyBegin(s)
    <2>1. PICK p \in Periods, d \in Docs, f \in Figures :
             \E target \in list_latest_by_period(table, p) :
               sess' = [sess EXCEPT ![s] =
                  [pc |-> "verifying", key |-> target[1], seen |-> target[2],
                   loaded |-> table[target[1]][target[2]], doc |-> d, reported |-> f]]
      BY <1>4 DEF VerifyBegin
    <2>2. /\ sess'[s].pc = "verifying"
          /\ sess'[s].loaded = table[sess'[s].key][sess'[s].seen]
          /\ \A t \in Sessions : t # s => sess'[t] = sess[t]
      BY <2>1 DEF Kept, IInv, TypeOK
    <2>3. ViewsDiffer' /\ LoadedValues'
      BY <1>1, <2>2, LoadStep
    <2> QED BY <1>2, <2>3
  <1> QED BY <1>3, <1>4

\* The table changes by a commit only, to a view that differs and is defended.
LEMMA TableEvidence ==
  ASSUME Kept, Evidence, [Next]_vars
  PROVE  RestatementsDiffer' /\ DefensibleAvailability'
  <1>1. CASE table' = table
    BY <1>1 DEF Evidence, RestatementsDiffer, DefensibleAvailability, Values
  <1>2. ASSUME NEW s \in Sessions, table' = View(s)
        PROVE  RestatementsDiffer' /\ DefensibleAvailability'
    <2>1. RestatementsDiffer'
      BY <1>2 DEF Evidence, ViewsDiffer, Differ, RestatementsDiffer, Values
    <2>2. \A k \in Key : \A v \in Version : table'[k][v] # NoRow => Defended(table'[k][v])
      BY <1>2, ViewDefended
    <2>3. DefensibleAvailability'
      BY <2>2 DEF DefensibleAvailability, Defended
    <2> QED BY <2>1, <2>3
  <1> QED BY <1>1, <1>2, TableStep

LEMMA InitEvidence == Init => DraftsKeepValues /\ Evidence
  <1> SUFFICES ASSUME Init PROVE DraftsKeepValues /\ Evidence
    OBVIOUS
  <1>1. /\ table = NoRows /\ \A s \in Sessions : sess[s].pc = "idle" /\ draft[s] = NoRows
    BY DEF Init, Idle
  <1>2. \A v \in Version : v > 1 => v - 1 \in Version
    BY ConstantsAssumption DEF Version
  <1>3. \A k \in Key : \A v \in Version :
           /\ table[k][v] = NoRow
           /\ \A s \in Sessions : View(s)[k][v] = NoRow /\ draft[s][k][v] = NoRow
    BY <1>1 DEF View, NoRows
  <1>4. RestatementsDiffer /\ ViewsDiffer
    BY <1>2, <1>3 DEF RestatementsDiffer, ViewsDiffer, Differ
  <1>5. LoadedValues /\ TodoHonest
    BY <1>1 DEF LoadedValues, TodoHonest
  <1>6. DefensibleAvailability /\ DraftsDefended /\ DraftsKeepValues
    BY <1>3 DEF DefensibleAvailability, DraftsDefended, DraftsKeepValues
  <1> QED BY <1>4, <1>5, <1>6 DEF Evidence

LEMMA NextEvidence ==
  Kept /\ Evidence /\ [Next]_vars => Evidence'
  <1> SUFFICES ASSUME Kept, Evidence, [Next]_vars PROVE Evidence'
    OBVIOUS
  <1> DEFINE Rest == ViewsDiffer' /\ LoadedValues' /\ DraftsDefended'
  <1>1. TodoHonest'
    BY NextTodoHonest DEF Kept, Evidence
  <1>2. RestatementsDiffer' /\ DefensibleAvailability'
    BY TableEvidence
  <1>3. ASSUME NEW s \in Sessions, SyncBegin(s) \/ TranscribeBegin(s) \/ VerifyBegin(s)
        PROVE  Rest
    BY <1>3, BeginEvidence
  <1>4. ASSUME NEW s \in Sessions, ReadLatest(s) PROVE Rest
    BY <1>4, ReadEvidence
  <1>5. ASSUME NEW s \in Sessions, FlushRefresh(s) PROVE Rest
    BY <1>5, RefreshFlushes, FlushKeeps
  <1>6. ASSUME NEW s \in Sessions, FlushInsert(s) PROVE Rest
    BY <1>6, InsertFlushes, FlushKeeps
  <1>7. ASSUME NEW s \in Sessions, FlushVerification(s) PROVE Rest
    BY <1>7, VerificationFlushes, FlushKeeps
  <1>8. ASSUME NEW s \in Sessions,
               UniqueViolation(s) \/ VersionBound(s) \/ Abort(s) \/ DeadlockVictim(s)
        PROVE  Rest
    BY <1>8, RollbackEvidence DEF UniqueViolation, VersionBound, Abort, DeadlockVictim
  <1>9. ASSUME NEW s \in Sessions, Commit(s) PROVE Rest
    BY <1>9, CommitEvidence
  <1>10. ASSUME table' = table, draft' = draft, sess' = sess PROVE Rest
    <2>1. \A t \in Sessions : View(t)' = View(t)
      BY <1>10, ViewFrame
    <2>2. ViewsDiffer' /\ DraftsDefended'
      BY <1>10, <2>1 DEF Evidence, ViewsDiffer, Differ, Values, DraftsDefended, Defended
    <2>3. LoadedValues'
      BY <1>10, <2>1 DEF Evidence, LoadedValues, Cand, Values
    <2> QED BY <2>2, <2>3
  <1>11. Rest
    BY <1>3, <1>4, <1>5, <1>6, <1>7, <1>8, <1>9, <1>10 DEF Next, vars, Tick
  <1> QED BY <1>1, <1>2, <1>11 DEF Evidence

LEMMA KeptAndEvidence == Spec => [](Kept /\ Evidence)
  <1>1. Init => Kept /\ Evidence
    BY InitIInv, InitEvidence DEF Kept
  <1>2. (Kept /\ Evidence) /\ [Next]_vars => (Kept /\ Evidence)'
    BY NextIInv, NextDraftsKeepValues, NextEvidence DEF Kept
  <1> QED BY <1>1, <1>2, PTL DEF Spec

\* upsert_versioned: a version never repeats the values of the one before it, though
\* the comparison is made with a row loaded before the wait for its lock, and rows of
\* several sessions interleave in a chain.
THEOREM NeighboursDiffer == Spec => []RestatementsDiffer
  <1>1. Kept /\ Evidence => RestatementsDiffer
    BY DEF Evidence
  <1> QED BY <1>1, KeptAndEvidence, PTL

\* ProvenanceMixin: whatever refreshes, verifications and inserts interleave, the
\* instant a fact was available is never earlier than our copy of it unless its issuer
\* vouches for that instant.
THEOREM AvailabilityIsDefensible == Spec => []DefensibleAvailability
  <1>1. Kept /\ Evidence => DefensibleAvailability
    BY DEF Evidence
  <1> QED BY <1>1, KeptAndEvidence, PTL

-----------------------------------------------------------------------------
(* A row turns verified only on figures read in a filing.                  *)

\* A row that is in a view under the same status does not turn verified.
LEMMA SameStatus ==
  ASSUME NEW s \in Sessions, NEW k \in Key, NEW v \in Version,
         \/ draft'[s][k][v] = draft[s][k][v]
         \/ draft'[s][k][v] = NoRow
         \/ View(s)[k][v] # NoRow /\ draft'[s][k][v].status = View(s)[k][v].status
         \/ draft'[s][k][v].status = "verified" => draft'[s][k][v].fig \in ReadInFiling(s)
  PROVE  (/\ draft'[s][k][v] # NoRow /\ draft'[s][k][v].status = "verified"
          /\ View(s)[k][v] # NoRow => View(s)[k][v].status # "verified")
         => draft'[s][k][v].fig \in ReadInFiling(s)
  BY DEF View

LEMMA RefreshVerifies ==
  ASSUME Kept, Evidence, NEW s \in Sessions, FlushRefresh(s)
  PROVE  VerifiedStep
  <1> DEFINE k == Cand(s).key
             v == sess[s].seen
             old == View(s)[k][v]
             r == _refresh_provenance(old, sess[s].loaded, Cand(s))
  <1>1. /\ sess[s].pc = "writing" /\ v # 0
        /\ draft' = draft \/ draft' = [draft EXCEPT ![s][k][v] = r]
    BY DEF FlushRefresh, Unchanged
  <1>2. k \in Key /\ v \in Version
    BY <1>1, CandType, SessShape, ConstantsAssumption DEF Kept, IInv, WritingState, Version
  <1>3. old # NoRow /\ old \in Row
    BY <1>1, <1>2, ViewDefended DEF Kept, IInv, SeenPresent
  <1>4. r.status = old.status
    BY <1>3 DEF Row, _refresh_provenance
  <1> HIDE DEF r
  <1>5. \A t \in Sessions : \A j \in Key : \A w \in Version :
           \/ draft'[t][j][w] = draft[t][j][w]
           \/ t = s /\ j = k /\ w = v /\ draft'[t][j][w] = r
    BY <1>1, <1>2 DEF Kept, IInv, TypeOK, Rows
  <1> HIDE DEF k, v
  <1>6. \A t \in Sessions : \A j \in Key : \A w \in Version :
           \/ draft'[t][j][w] = draft[t][j][w]
           \/ View(t)[j][w] # NoRow /\ draft'[t][j][w].status = View(t)[j][w].status
    BY <1>3, <1>4, <1>5
  <1> QED BY <1>6, SameStatus DEF VerifiedStep

\* A transcription reads its filing; an NSE row is not verified, and a superseded
\* row keeps the status it has.
LEMMA InsertVerifies ==
  ASSUME Kept, Evidence, NEW s \in Sessions, FlushInsert(s)
  PROVE  VerifiedStep
  <1> DEFINE k == Cand(s).key
             v == sess[s].seen
             seen == View(s)[k][v]
             new == NewRow(Cand(s), sess[s].started)
             f == [n \in Version |-> IF n = v + 1 THEN new
                                     ELSE IF n = v THEN Superseded(seen)
                                     ELSE draft[s][k][n]]
  <1>1. sess[s].pc = "writing" /\ draft' = [draft EXCEPT ![s][k] = f]
    BY DEF FlushInsert, NewVersion
  <1>2. k \in Key /\ v \in 0..MaxVersion
    BY <1>1, CandType, SessShape DEF Kept, IInv, WritingState
  <1>3. v \in Version => seen # NoRow /\ seen \in Row
    <2>1. v \in Version => v # 0
      BY DEF Version
    <2> QED BY <1>1, <1>2, <2>1, ViewDefended DEF Kept, IInv, SeenPresent
  <1>4. v \in Version => Superseded(seen).status = seen.status
    BY <1>3 DEF Row, Superseded
  <1>5. new.status = "verified" => new.fig \in ReadInFiling(s)
    <2>1. Honest(Cand(s)) /\ new.status = Cand(s).status /\ new.fig = Cand(s).fig
      BY <1>1, CandHonest DEF Kept, IInv, Evidence, NewRow
    <2> QED BY <1>1, <2>1 DEF Honest, ReadInFiling
  <1> HIDE DEF new
  <1>6. \A w \in Version : \/ f[w] = draft[s][k][w] \/ f[w] = new
                           \/ w = v /\ f[w] = Superseded(seen)
    OBVIOUS
  <1> HIDE DEF f
  <1>7. \A t \in Sessions : \A j \in Key :
           draft'[t][j] = draft[t][j] \/ (t = s /\ j = k /\ draft'[t][j] = f)
    BY <1>1, <1>2 DEF Kept, IInv, TypeOK, Rows
  <1> HIDE DEF k, v
  <1>8. ASSUME NEW t \in Sessions, NEW j \in Key, NEW w \in Version
        PROVE \/ draft'[t][j][w] = draft[t][j][w]
              \/ View(t)[j][w] # NoRow /\ draft'[t][j][w].status = View(t)[j][w].status
              \/ draft'[t][j][w].status = "verified" => draft'[t][j][w].fig \in ReadInFiling(t)
    <2>1. CASE draft'[t][j] = draft[t][j]
      BY <2>1
    <2>2. CASE t = s /\ j = k /\ draft'[t][j] = f
      BY <1>3, <1>4, <1>5, <1>6, <2>2
    <2> QED BY <1>7, <2>1, <2>2
  <1> QED BY <1>8, SameStatus DEF VerifiedStep

\* A verification compares the row as loaded: its figures are the row's still.
LEMMA VerificationVerifies ==
  ASSUME Kept, Evidence, NEW s \in Sessions, FlushVerification(s)
  PROVE  VerifiedStep
  <1> DEFINE k == sess[s].key
             v == sess[s].seen
             old == table[k][v]
             r == verify_financial_result_manual(old, sess[s].loaded, sess[s].doc,
                                                 sess[s].reported)
  <1>1. sess[s].pc = "verifying" /\ draft' = [draft EXCEPT ![s][k][v] = r]
    BY DEF FlushVerification
  <1>2. k \in Key /\ v \in Version
    BY <1>1, SessShape DEF Kept, IInv, VerifyingState
  <1>3. old \in Row /\ old # NoRow
    BY <1>1, <1>2 DEF Kept, IInv, SeenPresent, TypeOK, Rows
  <1>4. View(s)[k][v] = old
    <2>1. draft[s] = NoRows
      BY <1>1 DEF Kept, IInv, DraftOwner
    <2> QED BY <1>2, <2>1 DEF View, NoRows
  <1>5. sess[s].loaded.fig = old.fig
    <2>1. Values(sess[s].loaded) = Values(old)
      BY <1>1 DEF Evidence, LoadedValues
    <2> QED BY <2>1 DEF Values
  <1>6. r.status = "verified" => old.status = "verified" \/ sess[s].reported = sess[s].loaded.fig
    BY <1>3 DEF Row, verify_financial_result_manual, Assign
  <1>7. r.fig = old.fig
    BY <1>3 DEF Row, verify_financial_result_manual
  <1>8. ReadInFiling(s) = {sess[s].reported}
    BY <1>1 DEF ReadInFiling
  <1> HIDE DEF r, old
  <1>9. \A t \in Sessions : \A j \in Key : \A w \in Version :
           \/ draft'[t][j][w] = draft[t][j][w]
           \/ t = s /\ j = k /\ w = v /\ draft'[t][j][w] = r
    BY <1>1, <1>2 DEF Kept, IInv, TypeOK, Rows
  <1> HIDE DEF k, v
  <1>10. ASSUME NEW t \in Sessions, NEW j \in Key, NEW w \in Version
         PROVE \/ draft'[t][j][w] = draft[t][j][w]
               \/ View(t)[j][w] # NoRow /\ draft'[t][j][w].status = View(t)[j][w].status
               \/ draft'[t][j][w].status = "verified" => draft'[t][j][w].fig \in ReadInFiling(t)
    BY <1>3, <1>4, <1>5, <1>6, <1>7, <1>8, <1>9
  <1> QED BY <1>10, SameStatus DEF VerifiedStep

\* services/verification.py and the transcription command: whatever interleaves, a row
\* turns verified only when its session read, in a filing, the figures the row has.
THEOREM VerifiedFromFiling == Spec => VerifiedByDocument
  <1>1. ASSUME Kept, Evidence, [Next]_vars PROVE VerifiedStep
    <2>1. ASSUME \A t \in Sessions : draft'[t] = draft[t] \/ draft'[t] = NoRows
          PROVE  VerifiedStep
      <3>1. \A t \in Sessions : \A j \in Key : \A w \in Version :
               draft'[t][j][w] = draft[t][j][w] \/ draft'[t][j][w] = NoRow
        BY <2>1 DEF NoRows
      <3> QED BY <3>1, SameStatus DEF VerifiedStep
    <2>2. ASSUME NEW s \in Sessions,
                 UniqueViolation(s) \/ VersionBound(s) \/ Abort(s) \/ DeadlockVictim(s)
                 \/ Commit(s)
          PROVE  \A t \in Sessions : draft'[t] = draft[t] \/ draft'[t] = NoRows
      BY <1>1, <2>2 DEF UniqueViolation, VersionBound, Abort, DeadlockVictim, Rollback,
                        Commit, Kept, IInv, TypeOK
    <2>3. ASSUME draft' = draft PROVE VerifiedStep
      BY <2>1, <2>3
    <2> QED BY <1>1, <2>1, <2>2, <2>3, RefreshVerifies, InsertVerifies, VerificationVerifies
            DEF Next, vars, SyncBegin, TranscribeBegin, VerifyBegin, ReadLatest, Tick
  <1>2. Kept /\ Evidence /\ [Next]_vars => [VerifiedStep]_vars
    BY <1>1
  <1> QED BY <1>2, KeptAndEvidence, PTL DEF Spec, VerifiedByDocument

-----------------------------------------------------------------------------
(* The refinement.  The latest version of a chain is its length, so what    *)
(* OneLatest, HistoryStep and RestatementsDiffer say of single versions is  *)
(* what VersionChain says of whole histories.                               *)

ReportedBy(rows, k) == [v \in 1..get_latest(rows, k) |-> Values(rows[k][v])]

LEMMA ReportedIs ==
  ASSUME NEW rows \in Rows, NEW k \in Key, ChainOf(rows, k)
  PROVE  /\ ReportedBy(rows, k) \in Seq(Figures \X Dates)
         /\ Len(ReportedBy(rows, k)) = get_latest(rows, k)
         /\ get_latest(rows, k) \in 0..MaxVersion
         /\ \A v \in 1..get_latest(rows, k) :
               /\ v \in Version /\ rows[k][v] # NoRow
               /\ ReportedBy(rows, k)[v] = Values(rows[k][v])
         /\ \A v \in Version : rows[k][v] # NoRow => v \in 1..get_latest(rows, k)
  <1> DEFINE n == get_latest(rows, k)
  <1>1. /\ n \in 0..MaxVersion
        /\ n # 0 => n \in Version /\ rows[k][n] # NoRow
        /\ n + 1 \in Version => rows[k][n + 1] = NoRow
    BY LatestIsTop, RowIsNotNoRow
  <1> HIDE DEF n
  <1>2. \A v \in Version : rows[k][v] # NoRow <=> v <= n
    <2>1. PICK m \in 0..MaxVersion : \A v \in Version : rows[k][v] # NoRow <=> v <= m
      BY DEF ChainOf
    <2>2. m = n
      BY <1>1, <2>1, ConstantsAssumption DEF Version
    <2> QED BY <2>1, <2>2
  <1>3. \A v \in 1..n : v \in Version /\ rows[k][v] \in Row /\ rows[k][v] # NoRow
    BY <1>1, <1>2, ConstantsAssumption DEF Version, Rows
  <1>4. ReportedBy(rows, k) \in [1..n -> Figures \X Dates]
    BY <1>3 DEF ReportedBy, Values, Row, n
  <1>5. \A v \in 1..n : ReportedBy(rows, k)[v] = Values(rows[k][v])
    BY DEF ReportedBy, n
  <1>6. n \in Nat
    BY <1>1
  <1> HIDE DEF ReportedBy
  <1>7. ReportedBy(rows, k) \in Seq(Figures \X Dates) /\ Len(ReportedBy(rows, k)) = n
    BY <1>4, <1>6, SeqDef, LenProperties
  <1>8. \A v \in Version : v <= n => v \in 1..n
    BY <1>6 DEF Version
  <1> QED BY <1>1, <1>2, <1>3, <1>5, <1>7, <1>8 DEF n

LEMMA StepRestates ==
  ASSUME IInv, IInv', RestatementsDiffer', HistoryStep, NEW k \in Key
  PROVE  Chain!Restated(ReportedBy(table, k), ReportedBy(table', k))
  <1> DEFINE old == ReportedBy(table, k)
             new == ReportedBy(table', k)
             n == get_latest(table, k)
             m == get_latest(table', k)
  <1>1. /\ table \in Rows /\ ChainOf(table, k)
        /\ table' \in Rows /\ ChainOf(table', k)
    BY DEF IInv, TypeOK, OneLatest, ChainOf
  <1>2. /\ Len(old) = n /\ n \in Nat
        /\ \A v \in 1..n : v \in Version /\ table[k][v] # NoRow /\ old[v] = Values(table[k][v])
    BY <1>1, ReportedIs
  <1>3. /\ Len(new) = m /\ m \in Nat
        /\ \A v \in 1..m : /\ v \in Version /\ table'[k][v] # NoRow
                           /\ new[v] = Values(table'[k][v])
        /\ \A v \in Version : table'[k][v] # NoRow => v \in 1..m
    BY <1>1, ReportedIs
  <1> HIDE DEF old, new, n, m
  <1>4. \A v \in 1..n : v \in 1..m /\ Values(table'[k][v]) = Values(table[k][v])
    BY <1>2, <1>3 DEF HistoryStep
  <1>5. n <= m
    BY <1>2, <1>3, <1>4
  <1>6. \A v \in 1..n : new[v] = old[v]
    BY <1>2, <1>3, <1>4
  <1>7. ASSUME NEW v \in 2..m PROVE new[v] # new[v - 1]
    <2>1. v \in 1..m /\ v - 1 \in 1..m /\ v > 1
      BY <1>3, <1>7
    <2> QED BY <1>3, <2>1 DEF RestatementsDiffer
  <1>8. /\ Len(old) <= Len(new)
        /\ \A v \in 1..Len(old) : new[v] = old[v]
        /\ \A v \in 2..Len(new) : v > Len(old) => new[v] # new[v - 1]
    BY <1>2, <1>3, <1>5, <1>6, <1>7
  <1> QED BY <1>8 DEF Chain!Restated, old, new

\* FinancialResultRepository: for any number of sessions, keys, values and versions, the
\* table implements VersionChain: what racing syncs, transcriptions and verifications commit
\* is that the histories of some keys have grown by restatements, and nothing else.
THEOREM TableIsChain == Spec => VersionsRecorded
  <1> DEFINE versions == [k \in Key |-> Reported(k)]
  <1>1. Init => Chain!Init
    <2> SUFFICES ASSUME Init, NEW k \in Key PROVE Reported(k) = <<>>
      BY DEF Chain!Init
    <2>1. get_latest(table, k) = 0
      BY DEF Init, NoRows, get_latest, LatestVersions
    <2> QED BY <2>1 DEF Reported
  <1>2. (Kept /\ Evidence) /\ (Kept /\ Evidence)' /\ [Next]_vars => [Chain!Record]_versions
    <2> SUFFICES ASSUME Kept /\ Evidence, (Kept /\ Evidence)', [Next]_vars
                 PROVE  Chain!Record
      OBVIOUS
    <2>1. IInv /\ IInv' /\ RestatementsDiffer' /\ HistoryStep
      BY HistoryKept DEF Kept, Evidence
    <2>2. \A k \in Key : versions[k] = ReportedBy(table, k) /\ versions'[k] = ReportedBy(table', k)
      BY DEF Reported, ReportedBy
    <2>3. \A k \in Key : Chain!Restated(versions[k], versions'[k])
      BY <2>1, <2>2, StepRestates
    <2>4. \A k \in Key : versions'[k] \in Seq(Figures \X Dates)
      <3> TAKE k \in Key
      <3>1. table' \in Rows /\ ChainOf(table', k)
        BY <2>1 DEF IInv, TypeOK, OneLatest, ChainOf
      <3> QED BY <2>2, <3>1, ReportedIs
    <2>5. versions' \in [Key -> Seq(Figures \X Dates)]
      BY <2>4
    <2> HIDE DEF versions
    <2> QED BY <2>3, <2>5 DEF Chain!Record, versions
  <1> QED BY <1>1, <1>2, KeptAndEvidence, PTL DEF Spec, VersionsRecorded, Chain!Spec

=============================================================================
