--------------------------- MODULE FinancialFacts ---------------------------
(***************************************************************************)
(* The versioned fact table financial_results and every command that       *)
(* writes it: sync-financial-results (NSE comparison endpoint),            *)
(* record-historical-financial-result (transcription of an archived        *)
(* filing) and verify-financial-result (manual check against a filing).    *)
(*                                                                         *)
(* Each command is one PostgreSQL transaction at READ COMMITTED.  What a   *)
(* session has flushed but not committed is its draft; a row another       *)
(* session has drafted is locked, so a flush that needs it waits.          *)
(*                                                                         *)
(* Time is abstract: instant i belongs to day i \div DayLength, and the    *)
(* last instant of a day stands for 23:59:59 IST.  _COMPARE_FIELDS are     *)
(* kept as two: result_date (which available_at is derived from) and fig,  *)
(* which stands for all the reported figures.                              *)
(***************************************************************************)
EXTENDS Naturals, Sequences

CONSTANTS Sessions,     \* concurrently running commands
          Periods,      \* financial_periods rows (one statement scope and basis)
          Figures,      \* distinguishable sets of reported figures
          ResultDates,  \* result_date values NSE reports: days, or NONE
          Docs,         \* archived source_documents of the company
          Published,    \* [Docs -> published_at, or NONE]
          DayLength,    \* instants per day
          Start,        \* the instant the first command may start
          MaxVersion,   \* bound: versions per key
          MaxTime,      \* bound: the clock
          MaxBatch,     \* bound: rows in one NSE response
          NONE          \* SQL NULL

Instants == Start..MaxTime
DayEnd(d) == d * DayLength + (DayLength - 1)

ASSUME ConstantsAssumption ==
    /\ MaxVersion \in Nat \ {0} /\ MaxBatch \in Nat
    /\ Start \in Nat /\ MaxTime \in Nat /\ Start <= MaxTime
    /\ DayLength \in Nat \ {0}
    /\ ResultDates \subseteq Nat \cup {NONE}
    /\ Published \in [Docs -> Nat \cup {NONE}]
    /\ NONE \notin Nat /\ NONE \notin Docs

VARIABLES table,    \* committed rows: key -> version -> row
          sess,     \* what each session is doing
          draft,    \* rows each session has flushed and not committed
          clock

vars == <<table, sess, draft, clock>>

Sources == {"nse_json_hint", "nse_filing_pdf"}
Key == Periods \X Sources
Version == 1..MaxVersion
Stamp == Nat \cup {NONE}

\* The result_date column: what NSE reports, or NULL in a transcribed row.
Dates == ResultDates \cup {NONE}

\* verification_notes: the document that matched or was transcribed, or the
\* figures that did not match.
Notes == ({"matched", "transcribed"} \X Docs) \cup ({"mismatch"} \X Figures)

Row == [fig : Figures, result_date : Dates,
        is_latest : BOOLEAN, available_at : Nat, ingested_at : Nat,
        timestamp_precision : {"EXACT", "DATE_ONLY"},
        status : {"unverified", "verified", "disputed"},
        verification_document : Docs \cup {NONE},
        verification_notes : Notes \cup {NONE}]

\* FinancialResultCreate: what a caller hands to upsert_versioned.
Candidate == [key : Key, fig : Figures, result_date : Dates,
              available_at : Stamp,
              timestamp_precision : {"EXACT", "DATE_ONLY"},
              status : {"unverified", "verified"},
              verification_document : Docs \cup {NONE},
              verification_notes : Notes \cup {NONE}]

NoRow == [absent |-> TRUE]
Rows == [Key -> [Version -> Row \cup {NoRow}]]
NoRows == [k \in Key |-> [v \in Version |-> NoRow]]

Idle == [pc |-> "idle"]

-----------------------------------------------------------------------------
(* Reads.  A session sees the committed rows overlaid with its own draft.  *)

View(s) == [k \in Key |-> [v \in Version |->
               IF draft[s][k][v] # NoRow THEN draft[s][k][v] ELSE table[k][v]]]

LatestVersions(rows, k) ==
    {v \in Version : rows[k][v] # NoRow /\ rows[k][v].is_latest}

\* get_latest: the version of the is_latest row, 0 for None.
get_latest(rows, k) ==
    IF LatestVersions(rows, k) = {} THEN 0
    ELSE CHOOSE v \in LatestVersions(rows, k) : TRUE

\* list_latest_by_period: is_latest rows of a period across source_types.
list_latest_by_period(rows, p) ==
    {r \in {k \in Key : k[1] = p} \X Version :
        rows[r[1]][r[2]] # NoRow /\ rows[r[1]][r[2]].is_latest}

\* _COMPARE_FIELDS.
Values(r) == <<r.fig, r.result_date>>

\* Mutant: a stored number compared with a text never equals it.
ValuesEqualAsText(a, data) == FALSE

_values_equal(a, data) == Values(a) = Values(data)

-----------------------------------------------------------------------------
(* Candidates.                                                             *)

\* Mutant: a date taken as the start of its day.
DeriveStartOfDay(published, date) ==
    IF published # NONE THEN <<published, "EXACT">>
    ELSE IF date # NONE THEN <<date * DayLength, "DATE_ONLY">>
    ELSE <<NONE, "EXACT">>

\* _derive_provenance_timestamps: (available_at, precision).
_derive_provenance_timestamps(published, date) ==
    IF published # NONE THEN <<published, "EXACT">>
    ELSE IF date # NONE THEN <<DayEnd(date), "DATE_ONLY">>
    ELSE <<NONE, "EXACT">>

\* FinancialResultNormalizer.normalize of one row of the NSE response, whose
\* archived JSON document carries no published_at.
normalize(p, f, date) ==
    LET stamps == _derive_provenance_timestamps(NONE, date)
    IN  [key |-> <<p, "nse_json_hint">>, fig |-> f, result_date |-> date,
         available_at |-> stamps[1], timestamp_precision |-> stamps[2],
         status |-> "unverified", verification_document |-> NONE,
         verification_notes |-> NONE]

\* What record_historical_financial_result builds from an archived filing: the
\* command passes no result_date.
transcription(p, f, d) ==
    [key |-> <<p, "nse_filing_pdf">>, fig |-> f, result_date |-> NONE,
     available_at |-> Published[d],
     timestamp_precision |-> IF Published[d] # NONE THEN "EXACT" ELSE "DATE_ONLY",
     status |-> "verified", verification_document |-> d,
     verification_notes |-> <<"transcribed", d>>]

NseRows == {normalize(p, f, date) :
              p \in Periods, f \in Figures, date \in ResultDates}

-----------------------------------------------------------------------------
(* Sessions.                                                               *)

Init ==
    /\ table = NoRows
    /\ sess = [s \in Sessions |-> Idle]
    /\ draft = [s \in Sessions |-> NoRows]
    /\ clock = Start

Reading(started, todo) == [pc |-> "reading", started |-> started, todo |-> todo]

\* FinancialResultIngestionService.sync: one upsert per row of the response.
SyncBegin(s) ==
    /\ sess[s].pc = "idle"
    /\ \E n \in 1..MaxBatch : \E todo \in [1..n -> NseRows] :
          sess' = [sess EXCEPT ![s] = Reading(clock, todo)]
    /\ UNCHANGED <<table, draft, clock>>

\* record_historical_financial_result with a document that passes its checks.
TranscribeBegin(s) ==
    /\ sess[s].pc = "idle"
    /\ \E p \in Periods, f \in Figures, d \in Docs :
          sess' = [sess EXCEPT ![s] = Reading(clock, <<transcription(p, f, d)>>)]
    /\ UNCHANGED <<table, draft, clock>>

\* upsert_versioned, first half: existing = get_latest(...).  The ORM keeps
\* the row as loaded, and later writes only the columns that differ from it.
ReadLatest(s) ==
    /\ sess[s].pc = "reading"
    /\ LET k == Head(sess[s].todo).key
           v == get_latest(View(s), k)
       IN  sess' = [sess EXCEPT ![s] =
                      [pc |-> "writing", started |-> sess[s].started,
                       todo |-> sess[s].todo, seen |-> v,
                       loaded |-> IF v = 0 THEN NoRow ELSE View(s)[k][v]]]
    /\ UNCHANGED <<table, draft, clock>>

\* A row of another session's draft is locked until that session ends.
LockedFor(s, k, v) == \E t \in Sessions \ {s} : draft[t][k][v] # NoRow

\* The candidate the writing session is on, and what it will do with it.
Cand(s) == Head(sess[s].todo)
Unchanged(s) == sess[s].seen # 0 /\ _values_equal(sess[s].loaded, Cand(s))
NewVersion(s) == sess[s].seen + 1

\* An ORM assignment: the UPDATE carries the column only when the new value
\* differs from the loaded one; otherwise the column keeps its current value.
Assign(current, loaded, new) == IF new # loaded THEN new ELSE current

\* _refresh_provenance.
_refresh_provenance(row, loaded, data) ==
    [row EXCEPT
        !.available_at = IF data.available_at # NONE
                         THEN Assign(@, loaded.available_at, data.available_at) ELSE @,
        !.timestamp_precision =
            Assign(@, loaded.timestamp_precision, data.timestamp_precision)]

RefreshNeeded(s) ==
    _refresh_provenance(sess[s].loaded, sess[s].loaded, Cand(s)) # sess[s].loaded

\* The row upsert_versioned inserts; available_at and ingested_at have
\* server_default now(), in PostgreSQL the start of the transaction.
NewRow(data, started) ==
    [fig |-> data.fig, result_date |-> data.result_date, is_latest |-> TRUE,
     available_at |-> IF data.available_at # NONE THEN data.available_at ELSE started,
     ingested_at |-> started,
     timestamp_precision |-> data.timestamp_precision, status |-> data.status,
     verification_document |-> data.verification_document,
     verification_notes |-> data.verification_notes]

\* Mutant: the superseded row keeps its flag.
StillLatest(row) == row

\* existing.is_latest = False.
Superseded(row) == [row EXCEPT !.is_latest = FALSE]

\* Mutant: the loop never advances.
SameCandidate(s) == sess' = [sess EXCEPT ![s] = Reading(sess[s].started, sess[s].todo)]

\* The loop goes on with the next row of the response, or the command commits.
NextCandidate(s) ==
    sess' = [sess EXCEPT ![s] =
               IF Len(sess[s].todo) > 1
               THEN Reading(sess[s].started, Tail(sess[s].todo))
               ELSE [pc |-> "committing"]]

\* Unchanged values: refresh the provenance of the existing row in place.
FlushRefresh(s) ==
    /\ sess[s].pc = "writing" /\ Unchanged(s)
    /\ LET k == Cand(s).key
           v == sess[s].seen
       IN  IF RefreshNeeded(s)
           THEN /\ ~LockedFor(s, k, v)
                /\ draft' = [draft EXCEPT ![s][k][v] =
                               _refresh_provenance(View(s)[k][v], sess[s].loaded, Cand(s))]
           ELSE UNCHANGED draft
    /\ NextCandidate(s)
    /\ UNCHANGED <<table, clock>>

\* The row versions an insert needs: the new one and the one it supersedes.
Needs(s) == {NewVersion(s), sess[s].seen} \ {0}

\* New or revised values: insert version seen + 1, then clear is_latest of the
\* existing row.
FlushInsert(s) ==
    /\ sess[s].pc = "writing" /\ ~Unchanged(s)
    /\ NewVersion(s) <= MaxVersion
    /\ LET k == Cand(s).key
           v == sess[s].seen
       IN  /\ \A n \in Needs(s) : ~LockedFor(s, k, n)
           /\ table[k][NewVersion(s)] = NoRow
           /\ draft' = [draft EXCEPT ![s][k] =
                [n \in Version |->
                    IF n = NewVersion(s) THEN NewRow(Cand(s), sess[s].started)
                    ELSE IF n = v THEN Superseded(View(s)[k][v])
                    ELSE draft[s][k][n]]]
    /\ NextCandidate(s)
    /\ UNCHANGED <<table, clock>>

\* A rollback discards the draft (cli.py: except -> session.rollback()).
Rollback(s) ==
    /\ sess' = [sess EXCEPT ![s] = Idle]
    /\ draft' = [draft EXCEPT ![s] = NoRows]
    /\ UNCHANGED <<table, clock>>

\* Another session committed the same (key, version) after ours was read:
\* uq_finresult_period_scope_basis_src_ver rejects the insert.
UniqueViolation(s) ==
    /\ sess[s].pc = "writing" /\ ~Unchanged(s)
    /\ NewVersion(s) <= MaxVersion
    /\ table[Cand(s).key][NewVersion(s)] # NoRow
    /\ Rollback(s)

\* Artefact of MaxVersion: a command that would exceed the bound gives up.
VersionBound(s) ==
    /\ sess[s].pc = "writing" /\ ~Unchanged(s)
    /\ NewVersion(s) > MaxVersion
    /\ Rollback(s)

\* verify-financial-result: exactly one latest row for the period, else exit.
VerifyBegin(s) ==
    /\ sess[s].pc = "idle"
    /\ \E p \in Periods, d \in Docs, f \in Figures :
         \E target \in list_latest_by_period(table, p) :
            /\ list_latest_by_period(table, p) = {target}
            /\ sess' = [sess EXCEPT ![s] =
                  [pc |-> "verifying", key |-> target[1], seen |-> target[2],
                   loaded |-> table[target[1]][target[2]],
                   doc |-> d, reported |-> f]]
    /\ UNCHANGED <<table, draft, clock>>

\* Mutant: a mismatch recorded as a confirmation.
VerifyAnyway(row, loaded, d, f) ==
    [row EXCEPT !.status = "verified", !.verification_document = d]

\* Mutant: the stored figure corrected to the document's, in place.
VerifyCorrects(row, loaded, d, f) ==
    [row EXCEPT !.fig = f, !.status = "verified", !.verification_document = d]

\* set_verification, then upgrade_timestamp_precision when the document has a
\* publication time.
verify_financial_result_manual(row, loaded, d, f) ==
    [row EXCEPT
        !.status = Assign(@, loaded.status,
                          IF loaded.fig = f THEN "verified" ELSE "disputed"),
        !.verification_document = Assign(@, loaded.verification_document, d),
        !.verification_notes =
            Assign(@, loaded.verification_notes,
                   IF loaded.fig = f THEN <<"matched", d>> ELSE <<"mismatch", f>>),
        !.available_at = IF Published[d] # NONE
                         THEN Assign(@, loaded.available_at, Published[d]) ELSE @,
        !.timestamp_precision = IF Published[d] # NONE
                                THEN Assign(@, loaded.timestamp_precision, "EXACT") ELSE @]

FlushVerification(s) ==
    /\ sess[s].pc = "verifying"
    /\ LET k == sess[s].key
           v == sess[s].seen
       IN  /\ ~LockedFor(s, k, v)
           /\ draft' = [draft EXCEPT ![s][k][v] =
                          verify_financial_result_manual(
                             table[k][v], sess[s].loaded, sess[s].doc, sess[s].reported)]
    /\ sess' = [sess EXCEPT ![s] = [pc |-> "committing"]]
    /\ UNCHANGED <<table, clock>>

Commit(s) ==
    /\ sess[s].pc = "committing"
    /\ table' = View(s)
    /\ sess' = [sess EXCEPT ![s] = Idle]
    /\ draft' = [draft EXCEPT ![s] = NoRows]
    /\ UNCHANGED clock

\* Any exception, kill or lost connection before the commit.
Abort(s) == sess[s].pc # "idle" /\ Rollback(s)

-----------------------------------------------------------------------------
(* PostgreSQL's deadlock detector (external) aborts a session that waits    *)
(* in a cycle.                                                             *)

WaitsFor(s, t) ==
    /\ s # t
    /\ \/ /\ sess[s].pc = "writing" /\ ~Unchanged(s)
          /\ \E n \in Needs(s) \cap Version : draft[t][Cand(s).key][n] # NoRow
       \/ /\ sess[s].pc = "writing" /\ Unchanged(s) /\ RefreshNeeded(s)
          /\ draft[t][Cand(s).key][sess[s].seen] # NoRow
       \/ /\ sess[s].pc = "verifying"
          /\ draft[t][sess[s].key][sess[s].seen] # NoRow

DeadlockVictim(s) ==
    /\ \E G \in SUBSET Sessions :
          s \in G /\ \A x \in G : \E y \in G : WaitsFor(x, y)
    /\ Rollback(s)

Tick ==
    /\ clock < MaxTime
    /\ clock' = clock + 1
    /\ UNCHANGED <<table, sess, draft>>

\* The steps a running command takes by itself.
Run(s) ==
    \/ ReadLatest(s) \/ FlushRefresh(s) \/ FlushInsert(s) \/ UniqueViolation(s)
    \/ VersionBound(s) \/ FlushVerification(s) \/ Commit(s) \/ DeadlockVictim(s)

Next ==
    \/ \E s \in Sessions :
          \/ SyncBegin(s) \/ TranscribeBegin(s) \/ VerifyBegin(s)
          \/ ReadLatest(s) \/ FlushRefresh(s) \/ FlushInsert(s) \/ UniqueViolation(s)
          \/ VersionBound(s) \/ FlushVerification(s) \/ Commit(s) \/ Abort(s) \/ DeadlockVictim(s)
    \/ Tick

Spec == Init /\ [][Next]_vars

\* A started command keeps running; nobody has to start one.  Fairness is
\* strong because PostgreSQL grants a released row lock to the session that
\* queued for it, so later arrivals cannot overtake a waiter for ever.
FairSpec == Spec /\ \A s \in Sessions : SF_vars(Run(s))
-----------------------------------------------------------------------------
(* Properties.                                                             *)

Queue == {todo \in Seq(Candidate) : Len(todo) > 0}
ReadingState == [pc : {"reading"}, started : Instants, todo : Queue]
WritingState == [pc : {"writing"}, started : Instants, todo : Queue,
                 seen : 0..MaxVersion, loaded : Row \cup {NoRow}]
VerifyingState == [pc : {"verifying"}, key : Key, seen : Version, loaded : Row,
                   doc : Docs, reported : Figures]

\* Every variable has its type; a session that is reading or writing has a
\* row of the response left to process.
TypeOK ==
    /\ table \in Rows
    /\ draft \in [Sessions -> Rows]
    /\ clock \in Instants
    /\ sess \in [Sessions -> [pc : {"idle", "committing"}] \cup ReadingState
                               \cup WritingState \cup VerifyingState]

\* A version chain: the versions of a key are 1..n with no gap and exactly the
\* last one is_latest (get_latest's scalar_one_or_none relies on it).
ChainOf(rows, k) ==
    \E n \in 0..MaxVersion : \A v \in Version :
        /\ rows[k][v] # NoRow <=> v <= n
        /\ rows[k][v] # NoRow => (rows[k][v].is_latest <=> v = n)

\* upsert_versioned: however concurrent commands interleave, committed
\* versions of a key are contiguous and exactly the newest is the latest.
OneLatest == \A k \in Key : ChainOf(table, k)

\* FinancialResult is an audit table: no step deletes a committed version,
\* changes the values it reports, or makes a superseded version latest again.
HistoryStep ==
    \A k \in Key : \A v \in Version :
        table[k][v] # NoRow =>
            /\ table'[k][v] # NoRow
            /\ Values(table'[k][v]) = Values(table[k][v])
            /\ table'[k][v].is_latest => table[k][v].is_latest
HistoryPreserved == [][HistoryStep]_vars

\* The figures a session has read in a filing.
ReadInFiling(s) ==
    IF sess[s].pc = "verifying" THEN {sess[s].reported}
    ELSE IF sess[s].pc = "writing" /\ Cand(s).verification_document # NONE
    THEN {Cand(s).fig} ELSE {}

\* services/verification.py: a row turns verified only in the flush of a session
\* that has read, in a filing, the figures the row stores by then; the comparison
\* itself used the row as loaded, before the wait for its lock.  In particular a
\* restatement never inherits the verification of the row it supersedes.
VerifiedStep ==
    \A s \in Sessions : \A k \in Key : \A v \in Version :
        (/\ draft'[s][k][v] # NoRow /\ draft'[s][k][v].status = "verified"
         /\ View(s)[k][v] # NoRow => View(s)[k][v].status # "verified")
        => draft'[s][k][v].fig \in ReadInFiling(s)
VerifiedByDocument == [][VerifiedStep]_vars

\* ProvenanceMixin: a fact counts as known before we ingested it only at an
\* instant its issuer vouches for: the end of its result_date or the
\* publication time of an archived document.
DefensibleAvailability ==
    \A k \in Key : \A v \in Version :
        table[k][v] # NoRow =>
            LET r == table[k][v]
            IN  \/ r.available_at >= r.ingested_at
                \/ r.result_date # NONE /\ r.available_at = DayEnd(r.result_date)
                \/ \E d \in Docs : r.available_at = Published[d]

\* FinancialResultRepository keeps the promise of VersionChain: whatever is
\* committed, the values reported for a key, oldest first, only grow by
\* restatements; verifying and refreshing a row are no part of its history.
Reported(k) == [v \in 1..get_latest(table, k) |-> Values(table[k][v])]
Chain == INSTANCE VersionChain WITH
    Keys <- Key, Facts <- Figures \X Dates, versions <- [k \in Key |-> Reported(k)]
VersionsRecorded == Chain!Spec

\* Every command that starts ends: a wait for another session's rows is
\* resolved by that session's commit or rollback or by the deadlock detector.
CommandsEnd == \A s \in Sessions : sess[s].pc # "idle" ~> sess[s].pc = "idle"

=============================================================================
