-------------------------- MODULE CorporateActions --------------------------
(***************************************************************************)
(* The versioned table corporate_actions and the commands that write it:   *)
(* sync-corporate-actions (NSE; the BSE adapter always answers with        *)
(* nothing, so nothing is ever cross-verified) and record-corporate-action *)
(* (a split or bonus typed in, which NSE rows never carry a ratio for).    *)
(* Its readers are the company view as of an instant, the dividend         *)
(* calendar, and the splits the FIFO replay applies.                       *)
(*                                                                         *)
(* Each command is one READ COMMITTED transaction: a chain another session *)
(* has drafted a version of is blocked by the unique index on (key,        *)
(* version) until that session ends.  Instants are days.                   *)
(***************************************************************************)
EXTENDS Naturals, Sequences

CONSTANTS Sessions,     \* concurrently running commands
          Dates,        \* ex-dates
          Amounts,      \* dividends per share
          Ratios,       \* ratios typed into record-corporate-action
          NoRatio,      \* the ratio of every split NSE lists
          ManualSources,\* --source of record-corporate-action
          MaxRows,      \* bound: rows of an NSE response
          MaxVersion,   \* bound: versions of a key
          MaxTime,      \* bound: the clock
          NONE

ASSUME CorporateActionsAssumption ==
    /\ Dates \subseteq Nat /\ MaxRows \in Nat /\ MaxVersion \in Nat /\ MaxTime \in Nat
    /\ Amounts \cap Ratios = {} /\ NoRatio \notin Amounts \cup Ratios
    /\ "nse_json_hint" \notin ManualSources /\ NONE \notin Nat

VARIABLES table,    \* committed rows: key -> its versions
          draft,    \* the chains each session has flushed and not committed
          sess,     \* what each session is doing
          clock

vars == <<table, draft, sess, clock>>

\* (action_type, event_date, source_type) of one company.
DividendKey(date) == <<"dividend", date, "nse_json_hint">>
SplitKey(date, source) == <<"split", date, source>>
Key == {DividendKey(date) : date \in Dates}
         \cup {"split"} \X Dates \X (ManualSources \cup {"nse_json_hint"})

\* The compared fields of a row, of which the amount or the ratio is kept.
Value == Amounts \cup Ratios \cup {NoRatio}
Row == [value : Value, available_at : Nat, is_latest : BOOLEAN]

Idle == [pc |-> "idle"]
NoDraft == [k \in Key |-> <<>>]
Candidate == [key : Key, value : Value]

-----------------------------------------------------------------------------
(* Candidates.                                                             *)

\* CorporateActionNormalizer.normalize of one row with a parseable exDate:
\* its ratio is None whatever the subject says.
normalize(date, amount) ==
    [key |-> IF amount = NoRatio THEN SplitKey(date, "nse_json_hint") ELSE DividendKey(date),
     value |-> amount]

\* The dividends and splits an NSE response may list; several may share an
\* ex-date.  A response without any writes nothing.
NseRows == {normalize(date, amount) : date \in Dates, amount \in Amounts \cup {NoRatio}}
Responses == UNION {[1..n -> NseRows] : n \in 1..MaxRows}

\* What record_corporate_action_event builds: f"{ratio_old}:{ratio_new}".
SplitCandidate(date, ratio, source) ==
    [key |-> SplitKey(date, source), value |-> ratio]

-----------------------------------------------------------------------------
(* Reads.                                                                  *)

View(s, k) == IF draft[s][k] # <<>> THEN draft[s][k] ELSE table[k]

Latest(chain) == {v \in DOMAIN chain : chain[v].is_latest}

\* get_latest: the version of the is_latest row, 0 for None.
get_latest(chain) == IF Latest(chain) = {} THEN 0 ELSE CHOOSE v \in Latest(chain) : TRUE

\* Mutant: the point-in-time read restricted to is_latest rows.
KnownLatest(chain, t) ==
    {v \in DOMAIN chain : chain[v].available_at <= t /\ chain[v].is_latest}

\* The versions available_at <= as_of.
Known(chain, t) == {v \in DOMAIN chain : chain[v].available_at <= t}

\* list_by_company_as_of, list_all_splits_and_bonuses_as_of: per key the value
\* of the highest version known at t, NONE where there is none.
list_as_of(t) ==
    [k \in Key |->
        LET known == Known(table[k], t)
        IN  IF known = {} THEN NONE
            ELSE table[k][CHOOSE v \in known : \A w \in known : w <= v].value]

\* load_corporate_action_events: the splits FIFO applies, one without a ratio
\* being no split at all; as_of = NONE reads the current rows.
load_corporate_action_events(as_of) ==
    LET value(k) == IF as_of # NONE THEN list_as_of(as_of)[k]
                    ELSE IF Latest(table[k]) = {} THEN NONE
                    ELSE table[k][get_latest(table[k])].value
    IN  {<<k, value(k)>> : k \in {x \in Key : /\ x[1] = "split"
                                              /\ value(x) \notin {NoRatio, NONE}}}

-----------------------------------------------------------------------------
(* Commands.                                                               *)

Init ==
    /\ table = [k \in Key |-> <<>>]
    /\ draft = [s \in Sessions |-> NoDraft]
    /\ sess = [s \in Sessions |-> Idle]
    /\ clock = 0

Upserting(s, started, todo) ==
    sess' = [sess EXCEPT ![s] = [pc |-> "reading", started |-> started, todo |-> todo]]

\* sync: the transaction starts with ensure_company, before NSE is asked.
SyncBegin(s) ==
    /\ sess[s].pc = "idle"
    /\ sess' = [sess EXCEPT ![s] = [pc |-> "fetching", started |-> clock]]
    /\ UNCHANGED <<table, draft, clock>>

\* get_corporate_actions answers.
Fetched(s) ==
    /\ sess[s].pc = "fetching"
    /\ \E response \in Responses : Upserting(s, sess[s].started, response)
    /\ UNCHANGED <<table, draft, clock>>

\* record_corporate_action_event.
RecordBegin(s) ==
    /\ sess[s].pc = "idle"
    /\ \E date \in Dates, ratio \in Ratios, source \in ManualSources :
          Upserting(s, clock, <<SplitCandidate(date, ratio, source)>>)
    /\ UNCHANGED <<table, draft, clock>>

Cand(s) == Head(sess[s].todo)

\* upsert_versioned: existing = get_latest(...).
ReadLatest(s) ==
    /\ sess[s].pc = "reading"
    /\ LET chain == View(s, Cand(s).key)
           v == get_latest(chain)
       IN  sess' = [sess EXCEPT ![s] =
              [pc |-> "writing", started |-> @.started, todo |-> @.todo, version |-> v,
               existing |-> IF v = 0 THEN NONE ELSE chain[v].value]]
    /\ UNCHANGED <<table, draft, clock>>

\* The next candidate of the response, or the commit.
NextCandidate(s) ==
    sess' = [sess EXCEPT ![s] =
        IF Len(@.todo) > 1
        THEN [pc |-> "reading", started |-> @.started, todo |-> Tail(@.todo)]
        ELSE [pc |-> "committing", started |-> @.started]]

\* Mutant: every candidate is a new version.
NeverEqual(s) == FALSE

_values_equal(s) == sess[s].existing = Cand(s).value

Unchanged(s) ==
    /\ sess[s].pc = "writing" /\ _values_equal(s)
    /\ NextCandidate(s)
    /\ UNCHANGED <<table, draft, clock>>

\* available_at has server_default now(): the start of the transaction.
NewRow(data, started) ==
    [value |-> data.value, available_at |-> started, is_latest |-> TRUE]

\* The new version, and existing.is_latest = False.
Supersede(chain, version, row) ==
    Append([v \in DOMAIN chain |->
              IF v = version THEN [chain[v] EXCEPT !.is_latest = FALSE] ELSE chain[v]], row)

\* Another session's uncommitted version blocks the insert.
Blocked(s) == \E t \in Sessions \ {s} : draft[t][Cand(s).key] # <<>>

\* Mutant: the unique index does not cover the version.
NeverTaken(s) == FALSE

\* The version is already taken by a committed row.
VersionTaken(s) == Len(View(s, Cand(s).key)) # sess[s].version

\* existing is None or differs: version + 1.
InsertVersion(s) ==
    /\ sess[s].pc = "writing" /\ ~_values_equal(s)
    /\ ~Blocked(s) /\ ~VersionTaken(s)
    /\ sess[s].version < MaxVersion
    /\ draft' = [draft EXCEPT ![s][Cand(s).key] =
                   Supersede(View(s, Cand(s).key), sess[s].version,
                             NewRow(Cand(s), sess[s].started))]
    /\ NextCandidate(s)
    /\ UNCHANGED <<table, clock>>

Commit(s) ==
    /\ sess[s].pc = "committing"
    /\ table' = [k \in Key |-> View(s, k)]
    /\ draft' = [draft EXCEPT ![s] = NoDraft]
    /\ sess' = [sess EXCEPT ![s] = Idle]
    /\ UNCHANGED clock

\* Any statement or request may fail; the unique index, a deadlock and (an
\* artefact) MaxVersion make some.  The session is rolled back.
Rollback(s) ==
    /\ sess[s].pc # "idle"
    /\ draft' = [draft EXCEPT ![s] = NoDraft]
    /\ sess' = [sess EXCEPT ![s] = Idle]
    /\ UNCHANGED <<table, clock>>

Tick ==
    /\ clock < MaxTime
    /\ clock' = clock + 1
    /\ UNCHANGED <<table, draft, sess>>

Next ==
    \/ \E s \in Sessions :
          \/ SyncBegin(s) \/ Fetched(s) \/ RecordBegin(s)
          \/ ReadLatest(s) \/ Unchanged(s) \/ InsertVersion(s)
          \/ Commit(s) \/ Rollback(s)
    \/ Tick

Spec == Init /\ [][Next]_vars

-----------------------------------------------------------------------------
(* Properties.                                                             *)

TypeOK ==
    /\ table \in [Key -> Seq(Row)]
    /\ draft \in [Sessions -> [Key -> Seq(Row)]]
    /\ \A s \in Sessions :
         /\ sess[s].pc \in {"idle", "fetching", "reading", "writing", "committing"}
         /\ sess[s].pc # "idle" => sess[s].started \in 0..clock
         /\ sess[s].pc \in {"reading", "writing"} =>
              sess[s].todo \in Seq(Candidate) /\ sess[s].todo # <<>>
         /\ sess[s].pc = "writing" => sess[s].version \in Nat
    /\ clock \in 0..MaxTime

\* The two ways of reading the present agree: the is_latest flag names exactly
\* the highest version of every chain, whatever sessions raced to write it.
LatestIsHighest ==
    \A k \in Key : Latest(table[k]) = IF table[k] = <<>> THEN {} ELSE {Len(table[k])}

\* The table keeps the promise of VersionChain.
Chain == INSTANCE VersionChain WITH
    Keys <- Key, Facts <- Value,
    versions <- [k \in Key |-> [v \in DOMAIN table[k] |-> table[k][v].value]]
VersionsRecorded == Chain!Spec

\* A transaction that has begun and not ended.
Open(s) == sess[s].pc # "idle"

\* What a walk-forward decision frozen at t, or a company view as of t, reads
\* is settled once every transaction begun by t has ended: no later sync,
\* amendment or backfill changes it.
SettledPastStep ==
    \A t \in 0..MaxTime :
        (t < clock /\ \A s \in Sessions : Open(s) => sess[s].started > t)
        => /\ list_as_of(t)' = list_as_of(t)
           /\ load_corporate_action_events(t)' = load_corporate_action_events(t)
SettledPast == [][SettledPastStep]_vars

=============================================================================
