---------------------------- MODULE WalkForward ----------------------------
(***************************************************************************)
(* Walk-forward simulation (services/walkforward/) of one symbol in one    *)
(* broker account: a run freezes, for past dates, what was decided (ACTUAL) *)
(* and the decision to do nothing (HOLD_BASELINE), and scores both against *)
(* later prices; a replay adds the deterministic AGENT baseline to a run;  *)
(* a back-fill adds the total-return comparison to the outcomes of a run.  *)
(*                                                                         *)
(* Each command is one READ COMMITTED transaction, so what it reads may be *)
(* ingested between two of its reads.  Prices and recorded events are      *)
(* never changed once stored; dates are integers, a month is a number of   *)
(* days, and a figure is an integer in units of 1/Unit.                    *)
(***************************************************************************)
EXTENDS Integers, SequencesExt

CONSTANTS Sessions,   \* concurrently running commands
          Timeline,   \* the true events of the symbol, in replay_fifo's order
          Price,      \* series -> the close of each day, stored or not
          Months,     \* the horizons, in days
          Lookahead,  \* DEFAULT_MAX_LOOKAHEAD_DAYS
          Points,     \* dates --position may name
          Worlds,     \* what may be stored when the commands start
          Today,      \* the day the commands run
          Unit,       \* a stored return has the precision 1/Unit
          MaxPoints,  \* bound: decision dates of a command
          MaxRuns,    \* bound: committed runs
          MaxCommands,\* bound: commands started
          NONE

Stock == "STOCK"
BENCHMARK_CODE == "NIFTY_50"
TRI_BENCHMARK_CODE == "NIFTY_50_TRI"
Series == {Stock, BENCHMARK_CODE, TRI_BENCHMARK_CODE}
Day == DOMAIN Price[Stock]
Event == DOMAIN Timeline
Horizon == DOMAIN Months

ASSUME WalkForwardAssumption ==
    /\ DOMAIN Price = Series
    /\ \A x \in Series : DOMAIN Price[x] = Day /\ \A d \in Day : Price[x][d] \in Nat \ {0}
    /\ Day \subseteq Int /\ Points \subseteq Int /\ IsFiniteSet(Points)
    /\ Months \in Seq(Nat \ {0}) \ {<<>>} /\ Lookahead \in Nat
    /\ Timeline \in Seq([kind : {"OPENING", "SPLIT", "BUY", "SELL"}, date : Int,
                         amount : Nat \ {0}])
    /\ Worlds \subseteq [market : SUBSET (Series \X Day), recorded : [Event -> Int \cup {NONE}]]
    /\ Unit \in Nat \ {0} /\ MaxRuns \in Nat /\ MaxPoints \in Nat /\ MaxCommands \in Nat
    /\ Today \in Int /\ NONE \notin Int

\* The sort key of replay_fifo: on one date opening adjustments come first,
\* then corporate actions, then trades.
Priority(kind) == CASE kind = "OPENING" -> 0 [] kind = "SPLIT" -> 1 [] OTHER -> 2

ASSUME TimelineAssumption ==
    \A i, j \in Event : i < j =>
        \/ Timeline[i].date < Timeline[j].date
        \/ /\ Timeline[i].date = Timeline[j].date
           /\ Priority(Timeline[i].kind) <= Priority(Timeline[j].kind)

VARIABLES market,   \* the daily and benchmark closes ingested
          recorded, \* event -> the instant it was recorded, or NONE
          runs,     \* committed runs
          table,    \* committed decisions with their outcomes
          started,  \* commands started
          draft,    \* rows each session has flushed and not committed
          sess      \* what each session is doing

vars == <<market, recorded, runs, table, started, draft, sess>>

Source == {"ACTUAL", "HOLD_BASELINE", "AGENT"}
Run == 1..MaxRuns
DecisionDate == Points \cup {Timeline[i].date : i \in {j \in Event : Timeline[j].kind \in {"BUY", "SELL"}}}
Key == Run \X DecisionDate \X Source

\* What a session keeps: its command, the job at hand and those to come, and
\* what it has read and computed for the job.
Idle ==
    [pc |-> "idle", cmd |-> NONE, run |-> NONE, quiet |-> FALSE, job |-> NONE, todo |-> <<>>,
     at |-> NONE, prior |-> NONE, decision |-> NONE, events |-> {}, existing |-> NONE,
     entry |-> NONE, turns |-> <<>>, widest_end_date |-> NONE, days |-> {}, outcome |-> NONE]
NoDraft == [k \in Key |-> NONE]

Init ==
    /\ \E w \in Worlds : market = w.market /\ recorded = w.recorded
    /\ runs = {}
    /\ table = NoDraft
    /\ started = 0
    /\ draft = [s \in Sessions |-> NoDraft]
    /\ sess = [s \in Sessions |-> Idle]

-----------------------------------------------------------------------------
(* The portfolio as of a date.                                             *)

Kind(i) == Timeline[i].kind

\* What replay_fifo makes of one event.  Only the open quantity and the
\* warnings are kept: lots and costs are the subject of FifoLots.
Apply(position, event) ==
    CASE event.kind = "OPENING" ->
            [position EXCEPT !.quantity = @ + event.amount, !.warned = TRUE]
      [] event.kind = "SPLIT" -> [position EXCEPT !.quantity = @ * event.amount]
      [] event.kind = "BUY"   -> [position EXCEPT !.quantity = @ + event.amount]
      [] event.kind = "SELL"  ->
            IF event.amount <= position.quantity
            THEN [position EXCEPT !.quantity = @ - event.amount]
            ELSE [quantity |-> 0, warned |-> TRUE]

replay_trades(events) ==
    FoldLeftDomain(LAMBDA p, i : IF i \in events THEN Apply(p, Timeline[i]) ELSE p,
                   [quantity |-> 0, warned |-> FALSE], Timeline)

\* list_up_to: the imported trades dated as_of or earlier.
list_up_to(as_of) ==
    {i \in Event : Kind(i) \in {"BUY", "SELL"} /\ recorded[i] # NONE
                   /\ Timeline[i].date <= as_of}

\* list_all_splits_and_bonuses_as_of, and list_all_splits_and_bonuses.
splits_as_of(cutoff) ==
    {i \in Event : Kind(i) = "SPLIT" /\ recorded[i] # NONE /\ recorded[i] <= cutoff}
all_splits == {i \in Event : Kind(i) = "SPLIT" /\ recorded[i] # NONE}

opening_adjustments == {i \in Event : Kind(i) = "OPENING" /\ recorded[i] # NONE}

\* Opening adjustments and splits are not restricted to dates up to as_of.
get_portfolio_as_of(as_of, cutoff) ==
    replay_trades(list_up_to(as_of) \cup splits_as_of(cutoff) \cup opening_adjustments)

-----------------------------------------------------------------------------
(* Decisions.                                                              *)

classify_actual_action(prior, post, trades_on_date) ==
    CASE trades_on_date = {}    -> "HOLD"
      [] trades_on_date # {} /\ prior = 0 /\ post > 0 -> "BUY"
      [] trades_on_date # {} /\ post = 0 /\ prior > 0 -> "EXIT"
      [] trades_on_date # {} /\ 0 < prior /\ prior < post -> "ADD"
      [] trades_on_date # {} /\ 0 < post /\ post < prior -> "REDUCE"
      [] OTHER -> "HOLD"

\* Every warning about the symbol names it.
_symbol_data_quality(snapshot) ==
    IF snapshot.warned THEN "RECONSTRUCTION_WARNING" ELSE "CLEAN"

ActualDecision(at, prior, trades_on_date) ==
    [action |-> classify_actual_action(prior.quantity, at.quantity, trades_on_date),
     quantity_held |-> at.quantity, evidence |-> trades_on_date,
     data_quality_status |-> _symbol_data_quality(at)]

\* Mutant: the position of the day itself is taken for the one before it.
HoldAfterTheTrades(at, prior) ==
    [action |-> "HOLD", quantity_held |-> at.quantity, evidence |-> {},
     data_quality_status |-> _symbol_data_quality(at)]

HoldDecision(at, prior) ==
    [action |-> "HOLD", quantity_held |-> prior.quantity, evidence |-> {},
     data_quality_status |-> _symbol_data_quality(prior)]

\* A position with a corporate_action_flag holds a synthetic lot, which
\* always comes with a warning: it is never clean.
BaselineDecision(prior) ==
    [action |-> IF prior.warned \/ prior.quantity = 0 THEN "INSUFFICIENT_EVIDENCE" ELSE "HOLD",
     quantity_held |-> prior.quantity, evidence |-> {},
     data_quality_status |-> _symbol_data_quality(prior)]

freeze(source, at, prior, trades_on_date) ==
    CASE source = "ACTUAL"        -> ActualDecision(at, prior, trades_on_date)
      [] source = "HOLD_BASELINE" -> HoldDecision(at, prior)
      [] source = "AGENT"         -> BaselineDecision(prior)

Action == {"BUY", "ADD", "HOLD", "REDUCE", "EXIT", "INSUFFICIENT_EVIDENCE"}
Decision == [action : Action, quantity_held : Nat, evidence : SUBSET Event,
             data_quality_status : {"CLEAN", "RECONSTRUCTION_WARNING"}]

-----------------------------------------------------------------------------
(* Prices and returns.                                                     *)

Stored(series, from, to) == {d \in from..to : <<series, d>> \in market}

\* Mutant: the nearest close on either side of the decision.
NearestEntry(series, decision_at) ==
    LET on_or_after == {d \in Day : d >= decision_at /\ <<series, d>> \in market}
    IN  IF on_or_after = {} THEN NONE ELSE Min(on_or_after)

\* get_nearest_on_or_before, however old.
resolve_entry_price(series, decision_at) ==
    LET on_or_before == {d \in Day : d <= decision_at /\ <<series, d>> \in market}
    IN  IF on_or_before = {} THEN NONE ELSE Max(on_or_before)

\* get_nearest_on_or_after.
resolve_horizon_price(series, target) ==
    LET near == Stored(series, target, target + Lookahead)
    IN  IF near = {} THEN NONE ELSE Min(near)

\* The product of ratio_new / ratio_old.
ProductOfRatios(events) ==
    FoldFunctionOnSet(LAMBDA x, y : x * y, 1, [i \in Event |-> Timeline[i].amount], events)

\* Mutant: the split of the decision day is counted although the entry
\* close of that day already reflects it.
FactorFromDay(events, start_date, end_date) ==
    ProductOfRatios({i \in events : start_date <= Timeline[i].date /\ Timeline[i].date <= end_date})

cumulative_split_factor(events, start_date, end_date) ==
    ProductOfRatios({i \in events : start_date < Timeline[i].date /\ Timeline[i].date <= end_date})

\* end / start - 1, as it is stored.  No start is zero.
Return(start, end) == (end * Unit) \div start - Unit

split_adjusted_return(entry, date, factor) ==
    Return(Price[Stock][entry], Price[Stock][date] * factor)

StockReturn(decision_at, events, entry, date) ==
    IF NONE \in {entry, date} THEN NONE
    ELSE split_adjusted_return(entry, date, cumulative_split_factor(events, decision_at, date))

simple_return(code, entry, date) ==
    IF NONE \in {entry, date} THEN NONE ELSE Return(Price[code][entry], Price[code][date])

Excess(return, benchmark_return) ==
    IF NONE \in {return, benchmark_return} THEN NONE ELSE return - benchmark_return

\* max_drawdown_pct of the closes of days, each on the share count of end_date:
\* the worst return from a close to a later one, or 0.
max_drawdown_pct(events, days, end_date) ==
    LET adjusted(d, other) ==
            Price[Stock][d] * cumulative_split_factor(events, other, end_date)
    IN  Min({0} \cup {Return(adjusted(p[1], p[2]), adjusted(p[2], p[1])) :
                        p \in {q \in days \X days : q[1] < q[2]}})

-----------------------------------------------------------------------------
(* Outcomes.                                                               *)

Scored(return) == {h \in Horizon : return[h] # NONE}

outcome_status(entry_price_date, return) ==
    IF entry_price_date = NONE \/ Scored(return) = {} THEN "UNSCORABLE"
    ELSE IF Scored(return) = Horizon THEN "SCORED" ELSE "PARTIAL"

\* What one turn of the loop finds for the closes of the dates of a horizon.
ScoreHorizon(decision_at, events, entry, date) ==
    [price_date |-> date[Stock],
     stock_return |-> StockReturn(decision_at, events, entry[Stock], date[Stock]),
     benchmark_return |-> simple_return(BENCHMARK_CODE, entry[BENCHMARK_CODE], date[BENCHMARK_CODE]),
     benchmark_tri_return |->
        simple_return(TRI_BENCHMARK_CODE, entry[TRI_BENCHMARK_CODE], date[TRI_BENCHMARK_CODE])]

\* The row score_outcome builds of all turns.
Outcome(entry_price_date, turns, drawdown) ==
    LET column(f) == [h \in Horizon |-> turns[h][f]]
        excess(f) == [h \in Horizon |-> Excess(turns[h].stock_return, turns[h][f])]
    IN  [entry_price_date |-> entry_price_date,
         price_date |-> column("price_date"),
         stock_return |-> column("stock_return"),
         benchmark_return |-> column("benchmark_return"),
         excess_return |-> excess("benchmark_return"),
         benchmark_tri_return |-> column("benchmark_tri_return"),
         excess_return_tri |-> excess("benchmark_tri_return"),
         max_drawdown_pct |-> drawdown,
         outcome_status |-> outcome_status(entry_price_date, column("stock_return"))]

TriField == {"benchmark_tri_return", "excess_return_tri"}

\* The columns the flush of a back-fill writes: those that differ from the row
\* as loaded, which every figure does, the stored one being rounded.
TriWritten(existing, computed) ==
    {x \in TriField \X Horizon :
        computed[x[1]][x[2]] # NONE \/ existing[x[1]][x[2]] # NONE}

\* Mutant: the whole outcome is scored anew.
Rescore(outcome, existing, computed) == computed

\* backfill_tri_returns onto the row as it is when the UPDATE gets its lock.
backfill_tri_returns(outcome, existing, computed) ==
    LET write(f) == [h \in Horizon |-> IF <<f, h>> \in TriWritten(existing, computed)
                                       THEN computed[f][h] ELSE outcome[f][h]]
    IN  [outcome EXCEPT !.benchmark_tri_return = write("benchmark_tri_return"),
                        !.excess_return_tri = write("excess_return_tri")]

Figure == Int \cup {NONE}
OutcomeRow ==
    [entry_price_date : Figure, price_date : [Horizon -> Figure],
     stock_return : [Horizon -> Figure], benchmark_return : [Horizon -> Figure],
     excess_return : [Horizon -> Figure], benchmark_tri_return : [Horizon -> Figure],
     excess_return_tri : [Horizon -> Figure], max_drawdown_pct : Figure,
     outcome_status : {"SCORED", "PARTIAL", "UNSCORABLE"}]
Row == [decision : Decision, outcome : OutcomeRow \cup {NONE}]

ASSUME NoneAssumption ==
    /\ NONE \notin Row /\ NONE \notin OutcomeRow
    /\ NONE \notin {"RECONSTRUCTION_WARNING", "UNSCORABLE_NO_ENTRY_PRICE",
                    "UNSCORABLE_NO_HORIZON_DATA", "WASH_TRADE_HOLD"}

-----------------------------------------------------------------------------
(* What the other commands store meanwhile.                                *)

\* A run in flight is quiet while nothing has been stored since it began:
\* a history variable, read by no action.
Disturbed ==
    sess' = [s \in Sessions |->
                IF sess[s].pc # "idle" /\ sess[s].cmd = "run"
                THEN [sess[s] EXCEPT !.quiet = FALSE] ELSE sess[s]]

\* A price or index sync commits the close of a day, or back-fills a gap.
IngestPrice(series, day) ==
    /\ <<series, day>> \notin market
    /\ market' = market \cup {<<series, day>>}
    /\ Disturbed
    /\ UNCHANGED <<recorded, runs, table, started, draft>>

\* A trade is imported, a split or an opening adjustment is recorded.
RecordEvent(i) ==
    /\ recorded[i] = NONE
    /\ recorded' = [recorded EXCEPT ![i] = Today]
    /\ Disturbed
    /\ UNCHANGED <<market, runs, table, started, draft>>

-----------------------------------------------------------------------------
(* Commands.                                                               *)

JobKey(s) == <<sess[s].run, sess[s].job[1], sess[s].job[2]>>
Date(s) == sess[s].job[1]
View(s, k) == IF draft[s][k] # NONE THEN draft[s][k] ELSE table[k]

\* Where the work on a decision starts.
FirstStep(cmd) == CASE cmd = "run" -> "at" [] cmd = "replay" -> "prior" [] OTHER -> "load"

\* The command and the job at hand, at another step.
At(r, pc) ==
    [Idle EXCEPT !.pc = pc, !.cmd = r.cmd, !.run = r.run, !.quiet = r.quiet, !.job = r.job,
                 !.todo = r.todo]

\* A command works through a sequence of sets of jobs <<decision_at, source>>:
\* the order within a set is the database's.  These are the ways to take up
\* the next job, or to come to the end.
Without(todo, job) ==
    IF Head(todo) = {job} THEN Tail(todo) ELSE [todo EXCEPT ![1] = @ \ {job}]
TakeUp(r) ==
    IF r.todo = <<>> THEN {[At(r, "commit") EXCEPT !.job = NONE]}
    ELSE {[At(r, FirstStep(r.cmd)) EXCEPT !.job = job, !.todo = Without(@, job)] :
              job \in Head(r.todo)}

NextJob(s) == \E r \in TakeUp(sess[s]) : sess' = [sess EXCEPT ![s] = r]

Begin(s, cmd, run, todo) ==
    /\ sess[s].pc = "idle" /\ started < MaxCommands
    /\ started' = started + 1
    /\ \E r \in TakeUp([Idle EXCEPT !.cmd = cmd, !.run = run, !.quiet = cmd = "run",
                                     !.todo = todo]) :
          sess' = [sess EXCEPT ![s] = r]
    /\ UNCHANGED <<market, recorded, runs, table, draft>>

\* The ids of the runs nobody has.
Unused == {r \in Run \ runs : \A s \in Sessions : sess[s].pc # "idle" => sess[s].run # r}

\* ACTUAL and then HOLD_BASELINE of each date.
BothSources(dates) ==
    [n \in 1..2 * Len(dates) |->
        {<<dates[(n + 1) \div 2], IF n % 2 = 1 THEN "ACTUAL" ELSE "HOLD_BASELINE">>}]

\* walk-forward-run with its --position options, which may repeat.
run_walk_forward(s) ==
    \E r \in Unused, n \in 1..MaxPoints : \E dates \in [1..n -> Points] :
        Begin(s, "run", r, BothSources(dates))

\* The dates of D from the first to the last: the one sequence there is.
InOrder(D) ==
    {f \in [1..Cardinality(D) -> D] : \A m, n \in 1..Cardinality(D) : m < n => f[m] < f[n]}

generate_decision_points ==
    {Timeline[i].date : i \in {j \in Event : Kind(j) \in {"BUY", "SELL"} /\ recorded[j] # NONE}}

\* walk-forward-bulk-run.
run_bulk_walk_forward(s) ==
    /\ Cardinality(generate_decision_points) <= MaxPoints
    /\ \E r \in Unused, dates \in InOrder(generate_decision_points) :
          Begin(s, "run", r, BothSources(dates))

\* list_for_run: the decisions of a run of some sources, by date.
Decided(run, d, sources) == {<<d, x>> : x \in {y \in sources : table[<<run, d, y>>] # NONE}}
list_for_run(run, sources) ==
    InOrder({d \in DecisionDate : Decided(run, d, sources) # {}})

\* historical-agent-comparator-run: a baseline for every ACTUAL decision.
replay_deterministic_baseline(s) ==
    \E r \in runs : \E dates \in list_for_run(r, {"ACTUAL"}) :
        Begin(s, "replay", r, [n \in DOMAIN dates |-> {<<dates[n], "AGENT">>}])

\* backfill-walk-forward-tri.
backfill_walk_forward_tri(s) ==
    \E r \in runs : \E dates \in list_for_run(r, Source) :
        Begin(s, "backfill", r, [n \in DOMAIN dates |-> Decided(r, dates[n], Source)])

-----------------------------------------------------------------------------
(* Freezing a decision.                                                    *)

\* snapshot_at of freeze_decision.
SnapshotAt(s) ==
    /\ sess[s].pc = "at"
    /\ sess' = [sess EXCEPT ![s] =
          [@ EXCEPT !.pc = "prior", !.at = get_portfolio_as_of(Date(s), Date(s))]]
    /\ UNCHANGED <<market, recorded, runs, table, started, draft>>

\* snapshot_prior, with the same feature_cutoff_at.
SnapshotPrior(s) ==
    /\ sess[s].pc = "prior"
    /\ LET r == sess[s]
           prior == get_portfolio_as_of(Date(s) - 1, Date(s))
       IN  sess' = [sess EXCEPT ![s] =
              [r EXCEPT !.pc = "decide", !.prior = prior,
                        !.at = IF r.cmd = "run" THEN r.at ELSE prior]]
    /\ UNCHANGED <<market, recorded, runs, table, started, draft>>

\* The trades of the day are read, the decision is built, and
\* create_if_not_exists looks its key up.
Decide(s) ==
    /\ sess[s].pc = "decide"
    /\ LET trades_on_date == {i \in list_up_to(Date(s)) : Timeline[i].date = Date(s)}
           decision == freeze(sess[s].job[2], sess[s].at, sess[s].prior, trades_on_date)
       IN  sess' = [sess EXCEPT ![s] =
              IF View(s, JobKey(s)) # NONE THEN At(@, "load")
              ELSE [At(@, "insert") EXCEPT !.decision = decision]]
    /\ UNCHANGED <<market, recorded, runs, table, started, draft>>

Rollback(s) ==
    /\ draft' = [draft EXCEPT ![s] = NoDraft]
    /\ sess' = [sess EXCEPT ![s] = Idle]
    /\ UNCHANGED <<market, recorded, runs, table, started>>

\* Another session has flushed the row this one has to write.
HeldBy(t, k) == draft[t][k] # NONE

\* The INSERT of create_if_not_exists, once no other session holds the key.
InsertDecision(s) ==
    /\ sess[s].pc = "insert"
    /\ \A t \in Sessions \ {s} : ~HeldBy(t, JobKey(s))
    /\ table[JobKey(s)] = NONE
    /\ draft' = [draft EXCEPT ![s][JobKey(s)] = [decision |-> sess[s].decision, outcome |-> NONE]]
    /\ sess' = [sess EXCEPT ![s] = At(@, "load")]
    /\ UNCHANGED <<market, recorded, runs, table, started>>

\* The key was committed after it was looked up: the command fails.
UniqueViolation(s) ==
    /\ sess[s].pc = "insert" /\ table[JobKey(s)] # NONE
    /\ Rollback(s)

-----------------------------------------------------------------------------
(* Scoring a decision: score_outcome.                                      *)

\* The outcome there is, the splits known by now, and the entry closes.
LoadEntry(s) ==
    /\ sess[s].pc = "load"
    /\ sess' = [sess EXCEPT ![s] =
          [At(@, "horizon") EXCEPT
              !.events = all_splits, !.existing = View(s, JobKey(s)).outcome,
              !.entry = [x \in Series |-> resolve_entry_price(x, Date(s))]]]
    /\ UNCHANGED <<market, recorded, runs, table, started, draft>>

\* One turn of the loop over _HORIZONS.
ResolveHorizon(s) ==
    /\ sess[s].pc = "horizon"
    /\ LET r == sess[s]
           h == Len(r.turns) + 1
           date == [x \in Series |-> resolve_horizon_price(x, Date(s) + Months[h])]
           widest == IF NONE \in {r.entry[Stock], date[Stock]} THEN r.widest_end_date
                     ELSE Max({date[Stock]} \cup ({r.widest_end_date} \ {NONE}))
       IN  sess' = [sess EXCEPT ![s] =
              [r EXCEPT !.pc = IF h = Len(Months) THEN "drawdown" ELSE "horizon",
                        !.turns = Append(@, ScoreHorizon(Date(s), r.events, r.entry, date)),
                        !.widest_end_date = widest]]
    /\ UNCHANGED <<market, recorded, runs, table, started, draft>>

\* _compute_max_drawdown over the closes stored from the decision on: the last
\* that is read for the row.
ComputeMaxDrawdown(s) ==
    /\ sess[s].pc = "drawdown"
    /\ LET r == sess[s]
           end == r.widest_end_date
           days == IF end = NONE THEN {} ELSE Stored(Stock, Date(s), end)
           drawdown == IF \A d, e \in days : d = e THEN NONE
                       ELSE max_drawdown_pct(r.events, days, end)
       IN  sess' = [sess EXCEPT ![s] =
              [At(r, "write") EXCEPT
                  !.days = days, !.events = r.events, !.existing = r.existing,
                  !.outcome = Outcome(r.entry[Stock], r.turns, drawdown)]]
    /\ UNCHANGED <<market, recorded, runs, table, started, draft>>

\* A new outcome is inserted with its decision.
InsertOutcome(s) ==
    /\ sess[s].pc = "write" /\ sess[s].existing = NONE
    /\ draft' = [draft EXCEPT ![s][JobKey(s)] =
                    [View(s, JobKey(s)) EXCEPT !.outcome = sess[s].outcome]]
    /\ NextJob(s)
    /\ UNCHANGED <<market, recorded, runs, table, started>>

Backfills(s) == sess[s].pc = "write" /\ sess[s].existing # NONE
Writes(s) == TriWritten(sess[s].existing, sess[s].outcome) # {}

\* An existing one gets its total-return figures, once its row is free.
BackfillOutcome(s) ==
    /\ Backfills(s)
    /\ Writes(s) => \A t \in Sessions \ {s} : ~HeldBy(t, JobKey(s))
    /\ LET row == View(s, JobKey(s))
           outcome == backfill_tri_returns(row.outcome, sess[s].existing, sess[s].outcome)
       IN  draft' = IF Writes(s)
                    THEN [draft EXCEPT ![s][JobKey(s)] = [row EXCEPT !.outcome = outcome]]
                    ELSE draft
    /\ NextJob(s)
    /\ UNCHANGED <<market, recorded, runs, table, started>>

-----------------------------------------------------------------------------
(* The end of a command.                                                   *)

Commit(s) ==
    /\ sess[s].pc = "commit"
    /\ runs' = runs \cup {sess[s].run}
    /\ table' = [k \in Key |-> View(s, k)]
    /\ draft' = [draft EXCEPT ![s] = NoDraft]
    /\ sess' = [sess EXCEPT ![s] = Idle]
    /\ UNCHANGED <<market, recorded, started>>

\* An exception, a kill, a lost connection.
Abort(s) == sess[s].pc # "idle" /\ Rollback(s)

WaitsFor(s, t) ==
    /\ s # t
    /\ \/ sess[s].pc = "insert" /\ table[JobKey(s)] = NONE
       \/ Backfills(s) /\ Writes(s)
    /\ HeldBy(t, JobKey(s))

\* PostgreSQL ends a cycle of lock waits by failing one of its sessions.
DeadlockVictim(s) ==
    /\ \E G \in SUBSET Sessions : s \in G /\ \A x \in G : \E y \in G : WaitsFor(x, y)
    /\ Rollback(s)

Start(s) ==
    \/ run_walk_forward(s) \/ run_bulk_walk_forward(s)
    \/ replay_deterministic_baseline(s) \/ backfill_walk_forward_tri(s)

\* The steps a command takes by itself.
Proceed(s) ==
    \/ SnapshotAt(s) \/ SnapshotPrior(s) \/ Decide(s) \/ InsertDecision(s) \/ UniqueViolation(s)
    \/ LoadEntry(s) \/ ResolveHorizon(s) \/ ComputeMaxDrawdown(s)
    \/ InsertOutcome(s) \/ BackfillOutcome(s) \/ Commit(s) \/ DeadlockVictim(s)

Next ==
    \/ \E s \in Sessions : Start(s) \/ Proceed(s) \/ Abort(s)
    \/ \E series \in Series, day \in Day : IngestPrice(series, day)
    \/ \E i \in Event : RecordEvent(i)

Spec == Init /\ [][Next]_vars

-----------------------------------------------------------------------------
(* What the reports make of a row.                                         *)

\* _exclusion_reason of audit.py.
_exclusion_reason(row) ==
    IF row.decision.data_quality_status # "CLEAN" THEN "RECONSTRUCTION_WARNING"
    ELSE IF row.outcome.outcome_status = "UNSCORABLE"
    THEN IF row.outcome.entry_price_date = NONE THEN "UNSCORABLE_NO_ENTRY_PRICE"
         ELSE "UNSCORABLE_NO_HORIZON_DATA"
    ELSE IF row.decision.action = "HOLD" THEN "WASH_TRADE_HOLD" ELSE NONE

\* decision_dollar_impact of aggregation.py, where there is a return.
decision_dollar_impact(actual, hold, h) ==
    (actual.decision.quantity_held - hold.decision.quantity_held)
        * Price[Stock][actual.outcome.entry_price_date] * actual.outcome.stock_return[h]

-----------------------------------------------------------------------------
(* Properties.                                                             *)

\* Stored facts, committed and drafted rows have their types.
TypeOK ==
    /\ market \subseteq Series \X Day
    /\ recorded \in [Event -> Int \cup {NONE}]
    /\ runs \subseteq Run /\ started \in Nat
    /\ table \in [Key -> Row \cup {NONE}]
    /\ draft \in [Sessions -> [Key -> Row \cup {NONE}]]
    /\ \A s \in Sessions :
          sess[s].pc \in {"idle", "at", "prior", "decide", "insert", "load", "horizon",
                          "drawdown", "write", "commit"}

\* Every committed decision belongs to a committed run and has an outcome, and
\* no outcome looks the wrong way: the entry close is not later than the
\* decision, each horizon's close is in its window, a return is missing
\* exactly where a close is, and the status counts the returns.
OutcomesInWindow ==
    \A k \in Key : table[k] # NONE =>
        LET o == table[k].outcome
            T == k[2]
        IN  /\ k[1] \in runs /\ o # NONE
            /\ o.entry_price_date # NONE => o.entry_price_date <= T
            /\ \A h \in Horizon :
                  /\ o.price_date[h] # NONE =>
                        o.price_date[h] \in T + Months[h] .. T + Months[h] + Lookahead
                  /\ o.stock_return[h] = NONE <=> NONE \in {o.entry_price_date, o.price_date[h]}
            /\ o.outcome_status = "SCORED" <=> Scored(o.stock_return) = Horizon
            /\ o.outcome_status = "UNSCORABLE" <=> Scored(o.stock_return) = {}

\* The splits there really were after start and up to end.
TrueSplits(start, end) ==
    {i \in Event : Kind(i) = "SPLIT" /\ start < Timeline[i].date /\ Timeline[i].date <= end}

\* What a share of the first day is worth: a close times every split so far.
TrueValue(day) ==
    Price[Stock][day]
        * ProductOfRatios({i \in Event : Kind(i) = "SPLIT" /\ Timeline[i].date <= day})

\* A return is what the holding gained, if the splits between its two closes
\* were recorded when it was scored.
Neutral(r, h) ==
    LET entry == r.outcome.entry_price_date
        date == r.outcome.price_date[h]
    IN  TrueSplits(entry, date) \subseteq r.events =>
            r.outcome.stock_return[h] = Return(TrueValue(entry), TrueValue(date))

\* The entry close is of the decision's own share count.
FreshEntry(o, T) == o.entry_price_date # NONE /\ TrueSplits(o.entry_price_date, T) = {}

\* Whatever is ingested while an outcome is being scored, its returns and its
\* drawdown are those of the holding's value: no recorded split, on the
\* decision's day, between target and close, or on the last day, is missed or
\* counted twice (cumulative_split_factor, _compute_max_drawdown).
SplitNeutral ==
    \A s \in Sessions : sess[s].pc = "write" =>
        LET r == sess[s]
            o == r.outcome
        IN  /\ FreshEntry(o, Date(s)) => \A h \in Scored(o.stock_return) : Neutral(r, h)
            /\ o.max_drawdown_pct # NONE
                    /\ TrueSplits(Date(s), Max({o.price_date[h] : h \in Scored(o.stock_return)}))
                           \subseteq r.events =>
                  o.max_drawdown_pct =
                      Min({0} \cup {Return(TrueValue(p[1]), TrueValue(p[2])) :
                              p \in {q \in r.days \X r.days : q[1] < q[2]}})

Net(trades) ==
    MapThenSumSet(LAMBDA i : IF Kind(i) = "BUY" THEN Timeline[i].amount ELSE -Timeline[i].amount,
                  trades)

\* Splits announced before they happen are applied to the shares held today.
NoneAnnounced(T) == \A i \in splits_as_of(T) : Timeline[i].date <= T

\* What a run compares at one date: the same outcome for both sources, an
\* action that names the difference in quantity, and an impact in money that is
\* the trades' own.
Comparable(actual, hold, T) ==
    LET a == actual.decision
        q == <<hold.decision.quantity_held, a.quantity_held>>
    IN  /\ actual.outcome = hold.outcome
        /\ a.action = "BUY"    <=> 0 = q[1] /\ q[1] < q[2]
        /\ a.action = "ADD"    <=> 0 < q[1] /\ q[1] < q[2]
        /\ a.action = "REDUCE" <=> 0 < q[2] /\ q[2] < q[1]
        /\ a.action = "EXIT"   <=> 0 = q[2] /\ q[2] < q[1]
        /\ _exclusion_reason(actual) = NONE /\ NoneAnnounced(T) =>
              \A h \in Scored(actual.outcome.stock_return) :
                  decision_dollar_impact(actual, hold, h) =
                      Net(a.evidence) * Price[Stock][actual.outcome.entry_price_date]
                          * actual.outcome.stock_return[h]

\* A run that nothing disturbs leaves, for every date, two decisions that can be
\* compared as audit.py and aggregation.py compare them.
PairsComparable ==
    \A s \in Sessions :
        sess[s].pc = "commit" /\ sess[s].cmd = "run" /\ sess[s].quiet =>
            \A T \in DecisionDate :
                LET actual == draft[s][<<sess[s].run, T, "ACTUAL">>]
                    hold == draft[s][<<sess[s].run, T, "HOLD_BASELINE">>]
                IN  /\ actual = NONE <=> hold = NONE
                    /\ actual # NONE => Comparable(actual, hold, T)

\* No command, re-run or back-fill changes a decision once committed, or
\* anything of its outcome but the total-return figures, of which none is
\* lost (WalkForwardDecision: "Immutable once created").
Untouched(o, p) ==
    /\ \A f \in DOMAIN o \ TriField : p[f] = o[f]
    /\ \A f \in TriField, h \in Horizon : o[f][h] # NONE => p[f][h] # NONE

Frozen ==
    [][\A k \in Key : table[k] # NONE =>
          /\ table'[k] # NONE
          /\ table'[k].decision = table[k].decision
          /\ Untouched(table[k].outcome, table'[k].outcome)]_vars

=============================================================================
