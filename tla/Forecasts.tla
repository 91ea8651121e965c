----------------------------- MODULE Forecasts -----------------------------
(***************************************************************************)
(* What is computed about one company from its published results: the      *)
(* estimate of a quarter from a feature snapshot (services/estimation/),   *)
(* the backtest that scores estimates of quarters already reported         *)
(* (services/backtesting/), price-earnings bands and valuations            *)
(* (services/historical_pe_band.py, services/valuation.py).  All of them   *)
(* ask what was known at an instant; imports and verifications commit      *)
(* meanwhile.                                                              *)
(***************************************************************************)
EXTENDS Transactions, TLC

CONSTANTS Publications,      \* what others may commit: functions from keys to rows
          Moments,           \* the cutoffs and as-of instants a person gives
          DayLength,         \* instants in a day
          Year,              \* quarters in a year: 4
          MAX_FINANCIAL_AGE, \* instants
          MIN_OBSERVATIONS

ASSUME ForecastsAssumption ==
    /\ Moments \subseteq Nat
    /\ {DayLength, Year, MIN_OBSERVATIONS} \subseteq Nat \ {0}
    /\ MAX_FINANCIAL_AGE \in Nat
    /\ \A rows \in Publications : \A k \in DOMAIN rows :
          /\ k[1] \in {"result", "close", "risk"}
          /\ k[1] = "result" => rows[k].available \in Nat

\* A quarter is known by its place in time, a day by its number.
Result(period, scope, source, version) == <<"result", period, scope, source, version>>
Close(day) == <<"close", day>>
Features(period, cutoff, fingerprint) == <<"features", period, cutoff, fingerprint>>
Estimate(n) == <<"estimate", n>>
Score(n) == <<"score", n>>
Multiple(n) == <<"multiple", n>>
Valuation(n) == <<"valuation", n>>

Day(t) == t \div DayLength
DayEnd(day) == (day + 1) * DayLength - 1
Least(S) == CHOOSE x \in S : \A y \in S : x <= y
Greatest(S) == CHOOSE x \in S : \A y \in S : y <= x

_SCOPE_PREFERENCE == [CONSOLIDATED |-> 1, STANDALONE |-> 2, UNRESOLVED |-> 3]
Preferred(K) ==
    {k \in K : \A j \in K : j[2] = k[2] => _SCOPE_PREFERENCE[k[3]] <= _SCOPE_PREFERENCE[j[3]]}

\* Of several sources in one scope, either: the code takes what a query without an
\* order lists last, or first.
OneOfEach(K) == {P \in SUBSET K : \A k \in K : Cardinality({j \in P : j[2] = k[2]}) = 1}

\* The highest version of each quarter, scope and source.
Latest(K) ==
    {k \in K : \A j \in K : (j[2] = k[2] /\ j[3] = k[3] /\ j[4] = k[4]) => j[5] <= k[5]}
Results(s) == Of(View(s), "result")
Available(s, t) == {k \in Results(s) : View(s)[k].available <= t}
list_by_company(s) == Latest(Results(s))
list_by_company_as_of(s, t) == Latest(Available(s, t))

\* A command of one statement.
Store(s, rows) ==
    /\ At(s, "idle") /\ started < MaxCommands
    /\ db' = [k \in DOMAIN db \cup DOMAIN rows |-> IF k \in DOMAIN rows THEN rows[k] ELSE db[k]]
    /\ started' = started + 1
    /\ UNCHANGED draft

\* Imports, verifications, reviews and price syncs commit (other modules have
\* their steps); what they commit may replace a row, and ends a backtest's untouched.
Publish(s) ==
    \E rows \in Publications :
        LET changed == {k \in DOMAIN rows : k \in DOMAIN db => db[k] # rows[k]}
        IN  /\ changed # {}
            /\ Store(s, rows)
            /\ sess' = [t \in Sessions |->
                  IF "untouched" \in DOMAIN sess[t] THEN [sess[t] EXCEPT !.untouched = @ \ changed]
                  ELSE sess[t]]

-----------------------------------------------------------------------------
(* generate-estimate, and the estimates of a backtest.                     *)

EstimateCommand ==
    [pc |-> "results", want |-> NONE, kind |-> "estimate", period |-> NONE, cutoff |-> NONE,
     points |-> {}, fingerprint |-> {}, risks |-> {}, features |-> NONE, estimate |-> NONE,
     loaded |-> Nothing, todo |-> {}, actual |-> NONE, untouched |-> {}]

BeginEstimate(s) ==
    \E period \in {k[2] : k \in Of(db, "result")}, t \in Moments :
        Start(s, [EstimateCommand EXCEPT !.period = period, !.cutoff = t])

\* A row that the session has loaded before keeps the values it had then, though a
\* WHERE sees the committed ones.
Loaded(s, k) == IF k \in DOMAIN sess[s].loaded THEN sess[s].loaded[k] ELSE View(s)[k]
Read(s, K) == {[result |-> k, available |-> View(s)[k].available] : k \in K}

\* Only quarters that ended before the target's, as known at the cutoff; the
\* verified ones become points, in the preferred scope of each.
ReadResults(s) ==
    LET known == {k \in list_by_company_as_of(s, sess[s].cutoff) : k[2] < sess[s].period}
    IN  /\ At(s, "results")
        /\ \E P \in OneOfEach(Preferred({k \in known : Loaded(s, k).verified})) :
              Local(s, [sess[s] EXCEPT !.pc = "signals", !.points = Read(s, P),
                           !.fingerprint = {<<k, Loaded(s, k)>> : k \in known}])

\* The risks that are active now and were recorded by the cutoff; they, like
\* catalysts and news, are not part of the fingerprint.
ReadSignals(s) ==
    /\ At(s, "signals")
    /\ Local(s, [sess[s] EXCEPT !.pc = "features",
                    !.risks = {k \in Of(View(s), "risk") :
                                  View(s)[k].active /\ View(s)[k].created <= sess[s].cutoff}])

\* Mutant: a snapshot of the same quarter is as good.
get_by_period(s) == {k \in Of(View(s), "features") : k[2] = sess[s].period}

\* Mutant: a snapshot of the same quarter and cutoff is as good.
get_by_key(s) ==
    {k \in Of(View(s), "features") : k[2] = sess[s].period /\ k[3] = sess[s].cutoff}

get_matching(s) ==
    {k \in Of(View(s), "features") :
        k = Features(sess[s].period, sess[s].cutoff, sess[s].fingerprint)}

\* FeatureSnapshotRepository.get_or_create.
UseFeatures(s) ==
    LET key == Features(sess[s].period, sess[s].cutoff, sess[s].fingerprint)
        with(k) == [sess[s] EXCEPT !.pc = "estimate", !.features = k]
    IN  /\ At(s, "features")
        /\ \/ /\ sess[s].want = NONE
              /\ IF get_matching(s) = {} THEN Local(s, [sess[s] EXCEPT !.want = key])
                 ELSE \E k \in get_matching(s) : Local(s, with(k))
           \/ FlushNew(s, [points |-> sess[s].points, risks |-> sess[s].risks], with(key))

\* What is computed is a function of the snapshot; a narrator adds words only.
WriteEstimate(s) ==
    LET n == Fresh("estimate")
    IN  /\ At(s, "estimate")
        /\ InsertRow(s, Estimate(n),
                     [period |-> sess[s].period, cutoff |-> sess[s].cutoff,
                      features |-> sess[s].features],
                     [sess[s] EXCEPT
                         !.pc = IF sess[s].kind = "estimate" THEN "commit" ELSE "score",
                         !.estimate = Estimate(n)])

-----------------------------------------------------------------------------
(* run-backtest.                                                           *)

\* untouched are the results published when it started and not replaced since (the
\* code keeps no such thing).
BeginBacktest(s) ==
    Start(s, [EstimateCommand EXCEPT !.kind = "backtest", !.pc = "list",
                 !.untouched = Of(db, "result")])

ListActuals(s) ==
    LET rows == list_by_company(s)
    IN  /\ At(s, "list")
        /\ \E P \in OneOfEach(Preferred(rows)) :
              Local(s, [sess[s] EXCEPT !.pc = "earliest", !.todo = P,
                           !.loaded = [k \in rows |-> View(s)[k]]])

\* Of any scope, source and version of the quarter.
get_earliest_available_at(s, actual) ==
    Least({View(s)[k].available : k \in {j \in Results(s) : j[2] = actual[2]}})

\* A second before it: the last instant at which nothing of the quarter was known.
NextActual(s) ==
    /\ At(s, "earliest")
    /\ \E actual \in sess[s].todo :
          Local(s, [sess[s] EXCEPT !.pc = "results", !.todo = @ \ {actual}, !.actual = actual,
                       !.period = actual[2],
                       !.cutoff = get_earliest_available_at(s, actual) - 1])

score_estimate(s) ==
    [estimate |-> sess[s].estimate, actual |-> sess[s].actual, cutoff |-> sess[s].cutoff,
     status |-> IF View(s)[sess[s].features].points = {} THEN "UNSCORABLE" ELSE "SCORED"]

WriteScore(s) ==
    /\ At(s, "score")
    /\ InsertRow(s, Score(Fresh("score")), score_estimate(s),
                 [EstimateCommand EXCEPT !.kind = "backtest", !.pc = "earliest",
                     !.todo = sess[s].todo, !.loaded = sess[s].loaded,
                     !.untouched = sess[s].untouched])

AllScored(s) ==
    /\ At(s, "earliest") /\ sess[s].todo = {}
    /\ Local(s, [sess[s] EXCEPT !.pc = "commit"])

-----------------------------------------------------------------------------
(* valuation-multiple-record, historical-pe-band-run.                      *)

\* Both commands name the horizon of the earnings so, and make the row available at
\* the instant from which it holds.
MultipleRow(t, low, mid, high, used) ==
    [effective |-> t, available |-> t, horizon |-> "TTM", low |-> low, mid |-> mid,
     high |-> high, used |-> used]
BandCommand == [pc |-> "closes", want |-> NONE, kind |-> "band", as_of |-> NONE, days |-> {}]

RecordMultiple(s) ==
    \E t \in Moments :
        /\ Store(s, [k \in {Multiple(Fresh("multiple"))} |-> MultipleRow(t, 1, 1, 2, {})])
        /\ UNCHANGED sess

BeginBand(s) == \E t \in Moments : Start(s, [BandCommand EXCEPT !.as_of = t])

ReadCloses(s) ==
    /\ At(s, "closes")
    /\ Local(s, [sess[s] EXCEPT !.pc = "band",
                    !.days = {k[2] : k \in Of(View(s), "close")} \cap 0..Day(sess[s].as_of)])

\* Verified results of one quarter and version.
Tied(s) ==
    LET K == {k \in Results(s) : View(s)[k].verified}
    IN  {k \in K : \E j \in K \ {k} : j[2] = k[2] /\ j[5] = k[5]}

\* The last year of quarters known at the end of a day, of the highest version in
\* whatever scope and of whatever source: of several, that which is listed first.
LastYear(K) == {k \in K : Cardinality({j[2] : j \in {i \in K : i[2] > k[2]}}) < Year}
KnownOn(s, day, listed) ==
    LET K == {k \in Available(s, DayEnd(day)) : View(s)[k].verified}
        top == {k \in K : \A j \in K : j[2] = k[2] => j[5] <= k[5]}
        Before(j, k) == \E n \in DOMAIN listed : listed[n] = k /\ j \in {listed[m] : m \in 1..(n - 1)}
    IN  LastYear({k \in top : ~\E j \in top : j[2] = k[2] /\ Before(j, k)})
Earnings(s, K) == MapThenSumSet(LAMBDA k : View(s)[k].eps, K)

\* The quartiles, by nearest rank, of the ratios of the days with a year of positive
\* earnings; a band of the same instant stands.
WriteBand(s) ==
    \E listed \in SetToSeqs(Tied(s)) :
        LET known == [d \in sess[s].days |-> KnownOn(s, d, listed)]
            observed == {d \in sess[s].days : Cardinality(known[d]) = Year
                                              /\ \A k \in known[d] : View(s)[k].eps > 0}
            pe == [d \in observed |-> View(s)[Close(d)].close \div Earnings(s, known[d])]
            reached(x) == 4 * Cardinality({d \in observed : pe[d] <= x})
            quartile(n) ==
                Least({x \in {pe[d] : d \in observed} : reached(x) >= n * Cardinality(observed)})
            used == UNION {{<<d, u>> : u \in Read(s, known[d])} : d \in observed}
        IN  /\ At(s, "band")
            /\ IF \/ Cardinality(observed) < MIN_OBSERVATIONS
                  \/ \E k \in Of(View(s), "multiple") :
                        View(s)[k].used # {} /\ View(s)[k].effective = sess[s].as_of
               THEN Rollback(s)
               ELSE InsertRow(s, Multiple(Fresh("multiple")),
                              MultipleRow(sess[s].as_of, quartile(1), quartile(2), quartile(3), used),
                              [sess[s] EXCEPT !.pc = "commit"])

-----------------------------------------------------------------------------
(* valuation-run.                                                          *)

ValueCommand ==
    [pc |-> "financial", want |-> NONE, kind |-> "value", as_of |-> NONE, scope |-> NONE,
     results |-> {}, multiple |-> NONE]

BeginValuation(s) == \E t \in Moments : Start(s, [ValueCommand EXCEPT !.as_of = t])

\* The verified result of the latest quarter, if it is not too old: its scope is
\* that of the year of earnings.
LatestFinancial(s) ==
    LET K == {k \in list_by_company(s) \cap Available(s, sess[s].as_of) : View(s)[k].verified}
        last == {k \in K : \A j \in K :
                    \/ j[2] < k[2]
                    \/ j[2] = k[2] /\ View(s)[j].available <= View(s)[k].available}
    IN  /\ At(s, "financial")
        /\ \/ /\ \A k \in last : sess[s].as_of - View(s)[k].available > MAX_FINANCIAL_AGE
              /\ Rollback(s)
           \/ \E k \in last :
                 /\ sess[s].as_of - View(s)[k].available <= MAX_FINANCIAL_AGE
                 /\ Local(s, [sess[s] EXCEPT !.pc = "ttm", !.scope = k[3]])

OfScope(s, k) == k[3] = sess[s].scope

\* Of each quarter the highest version, of several that which was available last; the
\* quarters must follow one another in name, and earn.
TtmEarnings(s) ==
    LET K == {k \in Available(s, sess[s].as_of) : View(s)[k].verified /\ OfScope(s, k)}
        newest == {k \in K : \A j \in K : j[2] = k[2] =>
                      \/ j[5] < k[5]
                      \/ j[5] = k[5] /\ View(s)[j].available <= View(s)[k].available}
    IN  /\ At(s, "ttm")
        /\ \E P \in OneOfEach(newest) :
              LET year == LastYear(P)
                  first == Least({k[2] : k \in year})
              IN  IF /\ Cardinality(year) = Year
                     /\ \A k \in year : View(s)[k].eps > 0
                     /\ \A k \in year :
                           k[2] % Year = (first + Cardinality({j \in year : j[2] < k[2]})) % Year
                  THEN Local(s, [sess[s] EXCEPT !.pc = "multiple", !.results = Read(s, year)])
                  ELSE Rollback(s)

horizons_compatible(multiple) == multiple.horizon = "TTM"
InOrder(multiple) ==
    multiple.low > 0 /\ multiple.low <= multiple.mid /\ multiple.mid <= multiple.high

\* That which holds from the latest instant; of two, either (created_at is when their
\* transactions began).
ReadMultiple(s) ==
    LET K == {k \in Of(View(s), "multiple") : /\ View(s)[k].effective <= sess[s].as_of
                                              /\ View(s)[k].available <= sess[s].as_of}
        last == {k \in K : \A j \in K : View(s)[j].effective <= View(s)[k].effective}
        Fits(k) == horizons_compatible(View(s)[k]) /\ InOrder(View(s)[k])
    IN  /\ At(s, "multiple")
        /\ \/ (last = {} \/ \E k \in last : ~Fits(k)) /\ Rollback(s)
           \/ \E k \in last :
                 Fits(k) /\ Local(s, [sess[s] EXCEPT !.pc = "price", !.multiple = k])

\* The close of the day of the instant is used, whatever the hour, and must be
\* positive; a valuation of the same instant stands.
WriteValuation(s) ==
    LET days == {k[2] : k \in Of(View(s), "close")} \cap 0..Day(sess[s].as_of)
        close == View(s)[Close(Greatest(days))].close
        existing == {k \in Of(View(s), "valuation") : View(s)[k].as_of = sess[s].as_of}
        fair == Earnings(s, {u.result : u \in sess[s].results}) * View(s)[sess[s].multiple].mid
    IN  /\ At(s, "price")
        /\ IF days = {} \/ close <= 0 \/ existing # {} THEN Rollback(s)
           ELSE InsertRow(s, Valuation(Fresh("valuation")),
                          [as_of |-> sess[s].as_of, results |-> sess[s].results,
                           multiple |-> sess[s].multiple, day |-> Greatest(days),
                           cheap |-> close < fair],
                          [sess[s] EXCEPT !.pc = "commit"])

-----------------------------------------------------------------------------

ForecastKinds == {"estimate", "backtest", "band", "value"}
FinishForecast(s) == At(s, "commit") /\ sess[s].kind \in ForecastKinds /\ Commit(s, Idle)

ForecastProceed(s) ==
    \/ ReadResults(s) \/ ReadSignals(s) \/ UseFeatures(s) \/ WriteEstimate(s)
    \/ ListActuals(s) \/ NextActual(s) \/ WriteScore(s) \/ AllScored(s)
    \/ ReadCloses(s) \/ WriteBand(s)
    \/ LatestFinancial(s) \/ TtmEarnings(s) \/ ReadMultiple(s) \/ WriteValuation(s)
    \/ FinishForecast(s)

BeginForecast(s) ==
    \/ Publish(s) \/ BeginEstimate(s) \/ BeginBacktest(s) \/ RecordMultiple(s) \/ BeginBand(s)
    \/ BeginValuation(s)

-----------------------------------------------------------------------------
(* What every committed database is.                                       *)

\* What may be read of the results that a fingerprint says were verified.
Cited(fingerprint) == OneOfEach(Preferred({x[1] : x \in {y \in fingerprint : y[2].verified}}))

Cites(points) == {u.result : u \in points}

\* A snapshot has the results of its fingerprint, of earlier quarters and available by
\* its cutoff; an estimate is made from one of its quarter and cutoff; a band measures
\* days up to that of its instant, each by results available by its end; a valuation
\* rests on results of one scope and a multiple available by its instant, and on a
\* close of its day or before.
Timely(rows) ==
    /\ \A k \in Of(rows, "features") :
          /\ \A u \in rows[k].points : u.result[2] < k[2] /\ u.available <= k[3]
          /\ Cites(rows[k].points) \in Cited(k[4])
    /\ \A e \in Of(rows, "estimate") :
          LET k == rows[e].features
          IN  k \in Of(rows, "features") /\ k[2] = rows[e].period /\ k[3] = rows[e].cutoff
    /\ \A m \in Of(rows, "multiple") :
          /\ rows[m].effective \in Nat
          /\ \A u \in rows[m].used :
                /\ u[1] \in 0..Day(rows[m].effective)
                /\ u[2].available \in Nat /\ u[2].available <= DayEnd(u[1])
    /\ \A v \in Of(rows, "valuation") :
          /\ rows[v].as_of \in Nat /\ rows[v].day <= Day(rows[v].as_of)
          /\ \A t, u \in rows[v].results :
                t.result[3] = u.result[3] /\ u.available <= rows[v].as_of
          /\ rows[v].multiple \in Of(rows, "multiple")
          /\ rows[rows[v].multiple].effective <= rows[v].as_of
          /\ rows[rows[v].multiple].available <= rows[v].as_of

-----------------------------------------------------------------------------
(* Properties.                                                             *)

\* Nothing from the future, through every command that a figure has passed: the
\* snapshot of an estimate, built for it or reused, has results of quarters before
\* the estimate's, available by its cutoff; a valuation rests on results of one scope
\* and a multiple that were available by its instant, and, to the calendar day (a
\* stored close has no hour, and a date given as the instant is its midnight), on a
\* close, and a multiple measured by closes and results, of its day or before.  This
\* whatever is published or dated anew between the reads of these commands.
PointInTime ==
    /\ \A e \in Of(db, "estimate") : \A u \in db[db[e].features].points :
          u.result[2] < db[e].period /\ u.available <= db[e].cutoff
    /\ \A v \in Of(db, "valuation") :
          LET at == db[v].as_of
              multiple == db[db[v].multiple]
          IN  /\ \A t, u \in db[v].results : t.result[3] = u.result[3] /\ u.available <= at
              /\ multiple.available <= at
              /\ db[v].day <= Day(at)
              /\ \A u \in multiple.used : u[1] <= Day(at) /\ u[2].available <= DayEnd(Day(at))

\* A backtest is blind: each of its estimates was cut off before anything of its
\* quarter, in any scope, source or version, was available, of what had been published
\* when the backtest began and still stands; and an estimate, of a backtest or not,
\* uses one result of each quarter that a reader of its cutoff finds verified, in the
\* scope preferred, not those of an older snapshot.
ScoredBlind ==
    \A s \in Sessions : (At(s, "score") \/ (At(s, "commit") /\ sess[s].kind = "estimate")) =>
        /\ Cites(View(s)[sess[s].features].points) \in Cited(sess[s].fingerprint)
        /\ \A k \in sess[s].untouched :
              k[2] = sess[s].period => db[k].available > sess[s].cutoff
=============================================================================
