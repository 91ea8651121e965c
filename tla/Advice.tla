------------------------------- MODULE Advice -------------------------------
(***************************************************************************)
(* What a person is told and answers: theses, appended version by version  *)
(* (services/active_theses.py, app/api/company.py), the watchlist, the     *)
(* recommendation runs that read all of it symbol by symbol                *)
(* (services/current_recommendations.py) and the reviews of their          *)
(* decisions; and the candidate policy rules (services/governed_policy.py) *)
(* that backtests propose and only a person approves.                      *)
(***************************************************************************)
EXTENDS Forecasts

CONSTANTS Subject,             \* the symbol of the company of Forecasts
          Portfolios,          \* holdings: symbol -> their share, "light", "heavy" or "unpriced"
          Validation,          \* sets of symbols a recommendation-run may name
          STALE_VALUATION_DAYS,\* in instants here
          CandidateSpecs,      \* the candidate rules, in the order they are evaluated
          Audits,              \* the audit rows of the walk-forward runs: run -> id -> row
          MIN_N,               \* decisions a metric needs
          Past                 \* the databases to start from

Thesis(n) == <<"thesis", n>>
Watch(symbol) == <<"watch", symbol>>
RecommendationRun(n) == <<"advice", n>>
Decision(n, symbol) == <<"decision", n, symbol>>
Review(n) == <<"review", n>>
Rule(id) == <<"rule", id>>
Proposal(id) == <<"proposal", id>>

Init == \E rows \in Past : InitTransactions(rows)

\* The flush of a row loaded before: an UPDATE of the fields that are now unlike
\* what was loaded, the others stay as they are committed.
UpdateChanged(s, loaded, new, after) ==
    /\ sess[s].want # NONE
    /\ LET current == View(s)[sess[s].want]
           changed == {f \in DOMAIN new : new[f] # loaded[f]}
       IN  FlushUpdate(s, [f \in DOMAIN current |-> IF f \in changed THEN new[f] ELSE current[f]],
                       after)

-----------------------------------------------------------------------------
(* Theses.                                                                 *)

ThesisCommand ==
    [pc |-> "evidence", want |-> NONE, kind |-> "thesis", symbol |-> NONE, status |-> NONE,
     as_of |-> NONE, evidence |-> {}]

Superseded(rows) == {rows[k].supersedes : k \in Of(rows, "thesis")}

\* Mutant: of the theses that are active or watched, the highest version.
AnyVersion(rows, K) == K

Heads(rows, K) == K \ Superseded(rows)

\* get_active: the highest version among the heads; of two, either.
get_active(s, symbol) ==
    LET K == {k \in Of(View(s), "thesis") :
                 View(s)[k].symbol = symbol /\ View(s)[k].status \in {"active", "watching"}}
        heads == Heads(View(s), K)
    IN  {k \in heads : \A j \in heads : View(s)[j].version <= View(s)[k].version}

\* active-thesis-create cites results, POST /company/{symbol}/thesis and PATCH none.
BeginThesis(s) ==
    \/ \E t \in Moments, k \in Of(db, "result") :
          Start(s, [ThesisCommand EXCEPT !.symbol = Subject, !.status = "active",
                       !.as_of = t, !.evidence = {k}])
    \/ \E status \in {"active", "watching"} :
          Start(s, [ThesisCommand EXCEPT !.pc = "post", !.symbol = Subject, !.status = status])
    \/ \E status \in {"watching", "exited"} :
          Start(s, [ThesisCommand EXCEPT !.pc = "patch", !.symbol = Subject, !.status = status])

CheckEvidence(s) ==
    /\ At(s, "evidence")
    /\ IF \A k \in sess[s].evidence :
             View(s)[k].verified /\ View(s)[k].available <= sess[s].as_of
       THEN Local(s, [sess[s] EXCEPT !.pc = "head"])
       ELSE Rollback(s)

FirstVersion(s) ==
    [symbol |-> sess[s].symbol, version |-> 1, status |-> sess[s].status, supersedes |-> NONE,
     as_of |-> sess[s].as_of, evidence |-> sess[s].evidence]

Append1(s, row) ==
    InsertRow(s, Thesis(Fresh("thesis")), row, [sess[s] EXCEPT !.pc = "commit"])

\* ThesisRepository.update: a PATCH leaves what it does not name as it was.
Successor(s, k) ==
    LET old == View(s)[k]
    IN  [old EXCEPT !.version = @ + 1, !.supersedes = k, !.status = sess[s].status,
             !.as_of = IF At(s, "patch") THEN @ ELSE sess[s].as_of,
             !.evidence = IF At(s, "patch") THEN @ ELSE sess[s].evidence]

AppendThesis(s) ==
    LET heads == get_active(s, sess[s].symbol)
    IN  \/ (At(s, "post") \/ (At(s, "head") /\ heads = {})) /\ Append1(s, FirstVersion(s))
        \/ (At(s, "head") \/ At(s, "patch")) /\ \E k \in heads : Append1(s, Successor(s, k))
        \/ At(s, "patch") /\ heads = {} /\ Rollback(s)

-----------------------------------------------------------------------------
(* The watchlist.                                                          *)

WatchCommand == [pc |-> "watch", want |-> NONE, kind |-> "watch", active |-> NONE, loaded |-> {}]

BeginWatch(s) == \E active \in BOOLEAN : Start(s, [WatchCommand EXCEPT !.active = active])

\* What is removed is kept, inactive; what is not there cannot be removed.
SetWatch(s) ==
    LET key == Watch(Subject)
        row == [active |-> sess[s].active]
        after == [sess[s] EXCEPT !.pc = "commit"]
        loaded == IF Sees(s, key) THEN {View(s)[key]} ELSE {}
    IN  /\ At(s, "watch")
        /\ \/ /\ sess[s].want = NONE
              /\ IF ~Sees(s, key) /\ ~sess[s].active THEN Rollback(s)
                 ELSE Local(s, [sess[s] EXCEPT !.want = key, !.loaded = loaded])
           \/ sess[s].loaded = {} /\ FlushNew(s, row, after)
           \/ \E old \in sess[s].loaded : UpdateChanged(s, old, row, after)

-----------------------------------------------------------------------------
(* Recommendation runs.                                                    *)

AdviceCommand ==
    [pc |-> "universe", want |-> NONE, kind |-> "advice", as_of |-> NONE, held |-> Nothing,
     named |-> {}, run |-> NONE, todo |-> {}, symbol |-> NONE, thesis |-> NONE,
     valuation |-> NONE, estimate |-> NONE, superseded |-> {}]

\* superseded is what had been superseded when it started (the code keeps no such thing).
BeginAdvice(s) ==
    \E t \in Moments, P \in Portfolios, names \in Validation \cup {{}} :
        Start(s, [AdviceCommand EXCEPT !.as_of = t, !.held = P, !.named = names,
                     !.superseded = Superseded(db)])

\* Without symbols named, those held and those watched; the run is flushed first.
Universe(s) ==
    LET watched == {k[2] : k \in {w \in Of(View(s), "watch") : View(s)[w].active}}
        symbols == IF sess[s].named # {} THEN sess[s].named ELSE DOMAIN sess[s].held \cup watched
        n == Fresh("advice")
    IN  /\ At(s, "universe")
        /\ InsertRow(s, RecommendationRun(n),
                     [as_of |-> sess[s].as_of, symbols |-> symbols,
                      superseded |-> sess[s].superseded],
                     [sess[s] EXCEPT !.pc = "symbol", !.run = n, !.todo = symbols])

OneOrNone(K) == IF K = {} THEN {NONE} ELSE K

\* A symbol of no company has a thesis at most.
ReadThesis(s) ==
    /\ At(s, "symbol") /\ sess[s].todo # {}
    /\ \E x \in sess[s].todo : \E k \in OneOrNone(get_active(s, x)) :
          Local(s, [sess[s] EXCEPT !.pc = IF x = Subject THEN "valuation" ELSE "decide",
                       !.todo = @ \ {x}, !.symbol = x, !.thesis = k,
                       !.valuation = NONE, !.estimate = NONE])

\* The latest by its instant; of two, either.
ReadValuation(s) ==
    LET K == {k \in Of(View(s), "valuation") : View(s)[k].as_of <= sess[s].as_of}
    IN  /\ At(s, "valuation")
        /\ \E k \in OneOrNone({v \in K : \A j \in K : View(s)[j].as_of <= View(s)[v].as_of}) :
              Local(s, [sess[s] EXCEPT !.pc = "newest estimate", !.valuation = k])

ReadEstimate(s) ==
    LET K == {k \in Of(View(s), "estimate") : View(s)[k].cutoff <= sess[s].as_of}
    IN  /\ At(s, "newest estimate")
        /\ \E k \in OneOrNone({e \in K : \A j \in K : View(s)[j].cutoff <= View(s)[e].cutoff}) :
              Local(s, [sess[s] EXCEPT !.pc = "decide", !.estimate = k])

Stale(s) ==
    \/ sess[s].valuation = NONE
    \/ sess[s].as_of - View(s)[sess[s].valuation].as_of > STALE_VALUATION_DAYS

base_action(s, risks) ==
    LET held == sess[s].symbol \in DOMAIN sess[s].held
        thesis == sess[s].thesis # NONE
        estimate == sess[s].estimate # NONE
        supportive == sess[s].valuation # NONE /\ View(s)[sess[s].valuation].cheap
        light == sess[s].held[sess[s].symbol] # "heavy"
    IN  CASE \E k \in risks : View(s)[k].hard -> IF held THEN "REDUCE" ELSE "AVOID"
          [] OTHER ->
          CASE ~held /\ thesis /\ View(s)[sess[s].thesis].status = "watching" -> "WATCH"
            [] held -> IF ~thesis THEN "INSUFFICIENT_EVIDENCE"
                       ELSE IF ~Stale(s) /\ supportive /\ light /\ estimate THEN "ADD" ELSE "HOLD"
            [] OTHER -> IF thesis /\ ~Stale(s) /\ estimate
                        THEN IF supportive THEN "BUY" ELSE "WATCH"
                        ELSE "INSUFFICIENT_EVIDENCE"

\* The share of a holding without a price is None divided by the value of the others.
Unweighable(s) ==
    LET held == sess[s].held
    IN  /\ sess[s].symbol \in DOMAIN held /\ held[sess[s].symbol] = "unpriced"
        /\ sess[s].thesis # NONE /\ ~Stale(s)
        /\ \E x \in DOMAIN held : held[x] # "unpriced"

\* Its active risks are read last; the decision is stored with what it cites.
Decide(s) ==
    LET risks == {k \in Of(View(s), "risk") : sess[s].symbol = Subject /\ View(s)[k].active}
    IN  /\ At(s, "decide")
        /\ IF Unweighable(s) /\ \A k \in risks : ~View(s)[k].hard THEN Rollback(s) ELSE
           InsertRow(s, Decision(sess[s].run, sess[s].symbol),
                     [action |-> base_action(s, risks), thesis |-> sess[s].thesis,
                      valuation |-> sess[s].valuation, estimate |-> sess[s].estimate,
                      risks |-> {[risk |-> k, hard |-> View(s)[k].hard] : k \in risks}],
                     [sess[s] EXCEPT !.pc = "symbol"])

FinishAdvice(s) == At(s, "symbol") /\ sess[s].todo = {} /\ Commit(s, Idle)

\* recommendation-review, of a stored decision.
RecordReview(s) ==
    \E d \in Of(db, "decision"), verdict \in {"AGREE", "DISAGREE"} :
        /\ Store(s, [k \in {Review(Fresh("review"))} |-> [decision |-> d, verdict |-> verdict]])
        /\ UNCHANGED sess

-----------------------------------------------------------------------------
(* Candidate policy rules.                                                 *)

Cohort(rows, spec) == {r \in DOMAIN rows : spec \in rows[r].matches}

\* summarize counts the rows of the cohort that have a return.
Counted(rows, spec) == {r \in Cohort(rows, spec) : rows[r].excess # NONE}

AtMost(rows, field, K, x) == {r \in K : rows[r][field] <= x}
\* Twice the median: the lower and the upper middle value.
_median(rows, field, K) ==
    LET values == {rows[r][field] : r \in K}
        reached(x) == 2 * Cardinality(AtMost(rows, field, K, x))
    IN  Least({x \in values : reached(x) >= Cardinality(K)})
        + Least({x \in values : reached(x) > Cardinality(K)})

\* Enough rows, in two later years with enough before each; a gain without 2020
\* above the hurdle of one condition (percent); no symbol with more than half of the
\* rows; and in no later year a drawdown ten points deeper than before it.
validate_expanding(rows, spec) ==
    LET K == Counted(rows, spec)
        past(y) == {r \in K : rows[r].year < y}
        tested(y) == {r \in K : rows[r].year = y}
        folds == {y \in {rows[r].year : r \in K} :
                     Cardinality(past(y)) >= MIN_N /\ Cardinality(tested(y)) >= MIN_N}
        without2020 == {r \in K : rows[r].year # 2020}
        symbols == {rows[r].symbol : r \in Cohort(rows, spec)}
    IN  IF /\ Cardinality(without2020) >= MIN_N
           /\ Cardinality(folds) >= 2
           /\ _median(rows, "excess", without2020) > 2 * 1
           /\ \A x \in symbols : 2 * Cardinality({r \in Cohort(rows, spec) : rows[r].symbol = x})
                                   <= Cardinality(Cohort(rows, spec))
           /\ \A y \in folds : _median(rows, "drawdown", tested(y))
                                  >= _median(rows, "drawdown", past(y)) - 2 * 10
        THEN "BACKTESTED"
        ELSE "REJECTED"

\* begun is the rules as they were when it started (the code keeps no such thing).
CandidateCommand ==
    [pc |-> "rule", want |-> NONE, kind |-> "candidates", run |-> NONE, n |-> 1, loaded |-> {},
     begun |-> Nothing, verdict |-> NONE]

BeginCandidates(s) ==
    \E run \in DOMAIN Audits :
        Start(s, [CandidateCommand EXCEPT !.run = run,
                     !.begun = [k \in Of(db, "rule") |-> db[k]]])

\* Mutant: a rerun replaces whatever rule there is.
NeverReviewed(rule) == FALSE

Reviewed(rule) == rule.status = "APPROVED"

candidate_specs(s) == CandidateSpecs[sess[s].n]
Evaluation(s) == validate_expanding(Audits[sess[s].run], candidate_specs(s))

\* create_or_replace_draft: approved rules stay, others take the new evaluation.
DraftRule(s) ==
    LET key == Rule(candidate_specs(s))
        after == [sess[s] EXCEPT !.pc = "proposal", !.loaded = {}]
        new == [status |-> Evaluation(s), run |-> sess[s].run]
    IN  /\ At(s, "rule") /\ sess[s].n <= Len(CandidateSpecs)
        /\ \/ /\ sess[s].want = NONE
              /\ IF Sees(s, key) /\ Reviewed(View(s)[key]) THEN Local(s, after)
                 ELSE Local(s, [sess[s] EXCEPT !.want = key,
                                   !.loaded = IF Sees(s, key) THEN {View(s)[key]} ELSE {}])
           \/ sess[s].loaded = {}
              /\ FlushNew(s, [status |-> Evaluation(s), run |-> sess[s].run, approved |-> NONE], after)
           \/ \E old \in sess[s].loaded : UpdateChanged(s, old, new, after)

\* The proposal is replaced, whatever became of its rule.
DraftProposal(s) ==
    LET key == Proposal(candidate_specs(s))
        after == [sess[s] EXCEPT !.pc = "rule", !.n = @ + 1, !.loaded = {}]
        row == [decision |-> IF Evaluation(s) = "BACKTESTED" THEN "APPROVE" ELSE "REJECT",
                run |-> sess[s].run]
    IN  /\ At(s, "proposal")
        /\ \/ /\ sess[s].want = NONE
              /\ Local(s, [sess[s] EXCEPT !.want = key,
                              !.loaded = IF Sees(s, key) THEN {View(s)[key]} ELSE {}])
           \/ sess[s].loaded = {} /\ FlushNew(s, row, after)
           \/ \E old \in sess[s].loaded : UpdateChanged(s, old, row, after)

AllDrafted(s) ==
    /\ At(s, "rule") /\ sess[s].n > Len(CandidateSpecs)
    /\ Local(s, [sess[s] EXCEPT !.pc = "commit"])

BeginRuleReview(s) ==
    \E k \in Of(db, "rule"), verdict \in {"APPROVED", "REJECTED"} :
        Start(s, [CandidateCommand EXCEPT !.kind = "review", !.pc = "review", !.verdict = verdict,
                     !.begun = [j \in {k} |-> db[k]]])

\* policy-rule-review and set_status: a rejected rule is never approved; the time of
\* an approval, counted here in commands, outlives a later rejection.
ReviewRule(s) ==
    LET key == CHOOSE k \in DOMAIN sess[s].begun : TRUE
        approved == sess[s].verdict = "APPROVED"
        after == [sess[s] EXCEPT !.pc = "commit", !.loaded = {}]
    IN  /\ At(s, "review")
        /\ \/ /\ sess[s].want = NONE
              /\ IF approved /\ View(s)[key].status = "REJECTED" THEN Rollback(s)
                 ELSE Local(s, [sess[s] EXCEPT !.want = key, !.loaded = {View(s)[key]}])
           \/ \E old \in sess[s].loaded :
                 UpdateChanged(s, old, [status |-> sess[s].verdict,
                     approved |-> IF approved THEN started ELSE old.approved], after)

-----------------------------------------------------------------------------

FinishOther(s) ==
    At(s, "commit") /\ sess[s].kind \in {"thesis", "watch", "candidates", "review"} /\ Commit(s, Idle)

Begin(s) ==
    \/ BeginForecast(s) \/ BeginThesis(s) \/ BeginWatch(s) \/ BeginAdvice(s) \/ RecordReview(s)
    \/ BeginCandidates(s) \/ BeginRuleReview(s)

Proceed(s) ==
    \/ ForecastProceed(s)
    \/ CheckEvidence(s) \/ AppendThesis(s) \/ SetWatch(s)
    \/ Universe(s) \/ ReadThesis(s) \/ ReadValuation(s) \/ ReadEstimate(s) \/ Decide(s)
    \/ FinishAdvice(s)
    \/ DraftRule(s) \/ DraftProposal(s) \/ AllDrafted(s) \/ ReviewRule(s)
    \/ FinishOther(s)

Next == \E s \in Sessions : Begin(s) \/ Proceed(s) \/ DeadlockVictim(s) \/ Crash(s)
Spec == Init /\ [][Next]_txvars

-----------------------------------------------------------------------------
(* What every committed database is.                                       *)

\* A decision belongs to a run.  To buy or to add takes a thesis that had no
\* successor when the run began, a valuation that is cheap, not of the future and not
\* stale, and an estimate cut off by the run's instant, with no hard risk among those
\* it cites; to reduce or avoid takes such a risk.
Founded(rows) ==
    \A d \in Of(rows, "decision") :
        LET run == rows[RecommendationRun(d[2])]
            made == rows[d]
            hard == \E r \in made.risks : r.hard
        IN  /\ RecommendationRun(d[2]) \in DOMAIN rows
            /\ made.thesis # NONE =>
                  made.thesis \in DOMAIN rows /\ made.thesis \notin run.superseded
            /\ made.action \in {"BUY", "ADD"} =>
                  /\ ~hard /\ made.thesis # NONE
                  /\ made.valuation \in Of(rows, "valuation") /\ rows[made.valuation].cheap
                  /\ run.as_of - rows[made.valuation].as_of \in 0..STALE_VALUATION_DAYS
                  /\ made.estimate \in Of(rows, "estimate")
                  /\ rows[made.estimate].cutoff <= run.as_of
            /\ (made.action \in {"REDUCE", "AVOID"}) <=> hard

\* A run decides on all of its symbols.
Complete(rows) ==
    \A d \in Of(rows, "decision") : \A x \in rows[RecommendationRun(d[2])].symbols :
        Decision(d[2], x) \in DOMAIN rows

RuleColumns == {"status", "run", "approved"}

\* Who approved a rule left the time.
Stamped(rows) ==
    \A k \in Of(rows, "rule") :
        /\ DOMAIN rows[k] = RuleColumns
        /\ rows[k].approved \in Nat \cup {NONE}
        /\ rows[k].status = "APPROVED" => rows[k].approved # NONE

\* The tables whose rows have an id drawn for them.
Numbered == {"estimate", "score", "multiple", "valuation", "thesis", "advice", "review"}

Consistent(rows) ==
    /\ \A k \in Of(rows, "result") : rows[k].available \in Nat
    /\ Timely(rows) /\ Founded(rows) /\ Complete(rows) /\ Stamped(rows)
    /\ \A tag \in Numbered : IsFiniteSet(Of(rows, tag))

\* The databases to start from may be any that the commands leave, all approvals
\* made before the first of them.
ASSUME AdviceAssumption ==
    /\ IsFiniteSet(Sessions)
    /\ NONE \notin Nat
    /\ STALE_VALUATION_DAYS \in Nat
    /\ CandidateSpecs \in Seq(Range(CandidateSpecs))
    /\ \A rows \in Past :
          Consistent(rows) /\ \A k \in Of(rows, "rule") : rows[k].approved \in {NONE, 0}

-----------------------------------------------------------------------------
(* Properties.                                                             *)

\* Every recommendation run that was kept decides on all of its symbols, and none
\* on evidence that could not support it: to buy or to add takes a thesis that had
\* no successor when the run began, a valuation that is cheap, not of the future and
\* not stale, and an estimate cut off by the run's instant, with no hard risk
\* among those it cites; to reduce or avoid takes such a risk.  Whatever is
\* superseded, revalued or retired while the run reads.
AdviceIsSupported == Founded(db) /\ Complete(db)

\* What was recorded stands: theses, features, estimates, scores, multiples,
\* valuations, decisions and reviews are never rewritten; and a rerun leaves a rule
\* as a person approved it before the rerun began, unless the rule was reviewed or
\* evaluated again meanwhile.
RecordsStandStep ==
    /\ \A k \in DOMAIN db :
          k[1] \in {"thesis", "features", "estimate", "score", "multiple", "valuation",
                    "decision", "review"} => k \in DOMAIN db' /\ db'[k] = db[k]
    /\ \A s \in Sessions : (At(s, "commit") /\ sess[s].kind = "candidates") =>
          \A k \in DOMAIN sess[s].begun :
              (sess[s].begun[k].status = "APPROVED" /\ db[k] = sess[s].begun[k]) =>
                  k \notin DOMAIN draft[s]
RecordsStand == [][RecordsStandStep]_txvars

=============================================================================
