---------------------------- MODULE MCResearch ----------------------------
(* Instances of Advice, with Forecasts under it, for TLC.                  *)
EXTENDS Advice

CONSTANTS s1, s2

\* Two instants a day, two quarters a year.
Fact == [available |-> 1, verified |-> TRUE, eps |-> 1]
At2 == [Fact EXCEPT !.available = 2]
Hint == [Fact EXCEPT !.available = 3, !.verified = FALSE]
Price == [close |-> 3]
Risk == [active |-> FALSE, created |-> 1, hard |-> TRUE]

\* Verified later; provenance later, from hint and filing; restated at noon of the day
\* that begins at 4; a risk.
Consolidated(quarter, version) == Result(quarter, "CONSOLIDATED", "nse_json_hint", version)
Standalone(quarter) == Result(quarter, "STANDALONE", "nse_json_hint", 1)
Filed(quarter) == Result(quarter, "CONSOLIDATED", "nse_filing_pdf", 1)
Others ==
    {Consolidated(3, 1) :> [Hint EXCEPT !.verified = TRUE],
     Consolidated(2, 1) :> [At2 EXCEPT !.available = 3],
     Filed(2) :> [At2 EXCEPT !.eps = 2],
     Consolidated(2, 2) :> [At2 EXCEPT !.available = 5, !.eps = 2],
     <<"risk", 1>> :> [Risk EXCEPT !.active = TRUE]}

Thesis0 ==
    [symbol |-> "BEL", version |-> 1, status |-> "active", supersedes |-> NONE,
     as_of |-> 1, evidence |-> {}]
Draft0 == [status |-> "BACKTESTED", run |-> "r1", approved |-> NONE]

Quarters ==
    (Consolidated(1, 1) :> Fact) @@ (Consolidated(2, 1) :> At2) @@ (Standalone(2) :> Fact) @@
    (Consolidated(3, 1) :> Hint) @@ (Close(0) :> Price) @@ (Close(1) :> Price) @@
    (Close(2) :> Price) @@ (<<"risk", 1>> :> Risk) @@
    (Multiple(1) :> MultipleRow(1, 1, 2, 2, {}))
\* The first quarter in one scope only, the second in the other.
Mixed ==
    LET without == {Consolidated(1, 1), Standalone(2)}
    IN  (Standalone(1) :> Fact) @@ [k \in DOMAIN Quarters \ without |-> Quarters[k]]
\* A close of nothing: no price, and a band that is out of range.
Unpriced == [Quarters EXCEPT ![Close(1)].close = 0]
\* Two versions of a thesis, an estimate, a valuation, a rule approved, one drafted.
Researched ==
    Quarters @@ (Thesis(1) :> Thesis0) @@
    (Thesis(2) :> [Thesis0 EXCEPT !.version = 2, !.supersedes = Thesis(1)]) @@
    (Features(3, 2, {}) :> [points |-> {}, risks |-> {}]) @@
    (Estimate(1) :> [period |-> 3, cutoff |-> 2, features |-> Features(3, 2, {})]) @@
    (Valuation(1) :> [as_of |-> 1, results |-> {}, multiple |-> Multiple(1), day |-> 0,
                      cheap |-> TRUE]) @@
    (Watch("BEL") :> [active |-> TRUE]) @@
    (Rule("concentration") :> [Draft0 EXCEPT !.status = "APPROVED", !.approved = 0]) @@
    (Rule("review") :> Draft0)
Databases == {Mixed, Unpriced, Researched}

Holding(b, h) == [x \in {"BEL", "HAL"} |-> IF x = "BEL" THEN b ELSE h]
Held == {Nothing, Holding("light", "unpriced"), Holding("unpriced", "heavy")}
Named == {{"BEL", "HAL"}}

Row(x, y, e, d) ==
    [matches |-> {"concentration", "review"}, symbol |-> x, year |-> y, excess |-> e,
     drawdown |-> d]
\* Three years of two companies; of one company; with a crash in the last year.
Years == 2019..2021
Audited ==
    [r1 |-> [i \in {"BEL", "HAL"} \X Years |-> Row(i[1], i[2], 5, -10)],
     r2 |-> [i \in {"BEL", "HAL"} \X Years |->
                Row(i[1], i[2], IF i[1] = "BEL" THEN 9 ELSE 2, IF i[2] = 2021 THEN -40 ELSE -10)]]
Rules == <<"review", "concentration">>
=============================================================================
