-------------------------- MODULE MCInterpretation --------------------------
(* Instances of News and Interpretation for TLC.                           *)
EXTENDS Interpretation

CONSTANTS s1, s2

\* An order win and a rewording of it, another one with other figures, one that
\* two companies share, and a resignation.
Stories == {"win", "reworded", "other", "shared", "resigns"}
Alike(h, g) ==
    IF h = g THEN 100
    ELSE IF {h, g} = {"win", "reworded"} THEN 95
    ELSE IF {h, g} = {"win", "resigns"} THEN 20 ELSE 60
Likeness == [h \in Stories |-> [g \in Stories |-> Alike(h, g)]]
Numbers == ("other" :> {900}) @@ [h \in {"win", "reworded"} |-> {500}] @@
           [h \in {"shared", "resigns"} |-> {}]
Named == ("shared" :> {"BEL", "HAL"}) @@ ("resigns" :> {"HAL"}) @@ [h \in Stories |-> {"BEL"}]
Phrases == ("other" :> {}) @@ ("resigns" :> {"resigns"}) @@ ("shared" :> {"order", "capex"}) @@
           [h \in Stories |-> {"order"}]

Alias(c, a, t, n) == [company |-> c, alias |-> a, type |-> t, confidence |-> n]
KnownAliases == {Alias("BEL", "BEL", "symbol", 100), Alias("HAL", "HAL", "symbol", 30),
                 Alias("BEL", "Bharat Electronics", "full_name", 100)}

Told(h, url, at) == [headline |-> h, url |-> url, published |-> at]
Polled ==
    ("livemint" :> {<<Told("win", "u1", 4), Told("reworded", "u2", 5)>>,
                    <<Told("reworded", "u2", 5)>>, <<Told("shared", "u3", 6)>>, <<Told("resigns", "u4", 1)>>}) @@
    ("economic_times" :> {<<Told("other", "u1", 5), Told("win", "u2", NONE)>>,
                          <<Told("shared", "u3", 5)>>})
Typed == {[company |-> "BEL", entry |-> Told("other", "u5", NONE)],
          [company |-> "BEL", entry |-> Told("shared", "u6", 4)],
          [company |-> "TCS", entry |-> Told("resigns", "u7", NONE)]}

\* A row of an item that was found when it was published.
Found(h, at) == [headline |-> h, published |-> at, discovered |-> at]

\* Nothing yet; or two events, one with an interpretation that awaits review.
Empty == [k \in {Company("BEL"), Company("HAL")} |-> TRUE]
Reviewing ==
    LET item == Item("livemint", "u0")
        old == Item("livemint", "u9")
    IN  Empty @@
        (Reliability("livemint") :> [ok |-> 1, failed |-> 0, stale |-> 0]) @@
        (Reliability("economic_times") :> [ok |-> 1, failed |-> 0, stale |-> 0]) @@
        (item :> Found("win", 4)) @@
        (Link(item, "BEL") :> [score |-> 100, method |-> "symbol"]) @@
        (Event(1) :> [company |-> "BEL", headline |-> "win", first_seen |-> 4, last_seen |-> 4]) @@
        (EventItem(Event(1), item) :> TRUE) @@
        (old :> Found("resigns", 3)) @@
        (Link(old, "HAL") :> [score |-> 30, method |-> "ambiguous"]) @@
        (Event(2) :> [company |-> "HAL", headline |-> "resigns", first_seen |-> 3, last_seen |-> 3]) @@
        (EventItem(Event(2), old) :> TRUE) @@
        (Interpretation(1) :> [event |-> Event(1), company |-> "BEL",
                               proposes |-> {"catalyst"}, status |-> "pending", facts |-> {}])

\* An article that was recorded before its other company had an alias.
Recorded ==
    LET item == Item("manual", "u6")
    IN  Empty @@ (item :> Found("shared", 4)) @@
        (Link(item, "BEL") :> [score |-> 100, method |-> "manual"]) @@
        (Event(1) :> [company |-> "BEL", headline |-> "shared", first_seen |-> 4, last_seen |-> 4]) @@
        (EventItem(Event(1), item) :> TRUE)

Suggested == {NONE, {"catalyst", "risk"}}
Start0 == {Empty, Reviewing, Recorded}
=============================================================================
