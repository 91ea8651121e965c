--------------------------- MODULE MCWalkForward ---------------------------
(* An instance of WalkForward for TLC: four days, two splits.              *)
EXTENDS WalkForward

\* One share for two on day 1, in the morning, and again on day 3.
Events ==
    <<[kind |-> "BUY",   date |-> 0, amount |-> 2],
      [kind |-> "SPLIT", date |-> 1, amount |-> 2],
      [kind |-> "SELL",  date |-> 1, amount |-> 2],
      [kind |-> "BUY",   date |-> 1, amount |-> 1],
      [kind |-> "SPLIT", date |-> 3, amount |-> 2]>>

Days == 0..3
Closes ==
    [x \in {Stock, BENCHMARK_CODE, TRI_BENCHMARK_CODE} |->
        CASE x = Stock -> [d \in Days |-> <<8, 4, 6, 2>>[d + 1]]
          [] x = BENCHMARK_CODE -> [d \in Days |-> <<10, 10, 11, 12>>[d + 1]]
          [] OTHER -> [d \in Days |-> <<10, 11, 12, 14>>[d + 1]]]

TwoHorizons == <<1, 2>>

\* All closes but the missing ones; the events recorded, the others NONE.
World(missing, instants) ==
    [market |-> ((DOMAIN Closes) \X Days) \ missing, recorded |-> instants]

\* No close of the decision day yet.
GapOnDay == World({<<Stock, 1>>}, <<1, 1, 1, 1, 1>>)

\* No close up to the decision, the second split announced on day 1, the first
\* one recorded years later.
NoEntry == World({<<Stock, 0>>, <<Stock, 1>>}, <<1, 3, 1, 1, 1>>)

\* The first purchase is not yet imported.
LatePurchase == World({}, <<NONE, 1, 1, 1, 1>>)

\* The second split is not yet recorded.
LateSplit == World({}, <<1, 1, 1, 1, NONE>>)

\* Nothing to score the longer horizon with.
NoHorizon == World({<<Stock, 3>>}, <<1, 1, 1, 1, 1>>)

\* The total-return index is late by one close.
LateIndex == World({<<TRI_BENCHMARK_CODE, 2>>}, <<1, 1, 1, 1, 3>>)

SomeWorlds == {GapOnDay, NoEntry, LatePurchase, LateSplit, NoHorizon, LateIndex}
=============================================================================
