---------------------------- MODULE MCPriceSync ----------------------------
(* Instances of PriceSync for TLC.                                         *)
EXTENDS PriceSync

CONSTANTS s1, s2

Bar(n, d, c) == [name |-> n, date |-> d, close |-> c]

\* Files of two days and a republished one, a page that is no file, the index
\* close of the first day, and the total-return history of all days.
Contents ==
    ("monday" :> <<Bar("BEL", 1, 100), Bar("HAL", 1, 400)>>) @@
    ("corrected" :> <<Bar("HAL", 1, 401), Bar("BEL", 1, 100)>>) @@
    ("tuesday" :> <<Bar("HAL", 2, 410)>>) @@
    ("page" :> NONE) @@
    ("index" :> <<Bar("NIFTY_50", 1, 900)>>) @@
    ("history" :> <<Bar("NIFTY_50_TRI", 1, 990), Bar("NIFTY_50_TRI", 3, 995)>>)

Answers ==
    [k \in Kind |-> [d \in Day |->
        CASE k = "EQUITY_BHAVCOPY" /\ d = 1 -> {"monday", "corrected"}
          [] k = "EQUITY_BHAVCOPY" /\ d = 2 -> {"tuesday", "page"}
          [] k = "INDEX_BHAVCOPY" /\ d = 1 -> {"index"}
          [] k = "INDEX_TOTAL_RETURN" /\ d = 1 -> {"history"}
          [] OTHER -> {}]]

Year(k, names, a, b) == [kind |-> k, wanted |-> names, first |-> a, last |-> b]

\* One symbol, all symbols year by year and then the index, total returns.
CommandLines ==
    {<<Year("EQUITY_BHAVCOPY", {"HAL"}, 1, 2)>>,
     <<Year("EQUITY_BHAVCOPY", {"BEL", "HAL"}, 1, 1),
       Year("EQUITY_BHAVCOPY", {"BEL", "HAL"}, 2, 3), Year("INDEX_BHAVCOPY", {"NIFTY_50"}, 1, 1)>>,
     <<Year("INDEX_TOTAL_RETURN", {"NIFTY_50_TRI"}, 1, 3)>>}
=============================================================================
