------------------------------ MODULE MCBooks ------------------------------
(* Instances of Books for TLC.                                             *)
EXTENDS Books

CONSTANTS s1, s2

Item(n, x, i, q, p) == [symbol |-> n, exchange |-> x, isin |-> i, quantity |-> q, price |-> p]
\* Renamed, under another ISIN, with an ISIN it lacked, or without a symbol.
Answers ==
    {<<Item("BEL", "NSE", "i1", 2, 3), Item("HAL", "NSE", NONE, 1, 5)>>,
     <<Item("HAL", "NSE", "i8", 1, 5), Item("BEL", "NSE", "i9", 2, 3)>>,
     <<Item("BEL-BE", "NSE", "i1", 2, 0), Item(NONE, "NSE", "i2", 1, 1)>>,
     NONE}

Fact(k, n, d, q, p) == [kind |-> k, symbol |-> n, date |-> d, quantity |-> q, price |-> p]
History ==
    {Fact("BUY", "BEL", 1, 4, 10), Fact("SPLIT", "BEL", 2, 2, 0),
     Fact("SELL", "BEL", 3, 2, 20), Fact("SELL", "HAL", 2, 1, 20)}
Missing == {[symbol |-> "HAL", date |-> 1, quantity |-> 1, price |-> 10]}

Row(n, r, o, a) == [symbol |-> n, realized |-> r, open |-> o, average |-> a]
Pnl(a, b, R) == [type |-> "pnl", start |-> a, end |-> b, rows |-> R]
Statements ==
    {<<Pnl(2, 2, {Row("HAL", 10, 0, 0)}), Pnl(3, 3, {Row("BEL", 30, 6, 5)}),
       [type |-> "holdings", start |-> 3, end |-> 3, rows |-> {Row("BEL", 0, 6, 5)}],
       [type |-> "unreadable", start |-> 0, end |-> 0, rows |-> {}]>>}

Rows(F) == [k \in {Ledger(f) : f \in F} |-> TRUE]
NoPast == {Nothing}
\* Nothing yet; the whole history, the adjustment and lots, of a company not held since.
Start0 ==
    {Nothing,
     (Company("BEL") :> [isin |-> "i1"]) @@ Rows(History) @@
        (Lots(1) :> [live |-> TRUE, trades |-> {}, actions |-> {}, openings |-> {}]) @@
        [k \in {Adjustment(o.symbol) : o \in Missing} |->
            Opened(CHOOSE o \in Missing : Adjustment(o.symbol) = k)]}
=============================================================================
