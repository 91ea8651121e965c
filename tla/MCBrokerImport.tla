--------------------------- MODULE MCBrokerImport ---------------------------
(* Instances of BrokerImport for TLC.                                      *)
EXTENDS BrokerImport, TLC

CONSTANTS old, recent, twice, nan, pnl, k1, k2, k3

Good(k) == [key |-> k, valid |-> TRUE]

\* Two exports that share two trades and list them in opposite orders, a
\* ledger with two identical lines, an export with a price of NaN, and a
\* report that is not a statement.
Exports ==
    (old :> <<Good(k1), Good(k2)>>) @@ (recent :> <<Good(k2), Good(k1), Good(k3)>>) @@
    (twice :> <<Good(k3), Good(k3)>>) @@
    (nan :> <<Good(k1), [key |-> k3, valid |-> FALSE]>>) @@ (pnl :> <<>>)

=============================================================================
