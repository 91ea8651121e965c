----------------------------- MODULE MCFifoLots -----------------------------
(* An instance of FifoLots for TLC.                                        *)
EXTENDS FifoLots, TLC

\* <<ratio_old, ratio_new>> of a split and of a consolidation, both exact in
\* Decimal (a bonus of one share for three is not).
ExactRatios == {<<1, 2>>, <<2, 1>>}
=============================================================================
