-------------------------- MODULE MCFinancialFacts --------------------------
(* Instances of FinancialFacts for TLC.                                    *)
EXTENDS FinancialFacts, TLC

\* Every document was published within day 0 (instants 0..2).
MCPublished == [d \in Docs |-> 1]

Symmetry == Permutations(Sessions) \cup Permutations(Figures)
=============================================================================
