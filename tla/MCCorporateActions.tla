------------------------- MODULE MCCorporateActions -------------------------
(* Instances of CorporateActions for TLC.                                  *)
EXTENDS CorporateActions, TLC

Symmetry == Permutations(Sessions) \cup Permutations(Amounts) \cup Permutations(Ratios)
=============================================================================
