---------------------------- MODULE VersionChain ----------------------------
(***************************************************************************)
(* What a versioned fact table of this system promises (the docstrings of  *)
(* FinancialResultRepository and CorporateActionRepository): identical     *)
(* re-ingestion is a no-op, a change creates a new version, and nothing    *)
(* recorded is ever overwritten or deleted.                                *)
(***************************************************************************)
EXTENDS Naturals, Sequences

CONSTANTS Keys, Facts  \* what is versioned, and what a version may report

VARIABLE versions       \* key -> the values of its versions, oldest first

Init == versions = [k \in Keys |-> <<>>]

\* Restatements may only be appended, each differing from the one before it.
Restated(old, new) ==
    /\ Len(old) <= Len(new)
    /\ \A v \in 1..Len(old) : new[v] = old[v]
    /\ \A v \in 2..Len(new) : v > Len(old) => new[v] # new[v - 1]

\* A committed command: new versions of any number of keys.
Record ==
    /\ versions' \in [Keys -> Seq(Facts)]
    /\ \A k \in Keys : Restated(versions[k], versions'[k])

Spec == Init /\ [][Record]_versions
=============================================================================
