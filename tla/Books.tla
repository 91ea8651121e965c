------------------------------- MODULE Books -------------------------------
(***************************************************************************)
(* The commands that keep the books of a portfolio, run side by side: the  *)
(* syncs of what the broker holds today, and the reconstruction of what    *)
(* the account held from its trades.  They share the companies.            *)
(***************************************************************************)
EXTENDS PortfolioSync, Reconstruction

CONSTANT Past  \* the databases to start from

\* What every committed database is.
Booked(rows) ==
    /\ \A k \in Of(rows, "ledger") : \E f \in Facts : k = Ledger(f)
    /\ \A k \in Of(rows, "adjustment") :
          \E o \in Openings : k = Adjustment(o.symbol) /\ rows[k] = Opened(o)
    /\ \A tag \in {"run", "snapshot", "lots"} : IsFiniteSet(Of(rows, tag))
    /\ Reported(rows)

ASSUME BooksAssumption == \A rows \in Past : Booked(rows)

BooksInit == \E rows \in Past : InitTransactions(rows)

ProceedBooks(s) == PortfolioSyncProceed(s) \/ ReconstructionProceed(s) \/ DeadlockVictim(s)

BeginBooks(s) == BeginPortfolioSync(s) \/ BeginReconstruction(s)

BooksNext == \E s \in Sessions : BeginBooks(s) \/ ProceedBooks(s) \/ Crash(s)

BooksSpec == BooksInit /\ [][BooksNext]_txvars

-----------------------------------------------------------------------------

BooksTypeOK ==
    /\ DraftsDisjoint
    /\ \A k \in Of(db, "instrument") : db[k].company \in Of(db, "company") \cup {NONE}
    /\ \A k \in LiveLots(db) : db[k].trades \subseteq Facts /\ db[k].actions \subseteq Facts
=============================================================================
