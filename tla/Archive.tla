------------------------------ MODULE Archive ------------------------------
(***************************************************************************)
(* What the ingestion commands share besides their transactions: the stub  *)
(* of a company that is not known yet, and the archive of downloaded bytes *)
(* (services/storage.py).  The archive is a directory: what is written     *)
(* there survives a rollback, and a crash may leave a file torn.           *)
(***************************************************************************)
EXTENDS Transactions

VARIABLE files  \* the archive: path -> "torn" or "whole"

archivevars == <<txvars, files>>

InitArchive(companies) ==
    /\ InitTransactions([k \in {Company(n) : n \in companies} |-> TRUE])
    /\ files = Nothing

Written(path) == path \in DOMAIN files

Put(path, state) ==
    files' = [p \in DOMAIN files \cup {path} |-> IF p = path THEN state ELSE files[p]]

\* ensure_company of each symbol of a Python set: in any order.
EnsureCompany(s, next) ==
    /\ At(s, "ensure")
    /\ \/ sess[s].companies = {} /\ Local(s, next)
       \/ \E n \in sess[s].companies :
             /\ sess[s].want = NONE
             /\ IF Sees(s, Company(n))
                THEN Local(s, [sess[s] EXCEPT !.companies = @ \ {n}])
                ELSE Local(s, [sess[s] EXCEPT !.want = Company(n)])
       \/ FlushNew(s, TRUE, [sess[s] EXCEPT !.companies = @ \ {sess[s].want[2]}])
    /\ UNCHANGED files

\* Mutant: the row is recorded before there is a file.
WriteLater(s) == Local(s, [sess[s] EXCEPT !.pc = "document"]) /\ UNCHANGED files

\* exists(), and the opening of a file that does not: it is empty at first.  A
\* file that is there, whole or not, is left alone.
OpenFile(s) ==
    IF Written(sess[s].path)
    THEN Local(s, [sess[s] EXCEPT !.pc = "document"]) /\ UNCHANGED files
    ELSE Put(sess[s].path, "torn") /\ Local(s, [sess[s] EXCEPT !.pc = "fill"])

WriteArchive(s) ==
    \/ At(s, "write") /\ OpenFile(s)
    \/ /\ At(s, "fill")
       /\ Put(sess[s].path, "whole")
       /\ Local(s, [sess[s] EXCEPT !.pc = "document"])
=============================================================================
