---------------------------- MODULE BrokerImport ----------------------------
(***************************************************************************)
(* import-broker-statement for one broker account: each command is one     *)
(* READ COMMITTED transaction that claims the file by its hash, parses it, *)
(* and creates the rows whose dedupe_key is new, trades, cash flows and    *)
(* dividends alike.  Export files overlap, list a key twice and are        *)
(* imported by concurrent processes; a file may be unreadable, or hold a   *)
(* row the schema refuses (a price of NaN).                                *)
(***************************************************************************)
EXTENDS Naturals, Sequences, FiniteSets

CONSTANTS Sessions,   \* concurrently running commands
          Files,      \* statement files, told apart by their hash
          Keys,       \* dedupe keys
          Content,    \* file -> the rows it parses to, in order
          Unreadable, \* files parse() raises on
          ABSENT

ImportRow == [key : Keys, valid : BOOLEAN]
Run == [status : {"SUCCESS", "PARTIAL", "FAILED"}, created : Nat, skipped : Nat]

ASSUME BrokerImportAssumption ==
    /\ Content \in [Files -> Seq(ImportRow)]
    /\ Unreadable \subseteq Files
    /\ ABSENT \notin Files \cup Run
    /\ IsFiniteSet(Sessions)

VARIABLES runs,   \* historical_import_runs: file -> its run, or ABSENT
          rows,   \* the fact tables: key -> source_import_run_id, or ABSENT
          sess    \* what each session is doing, and what it has not committed

importvars == <<runs, rows, sess>>

Idle == [pc |-> "idle"]

InitImports ==
    /\ runs = [f \in Files |-> ABSENT]
    /\ rows = [k \in Keys |-> ABSENT]
    /\ sess = [s \in Sessions |-> Idle]

-----------------------------------------------------------------------------

\* The row the loop is at, and whether the loop is over.
Row(s) == Content[sess[s].file][sess[s].row]
Exhausted(s) == sess[s].row > Len(Content[sess[s].file])

\* The sessions whose transaction holds the run of a file, or a key.
InTransaction(s) == sess[s].pc \notin {"idle", "claiming", "broken"}
HoldsRun(s, f) == InTransaction(s) /\ sess[s].file = f
HoldsKey(s, k) == InTransaction(s) /\ k \in sess[s].inserted

\* What an insert of s waits for: another transaction's uncommitted row.
WaitsFor(s, t) ==
    /\ s # t
    /\ \/ sess[s].pc = "claiming" /\ HoldsRun(t, sess[s].file)
       \/ sess[s].pc = "inserting" /\ HoldsKey(t, Row(s).key)

Waits(s) == \E t \in Sessions : WaitsFor(s, t)

\* get_by_file_hash; an existing run, whatever its status, is returned as is.
Select(s) ==
    /\ sess[s].pc = "idle"
    /\ \E f \in Files :
          /\ runs[f] = ABSENT
          /\ sess' = [sess EXCEPT ![s] =
                [pc |-> "claiming", file |-> f, row |-> 1, created |-> 0, skipped |-> 0,
                 inserted |-> {}, status |-> "PARTIAL"]]
    /\ UNCHANGED <<runs, rows>>

\* A failed flush: the session has rolled back and is unusable.
Break(s) == sess' = [sess EXCEPT ![s] = [pc |-> "broken", file |-> @.file]]

\* The flush of the PARTIAL run; the file may have been imported meanwhile.
FlushRun(s) ==
    IF runs[sess[s].file] = ABSENT THEN sess' = [sess EXCEPT ![s].pc = "parsing"] ELSE Break(s)

Claim(s) ==
    /\ sess[s].pc = "claiming" /\ ~Waits(s)
    /\ FlushRun(s)
    /\ UNCHANGED <<runs, rows>>

\* importer.parse, all of the file at once; what it raises is recorded.
Parse(s) ==
    /\ sess[s].pc = "parsing"
    /\ sess' = IF sess[s].file \in Unreadable
               THEN [sess EXCEPT ![s].pc = "raised", ![s].status = "FAILED"]
               ELSE [sess EXCEPT ![s].pc = "looking"]
    /\ UNCHANGED <<runs, rows>>

\* The ...Create schema refuses the row: the exception leaves the loop.
Refuse(s) ==
    /\ sess[s].pc = "looking" /\ ~Exhausted(s) /\ ~Row(s).valid
    /\ sess' = [sess EXCEPT ![s].pc = "raised"]
    /\ UNCHANGED <<runs, rows>>

\* get_by_dedupe_key: a committed row or one this session has flushed.
Exists(s, k) == rows[k] # ABSENT \/ k \in sess[s].inserted

\* Mutant: a duplicate is counted as created.
SkipAsCreated(s) == sess' = [sess EXCEPT ![s].row = @ + 1, ![s].created = @ + 1]

Skip(s) == sess' = [sess EXCEPT ![s].row = @ + 1, ![s].skipped = @ + 1]

\* create_if_not_exists, the read.
LookUp(s) ==
    /\ sess[s].pc = "looking" /\ ~Exhausted(s) /\ Row(s).valid
    /\ IF Exists(s, Row(s).key) THEN Skip(s)
       ELSE sess' = [sess EXCEPT ![s].pc = "inserting"]
    /\ UNCHANGED <<runs, rows>>

\* Mutant: the fact table without its unique constraint.
NeverTaken(s) == FALSE

\* A row of this key was committed, or flushed by this session, since the read.
Taken(s) == Exists(s, Row(s).key)

Add(s) ==
    sess' = [sess EXCEPT ![s].pc = "looking", ![s].row = @ + 1, ![s].created = @ + 1,
                         ![s].inserted = @ \cup {Row(s).key}]

\* create_if_not_exists, the write.
Insert(s) ==
    /\ sess[s].pc = "inserting" /\ ~Waits(s)
    /\ IF Taken(s) THEN Break(s) ELSE Add(s)
    /\ UNCHANGED <<runs, rows>>

\* session.commit() of everything the session has flushed.
CommitAs(s, run) ==
    /\ runs' = [runs EXCEPT ![sess[s].file] = run]
    /\ rows' = [k \in Keys |-> IF k \in sess[s].inserted THEN sess[s].file ELSE rows[k]]
    /\ sess' = [sess EXCEPT ![s] = Idle]

\* The counts go to the run with its SUCCESS.
Finish(s) ==
    /\ sess[s].pc = "looking" /\ Exhausted(s)
    /\ CommitAs(s, [status |-> "SUCCESS", created |-> sess[s].created,
                    skipped |-> sess[s].skipped])

\* Mutant: whatever raised, the run is marked FAILED and its rows stay.
MarkFailed(s) == CommitAs(s, [status |-> "FAILED", created |-> 0, skipped |-> 0])

\* The commit of the CLI's except clause, of a run whose counts were not set.
CommitRaised(s) == CommitAs(s, [status |-> sess[s].status, created |-> 0, skipped |-> 0])

\* The except clause of the CLI: commit, and exit.  After a failed flush the
\* commit itself raises PendingRollbackError.
HandleError(s) ==
    \/ /\ sess[s].pc = "raised"
       /\ CommitRaised(s)
    \/ /\ sess[s].pc = "broken"
       /\ sess' = [sess EXCEPT ![s] = Idle]
       /\ UNCHANGED <<runs, rows>>

\* The process or its connection dies: PostgreSQL rolls back.
Crash(s) ==
    /\ sess[s].pc # "idle"
    /\ sess' = [sess EXCEPT ![s] = Idle]
    /\ UNCHANGED <<runs, rows>>

\* Mutant: no deadlock detector.
NoVictim(s) == FALSE

\* PostgreSQL ends a wait in a cycle by failing one of its statements.
DeadlockVictim(s) ==
    /\ \E G \in SUBSET Sessions :
          s \in G /\ \A x \in G : \E y \in G : WaitsFor(x, y)
    /\ Break(s)
    /\ UNCHANGED <<runs, rows>>

\* The steps a running import takes by itself.
Proceed(s) ==
    \/ Claim(s) \/ Parse(s) \/ Refuse(s) \/ LookUp(s) \/ Insert(s) \/ Finish(s)
    \/ HandleError(s) \/ DeadlockVictim(s)

NextImport == \E s \in Sessions : Select(s) \/ Proceed(s) \/ Crash(s)

ImportSpec == InitImports /\ [][NextImport]_importvars

\* A started import keeps running; a lock its holder released is granted to
\* the session queued for it.
FairImportSpec == ImportSpec /\ \A s \in Sessions : SF_importvars(Proceed(s))

-----------------------------------------------------------------------------
(* Properties.                                                             *)

KeysOf(f) == {Content[f][i].key : i \in DOMAIN Content[f]}
SourcedBy(f) == {k \in Keys : rows[k] = f}

Importing ==
    [pc : {"claiming", "parsing", "looking", "inserting", "raised"}, file : Files, row : Nat \ {0},
     created : Nat, skipped : Nat, inserted : SUBSET Keys, status : {"PARTIAL", "FAILED"}]

ImportsTypeOK ==
    /\ runs \in [Files -> Run \cup {ABSENT}]
    /\ rows \in [Keys -> Files \cup {ABSENT}]
    /\ sess \in [Sessions -> {Idle} \cup [pc : {"broken"}, file : Files] \cup Importing]
    /\ \A s \in Sessions : sess[s].pc = "inserting" => ~Exhausted(s)

\* A SUCCESS run means the file is in the books, all of it: the rows it lists
\* are stored, from this file or an overlapping one, and the counts reported
\* are those of the rows this run created and of the others.
SuccessIsComplete ==
    \A f \in Files :
        (runs[f] # ABSENT /\ runs[f].status = "SUCCESS") =>
            /\ \A k \in KeysOf(f) : rows[k] # ABSENT
            /\ runs[f].created = Cardinality(SourcedBy(f))
            /\ runs[f].created + runs[f].skipped = Len(Content[f])

\* Every stored row can be traced to the committed run of a file that lists
\* it, and a run recorded as FAILED stored nothing.
RowsAreTraceable ==
    \A k \in Keys : rows[k] # ABSENT =>
        /\ runs[rows[k]] # ABSENT /\ runs[rows[k]].status # "FAILED"
        /\ k \in KeysOf(rows[k])

\* Overlapping exports merge: no import, concurrent or later, re-attributes a
\* stored row, drops it, or rewrites the record of an earlier run.
ImportsOnlyAddStep ==
    /\ \A k \in Keys : rows[k] # ABSENT => rows'[k] = rows[k]
    /\ \A f \in Files : runs[f] # ABSENT => runs'[f] = runs[f]
ImportsOnlyAdd == [][ImportsOnlyAddStep]_importvars

\* Every import that starts ends, whatever the order in which two files list
\* the rows they share.
ImportsEnd == \A s \in Sessions : sess[s].pc # "idle" ~> sess[s].pc = "idle"

=============================================================================
