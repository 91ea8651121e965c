---------------------------- MODULE Transactions ----------------------------
(***************************************************************************)
(* What every command shares: one AsyncSession, one READ COMMITTED         *)
(* transaction of PostgreSQL, autoflush off.  A row is known by the values *)
(* of its unique constraint, so the database is a function from keys to    *)
(* rows; a transaction has a draft of the rows it has flushed, it sees the *)
(* committed rows overlaid with its draft, and who needs a key another     *)
(* draft holds waits for that transaction to end.                          *)
(***************************************************************************)
EXTENDS Integers, FiniteSets, SequencesExt

CONSTANTS Sessions,    \* concurrently running commands
          MaxCommands, \* bound: commands started
          NONE

VARIABLES db,     \* committed rows: unique key -> row
          draft,  \* session -> the rows it has flushed: unique key -> row
          started,\* commands started
          sess    \* session -> what its command is doing

txvars == <<db, draft, started, sess>>

\* A company is one row, known by its symbol.
Company(n) == <<"company", n>>

Nothing == [k \in {} |-> NONE]
Idle == [pc |-> "idle", want |-> NONE]

InitTransactions(rows) ==
    /\ db = rows
    /\ draft = [s \in Sessions |-> Nothing]
    /\ started = 0
    /\ sess = [s \in Sessions |-> Idle]

-----------------------------------------------------------------------------

\* What a SELECT of the session finds.
View(s) ==
    [k \in DOMAIN db \cup DOMAIN draft[s] |->
        IF k \in DOMAIN draft[s] THEN draft[s][k] ELSE db[k]]
Sees(s, k) == k \in DOMAIN db \cup DOMAIN draft[s]

\* The rows of one table.
Of(rows, tag) == {k \in DOMAIN rows : k[1] = tag}

\* The next id of a uuid column: unlike every committed or uncommitted one.
Fresh(tag) ==
    LET used == Of(db, tag) \cup UNION {Of(draft[t], tag) : t \in Sessions}
    IN  CHOOSE n \in 1..(Cardinality(used) + 1) : <<tag, n>> \notin used

At(s, pc) == sess[s].pc = pc

Become(s, state) == sess' = [sess EXCEPT ![s] = state]

\* A step that reads, or works on what was read.
Local(s, state) == Become(s, state) /\ UNCHANGED <<db, draft, started>>

\* A command starts.  In its state, want is the key its next write needs.
Start(s, state) ==
    /\ At(s, "idle") /\ started < MaxCommands
    /\ started' = started + 1
    /\ Become(s, state)
    /\ UNCHANGED <<db, draft>>

\* The row locks and index entries held by others.
WaitsFor(s, t) == s # t /\ sess[s].want \in DOMAIN draft[t]

Free(s) == \A t \in Sessions : ~WaitsFor(s, t)

Rollback(s) ==
    /\ draft' = [draft EXCEPT ![s] = Nothing]
    /\ Become(s, Idle)
    /\ UNCHANGED <<db, started>>

\* The flush of new rows whose keys nobody else can need: ids drawn for them.
Insert(s, rows, state) ==
    /\ draft' = [draft EXCEPT ![s] =
          [k \in DOMAIN @ \cup DOMAIN rows |-> IF k \in DOMAIN rows THEN rows[k] ELSE @[k]]]
    /\ Become(s, state)
    /\ UNCHANGED <<db, started>>

InsertRow(s, key, row, state) == Insert(s, [k \in {key} |-> row], state)

Flush(s, row, state) == InsertRow(s, sess[s].want, row, [state EXCEPT !.want = NONE])

\* The flush of a row the command wants: an UPDATE waits for its lock.
FlushUpdate(s, row, state) == sess[s].want # NONE /\ Free(s) /\ Flush(s, row, state)

\* The flush of a new row; IntegrityError if its key has been taken since the
\* command looked, which no command that uses this catches.
FlushNew(s, row, state) ==
    /\ sess[s].want # NONE /\ Free(s)
    /\ IF Sees(s, sess[s].want) THEN Rollback(s) ELSE Flush(s, row, state)

\* get_or_create: the row of this key, or a new one.
GetOrCreate(s, key, row, found, created) ==
    \/ /\ sess[s].want = NONE
       /\ Local(s, IF Sees(s, key) THEN found ELSE [sess[s] EXCEPT !.want = key])
    \/ FlushNew(s, row, created)

\* session.commit(), and what the command does next.
Commit(s, state) ==
    /\ db' = View(s)
    /\ draft' = [draft EXCEPT ![s] = Nothing]
    /\ Become(s, state)
    /\ UNCHANGED started

\* An exception nobody catches, a kill, a lost connection.
Crash(s) == ~At(s, "idle") /\ Rollback(s)

\* Mutant: no deadlock detector.
NoVictim(s) == FALSE /\ Rollback(s)

\* PostgreSQL ends a wait in a cycle by failing one of its statements.
DeadlockVictim(s) ==
    /\ \E G \in SUBSET Sessions : s \in G /\ \A x \in G : \E y \in G : WaitsFor(x, y)
    /\ Rollback(s)

\* Two transactions never hold one key.
DraftsDisjoint ==
    \A s, t \in Sessions : s # t => DOMAIN draft[s] \cap DOMAIN draft[t] = {}
=============================================================================
