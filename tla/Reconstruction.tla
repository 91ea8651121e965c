--------------------------- MODULE Reconstruction ---------------------------
(***************************************************************************)
(* The portfolio reconstruction of one broker account                      *)
(* (services/reconstruction/): rebuild-position-lots replaces the stored   *)
(* lots by those of a replay of the account's facts, reconcile-portfolio   *)
(* compares a replay with the statements of the broker, and a person       *)
(* records what the facts lack as opening adjustments.  Each reads table   *)
(* after table while imports commit.                                       *)
(*                                                                         *)
(* The replay itself is FifoLots; here the lots of a symbol cost alike, so *)
(* that a quantity, a cost and a realized gain are enough.                 *)
(***************************************************************************)
EXTENDS Transactions, TLC

CONSTANTS Facts,       \* trades and splits: [kind, symbol, date, quantity, price]
          Openings,    \* adjustments a person may record: [symbol, date, quantity, price]
          Directories  \* the statements of the broker that may be compared with

_TOLERANCE == 1

ASSUME ReconstructionAssumption ==
    /\ \A f \in Facts : f.kind \in {"BUY", "SELL", "SPLIT"} /\ f.quantity \in Nat \ {0}
    /\ \A o \in Openings : o.quantity \in Nat \ {0}
    /\ \A o, p \in Openings : o.symbol = p.symbol => o = p

Ledger(f) == <<"ledger", f>>
Adjustment(symbol) == <<"adjustment", symbol>>

\* The lots of one rebuild are one row here; deleted, it is not live.
Lots(n) == <<"lots", n>>
LiveLots(rows) == {k \in Of(rows, "lots") : rows[k].live}

-----------------------------------------------------------------------------
(* Reads, each a statement of its own.                                     *)

\* Mutant: the trades of the day are left out.
ListBefore(s, date) ==
    {f \in {k[2] : k \in Of(View(s), "ledger")} : f.kind # "SPLIT" /\ f.date < date}

list_up_to(s, date) ==
    {f \in {k[2] : k \in Of(View(s), "ledger")} : f.kind # "SPLIT" /\ f.date <= date}
load_corporate_action_events(s) ==
    {f \in {k[2] : k \in Of(View(s), "ledger")} : f.kind = "SPLIT"}
load_opening_adjustments(s) == {View(s)[k] : k \in Of(View(s), "adjustment")}

-----------------------------------------------------------------------------
(* The replay.                                                             *)

Rank == [OPENING |-> 0, SPLIT |-> 1, BUY |-> 2, SELL |-> 2]
Before(e, f) == e.date < f.date \/ (e.date = f.date /\ Rank[e.kind] < Rank[f.kind])

Apply(p, e) ==
    LET sold == IF e.quantity <= p.held THEN e.quantity ELSE p.held
        cost == IF sold = 0 THEN 0 ELSE (p.invested * sold) \div p.held
    IN  IF e.kind \in {"OPENING", "BUY"}
        THEN [p EXCEPT !.held = @ + e.quantity, !.invested = @ + e.quantity * e.price]
        ELSE IF e.kind = "SPLIT" THEN [p EXCEPT !.held = @ * e.quantity]
        ELSE [held |-> p.held - sold, invested |-> p.invested - cost,
              realized |-> p.realized + e.quantity * e.price - cost]

NoPosition == [held |-> 0, invested |-> 0, realized |-> 0]

\* replay_trades, of one symbol.
replay_trades(trades, actions, openings, symbol) ==
    FoldLeft(Apply, NoPosition,
             SetToSortSeq({e \in trades \cup actions \cup openings : e.symbol = symbol}, Before))

\* _period_realized_pnl_by_symbol: the gain up to the end of the period less that
\* before its start.
period_realized(trades, actions, openings, symbol, statement) ==
    LET earlier == {t \in trades : t.date < statement.start}
        gain(T) == replay_trades(T, actions, openings, symbol).realized
    IN  gain({t \in trades : t.date <= statement.end}) - gain(earlier)

-----------------------------------------------------------------------------
(* record-opening-position-adjustment, and what other commands commit.     *)

AdjustCommand == [pc |-> "company", want |-> NONE, kind |-> "adjust", opening |-> NONE, known |-> NONE]

BeginAdjustment(s) == \E o \in Openings : Start(s, [AdjustCommand EXCEPT !.opening = o])

AdjustedCompany(s) ==
    LET key == Company(sess[s].opening.symbol)
        found == [sess[s] EXCEPT !.pc = "adjust"]
    IN  /\ At(s, "company") /\ sess[s].kind = "adjust"
        /\ \/ /\ sess[s].want = NONE
              /\ Local(s, IF Sees(s, key) THEN found ELSE [sess[s] EXCEPT !.want = key])
           \/ FlushNew(s, [isin |-> NONE], found)

\* What a person records, of a symbol without trades before that day.
Opened(o) ==
    [kind |-> "OPENING", symbol |-> o.symbol, date |-> o.date, quantity |-> o.quantity,
     price |-> o.price]

\* upsert: one adjustment of a symbol; the columns that differ are written over.
Adjust(s) ==
    LET row == Opened(sess[s].opening)
        key == Adjustment(row.symbol)
        known == sess[s].known
        after == [sess[s] EXCEPT !.pc = "commit"]
    IN  /\ At(s, "adjust")
        /\ \/ /\ sess[s].want = NONE
              /\ Local(s, [sess[s] EXCEPT !.want = key,
                              !.known = IF Sees(s, key) THEN View(s)[key] ELSE NONE])
           \/ /\ known # NONE
              /\ FlushUpdate(s, [c \in DOMAIN row |-> IF row[c] = known[c] THEN View(s)[key][c]
                                                      ELSE row[c]], after)
           \/ known = NONE /\ FlushNew(s, row, after)

FinishAdjustment(s) == At(s, "commit") /\ sess[s].kind = "adjust" /\ Commit(s, Idle)

\* An import, or a recorded split, commits what the account lacked (BrokerImport
\* and CorporateActions have their steps).
Import(s) ==
    /\ At(s, "idle") /\ started < MaxCommands
    /\ \E F \in SUBSET {f \in Facts : Ledger(f) \notin DOMAIN db} :
          /\ F # {}
          /\ db' = [k \in DOMAIN db \cup {Ledger(f) : f \in F} |->
                       IF k \in DOMAIN db THEN db[k] ELSE TRUE]
    /\ started' = started + 1
    /\ UNCHANGED <<draft, sess>>

-----------------------------------------------------------------------------
(* rebuild-position-lots: reconstruct_and_persist.                         *)

RebuildCommand ==
    [pc |-> "latest", want |-> NONE, kind |-> "rebuild", latest |-> 0, trades |-> {},
     actions |-> {}, openings |-> {}, targets |-> {}, found |-> {}]

BeginRebuild(s) == Start(s, RebuildCommand)

\* latest_date: without a trade there is nothing to rebuild.
ReadLatest(s) ==
    LET ledger == {k[2] : k \in Of(View(s), "ledger")}
        dates == {f.date : f \in ledger \ load_corporate_action_events(s)}
    IN  /\ At(s, "latest")
        /\ IF dates = {} THEN Rollback(s)
           ELSE Local(s, [sess[s] EXCEPT !.pc = "trades",
                             !.latest = CHOOSE d \in dates : \A e \in dates : e <= d])

ReadTrades(s) ==
    /\ At(s, "trades")
    /\ Local(s, [sess[s] EXCEPT !.pc = "actions", !.trades = list_up_to(s, sess[s].latest)])

ReadActions(s) ==
    /\ At(s, "actions")
    /\ Local(s, [sess[s] EXCEPT !.pc = "openings", !.actions = load_corporate_action_events(s)])

ReadOpenings(s) ==
    /\ At(s, "openings")
    /\ Local(s, [sess[s] EXCEPT !.pc = IF sess[s].kind = "rebuild" THEN "delete" ELSE "compare",
                    !.openings = load_opening_adjustments(s)])

\* The DELETE finds the lots committed by now, and no others.
BeginDelete(s) ==
    LET lots == LiveLots(View(s))
    IN  /\ At(s, "delete")
        /\ Local(s, [sess[s] EXCEPT !.pc = "deleting", !.targets = lots, !.found = lots])

\* Mutant: the DELETE passes over a row another transaction has deleted.
SkipLocked(s) == TRUE

DeleteMayProceed(s) == Free(s)

\* It waits for whoever deleted one of them: a row that is gone is passed over,
\* one whose deletion was rolled back is deleted.
DeleteLots(s) ==
    LET gone(k) == [sess[s] EXCEPT !.want = NONE, !.targets = @ \ {k}]
    IN  /\ At(s, "deleting")
        /\ \/ /\ sess[s].want = NONE
              /\ \E k \in sess[s].targets : Local(s, [sess[s] EXCEPT !.want = k])
           \/ /\ sess[s].want # NONE /\ DeleteMayProceed(s)
              /\ IF ~View(s)[sess[s].want].live \/ ~Free(s)
                 THEN Local(s, gone(sess[s].want))
                 ELSE Flush(s, [live |-> FALSE], gone(sess[s].want))

InsertLots(s) ==
    /\ At(s, "deleting") /\ sess[s].targets = {}
    /\ InsertRow(s, Lots(Fresh("lots")),
                 [live |-> TRUE, trades |-> sess[s].trades, actions |-> sess[s].actions,
                  openings |-> sess[s].openings],
                 [sess[s] EXCEPT !.pc = "commit"])

FinishRebuild(s) == At(s, "commit") /\ sess[s].kind = "rebuild" /\ Commit(s, Idle)

-----------------------------------------------------------------------------
(* reconcile-portfolio: reconcile_account.                                 *)

ReconcileCommand ==
    [pc |-> "actions", want |-> NONE, kind |-> "reconcile", todo |-> <<>>, trades |-> {},
     actions |-> {}, openings |-> {}, gaps |-> {}, diffs |-> {}, began |-> {}]

\* began is what had been imported when it started (the code keeps no such thing).
BeginReconcile(s) ==
    \E d \in Directories :
        Start(s, [ReconcileCommand EXCEPT !.todo = d,
                     !.began = {k[2] : k \in Of(db, "ledger")}
                                 \cup {db[k] : k \in Of(db, "adjustment")}])

Differs(a, b) == a - b > _TOLERANCE \/ b - a > _TOLERANCE

\* reconcile_pnl_statement: a symbol without a trade by the end of the period
\* but with an open position is a gap; the others are compared.
PnlGaps(trades, rows) ==
    {r.symbol : r \in {x \in rows : (\A t \in trades : t.symbol # x.symbol) /\ x.open # 0}}
PnlDiffs(trades, actions, openings, statement) ==
    {r.symbol : r \in {x \in statement.rows :
        /\ x.symbol \notin PnlGaps(trades, statement.rows)
        /\ Differs(period_realized(trades, actions, openings, x.symbol, statement), x.realized)}}

\* reconcile_holdings_statement: no open lots, another quantity, or another average cost.
HoldingsDiffs(trades, actions, openings, gaps, statement) ==
    {r.symbol : r \in {x \in statement.rows :
        LET p == replay_trades(trades, actions, openings, x.symbol)
        IN  /\ x.symbol \notin gaps
            /\ \/ p.held = 0
               \/ Differs(p.held, x.open)
               \/ Differs(p.invested \div p.held, x.average)}}

\* One statement file, the P&L files first; one that cannot be parsed is a warning.
\* A portfolio to compare holdings with is read anew.
Compare(s) ==
    LET statement == Head(sess[s].todo)
        trades == list_up_to(s, statement.end)
        after == [sess[s] EXCEPT !.todo = Tail(@)]
    IN  /\ At(s, "compare") /\ sess[s].todo # <<>>
        /\ Local(s,
             CASE statement.type = "unreadable" -> after
               [] statement.type = "pnl" ->
                    [after EXCEPT !.gaps = @ \cup PnlGaps(trades, statement.rows),
                                  !.diffs = @ \cup PnlDiffs(trades, sess[s].actions,
                                                            sess[s].openings, statement)]
               [] statement.type = "holdings" ->
                    [after EXCEPT !.diffs = @ \cup HoldingsDiffs(trades,
                                      load_corporate_action_events(s),
                                      load_opening_adjustments(s), sess[s].gaps, statement)])

\* A symbol that is a gap is not divergent, whatever another file said.
divergent_symbols(s) == sess[s].diffs \ sess[s].gaps
overall_status(s) == IF divergent_symbols(s) = {} THEN "CLEAN" ELSE "DIVERGENT"

Report(s) == At(s, "compare") /\ sess[s].todo = <<>> /\ Rollback(s)

-----------------------------------------------------------------------------

ReconstructionProceed(s) ==
    \/ AdjustedCompany(s) \/ Adjust(s) \/ FinishAdjustment(s)
    \/ ReadLatest(s) \/ ReadTrades(s) \/ ReadActions(s) \/ ReadOpenings(s)
    \/ BeginDelete(s) \/ DeleteLots(s) \/ InsertLots(s) \/ FinishRebuild(s)
    \/ Compare(s) \/ Report(s)

BeginReconstruction(s) ==
    BeginAdjustment(s) \/ Import(s) \/ BeginRebuild(s) \/ BeginReconcile(s)

-----------------------------------------------------------------------------
(* Properties.                                                             *)

\* A rebuild replaces: when it commits, its own lots are there and none of those
\* its DELETE found, whoever else was deleting them and whatever became of that.
RebuildReplacesStep ==
    \A s \in Sessions : FinishRebuild(s) =>
        /\ LiveLots(db') \cap sess[s].found = {}
        /\ \E k \in LiveLots(db') : k \notin DOMAIN db
RebuildReplaces == [][RebuildReplacesStep]_txvars

\* What a comparison reads of complete books, and the gaps it finds in the first n files.
Trades(date) == {f \in Facts : f.kind # "SPLIT" /\ f.date <= date}
Splits == {f \in Facts : f.kind = "SPLIT"}
AllOpenings == {Opened(o) : o \in Openings}
GapsOf(d, n) ==
    UNION {PnlGaps(Trades(d[i].end), d[i].rows) : i \in {j \in 1..n : d[j].type = "pnl"}}

\* The statements are those of the complete books.
ASSUME StatementsAssumption ==
    \A d \in Directories :
        /\ d \in Seq(Range(d))
        /\ \A i \in DOMAIN d :
              LET trades == Trades(d[i].end)
              IN  /\ d[i].type \in {"pnl", "holdings", "unreadable"}
                  /\ d[i].type = "pnl" =>
                        PnlDiffs(trades, Splits, AllOpenings, d[i]) \subseteq GapsOf(d, Len(d))
                  /\ d[i].type = "holdings" =>
                        HoldingsDiffs(trades, Splits, AllOpenings, {}, d[i]) \subseteq GapsOf(d, Len(d))

\* Books that are complete reconcile: when every fact the statements rest on had
\* been recorded before the comparison began, its report is clean, though the
\* gain of a period is only known as a difference of two replays.
CompleteBooksReconcile ==
    \A s \in Sessions :
        (At(s, "compare") /\ sess[s].kind = "reconcile" /\ sess[s].todo = <<>>
         /\ Facts \subseteq sess[s].began
         /\ \A o \in Openings : \E a \in sess[s].began : a.kind = "OPENING" /\ a.symbol = o.symbol)
        => overall_status(s) = "CLEAN"

-----------------------------------------------------------------------------
(* A statement of the documentation that the code does not keep.           *)

\* cli.py says of reconstruct-portfolio that it replays the trades "to answer 'what
\* did my portfolio look like on date X'": the position of a date is the same
\* whether the splits that came later are known or not.
PortfolioOfTheDate ==
    \A date \in {f.date : f \in Facts}, symbol \in {f.symbol : f \in Facts} :
        LET known == {k[2] : k \in Of(db, "ledger")}
            trades == {f \in known : f.kind # "SPLIT" /\ f.date <= date}
            actions == {f \in known : f.kind = "SPLIT"}
        IN  replay_trades(trades, actions, {}, symbol) =
            replay_trades(trades, {f \in actions : f.date <= date}, {}, symbol)
=============================================================================
