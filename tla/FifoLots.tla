------------------------------ MODULE FifoLots ------------------------------
(***************************************************************************)
(* The FIFO lot-matching engine (services/reconstruction/fifo.py): the     *)
(* merged timeline of opening adjustments, splits/bonuses and trades of    *)
(* one broker account, replayed lot by lot.                                *)
(*                                                                         *)
(* The next event is any one that does not sort before the last one        *)
(* applied, so a behaviour is the replay of one sorted timeline.  A SELL   *)
(* is a loop; each iteration is a step.                                    *)
(*                                                                         *)
(* Quantities and prices are integers counting units of 1/Scale: Scale     *)
(* stands for the precision of Decimal, whose division and multiplication  *)
(* round to 28 digits and never turn a positive number into zero.          *)
(***************************************************************************)
EXTENDS Integers, Sequences, Functions

CONSTANTS Symbols,
          Quantities,   \* whole shares of a trade or opening adjustment
          Prices,       \* whole currency units
          Ratios,       \* <<ratio_old, ratio_new>> of splits and bonuses
          Scale,        \* units per share and per currency unit
          MaxDate,      \* bound: dates
          MaxEvents,    \* bound: events in the timeline
          NONE

ASSUME FifoAssumption ==
    /\ Scale \in Nat \ {0} /\ MaxDate \in Nat /\ MaxEvents \in Nat
    /\ Quantities \subseteq Nat \ {0} /\ Prices \subseteq Nat
    /\ Ratios \subseteq (Nat \ {0}) \X (Nat \ {0})
    /\ NONE \notin 0..MaxDate

VARIABLES all_lots,                 \* open and closed lots, every symbol
          open_lots_by_symbol,      \* symbol -> indices of its open lots
          realized_pnl_by_symbol,
          cash_from_trades,         \* compute_cash_breakdown over the trades so far
          adjustments,              \* corporate_action_adjustments
          sale,                     \* the SELL being matched, or NoSale
          last,                     \* sort key of the last event applied
          applied                   \* events applied

vars == <<all_lots, open_lots_by_symbol, realized_pnl_by_symbol, cash_from_trades,
          adjustments, sale, last, applied>>

Date == 0..MaxDate
Lot == [symbol : Symbols, opened_date : Date, quantity_opened : Nat,
        quantity_remaining : Nat, cost_price : Nat, closed_date : Date \cup {NONE},
        realized_pnl : Int,
        lot_origin : {"TRADE", "OVERSELL_SYNTHETIC", "OPENING_ADJUSTMENT"}]

NoSale == [symbol |-> NONE]

-----------------------------------------------------------------------------
(* Decimal arithmetic.                                                     *)

RoundDiv(a, b) == (2 * a + b) \div (2 * b)
Positive(exact, rounded) == IF exact # 0 /\ rounded = 0 THEN 1 ELSE rounded

Times(q, factor) == Positive(q * factor, RoundDiv(q * factor, Scale))
Over(c, factor) == Positive(c, RoundDiv(c * Scale, factor))

\* factor = ca.ratio_new / ca.ratio_old
Factor(ratio) == Positive(1, RoundDiv(ratio[2] * Scale, ratio[1]))

-----------------------------------------------------------------------------
(* The timeline.                                                           *)

\* Mutant: trades of a day sorted before its corporate actions.
TradesFirst == [OPENING |-> 0, CORPORATE_ACTION |-> 2, TRADE |-> 1]

\* The sort key (date, priority, seq); events of one date and kind keep the
\* order their callers gave them, which is any order here.
Priority == [OPENING |-> 0, CORPORATE_ACTION |-> 1, TRADE |-> 2]

Follows(date, kind) ==
    /\ sale = NoSale /\ applied < MaxEvents
    /\ \/ date > last.date
       \/ date = last.date /\ Priority[kind] >= last.priority

Advance(date, kind) ==
    /\ last' = [date |-> date, priority |-> Priority[kind]]
    /\ applied' = applied + 1

Init ==
    /\ all_lots = <<>>
    /\ open_lots_by_symbol = [s \in Symbols |-> <<>>]
    /\ realized_pnl_by_symbol = [s \in Symbols |-> 0]
    /\ cash_from_trades = 0
    /\ adjustments = <<>>
    /\ sale = NoSale
    /\ last = [date |-> 0, priority |-> 0]
    /\ applied = 0

NewLot(s, date, quantity, price, origin) ==
    [symbol |-> s, opened_date |-> date, quantity_opened |-> quantity,
     quantity_remaining |-> quantity, cost_price |-> price, closed_date |-> NONE,
     realized_pnl |-> 0, lot_origin |-> origin]

\* Mutant: the newest lot put where the oldest is taken from.
Stack(queue, n) == <<n>> \o queue

\* The position of a new lot among the open ones.
Enqueue(queue, n) == Append(queue, n)

\* Append a lot to all_lots and to its symbol's queue.
Open(lot) ==
    /\ all_lots' = Append(all_lots, lot)
    /\ open_lots_by_symbol' =
         [open_lots_by_symbol EXCEPT ![lot.symbol] = Enqueue(@, Len(all_lots) + 1)]

_apply_opening_adjustment(s, date, quantity, price) ==
    /\ Follows(date, "OPENING") /\ Advance(date, "OPENING")
    /\ Open(NewLot(s, date, quantity, price, "OPENING_ADJUSTMENT"))
    /\ UNCHANGED <<realized_pnl_by_symbol, cash_from_trades, adjustments, sale>>

OpenIndices(s) == {open_lots_by_symbol[s][i] : i \in DOMAIN open_lots_by_symbol[s]}

\* Mutant: the cost per share is not adjusted.
SplitKeepsCost(lot, factor) ==
    [lot EXCEPT !.quantity_opened = Times(@, factor),
                !.quantity_remaining = Times(@, factor)]

\* A split scales both quantities of a lot and its cost the other way.
Split(lot, factor) ==
    [lot EXCEPT !.quantity_opened = Times(@, factor),
                !.quantity_remaining = Times(@, factor),
                !.cost_price = Over(@, factor)]

\* old_quantity: what the open lots of a symbol hold.
OldQuantity(s) == SumFunction([i \in OpenIndices(s) |-> all_lots[i].quantity_remaining])

\* A split or bonus with no open lot is ignored.
_apply_corporate_action(s, date, ratio) ==
    /\ Follows(date, "CORPORATE_ACTION") /\ Advance(date, "CORPORATE_ACTION")
    /\ IF open_lots_by_symbol[s] = <<>>
       THEN UNCHANGED <<all_lots, adjustments>>
       ELSE /\ all_lots' = [i \in DOMAIN all_lots |->
                              IF i \in OpenIndices(s)
                              THEN Split(all_lots[i], Factor(ratio))
                              ELSE all_lots[i]]
            /\ adjustments' = Append(adjustments,
                 [symbol |-> s, event_date |-> date, ratio |-> ratio,
                  old_quantity |-> OldQuantity(s),
                  new_quantity |-> Times(OldQuantity(s), Factor(ratio))])
    /\ UNCHANGED <<open_lots_by_symbol, realized_pnl_by_symbol, cash_from_trades, sale>>

-----------------------------------------------------------------------------
(* Trades.  cash_from_trades is computed by compute_cash_breakdown from the *)
(* same trades, independently of the lots.                                 *)

Buy(s, date, quantity, price) ==
    /\ Follows(date, "TRADE") /\ Advance(date, "TRADE")
    /\ Open(NewLot(s, date, quantity, price, "TRADE"))
    /\ cash_from_trades' = cash_from_trades - quantity * price
    /\ UNCHANGED <<realized_pnl_by_symbol, adjustments, sale>>

SellBegin(s, date, quantity, price) ==
    /\ Follows(date, "TRADE") /\ Advance(date, "TRADE")
    /\ sale' = [symbol |-> s, date |-> date, price |-> price,
                remaining_to_sell |-> quantity, realized_delta |-> 0]
    /\ cash_from_trades' = cash_from_trades + quantity * price
    /\ UNCHANGED <<all_lots, open_lots_by_symbol, realized_pnl_by_symbol, adjustments>>

\* matched_qty = min(lot.quantity_remaining, remaining_to_sell)
Matched(lot) == IF lot.quantity_remaining <= sale.remaining_to_sell
                THEN lot.quantity_remaining ELSE sale.remaining_to_sell

\* Mutant: an emptied lot is not closed.
ConsumeOpen(lot) ==
    [lot EXCEPT !.quantity_remaining = @ - Matched(lot),
                !.realized_pnl = @ + Matched(lot) * (sale.price - lot.cost_price)]

\* The head lot after the sale took what it could from it.
Consume(lot) ==
    [lot EXCEPT !.quantity_remaining = @ - Matched(lot),
                !.realized_pnl = @ + Matched(lot) * (sale.price - lot.cost_price),
                !.closed_date = IF lot.quantity_remaining = Matched(lot)
                                THEN sale.date ELSE @]

\* open_lots.pop(0) when the head lot is used up.
AfterMatch(queue, lot) ==
    IF lot.quantity_remaining = Matched(lot) THEN Tail(queue) ELSE queue

\* One iteration of: while remaining_to_sell > 0 and open_lots.
MatchLot ==
    /\ sale # NoSale /\ sale.remaining_to_sell > 0
    /\ open_lots_by_symbol[sale.symbol] # <<>>
    /\ LET queue == open_lots_by_symbol[sale.symbol]
           lot == all_lots[Head(queue)]
       IN  /\ all_lots' = [all_lots EXCEPT ![Head(queue)] = Consume(lot)]
           /\ sale' = [sale EXCEPT
                !.remaining_to_sell = @ - Matched(lot),
                !.realized_delta = @ + Matched(lot) * (sale.price - lot.cost_price)]
           /\ open_lots_by_symbol' =
                [open_lots_by_symbol EXCEPT ![sale.symbol] = AfterMatch(queue, lot)]
    /\ UNCHANGED <<realized_pnl_by_symbol, cash_from_trades, adjustments, last, applied>>

\* The excess of a sale, absorbed by a closed zero-cost lot.
OversellLot ==
    [symbol |-> sale.symbol, opened_date |-> sale.date,
     quantity_opened |-> sale.remaining_to_sell, quantity_remaining |-> 0,
     cost_price |-> 0, closed_date |-> sale.date,
     realized_pnl |-> sale.remaining_to_sell * sale.price,
     lot_origin |-> "OVERSELL_SYNTHETIC"]

\* realized_delta with the synthetic lot's share.
RealizedDelta == sale.realized_delta + sale.remaining_to_sell * sale.price

\* The loop is over: everything is matched, or there is nothing to match with.
SellEnd ==
    /\ sale # NoSale
    /\ sale.remaining_to_sell = 0 \/ open_lots_by_symbol[sale.symbol] = <<>>
    /\ all_lots' = IF sale.remaining_to_sell > 0
                   THEN Append(all_lots, OversellLot) ELSE all_lots
    /\ realized_pnl_by_symbol' =
         [realized_pnl_by_symbol EXCEPT ![sale.symbol] = @ + RealizedDelta]
    /\ sale' = NoSale
    /\ UNCHANGED <<open_lots_by_symbol, cash_from_trades, adjustments, last, applied>>

Next ==
    \/ \E s \in Symbols, date \in Date :
          \/ \E q \in Quantities, p \in Prices :
                \/ _apply_opening_adjustment(s, date, q * Scale, p * Scale)
                \/ Buy(s, date, q * Scale, p * Scale)
                \/ SellBegin(s, date, q * Scale, p * Scale)
          \/ \E ratio \in Ratios : _apply_corporate_action(s, date, ratio)
    \/ MatchLot
    \/ SellEnd

Spec == Init /\ [][Next]_vars
-----------------------------------------------------------------------------
(* Properties.                                                             *)

TypeOK ==
    /\ all_lots \in Seq(Lot)
    /\ open_lots_by_symbol \in [Symbols -> Seq(Nat)]
    /\ realized_pnl_by_symbol \in [Symbols -> Int]
    /\ cash_from_trades \in Int
    /\ sale \in {NoSale} \cup [symbol : Symbols, date : Date, price : Nat,
                               remaining_to_sell : Nat, realized_delta : Int]
    /\ last \in [date : Date, priority : 0..2]
    /\ applied \in 0..MaxEvents

\* fifo.py keeps each open lot twice, in all_lots and in its symbol's queue:
\* the queue is exactly the symbol's lots with shares left, oldest first, and
\* exactly the other lots are closed.
QueueMatchesLots ==
    /\ \A s \in Symbols :
         LET queue == open_lots_by_symbol[s]
         IN  /\ \A i \in DOMAIN queue :
                  /\ queue[i] \in DOMAIN all_lots
                  /\ all_lots[queue[i]].symbol = s
                  /\ all_lots[queue[i]].quantity_remaining > 0
             /\ \A i, j \in DOMAIN queue : i < j => queue[i] < queue[j]
    /\ \A n \in DOMAIN all_lots :
         IF all_lots[n].quantity_remaining > 0
         THEN /\ all_lots[n].closed_date = NONE
              /\ n \in OpenIndices(all_lots[n].symbol)
         ELSE all_lots[n].closed_date # NONE

\* First in, first out, across splits and partial sales: a lot a sale has taken
\* from has no older lot of its symbol with shares left.
ConsumedInOrder ==
    \A i, j \in DOMAIN all_lots :
        (/\ i < j /\ all_lots[i].symbol = all_lots[j].symbol
         /\ all_lots[j].quantity_remaining < all_lots[j].quantity_opened)
        => all_lots[i].quantity_remaining = 0

\* What one lot says of the cash: realized, less what is still invested, plus
\* the value an opening adjustment brought in without a trade.
NetCash(lot) ==
    lot.realized_pnl - lot.quantity_remaining * lot.cost_price
    + (IF lot.lot_origin = "OPENING_ADJUSTMENT"
       THEN lot.quantity_opened * lot.cost_price ELSE 0)

\* service.py puts two independently computed figures in one snapshot: the cash
\* the trades moved, and the lots' capital and realized P&L.  With exact ratios
\* they agree once what opening adjustments brought in is accounted for.  The P&L
\* by symbol, kept beside the lots, is that of the lots.
CashIdentity ==
    sale = NoSale =>
        /\ cash_from_trades = SumFunction([i \in DOMAIN all_lots |-> NetCash(all_lots[i])])
        /\ \A s \in Symbols :
              realized_pnl_by_symbol[s] =
                  SumFunction([i \in {n \in DOMAIN all_lots : all_lots[n].symbol = s} |->
                                  all_lots[i].realized_pnl])

\* Held when the day began, whatever was recorded of it since: bought before the
\* day or brought in by an opening adjustment, and not sold before it.
HeldInto(lot, date) ==
    /\ lot.opened_date < date \/ lot.lot_origin = "OPENING_ADJUSTMENT"
    /\ lot.closed_date = NONE \/ lot.closed_date >= date

\* A split adjusts exactly the lots of its symbol that were held when its day
\* began, whatever order the day's events were recorded in, and no lot of another
\* symbol; and nothing but a split changes what a lot cost or was opened with.
SplitScopeStep ==
    /\ \A s \in Symbols, date \in Date, ratio \in Ratios :
          _apply_corporate_action(s, date, ratio) =>
             \A i \in DOMAIN all_lots :
                all_lots'[i] = IF all_lots[i].symbol = s /\ HeldInto(all_lots[i], date)
                               THEN Split(all_lots[i], Factor(ratio)) ELSE all_lots[i]
    /\ \A i \in DOMAIN all_lots :
          (\/ all_lots'[i].cost_price # all_lots[i].cost_price
           \/ all_lots'[i].quantity_opened # all_lots[i].quantity_opened)
          => \E s \in Symbols, date \in Date, ratio \in Ratios :
                _apply_corporate_action(s, date, ratio)
SplitScope == [][SplitScopeStep]_vars

=============================================================================
