---------------------------- MODULE ExitPricing ----------------------------
(***************************************************************************)
(* What the exits of one position ask for it, and what they bring in       *)
(* (OrderMonitor.check_exit and _exit_position, engine/monitor.py): the    *)
(* tick reads positions, trades and the book at different times, and the   *)
(* position, the trades that are public and the book go on changing.       *)
(*                                                                         *)
(* That a position has one resting sell, what lost replies and refused     *)
(* cancellations do to that, and the sales of check_low_balance, are       *)
(* ExitMonitor's subject; here a call is carried out and returns, or       *)
(* raises and has done nothing.                                            *)
(***************************************************************************)
EXTENDS ExitPlan

CONSTANTS
  Prices,     \* at which buys fill
  BidBooks,   \* what may be bid: prices of lots, the best first
  Asks,       \* best asks of others, 0 for none
  Settings,   \* <<take_profit_mode, stop_loss_mode>> of the template
  MaxBuys,    \* bound: lots bought
  MaxMoves    \* bound: moves of the book

ASSUME ExitAssumption ==
  /\ Prices \subseteq Nat \ {0}
  /\ BidBooks \subseteq Seq(Nat \ {0})
  /\ \A b \in BidBooks : \A i, j \in DOMAIN b : i <= j => b[i] >= b[j]
  /\ Asks \subseteq Nat
  /\ Settings \subseteq Modes \X Stops
  /\ MaxBuys \in Nat /\ MaxMoves \in Nat

VARIABLES
  mode, stop,  \* take_profit_mode, stop_loss_mode
  trades,      \* our trades, as they came about
  listed,      \* how many of them get_trades returns
  shown,       \* how many of them the Data API accounts for
  bids, ask,   \* the book without our sell
  sell,        \* our resting sell
  moves,       \* how often the book moved
  pc,          \* where the tick stands
  read,        \* what it has read
  snap,        \* our sell in its list of open orders
  pos, lots,   \* size of the position, and the lots of its cost
  seen,        \* the best bid and ask it read
  resolving,   \* the market's outcome is submitted
  goal,        \* what the exit is to be
  reasons,     \* history: why money may have been lost
  clean,       \* history: nothing disturbed the tick
  settled      \* history: an undisturbed tick was content, and nothing changed since

worldVars == <<trades, listed, shown, bids, ask, sell, moves>>
tickVars  == <<pc, read, snap, pos, lots, seen, resolving, goal>>
vars == <<mode, stop, worldVars, tickVars, reasons, clean, settled>>

NoSell == [price |-> 0, left |-> 0]
NoBook == [bid |-> 0, ask |-> 0]
Best(b) == IF b = <<>> THEN 0 ELSE Head(b)

Queue == Replay(trades)
Held  == Len(Queue)
Gain  == LET of(side) == Total([i \in DOMAIN trades |-> IF trades[i].side = side THEN trades[i].price ELSE 0])
         IN  of("sell") + Total(Queue) - of("buy")

\* Our sell never rests at or below a bid, and never for more than is held.
TypeOK ==
  /\ <<mode, stop>> \in Settings
  /\ \A i \in DOMAIN trades : trades[i].side \in {"buy", "sell"} /\ trades[i].price > 0
  /\ listed \in 0..Len(trades) /\ shown \in 0..Len(trades)
  /\ ask \in Asks /\ (ask > 0 => Best(bids) < ask)
  /\ sell = NoSell \/ (sell.left \in 1..Held /\ Best(bids) < sell.price)
  /\ pc \in {"idle", "reads", "cancel", "place", "sell"}
  /\ read \subseteq {"position", "trades", "book"}
  /\ pos \in Nat /\ resolving \in BOOLEAN
  /\ goal.action \in {"noop", "rest", "B0", "A_market", "forced"}
  /\ pc = "place" => goal.action = "rest" /\ CostKnown(lots, pos) /\ sell = NoSell
  /\ reasons \subseteq {"stop", "market", "falling", "stale"}
  /\ clean \in BOOLEAN /\ settled \in BOOLEAN

NoTick ==
  /\ pc = "idle" /\ read = {} /\ snap = NoSell /\ pos = 0 /\ lots = <<>> /\ seen = NoBook
  /\ resolving = FALSE /\ goal = Noop

Init ==
  /\ \E s \in Settings : mode = s[1] /\ stop = s[2]
  /\ trades = <<>> /\ listed = 0 /\ shown = 0
  /\ bids \in BidBooks /\ ask \in Asks /\ (ask > 0 => Best(bids) < ask)
  /\ sell = NoSell /\ moves = 0
  /\ NoTick
  /\ reasons = {} /\ clean = FALSE /\ settled = FALSE

-----------------------------------------------------------------------------
(* The exchange and the Data API. *)

Disturbs == clean' = FALSE /\ settled' = FALSE /\ UNCHANGED <<mode, stop, tickVars>>

\* A buy of ours fills; it is cheaper than a lot we hold, or not.
BuyFills(p) ==
  /\ Len(SelectSeq(trades, LAMBDA t : t.side = "buy")) < MaxBuys
  /\ trades' = Append(trades, [side |-> "buy", price |-> p])
  /\ reasons' = IF \E i \in 1..Held : p < Queue[i] THEN reasons \cup {"falling"} ELSE reasons
  /\ Disturbs /\ UNCHANGED <<listed, shown, bids, ask, sell, moves>>

LessOne(s) == IF s.left > 1 THEN [s EXCEPT !.left = @ - 1] ELSE NoSell

SellFills ==
  /\ sell # NoSell
  /\ trades' = Append(trades, [side |-> "sell", price |-> sell.price])
  /\ sell' = LessOne(sell)
  /\ Disturbs /\ UNCHANGED <<listed, shown, bids, ask, moves, reasons>>

Publish ==
  /\ listed < Len(trades)
  /\ listed' = Len(trades)
  /\ Disturbs /\ UNCHANGED <<trades, shown, bids, ask, sell, moves, reasons>>

CatchUp ==
  /\ shown < Len(trades)
  /\ shown' = Len(trades)
  /\ Disturbs /\ UNCHANGED <<trades, listed, bids, ask, sell, moves, reasons>>

\* Others bid and ask what they like; a bid at our price would have bought.
BookMoves ==
  /\ moves < MaxMoves /\ moves' = moves + 1
  /\ bids' \in BidBooks /\ ask' \in Asks
  /\ ask' > 0 => Best(bids') < ask'
  /\ sell # NoSell => Best(bids') < sell.price
  /\ Disturbs /\ UNCHANGED <<trades, listed, shown, sell, reasons>>

\* A sell of size at limit takes the bids that reach it, the best first.
TakesBids(size, limit) ==
  LET n == Cardinality({i \in 1..Min({size, Len(bids)}) : bids[i] >= limit})
  IN  /\ trades' = trades \o [i \in 1..n |-> [side |-> "sell", price |-> bids[i]]]
      /\ bids' = SubSeq(bids, n + 1, Len(bids))

-----------------------------------------------------------------------------
(* The tick reads. *)

InTick == UNCHANGED <<mode, stop, worldVars, reasons>>

TickEnds ==
  /\ pc' = "idle" /\ read' = {} /\ snap' = NoSell /\ pos' = 0 /\ lots' = <<>> /\ seen' = NoBook
  /\ resolving' = FALSE /\ goal' = Noop

\* The list of open orders, the first the tick reads.
TickBegins ==
  /\ pc = "idle"
  /\ pc' = "reads" /\ snap' = sell
  /\ clean' = (listed = Len(trades) /\ shown = Len(trades))
  /\ InTick /\ UNCHANGED <<read, pos, lots, seen, resolving, goal, settled>>

\* The positions, and whether the market is being resolved.  Without a position
\* there is nothing to do.
ReadPosition ==
  /\ pc = "reads" /\ "position" \notin read
  /\ LET size == Len(Replay(SubSeq(trades, 1, shown)))
     IN  IF size = 0 THEN TickEnds
         ELSE /\ pos' = size /\ read' = read \cup {"position"}
              /\ resolving' \in BOOLEAN
              /\ UNCHANGED <<pc, snap, lots, seen, goal>>
  /\ InTick /\ UNCHANGED <<clean, settled>>

\* The trades, maybe for check_low_balance before the positions were read.
ReadTrades ==
  /\ pc = "reads" /\ "trades" \notin read
  /\ read' = read \cup {"trades"}
  /\ lots' = Replay(SubSeq(trades, 1, listed))
  /\ InTick /\ UNCHANGED <<pc, snap, pos, seen, resolving, goal, clean, settled>>

\* The book, after the trades.  Our own sell is part of it.
ReadBook ==
  /\ pc = "reads" /\ "trades" \in read /\ "book" \notin read
  /\ read' = read \cup {"book"}
  /\ seen' = [bid |-> Best(bids),
              ask |-> IF sell = NoSell THEN ask
                      ELSE IF ask = 0 THEN sell.price ELSE Min({ask, sell.price})]
  /\ InTick /\ UNCHANGED <<pc, snap, pos, lots, resolving, goal, clean, settled>>

\* Without trades the cost is unknown, without a book it is taken for an empty one.
ReadFails ==
  /\ pc = "reads" /\ clean' = FALSE
  /\ \/ "trades" \notin read /\ lots' = <<>> /\ read' = read \cup {"trades"} /\ UNCHANGED seen
     \/ "trades" \in read /\ "book" \notin read /\ seen' = NoBook /\ read' = read \cup {"book"}
        /\ UNCHANGED lots
  /\ InTick /\ UNCHANGED <<pc, snap, pos, resolving, goal, settled>>

\* The list of positions cannot be read, the cancellation before a sell that is
\* to rest raises, an order is rejected, or the process ends.
TickIsCut ==
  /\ pc # "idle" /\ clean' = FALSE
  /\ TickEnds
  /\ InTick /\ UNCHANGED settled

-----------------------------------------------------------------------------
(* The tick decides. *)

Forced == resolving \/ mode = "market_always"

\* Whatever the cost, if there is a bid; else by plan_exit, if there is a cost.
Decision ==
  CASE Forced /\ seen.bid > 0 -> [action |-> "forced", price |-> 0]
    [] ~Forced /\ CostKnown(lots, pos) -> PlanExit(lots, seen.bid, seen.ask, mode, stop)
    [] OTHER -> Noop

Decides == pc = "reads" /\ read = {"position", "trades", "book"} /\ InTick

\* Mutated form: the size of the sell that rests is not looked at.
InPlace_AnySize == Decision.action = "rest" /\ snap # NoSell /\ snap.price = Decision.price

\* plan_take_profit: the one sell on the list is right.
InPlace == Decision.action = "rest" /\ snap = [price |-> Decision.price, left |-> pos]

\* Nothing to be done, or to be done about it.
Stays ==
  /\ Decides
  /\ Decision.action = "noop" \/ InPlace
  /\ TickEnds
  /\ settled' = (settled \/ (clean /\ InPlace /\ sell.left = Held))
  /\ UNCHANGED clean

Moves ==
  /\ Decides
  /\ Decision.action # "noop" /\ ~InPlace
  /\ goal' = Decision
  /\ pc' = IF snap # NoSell THEN "cancel" ELSE IF Decision.action = "rest" THEN "place" ELSE "sell"
  /\ read' = {} /\ snap' = NoSell /\ seen' = NoBook /\ resolving' = FALSE
  /\ UNCHANGED <<pos, lots, clean, settled>>

-----------------------------------------------------------------------------
(* The tick acts. *)

Acting == UNCHANGED <<mode, stop, listed, shown, ask, moves>>

CancelSell ==
  /\ pc = "cancel"
  /\ sell' = NoSell
  /\ pc' = IF goal.action = "rest" THEN "place" ELSE "sell"
  /\ Acting /\ UNCHANGED <<trades, bids, read, snap, pos, lots, seen, resolving, goal, reasons, clean, settled>>

\* Mutated form: before a sell that is to rest, too, it is no more than logged.
CancelFails_Proceeds ==
  /\ pc = "cancel" /\ clean' = FALSE
  /\ pc' = IF goal.action = "rest" THEN "place" ELSE "sell"
  /\ InTick /\ UNCHANGED <<read, snap, pos, lots, seen, resolving, goal, settled>>

\* Before a market sale it is no more than logged.
CancelFails ==
  /\ pc = "cancel" /\ clean' = FALSE
  /\ goal.action # "rest" /\ pc' = "sell"
  /\ InTick /\ UNCHANGED <<read, snap, pos, lots, seen, resolving, goal, settled>>

\* What crosses the bids is sold at once.
PlaceSell ==
  /\ pc = "place" /\ pos <= Held
  /\ TakesBids(pos, goal.price)
  /\ LET left == pos - (Len(trades') - Len(trades))
     IN  sell' = IF left = 0 THEN NoSell ELSE [price |-> goal.price, left |-> left]
  /\ reasons' = IF lots = SubSeq(Queue, 1, pos) THEN reasons ELSE reasons \cup {"stale"}
  /\ settled' = (clean /\ trades' = trades /\ pos = Held)
  /\ TickEnds /\ Acting /\ UNCHANGED clean

\* place_market_sell, fill-and-kill.
SellAtMarket ==
  /\ pc = "sell" /\ pos <= Held - sell.left
  /\ TakesBids(pos, 0)
  /\ reasons' = reasons \cup {IF goal.action = "A_market" THEN "market" ELSE "stop"}
  /\ settled' = FALSE
  /\ TickEnds /\ Acting /\ UNCHANGED <<sell, clean>>

-----------------------------------------------------------------------------
World == (\E p \in Prices : BuyFills(p)) \/ SellFills \/ Publish \/ CatchUp \/ BookMoves

Tick ==
  \/ TickBegins \/ ReadPosition \/ ReadTrades \/ ReadBook \/ ReadFails \/ TickIsCut
  \/ Stays \/ Moves \/ CancelSell \/ CancelFails \/ PlaceSell \/ SellAtMarket

Next == World \/ Tick

Spec == Init /\ [][Next]_vars

-----------------------------------------------------------------------------
(* Properties. *)

\* Resting exits lose no money of their own: what was sold brought in less than
\* the lots sold had cost only if something went to the market, or a lot was
\* bought more cheaply than one already held, or a sell was placed for lots
\* that were not the ones to be sold next (take_profit.py 226-234, monitor.py
\* 789-805).
LossHasReason == Gain < 0 => reasons # {}

\* The docstring of plan_exit (take_profit.py 233): neither mode ever sells below
\* cost, the only way to take a loss is the stop.  Sells priced on trades that
\* are out of date are not held against it.
LossOnlyByStop == Held = 0 /\ Gain < 0 => reasons \cap {"stop", "stale"} # {}

\* A tick that read the truth, that nothing disturbed and nothing failed in,
\* leaves all that is held on sale, at no less than what it found cost on the
\* average, unless it sold at the market, or could not for want of bids, or saw
\* an empty book (take_profit.py 45-64, 278; monitor.py 789-818).
CleanTickProtects ==
  [][(pc \in {"reads", "place"} /\ pc' = "idle" /\ clean') =>
       \/ Held' = 0
       \/ pc = "reads" /\ Decision.action = "noop" /\ seen.bid = 0 /\ (Forced \/ seen.ask = 0)
       \/ sell'.left = Held' /\ Total(Queue) <= sell'.price * Held]_vars

\* A sell that an undisturbed tick placed or kept keeps its place in the queue: our
\* own ask, which is part of the book the next tick reads, moves no exit.
NoExitChurn == [][CancelSell => ~settled \/ goal.action # "rest"]_vars

=============================================================================
