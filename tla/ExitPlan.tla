------------------------------ MODULE ExitPlan ------------------------------
(***************************************************************************)
(* What an exit asks for a position: its cost, replayed from the trades    *)
(* (position_cost_with_lots), the stop-loss, and plan_exit                 *)
(* (engine/take_profit.py).                                                *)
(*                                                                         *)
(* Prices are whole ticks and shares come in lots larger than the tolerance*)
(* of the size check; a trade is of one lot, so a queue of lots is the     *)
(* sequence of their prices.  A price of 0 stands for a side of the book   *)
(* that is empty.  Sums stand for averages, so nothing is rounded but what *)
(* the code rounds.                                                        *)
(***************************************************************************)
EXTENDS Integers, SequencesExt

CONSTANTS
  Percent,   \* stop_loss percentage of the cost
  Cents      \* stop_loss in ticks

ASSUME StopAssumption == Percent \in Nat /\ Cents \in Nat

Modes == {"maker", "market", "market_always"}   \* take_profit_mode
Stops == {"off", "percent", "fixed"}            \* stop_loss_mode

-----------------------------------------------------------------------------
(* Cost. *)

Total(lots) ==
  LET sum[n \in 0 .. Len(lots)] == IF n = 0 THEN 0 ELSE sum[n - 1] + lots[n]
  IN  sum[Len(lots)]

\* The lots left when the trades are replayed: the first bought are the first
\* sold, and a sale of more than there is sells what there is.
Replayed(lots, t) ==
  IF t.side = "buy" THEN Append(lots, t.price) ELSE IF lots = <<>> THEN lots ELSE Tail(lots)

Replay(trades) ==
  LET queue[n \in 0 .. Len(trades)] ==
        IF n = 0 THEN <<>> ELSE Replayed(queue[n - 1], trades[n])
  IN  queue[Len(trades)]

\* The cost is known if the lots make up the position.
CostKnown(lots, size) == size > 0 /\ Len(lots) = size

\* Mutated form: rounded down.
CostFloor_Down(lots) == Total(lots) \div Len(lots)

\* ceil_to_tick of the average.
CostFloor(lots) == (Total(lots) + Len(lots) - 1) \div Len(lots)

-----------------------------------------------------------------------------
(* plan_exit. *)

Rest(p) == [action |-> "rest", price |-> p]
ToMarket(tier) == [action |-> tier, price |-> 0]   \* "B0" and "A_market"
Noop    == [action |-> "noop", price |-> 0]

\* Is the average at least theta_stop above the bid?
StopDue(lots, bid, stop) ==
  LET loss == Total(lots) - bid * Len(lots)
  IN  \/ stop = "percent" /\ 100 * loss >= Percent * Total(lots)
      \/ stop = "fixed" /\ loss >= Cents * Len(lots)

InProfit(lots, bid, mode) ==
  IF mode = "market" THEN Total(lots) < bid * Len(lots) ELSE Total(lots) <= bid * Len(lots)

\* Mutated form: a profit undercuts the best ask by a tick.
PlanExit_Undercut(lots, bid, ask, mode, stop) ==
  CASE bid > 0 /\ InProfit(lots, bid, mode) ->
         IF mode = "market" THEN ToMarket("A_market") ELSE Rest(Max({ask - 1, CostFloor(lots)}))
    [] bid > 0 /\ ~InProfit(lots, bid, mode) /\ StopDue(lots, bid, stop) -> ToMarket("B0")
    [] bid = 0 /\ ask = 0 -> Noop
    [] OTHER -> Rest(CostFloor(lots))

\* In profit: to the market, or to the best ask, but no lower than the cost.
\* At a loss: the stop, if it is due.  Nobody on the book: nothing.  Otherwise
\* the position is parked at its cost.
PlanExit(lots, bid, ask, mode, stop) ==
  CASE bid > 0 /\ InProfit(lots, bid, mode) ->
         IF mode = "market" THEN ToMarket("A_market") ELSE Rest(Max({ask, CostFloor(lots)}))
    [] bid > 0 /\ ~InProfit(lots, bid, mode) /\ StopDue(lots, bid, stop) -> ToMarket("B0")
    [] bid = 0 /\ ask = 0 -> Noop
    [] OTHER -> Rest(CostFloor(lots))

=============================================================================
