---------------------------- MODULE ExitMonitor ----------------------------
(***************************************************************************)
(* How a wallet's positions are kept for sale: steps 3 and 4 of a monitor  *)
(* tick, check_low_balance and check_exit (OrderMonitor, engine/monitor.py)*)
(* on the list of open orders that _tick reads at its beginning.           *)
(*                                                                         *)
(* Shares come in lots larger than the tolerance of _size_matches, a lot   *)
(* brings one unit of cash.  The prices are left open: whether a position  *)
(* can be priced, rests, stays or goes to the market is any choice (it is  *)
(* plan_exit's).  Each call to the exchange may be carried out or not, and *)
(* in either case return or raise.                                         *)
(***************************************************************************)
EXTENDS Integers, FiniteSets

CONSTANTS
  Tokens,
  NoToken,
  Cap,       \* how much of each token the wallet comes to hold
  Target     \* cash at which check_low_balance does nothing more

ASSUME TokensAssumption == NoToken \notin Tokens /\ Cap \in [Tokens -> Nat \ {0}]
ASSUME TargetAssumption == Target \in Nat

VARIABLES
  held,       \* what the wallet holds of each token
  shown,      \* what the Data API shows
  sells,      \* our resting sells of each token: how many, and their size in all
  due,        \* proceeds of low-balance sales that the balance does not show yet
  liqCool,    \* _liquidate_cooldown_until lies ahead
  pc,         \* where the tick stands
  shared,     \* the tick has the shared list of open orders
  snap,       \* the sells in the list the tick works on
  pos,        \* the positions the step at hand has read
  todo,       \* the positions it has not come to
  cur,        \* the position at hand
  est,        \* est, the estimated balance
  justDumped, \* _just_dumped
  cancelled,  \* tokens whose snapshot sells are in _cancelled_sell_ids
  excused,    \* history: tokens with a sell filled, or the reply to a
              \* cancellation lost, since the list was read
  refused     \* history: tokens with sells that a cancellation left behind
              \* although it returned

worldVars == <<held, shown, sells>>
tickVars  == <<pc, shared, snap, pos, todo, cur, est, justDumped, cancelled>>
vars == <<worldVars, due, liqCool, tickVars, excused, refused>>

NoSells  == [n |-> 0, size |-> 0]
Sells(t) == {NoSells} \cup {s \in [n : 1..Cap[t], size : 1..Cap[t]] : s.n <= s.size}

Pcs == {"idle", "balance", "lbpos", "lb", "lbcancel", "lbsell",
        "exit", "exorders", "ex", "excancel", "explace", "exmcancel", "exsell"}
AtToken == {"lbcancel", "lbsell", "excancel", "explace", "exmcancel", "exsell"}

\* The exchange never lets more rest than is held; the estimate passes the target
\* with the last position sold.
TypeOK ==
  /\ held \in [Tokens -> Nat] /\ shown \in [Tokens -> Nat] /\ pos \in [Tokens -> Nat]
  /\ sells \in [Tokens -> [n : Nat, size : Nat]] /\ snap \in [Tokens -> [n : Nat, size : Nat]]
  /\ \A t \in Tokens :
       /\ held[t] <= Cap[t] /\ shown[t] <= Cap[t] /\ pos[t] <= Cap[t]
       /\ sells[t] \in Sells(t) /\ snap[t] \in Sells(t)
       /\ sells[t].size <= held[t]
  /\ due \in Nat
  /\ est \in Nat /\ (est <= Target \/ \E t \in Tokens : est < Target + Cap[t])
  /\ liqCool \in BOOLEAN /\ shared \in BOOLEAN
  /\ pc \in Pcs
  /\ todo \subseteq {t \in Tokens : pos[t] > 0}
  /\ cur \in Tokens \cup {NoToken}
  /\ pc \in AtToken => cur \in Tokens \ todo /\ pos[cur] > 0
  /\ pc \in {"lbcancel", "lbsell"} => est < Target
  /\ justDumped \subseteq Tokens /\ cancelled \subseteq Tokens
  /\ excused \subseteq Tokens /\ refused \subseteq Tokens

None == [t \in Tokens |-> 0]
Empty == [t \in Tokens |-> NoSells]

Init ==
  /\ held = None /\ shown = None /\ sells = Empty
  /\ due = 0 /\ liqCool = FALSE
  /\ pc = "idle" /\ shared = FALSE /\ snap = Empty /\ pos = None /\ todo = {}
  /\ cur = NoToken /\ est = 0 /\ justDumped = {} /\ cancelled = {}
  /\ excused = {} /\ refused = {}

-----------------------------------------------------------------------------
(* The exchange, the Data API and the process. *)

BuyFills(t) ==
  /\ held[t] < Cap[t]
  /\ held' = [held EXCEPT ![t] = @ + 1]
  /\ UNCHANGED <<shown, sells, due, liqCool, tickVars, excused, refused>>

\* What is left when some of the sells s are filled, or taken off the book.
Fewer(s, t) == {r \in Sells(t) : r.n <= s.n /\ r.size < s.size /\ (s.n - r.n <= s.size - r.size)}

SellFills(t) ==
  \E rest \in Fewer(sells[t], t) :
    /\ sells' = [sells EXCEPT ![t] = rest]
    /\ held' = [held EXCEPT ![t] = @ - (sells[t].size - rest.size)]
    /\ excused' = IF pc = "idle" THEN excused ELSE excused \cup {t}
    /\ refused' = IF rest.n = 0 THEN refused \ {t} ELSE refused
    /\ UNCHANGED <<shown, due, liqCool, tickVars>>

CatchUp(t) ==
  /\ shown[t] # held[t]
  /\ shown' = [shown EXCEPT ![t] = held[t]]
  /\ UNCHANGED <<held, sells, due, liqCool, tickVars, excused, refused>>

Settles ==
  /\ due > 0
  /\ due' = 0
  /\ UNCHANGED <<worldVars, liqCool, tickVars, excused, refused>>

\* LIQUIDATE_COOLDOWN_SEC is over; sales have settled within it.
CooldownEnds ==
  /\ liqCool /\ due = 0
  /\ liqCool' = FALSE
  /\ UNCHANGED <<worldVars, due, tickVars, excused, refused>>

\* The tick's locals are gone with it; begin_status_tick clears the fields.
TickReturns ==
  /\ pc' = "idle" /\ shared' = FALSE /\ snap' = Empty /\ pos' = None /\ todo' = {}
  /\ cur' = NoToken /\ est' = 0 /\ justDumped' = {} /\ cancelled' = {}
  /\ excused' = {}
  /\ UNCHANGED refused

\* The process ends and starts again; it remembers no sale and no cooldown.
Restarts ==
  /\ TickReturns
  /\ liqCool' = FALSE /\ due' = 0
  /\ UNCHANGED worldVars

-----------------------------------------------------------------------------
(* Calls to the exchange. *)

\* cancel_orders on the sells of t: all off the book, some left (not_canceled,
\* which raises nothing), or none; the reply may be lost on the way back.
Cancelled(t) ==
  /\ sells' = [sells EXCEPT ![t] = NoSells]
  /\ refused' = refused \ {t}
  /\ UNCHANGED excused
CancelRefused(t) ==
  /\ sells[t].n > 0
  /\ sells' \in {[sells EXCEPT ![t] = s] : s \in (Fewer(sells[t], t) \ {NoSells}) \cup {sells[t]}}
  /\ refused' = refused \cup {t}
  /\ UNCHANGED excused
CancelRaises(t) ==
  \/ UNCHANGED <<sells, refused, excused>>
  \/ /\ sells' = [sells EXCEPT ![t] = NoSells]
     /\ refused' = refused \ {t}
     /\ excused' = excused \cup {t}

Available(t) == held[t] - sells[t].size

\* place_market_sell: fill-and-kill sells k, at least one lot.
MarketSells(t, size, k) ==
  /\ size <= Available(t) /\ k \in 1..size
  /\ held' = [held EXCEPT ![t] = @ - k]
  /\ UNCHANGED <<shown, sells>>

-----------------------------------------------------------------------------
(* The beginning of _tick. *)

TickBegins ==
  /\ pc = "idle"
  /\ \/ shared' = TRUE /\ snap' = sells
     \/ shared' = FALSE /\ UNCHANGED snap
  /\ pc' = "balance"
  /\ UNCHANGED <<worldVars, due, liqCool, pos, todo, cur, est, justDumped, cancelled,
                 excused, refused>>

\* A step raises (the database, say): the tick is over.
TickAborts ==
  /\ pc \in {"balance", "exit"}
  /\ TickReturns
  /\ UNCHANGED <<worldVars, due, liqCool>>

-----------------------------------------------------------------------------
(* check_low_balance. *)

\* On to check_exit; a list of open orders of its own is dropped.
ToExit ==
  /\ pc' = "exit" /\ pos' = None /\ todo' = {} /\ est' = 0
  /\ snap' = IF shared THEN snap ELSE Empty
  /\ UNCHANGED <<shared, cur, justDumped, cancelled>>

\* Switched off, cooling down, not readable, or enough cash.

LowBalanceSkipped ==
  /\ pc = "balance"
  /\ ToExit
  /\ UNCHANGED <<worldVars, due, liqCool, excused, refused>>

\* Mutated form: the balance is read whether sales are still settling or not.
ReadBalance_Eager(balance) ==
  /\ pc = "balance"
  /\ balance < Target
  /\ est' = balance
  /\ pc' = "lbpos"
  /\ UNCHANGED <<worldVars, due, liqCool, shared, snap, pos, todo, cur, justDumped,
                 cancelled, excused, refused>>

ReadBalance(balance) ==
  /\ pc = "balance"
  /\ ~liqCool
  /\ balance < Target
  /\ est' = balance
  /\ pc' = "lbpos"
  /\ UNCHANGED <<worldVars, due, liqCool, shared, snap, pos, todo, cur, justDumped,
                 cancelled, excused, refused>>

\* Positions, the open orders if the tick has none, and which positions have a
\* cost and a bid.
ReadForLiquidation ==
  /\ pc = "lbpos"
  /\ pos' = shown
  /\ todo' \in SUBSET {t \in Tokens : shown[t] > 0}
  /\ snap' = IF shared THEN snap ELSE sells
  /\ excused' = IF shared THEN excused ELSE {}
  /\ pc' = "lb"
  /\ UNCHANGED <<worldVars, due, liqCool, shared, cur, est, justDumped, cancelled, refused>>

LiquidationReadFails ==
  /\ pc = "lbpos"
  /\ ToExit
  /\ UNCHANGED <<worldVars, due, liqCool, excused, refused>>

\* The next candidate, as long as the estimate is short of the target.
LiquidateNext(t) ==
  /\ pc = "lb"
  /\ est < Target
  /\ t \in todo
  /\ todo' = todo \ {t} /\ cur' = t
  /\ pc' = IF snap[t].n > 0 THEN "lbcancel" ELSE "lbsell"
  /\ UNCHANGED <<worldVars, due, liqCool, shared, snap, pos, est, justDumped, cancelled,
                 excused, refused>>

LiquidationEnds ==
  /\ pc = "lb"
  /\ est >= Target \/ todo = {}
  /\ liqCool' = (liqCool \/ justDumped # {})
  /\ ToExit
  /\ UNCHANGED <<worldVars, due, excused, refused>>

\* The sells the list shows are cancelled and, unless that raised, registered.
LiquidationCancels ==
  /\ pc = "lbcancel"
  /\ \/ (Cancelled(cur) \/ CancelRefused(cur)) /\ cancelled' = cancelled \cup {cur}
     \/ CancelRaises(cur) /\ UNCHANGED cancelled
  /\ pc' = "lbsell"
  /\ UNCHANGED <<held, shown, due, liqCool, shared, snap, pos, todo, cur, est, justDumped>>

BackToLiquidation ==
  /\ pc' = "lb" /\ cur' = NoToken
  /\ pos' = [pos EXCEPT ![cur] = 0]
  /\ UNCHANGED <<liqCool, shared, snap, todo, cancelled, excused, refused>>

\* The order is taken: the estimate grows by the whole size at the best bid.
LiquidationSells ==
  /\ pc = "lbsell"
  /\ \E k \in 1..Cap[cur] : MarketSells(cur, pos[cur], k) /\ due' = due + k
  /\ justDumped' = justDumped \cup {cur}
  /\ est' = est + pos[cur]
  /\ BackToLiquidation

\* It is rejected, or taken and the reply is lost.
LiquidationSellFails ==
  /\ pc = "lbsell"
  /\ UNCHANGED worldVars \/ \E k \in 1..Cap[cur] : MarketSells(cur, pos[cur], k)
  /\ UNCHANGED <<due, justDumped, est>>
  /\ BackToLiquidation

-----------------------------------------------------------------------------
(* check_exit. *)

ReadPositions ==
  /\ pc = "exit"
  /\ todo' = {t \in Tokens : shown[t] > 0} \ justDumped
  /\ pos' = [t \in Tokens |-> IF t \in todo' THEN shown[t] ELSE 0]
  /\ pc' = IF shared THEN "ex" ELSE "exorders"
  /\ UNCHANGED <<worldVars, due, liqCool, shared, snap, cur, est, justDumped, cancelled,
                 excused, refused>>

ReadOrders ==
  /\ pc = "exorders"
  /\ snap' = sells /\ excused' = {}
  /\ pc' = "ex"
  /\ UNCHANGED <<worldVars, due, liqCool, shared, pos, todo, cur, est, justDumped,
                 cancelled, refused>>

ReadOrdersFails ==
  /\ pc = "exorders"
  /\ TickReturns
  /\ UNCHANGED <<worldVars, due, liqCool>>

\* The sells of t on the list, without those this tick cancelled.
Own(t) == IF t \in cancelled THEN NoSells ELSE snap[t]

\* The position's entry of the list serves the decision and nothing after it.
Takes(t) ==
  /\ pc = "ex"
  /\ t \in todo /\ todo' = todo \ {t}
  /\ snap' = [snap EXCEPT ![t] = NoSells]
  /\ UNCHANGED <<worldVars, due, liqCool, shared, est, justDumped, cancelled, excused, refused>>

StaysInExit(t) ==
  /\ Takes(t)
  /\ pos' = [pos EXCEPT ![t] = 0]
  /\ UNCHANGED <<pc, cur>>

\* No cost ("unprotected"), or no book.
SkipPosition(t) == StaysInExit(t)

\* One sell of the right size, and its price is still right: reported as kept.
KeepSell(t) == StaysInExit(t) /\ Own(t) = [n |-> 1, size |-> pos[t]]

GoesTo(t, place) ==
  /\ Takes(t)
  /\ cur' = t /\ pc' = place
  /\ UNCHANGED pos

\* Anything else, or another price: one new sell in the place of all old ones.
ReplaceSells(t) == GoesTo(t, IF Own(t).n > 0 THEN "excancel" ELSE "explace")

\* Stop-loss, market take-profit, or a market in resolution.
GoToMarket(t) == GoesTo(t, IF Own(t).n > 0 THEN "exmcancel" ELSE "exsell")

BackToExit ==
  /\ pc' = "ex" /\ cur' = NoToken
  /\ pos' = [pos EXCEPT ![cur] = 0]
  /\ UNCHANGED <<due, liqCool, shared, snap, todo, est, justDumped, cancelled>>

\* Mutated form: the new sell is placed even if the cancellation raised.
ExitCancels_Proceeds ==
  /\ pc = "excancel"
  /\ Cancelled(cur) \/ CancelRefused(cur) \/ CancelRaises(cur)
  /\ pc' = "explace"
  /\ UNCHANGED <<held, shown, due, liqCool, shared, snap, pos, todo, cur, est, justDumped,
                 cancelled>>

ExitCancels ==
  /\ pc = "excancel"
  /\ Cancelled(cur) \/ CancelRefused(cur)
  /\ pc' = "explace"
  /\ UNCHANGED <<held, shown, due, liqCool, shared, snap, pos, todo, cur, est, justDumped,
                 cancelled>>

ExitCancelFails ==
  /\ pc = "excancel"
  /\ CancelRaises(cur)
  /\ BackToExit
  /\ UNCHANGED <<held, shown>>

\* place_limit_sell is taken (though its reply may be lost), or not.
PlaceSell ==
  /\ pc = "explace"
  /\ pos[cur] <= Available(cur)
  /\ sells' = [sells EXCEPT ![cur] = [n |-> @.n + 1, size |-> @.size + pos[cur]]]
  /\ BackToExit
  /\ UNCHANGED <<held, shown, excused, refused>>

PlaceSellFails ==
  /\ pc = "explace"
  /\ BackToExit
  /\ UNCHANGED <<worldVars, excused, refused>>

\* Before a market sale the cancellation may fail.
MarketCancels ==
  /\ pc = "exmcancel"
  /\ Cancelled(cur) \/ CancelRefused(cur) \/ CancelRaises(cur)
  /\ pc' = "exsell"
  /\ UNCHANGED <<held, shown, due, liqCool, shared, snap, pos, todo, cur, est, justDumped,
                 cancelled>>

ExitSells ==
  /\ pc = "exsell"
  /\ UNCHANGED worldVars \/ \E k \in 1..Cap[cur] : MarketSells(cur, pos[cur], k)
  /\ BackToExit
  /\ UNCHANGED <<excused, refused>>

TickEnds ==
  /\ pc = "ex"
  /\ todo = {}
  /\ TickReturns
  /\ UNCHANGED <<worldVars, due, liqCool>>

-----------------------------------------------------------------------------
Outside ==
  \/ \E t \in Tokens : BuyFills(t) \/ SellFills(t) \/ CatchUp(t)
  \/ Settles \/ CooldownEnds \/ Restarts

LowBalance ==
  \/ LowBalanceSkipped \/ ReadForLiquidation \/ LiquidationReadFails
  \/ \E balance \in 0..Target : ReadBalance(balance)
  \/ \E t \in Tokens : LiquidateNext(t)
  \/ LiquidationEnds \/ LiquidationCancels \/ LiquidationSells \/ LiquidationSellFails

Exit ==
  \/ ReadPositions \/ ReadOrders \/ ReadOrdersFails
  \/ \E t \in Tokens : SkipPosition(t) \/ KeepSell(t) \/ ReplaceSells(t) \/ GoToMarket(t)
  \/ ExitCancels \/ ExitCancelFails \/ PlaceSell \/ PlaceSellFails
  \/ MarketCancels \/ ExitSells \/ TickEnds

Tick == TickBegins \/ TickAborts \/ LowBalance \/ Exit

Next == Outside \/ Tick

Spec == Init /\ [][Next]_vars

-----------------------------------------------------------------------------
(* Properties. *)

\* A position that is reported as kept for sale is on sale, in full, but for
\* what was sold in the meantime: the list is older than the decision, and this
\* tick's own low-balance step may have taken the sell off the book (monitor.py
\* 71-75, 763-772).  A cancellation whose reply was lost is excused.
ReportedIsOnSale ==
  [][\A t \in Tokens : KeepSell(t) => t \in excused \/ sells[t].size >= pos[t]]_vars

\* The low-balance step sells no more once what it is known to have sold brings
\* the cash to its target, whether the balance shows it yet or not, in this tick
\* or a later one (monitor.py 64-66, 577-584).
NoOverLiquidation == [][LiquidationSells => due < Target]_vars

\* A position has one sell, unless the exchange answered a cancellation with
\* not_canceled: no failing call, late list or late position leads to a second
\* one (take_profit.py 48, monitor.py 819-835).
OneSell == \A t \in Tokens : sells[t].n > 1 => t \in refused

=============================================================================
