------------------------------ MODULE BuyGuards ------------------------------
(***************************************************************************)
(* What keeps one wallet's buy orders out of a market that should not be   *)
(* bought: the blacklist, a resolution proposed on UMA, and a reward below *)
(* the threshold.  Each is looked at in several places by several threads, *)
(* from copies of different ages:                                          *)
(*   - the discovery, which fills the pool every few hours;                *)
(*   - a placement pass, which picks markets from the pool, later reads    *)
(*     the open orders, the blacklist and UMA, and places later still;     *)
(*   - the monitor's tick, which cancels what should not rest, and writes  *)
(*     a reward that dropped back into the pool;                           *)
(*   - the web, which cancels at once the buys of a market it blacklists.  *)
(* The orders are those of one token of one market; another market keeps   *)
(* the pool from being empty.                                              *)
(***************************************************************************)
EXTENDS FiniteSets, Naturals

CONSTANTS
  MaxOrders,    \* bound: buys of the market that can rest at a time
  Passes,       \* placement passes that may run at a time
  AtOnce,       \* bound: of the three troubles, how many are on at a time
  MaxFaults     \* bound: calls that fail in a run

ASSUME BoundsAssumption == {MaxOrders, AtOnce, MaxFaults} \subseteq Nat

VARIABLES
  blacklisted,  \* is the market in the blacklist table
  uma,          \* does Gamma report a resolution of it
  live,         \* its daily reward, against min_reward_usd
  pool,         \* market_reward of its entry in eligible_markets, or "absent"
  scan,         \* the discovery: where it stands and the pool it replaces
  buys,         \* each order at the exchange
  held,         \* does the wallet hold a position in the market
  cooldown,     \* is the market in its cooldown in the database
  pass,         \* each pass: where it stands and the open buys it read
  tick,         \* the tick: where it stands and what it read
  web,          \* the request that blacklists: are its cancellations still to come
  faults        \* calls that may still fail

market == <<blacklisted, uma, live>>
vars   == <<market, pool, scan, buys, held, cooldown, pass, tick, web, faults>>

Orders   == 1 .. MaxOrders
Rewards  == {"low", "good"}
Pools    == Rewards \cup {"absent"}
\* An order rests unfilled, or filled in part and not noticed, or noticed and
\* its remainder not cancelled.
OrderStates == {"none", "open", "part", "noticed"}

Resting  == {o \in Orders : buys[o] # "none"}
Unfilled == {o \in Orders : buys[o] = "open"}
Without(gone) == [o \in Orders |-> IF o \in gone THEN "none" ELSE buys[o]]

\* A call is answered, or it fails.
Answered == UNCHANGED faults
Fails    == faults > 0 /\ faults' = faults - 1

\* One that fails cancels nothing.
Cancel(ids) ==
  \/ Answered /\ buys' = Without(ids)
  \/ Fails /\ ids # {} /\ UNCHANGED buys

IdlePass == [at |-> "idle", open |-> {}, held |-> FALSE]
IdleTick == [at |-> "idle", open |-> {}, verdict |-> "fine"]
IdleScan == [at |-> "idle", prev |-> "absent"]

Init ==
  /\ blacklisted = FALSE /\ uma = FALSE /\ live = "good"
  /\ pool = "absent" /\ scan = IdleScan
  /\ buys = [o \in Orders |-> "none"] /\ held = FALSE /\ cooldown = FALSE /\ web = FALSE
  /\ pass = [p \in Passes |-> IdlePass] /\ tick = IdleTick
  /\ faults = MaxFaults

-----------------------------------------------------------------------------
(* The market, the web and the exchange.                                    *)

Troubles == {t \in {"blacklist", "uma", "reward"} :
               \/ t = "blacklist" /\ blacklisted
               \/ t = "uma" /\ uma
               \/ t = "reward" /\ live = "low"}

\* A request adds the market to the blacklist, and then cancels its buys, partly
\* filled ones too; a wallet whose call fails keeps them (api_add_blacklist).
AddToBlacklist ==
  /\ ~blacklisted /\ ~web /\ Cardinality(Troubles) < AtOnce
  /\ blacklisted' = TRUE /\ web' = TRUE
  /\ UNCHANGED <<uma, live, pool, scan, buys, held, cooldown, pass, tick, faults>>

WebCancel ==
  /\ web /\ web' = FALSE
  /\ Cancel(Resting)
  /\ UNCHANGED <<market, pool, scan, held, cooldown, pass, tick>>

RemoveFromBlacklist ==
  /\ blacklisted /\ blacklisted' = FALSE
  /\ UNCHANGED <<uma, live, pool, scan, buys, held, cooldown, pass, tick, web, faults>>

\* A resolution is proposed, and may be withdrawn by a dispute.
UmaChanges ==
  /\ uma \/ Cardinality(Troubles) < AtOnce
  /\ uma' = ~uma
  /\ UNCHANGED <<blacklisted, live, pool, scan, buys, held, cooldown, pass, tick, web, faults>>

RewardChanges ==
  /\ live = "low" \/ Cardinality(Troubles) < AtOnce
  /\ live' \in Rewards \ {live}
  /\ UNCHANGED <<blacklisted, uma, pool, scan, buys, held, cooldown, pass, tick, web, faults>>

\* A buy is filled, whole or in part; what was filled in part once, whole.
Fill ==
  /\ \E o \in Resting :
       \E s \in IF buys[o] = "open" THEN {"none", "part"} ELSE {"none"} :
         buys' = [buys EXCEPT ![o] = s]
  /\ held' = TRUE
  /\ UNCHANGED <<market, pool, scan, cooldown, pass, tick, web, faults>>

\* The exit sells the position; the cooldown, renewed while it is held, runs out.
PositionSold ==
  /\ held /\ held' = FALSE
  /\ UNCHANGED <<market, pool, scan, buys, cooldown, pass, tick, web, faults>>

CooldownEnds ==
  /\ cooldown /\ ~held /\ cooldown' = FALSE
  /\ UNCHANGED <<market, pool, scan, buys, held, pass, tick, web, faults>>

-----------------------------------------------------------------------------
(* The discovery (manager._scan_with_status, scanner.discover_candidates).  *)

\* The pool is cleared; markets are appended to it as they are found.
ScanStart ==
  /\ scan.at = "idle"
  /\ scan' = [at |-> "batch", prev |-> pool] /\ pool' = "absent"
  /\ UNCHANGED <<market, buys, held, cooldown, pass, tick, web, faults>>

ScanBatch_NoBlacklist ==
  /\ scan.at = "batch"
  /\ scan' = IF live = "low" THEN IdleScan ELSE [scan EXCEPT !.at = "precise"]
  /\ UNCHANGED <<market, pool, buys, held, cooldown, pass, tick, web, faults>>

\* The blacklist is read, and the batch reward compared with the lowest threshold; a
\* market that is left out has no further part in the discovery.
ScanBatch ==
  /\ scan.at = "batch"
  /\ scan' = IF blacklisted \/ live = "low" THEN IdleScan ELSE [scan EXCEPT !.at = "precise"]
  /\ UNCHANGED <<market, pool, buys, held, cooldown, pass, tick, web, faults>>

\* The precise reward, or the batch one if that call fails, and on_found.
ScanPrecise ==
  /\ scan.at = "precise"
  /\ \/ Answered /\ pool' = live
     \/ Fails /\ pool' = "good"
  /\ scan' = [scan EXCEPT !.at = "found"]
  /\ UNCHANGED <<market, buys, held, cooldown, pass, tick, web>>

ScanPublish_KeepsOld ==
  /\ scan.at = "found"
  /\ scan' = IdleScan
  /\ pool' = IF scan.prev = "low" THEN "low" ELSE pool
  /\ UNCHANGED <<market, buys, held, cooldown, pass, tick, web, faults>>

\* The pool becomes the list found: the very entries that were appended.
ScanPublish ==
  /\ scan.at = "found"
  /\ scan' = IdleScan
  /\ UNCHANGED <<market, pool, buys, held, cooldown, pass, tick, web, faults>>

\* The scan raises, and the previous pool comes back.
ScanFails ==
  /\ scan.at # "idle" /\ Fails
  /\ scan' = IdleScan /\ pool' = scan.prev
  /\ UNCHANGED <<market, buys, held, cooldown, pass, tick, web>>

-----------------------------------------------------------------------------
(* A placement pass (manager._place_round, place_orders).                   *)

Wanted == pool = "good" /\ ~cooldown

\* The market is picked from the pool.
PassPick(p) ==
  /\ pass[p].at = "idle" /\ Wanted
  /\ pass' = [pass EXCEPT ![p].at = "picked"]
  /\ UNCHANGED <<market, pool, scan, buys, held, cooldown, tick, web, faults>>

\* The open orders, the positions and the blacklist are read; a failure ends it.
PassLook(p) ==
  /\ pass[p].at = "picked"
  /\ pass' = [pass EXCEPT ![p] =
       IF blacklisted THEN IdlePass ELSE [at |-> "guard", open |-> Resting, held |-> held]]
  /\ UNCHANGED <<market, pool, scan, buys, held, cooldown, tick, web, faults>>

\* So are they when the pool or the order book has left the market out.
PassLeavesOut(p) ==
  /\ pass[p].at = "idle" /\ Resting # {}
  /\ pass' = [pass EXCEPT ![p] = [at |-> "drop", open |-> Resting, held |-> FALSE]]
  /\ UNCHANGED <<market, pool, scan, buys, held, cooldown, tick, web, faults>>

PassEnds(p) == pass' = [pass EXCEPT ![p] = IdlePass]

PassReadFails(p) ==
  /\ pass[p].at = "picked" /\ Fails /\ PassEnds(p)
  /\ UNCHANGED <<market, pool, scan, buys, held, cooldown, tick, web>>

\* The buys of a market that is not eligible are cancelled, partly filled ones
\* too, unless it is in its cooldown.
PassDrop(p) ==
  /\ pass[p].at = "drop" /\ PassEnds(p)
  /\ IF cooldown THEN UNCHANGED <<buys, faults>> ELSE Cancel(pass[p].open)
  /\ UNCHANGED <<market, pool, scan, held, cooldown, tick, web>>

\* A market in resolution is skipped; Gamma not answering counts as none.
PassGuard(p) ==
  /\ pass[p].at = "guard"
  /\ \/ Answered /\ uma /\ PassEnds(p)
     \/ /\ (Answered /\ ~uma) \/ Fails
        /\ pass' = [pass EXCEPT ![p].at = "place"]
  /\ UNCHANGED <<market, pool, scan, buys, held, cooldown, tick, web>>

\* At most one of the buys read is kept: one at the price and of the size wanted.
\* The others are cancelled; without one, an order is placed if any is wanted,
\* after a cancellation that failed as well, unless it is rejected.
Place(left) ==
  LET free == {o \in Orders : left[o] = "none"} IN
  /\ free # {}
  /\ buys' = [left EXCEPT ![CHOOSE o \in free : \A q \in free : o <= q] = "open"]

Reconcile(p) ==
  \E keep \in {k \in SUBSET pass[p].open : Cardinality(k) <= 1} :
    LET gone == pass[p].open \ keep IN
    \/ Cancel(gone)
    \/ keep = {} /\ Answered /\ Place(Without(gone))
    \/ keep = {} /\ gone # {} /\ Fails /\ Place(buys)

\* Nothing is done when the book, the balance or the budget does not allow it.
\* All buys of a market that was held are cancelled; one that is in its cooldown
\* by now is skipped.
PassPlace(p) ==
  /\ pass[p].at = "place" /\ PassEnds(p)
  /\ CASE pass[p].held -> Cancel(pass[p].open)
       [] ~pass[p].held /\ cooldown -> UNCHANGED <<buys, faults>>
       [] OTHER -> Reconcile(p) \/ UNCHANGED <<buys, faults>>
  /\ UNCHANGED <<market, pool, scan, held, cooldown, tick, web>>

-----------------------------------------------------------------------------
(* The monitor's tick.                                                      *)

\* The open orders are read once for the first steps.
TickStart ==
  /\ tick.at = "idle"
  /\ tick' = [tick EXCEPT !.at = "early", !.open = Resting]
  /\ UNCHANGED <<market, pool, scan, buys, held, cooldown, pass, web, faults>>

TickEarly_NoGuard ==
  /\ tick.at = "early" /\ tick' = [IdleTick EXCEPT !.at = "step3"]
  /\ LET new == {o \in Orders : buys[o] = "part"} IN
     /\ \/ Answered /\ buys' = Without(new)
        \/ Fails /\ \E o \in new : buys' = [Without(new) EXCEPT ![o] = "noticed"]
     /\ cooldown' = (cooldown \/ held \/ new # {})
  /\ UNCHANGED <<market, pool, scan, held, pass, web>>

\* Step 1 notices the fills and cancels each remainder, once; a fill and a position
\* start the cooldown.  Then the resolution guard cancels every buy that was open
\* at the start, if Gamma reports a resolution.
TickEarly ==
  /\ tick.at = "early" /\ tick' = [IdleTick EXCEPT !.at = "step3"]
  /\ LET new  == {o \in Orders : buys[o] = "part"}
         due  == IF uma THEN tick.open ELSE {}
     IN
     /\ \/ Answered /\ buys' = Without(new \cup due)
        \/ Fails /\ due # {} /\ buys' = Without(new)
        \/ Fails /\ \E o \in new :
                      buys' = [Without(new \cup due) EXCEPT ![o] = IF o \in due THEN "none" ELSE "noticed"]
     /\ cooldown' = (cooldown \/ held \/ new # {})
  /\ UNCHANGED <<market, pool, scan, held, pass, web>>

\* Step 3 reads the open orders that are not filled in part, the blacklist, and
\* the reward; a call that fails leaves it unknown, or ends the step.
Step3Read ==
  /\ tick.at = "step3"
  /\ \/ /\ Answered
        /\ tick' = IF Unfilled = {} THEN IdleTick
                   ELSE [at |-> "judge", open |-> Unfilled,
                         verdict |-> IF blacklisted THEN "blacklist"
                                     ELSE IF live = "low" THEN "low" ELSE "fine"]
     \/ Fails /\ tick' = IdleTick
     \/ /\ Fails /\ Unfilled # {} /\ ~blacklisted
        /\ tick' = [at |-> "judge", open |-> Unfilled, verdict |-> "fine"]
  /\ UNCHANGED <<market, pool, scan, buys, held, cooldown, pass, web>>

WriteBack_Lost == UNCHANGED pool

\* The reward that is too low is written into the entry of the pool, if it has one.
WriteBack == pool' = IF pool = "absent" THEN pool ELSE "low"

\* Each order is cancelled for the blacklist or for its reward, and else for its
\* book or its price, or kept.  A cancellation for the reward that succeeds is
\* followed by writing the reward back; one whose book was not fetched, which
\* Fails stands for too, is left alone.
Step3Judge ==
  /\ tick.at = "judge" /\ tick' = IdleTick
  /\ \E gone \in SUBSET tick.open :
       /\ buys' = Without(gone)
       /\ IF tick.verdict = "fine" \/ gone = tick.open THEN Answered ELSE Fails
       /\ IF tick.verdict = "low" /\ gone # {} THEN WriteBack ELSE UNCHANGED pool
  /\ UNCHANGED <<market, scan, held, cooldown, pass, web>>

-----------------------------------------------------------------------------
Scan == ScanStart \/ ScanBatch \/ ScanPrecise \/ ScanPublish \/ ScanFails

Pass(p) ==
  \/ PassPick(p) \/ PassLook(p) \/ PassReadFails(p) \/ PassLeavesOut(p) \/ PassDrop(p)
  \/ PassGuard(p) \/ PassPlace(p)

Tick == TickStart \/ TickEarly \/ Step3Read \/ Step3Judge

Next ==
  \/ AddToBlacklist \/ WebCancel \/ RemoveFromBlacklist \/ UmaChanges \/ RewardChanges
  \/ Fill \/ PositionSold \/ CooldownEnds
  \/ Scan \/ Tick \/ \E p \in Passes : Pass(p)

Spec == Init /\ [][Next]_vars

\* The threads go on: a tick every 5 s, a pass every 30 s; a discovery that has
\* begun ends.  One begins every 4 h: what needs it says so.
\* A position is sold some time, and its cooldown runs out.
FairSpec ==
  /\ Spec
  /\ WF_vars(Tick) /\ WF_vars(Scan /\ scan.at # "idle") /\ WF_vars(WebCancel)
  /\ WF_vars(PositionSold) /\ WF_vars(CooldownEnds)
  /\ \A p \in Passes : WF_vars(Pass(p))

-----------------------------------------------------------------------------
(* Properties.                                                              *)

\* A market blacklisted for good is bought no more: every unfilled buy leaves, one
\* that a pass places from an older copy of the blacklist too.  A partly filled one
\* the monitor leaves alone goes with the next discovery, which drops the market.
BlacklistedBuysLeave ==
  <>[]blacklisted =>
    /\ <>[](Unfilled = {})
    /\ []<>(scan.at # "idle") => <>[](Resting = {})

\* From a market in resolution the buys leave for good, those that a pass which got
\* no answer from Gamma places again (fail-open) included.
UmaBuysLeave == <>[]uma => <>[](Resting = {})

\* While the reward stays below the threshold, the monitor cancels for it only so
\* often: it and the passes do not go on cancelling and placing the same buys, with or
\* without a discovery, whatever an older reward puts into the pool.
RewardChurnEnds ==
  <>[](live = "low") =>
    <>[][Step3Judge /\ tick.verdict = "low" => UNCHANGED buys]_vars

\* A reward that dropped and recovered is not held against the market for ever:
\* what the monitor wrote into the pool gives way to the next discovery.
GoodMarketReturns ==
  (<>[](live = "good" /\ ~blacklisted) /\ []<>(scan.at # "idle"))
    => <>[](pool # "low") /\ []<>(pool = "good")
=============================================================================
