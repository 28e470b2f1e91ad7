------------------------------ MODULE Quoting ------------------------------
(***************************************************************************)
(* The buys of one market, on both of its tokens: placement passes that    *)
(* bring them in line with Ladder's plan (place_orders, engine/manager.py),*)
(* and Step 3 of the monitor, which takes off the book what no longer      *)
(* qualifies (_check_compliance, engine/monitor.py).  Our own orders are   *)
(* in the books both of them read.                                         *)
(*                                                                         *)
(* A pass reads, plans and acts in steps of its own; Step 3 judges an      *)
(* order by the book it has fetched and cancels it later.  Passes run one  *)
(* at a time.  The two know the spread of the reward range from different  *)
(* places: Step 3 asks for it, a pass has it from the candidate pool, as   *)
(* old as the last discovery.                                              *)
(***************************************************************************)
EXTENDS Ladder, SequencesExt

CONSTANTS
  Modes,                  \* placement_mode of the templates considered
  OtherBooks,             \* per side, the books other traders may make
  Ask,                    \* best ask of each side
  MinPriceC, MaxPriceC,   \* min_price_cents, max_price_cents
  MaxSpreadC,             \* max_spread_cents
  Spreads,                \* what rewards_max_spread may be, in half cents
  Usds,                   \* what min(balance, max_exposure_usd) may be, in cents
  MaxShares,              \* max_exposure_shares
  MaxOrders,              \* bound: orders that rest or are remembered
  MaxMoves                \* bound: moves of the market and of the wallet

Sides == {"a", "b"}
Ids   == 1..MaxOrders

ASSUME QuotingAssumption ==
  /\ Modes \subseteq {"gap_single", "legacy_wall"}
  /\ \A s \in Sides : OtherBooks[s] \subseteq Books
  /\ Ask \in [Sides -> Nat] /\ \A s \in Sides : \A p \in Prices : p < Ask[s]
  /\ Spreads \subseteq Nat
  /\ MinPriceC \in Nat /\ MaxPriceC \in Nat /\ MaxSpreadC \in Nat
  /\ Usds \subseteq Nat /\ MaxShares \in Nat /\ MaxOrders \in Nat /\ MaxMoves \in Nat

VARIABLES
  mode,     \* the template's placement_mode
  others,   \* what other traders bid
  usd,      \* what the market may cost
  spread,   \* rewards_max_spread, as Step 3 reads it
  pooled,   \* rewards_max_spread, as the candidate pool has it
  mine,     \* our resting buys of each side, oldest first
  held,     \* the wallet holds some of the market
  pc,       \* where the pass stands
  live,     \* the sides in the pass
  terms,    \* the spread in its copy of the pool
  snap,     \* the buys its list of open orders shows
  heldSnap, \* the market is in its list of positions
  plan,     \* ladders: the rungs of each side
  side,     \* the side at hand
  moves,    \* how often the market or the wallet moved
  clean,    \* history: nothing else happened since the pass began, nothing failed
  calm      \* history: how many clean passes confirmed a side, nothing else between

worldVars == <<mode, others, usd, held, spread, pooled>>
passVars  == <<pc, live, terms, snap, heldSnap, plan, side>>
vars == <<worldVars, mine, moves, passVars, clean, calm>>

NoOrders == [s \in Sides |-> <<>>]
NoRungs  == [s \in Sides |-> {}]

Init ==
  /\ mode \in Modes /\ usd \in Usds /\ held = FALSE
  /\ others \in {f \in [Sides -> UNION {OtherBooks[s] : s \in Sides}] :
                  \A s \in Sides : f[s] \in OtherBooks[s]}
  /\ spread \in Spreads /\ pooled = spread
  /\ mine = NoOrders /\ moves = 0
  /\ pc = "idle" /\ live = {} /\ terms = 0 /\ snap = NoOrders /\ heldSnap = FALSE
  /\ plan = NoRungs /\ side = "a"
  /\ clean = FALSE /\ calm = [s \in Sides |-> 0]

OrdersOf(s) == Range(mine[s])

\* What rests of the orders once those with these ids are gone.
Without(orders, ids) ==
  LET rest[n \in 0 .. Len(orders)] ==
        IF n = 0 THEN <<>>
        ELSE IF orders[n].id \in ids THEN rest[n - 1] ELSE Append(rest[n - 1], orders[n])
  IN  rest[Len(orders)]

\* get_orderbook: everybody's bids, ours among them.
Book(s) == FoldLeft(LAMBDA book, o : [book EXCEPT ![o.price] = @ + o.left], others[s], mine[s])

Best(s) == Max(Levels(Book(s)))

\* Something else happened: what a pass confirmed need not hold any more.
Disturbed == clean' = FALSE /\ calm' = [s \in Sides |-> 0]
Moves == moves < MaxMoves /\ moves' = moves + 1 /\ Disturbed

-----------------------------------------------------------------------------
(* Other traders, the balance, and the wallet's fills and sales. *)

BookMoves(s) ==
  /\ \E book \in OtherBooks[s] : others' = [others EXCEPT ![s] = book]
  /\ Moves
  /\ UNCHANGED <<mode, usd, held, spread, pooled, mine, passVars>>

UsdMoves ==
  /\ usd' \in Usds
  /\ Moves
  /\ UNCHANGED <<mode, others, held, spread, pooled, mine, passVars>>

\* The orders once k shares of the i-th are filled.
Filled(orders, i, k) ==
  IF k = orders[i].left THEN Without(orders, {orders[i].id})
  ELSE [orders EXCEPT ![i].left = @ - k, ![i].hit = TRUE]

\* Some or all of an order is filled.
Fill(s, i) ==
  /\ \E k \in 1..mine[s][i].left : mine' = [mine EXCEPT ![s] = Filled(@, i, k)]
  /\ held' = TRUE
  /\ Moves
  /\ UNCHANGED <<mode, others, usd, spread, pooled, passVars>>

SellOut ==
  /\ held
  /\ held' = FALSE
  /\ Moves
  /\ UNCHANGED <<mode, others, usd, spread, pooled, mine, passVars>>

SpreadMoves ==
  /\ spread' \in Spreads \ {spread}
  /\ Moves
  /\ UNCHANGED <<mode, others, usd, held, pooled, mine, passVars>>

\* A discovery replaces the pool's entries by what the market lists.
Stale == pooled # spread

Rediscovers ==
  /\ Stale
  /\ pooled' = spread
  /\ Disturbed
  /\ UNCHANGED <<mode, others, usd, held, spread, mine, moves, passVars>>

-----------------------------------------------------------------------------
(* The monitor. *)

Cancelled(s, o) ==
  /\ mine' = [mine EXCEPT ![s] = Without(@, {o.id})]
  /\ Disturbed
  /\ UNCHANGED <<worldVars, moves, passVars>>

\* _handle_fill: the rest of an order that was filled in part.
CancelRemainder(s, o) == o.hit /\ Cancelled(s, o)

\* The orders with a judgement recorded, or taken back, on one of them.
Marked(orders, id, judged) ==
  [i \in DOMAIN orders |->
    IF orders[i].id = id THEN [orders[i] EXCEPT !.judged = judged] ELSE orders[i]]

SpreadTooWide(s) == Ask[s] - Best(s) >= MaxSpreadC
OutOfBand(p)     == p < MinPriceC \/ p > MaxPriceC

\* _check_compliance, for a buy nothing of which is filled, on the book and the spread
\* fetched for this tick: spread, price band, reward range, cliff, gap.
Judge(s, o) ==
  /\ ~o.hit /\ ~o.judged
  /\ \/ SpreadTooWide(s)
     \/ OutOfBand(o.price)
     \/ ~InRange(o.price, Book(s), Ask[s], spread)
     \/ HasCliffBelow(Book(s), Ask[s], spread)
     \/ GapTooWide(Book(s))
  /\ mine' = [mine EXCEPT ![s] = Marked(@, o.id, TRUE)]
  /\ Disturbed
  /\ UNCHANGED <<worldVars, moves, passVars>>

\* Its cancellation comes after those of the orders before it, and may fail.
CancelJudged(s, o) == o.judged /\ Cancelled(s, o)

CancelFails(s, o) ==
  /\ o.judged
  /\ mine' = [mine EXCEPT ![s] = Marked(@, o.id, FALSE)]
  /\ Disturbed
  /\ UNCHANGED <<worldVars, moves, passVars>>

-----------------------------------------------------------------------------
(* A placement pass: place_orders, for this market. *)

\* book_eligible, on the books the round has fetched.
Eligible(s) ==
  /\ Levels(Book(s)) # {}
  /\ ~SpreadTooWide(s)
  /\ ~OutOfBand(Best(s))

PassBegins ==
  /\ pc = "idle"
  /\ live' = {s \in Sides : Eligible(s)}
  /\ terms' = pooled
  /\ pc' = "orders"
  /\ clean' = TRUE
  /\ UNCHANGED <<worldVars, moves, mine, snap, heldSnap, plan, side, calm>>

\* Open orders, then positions; without either there is no pass.
ReadOrders ==
  /\ pc = "orders"
  /\ snap' = mine /\ heldSnap' = held
  /\ pc' = IF live = {} THEN "drop" ELSE "plan"
  /\ UNCHANGED <<worldVars, moves, mine, live, terms, plan, side, clean, calm>>

PassOver ==
  /\ pc' = "idle" /\ live' = {} /\ terms' = 0 /\ snap' = NoOrders /\ heldSnap' = FALSE
  /\ plan' = NoRungs /\ side' = "a"

\* get_open_orders, get_positions, or the balance.
ReadFails ==
  /\ pc \in {"orders", "plan"}
  /\ PassOver
  /\ UNCHANGED <<worldVars, moves, mine, clean, calm>>

IdsOf(orders) == {o.id : o \in Range(orders)}

\* Both sides dropped out: all buys of the market are cancelled.  Any cancellation
\* may be carried out in part, or not at all.
BuysSeen == UNION {IdsOf(snap[s]) : s \in Sides}

Drops(gone) ==
  /\ pc = "drop"
  /\ mine' = [s \in Sides |-> Without(mine[s], gone)]
  /\ clean' = (clean /\ mine' = NoOrders)
  /\ pc' = "end"
  /\ UNCHANGED <<worldVars, moves, live, terms, snap, heldSnap, plan, side, calm>>

DropBuys == \E gone \in SUBSET BuysSeen : Drops(gone)

First(sides) == IF "a" \in sides THEN "a" ELSE "b"

\* Mutated form: what our buys would cost is no longer there to be spent.
Committed == UNION {{[id |-> o.id, cost |-> o.price * o.left] : o \in OrdersOf(s)} : s \in Sides}
PlanOf_Committed(sides) ==
  LET first == First(sides)
      free  == usd - MapThenSumSet(LAMBDA c : c.cost, Committed)
      quote(s) == IF s \notin sides THEN {} ELSE Quote(mode, Book(s), Ask[s], terms, usd)
      rungs == FirstOrders(quote(first), free, MaxShares)
  IN  [s \in Sides |->
        IF s = first THEN rungs ELSE SecondOrders(rungs, quote(s), free, MaxShares)]

\* The rungs of the sides that still have a book, with the first side first.
PlanOf(sides) ==
  LET first == First(sides)
      quote(s) == IF s \notin sides THEN {} ELSE Quote(mode, Book(s), Ask[s], terms, usd)
      rungs == FirstOrders(quote(first), usd, MaxShares)
  IN  [s \in Sides |->
        IF s = first THEN rungs ELSE SecondOrders(rungs, quote(s), usd, MaxShares)]

\* A book may fail to load.  A market held by then loses its buys and gets none;
\* without funds the pass leaves it alone.
PlanFrom(got) ==
  LET sides == {s \in got : Levels(Book(s)) # {}} IN
  /\ pc = "plan"
  /\ clean' = (clean /\ got = live)
  /\ IF sides # {} /\ (heldSnap \/ usd > 0)
     THEN /\ live' = sides
          /\ plan' = IF heldSnap THEN NoRungs ELSE PlanOf(sides)
          /\ side' = First(sides)
          /\ pc' = "cancel"
          /\ UNCHANGED <<terms, snap, heldSnap>>
     ELSE PassOver
  /\ UNCHANGED <<worldVars, moves, mine, calm>>

PlanOrders == \E got \in SUBSET live : PlanFrom(got)

\* Sizes that follow the balance are compared less strictly.
SizeTolerance == IF mode = "legacy_wall" /\ SizeMode # "min" THEN 10 ELSE 1
Replaced == ToCancel(plan[side], snap[side], SizeTolerance)

\* The cancellation may fail, in part or altogether; placing goes on.
Cancels(gone) ==
  /\ pc = "cancel"
  /\ mine' = [mine EXCEPT ![side] = Without(@, gone)]
  /\ clean' = (clean /\ gone = Replaced)
  /\ pc' = "place"
  /\ UNCHANGED <<worldVars, moves, live, terms, snap, heldSnap, plan, side, calm>>

CancelReplaced == \E gone \in SUBSET Replaced : Cancels(gone)

Used  == UNION {IdsOf(mine[s]) \cup IdsOf(snap[s]) : s \in Sides}
Fresh == Min(Ids \ Used)

\* The snapshot of a side serves that side.
NextSide ==
  /\ IF side = "a" /\ "b" \in live
     THEN side' = "b" /\ pc' = "cancel"
     ELSE UNCHANGED side /\ pc' = "end"
  /\ snap' = [snap EXCEPT ![side] = <<>>]
  /\ UNCHANGED <<worldVars, moves, live, terms, heldSnap, plan, calm>>

Missing == ToPlace(plan[side], snap[side], SizeTolerance)

Placed(r) == [id |-> Fresh, price |-> r.price, left |-> r.shares, hit |-> FALSE, judged |-> FALSE]

\* place_limit_buy is taken, or rejected (or not reached: its reply is lost).
PlaceMissing ==
  /\ pc = "place"
  /\ \E r \in Missing :
       /\ Ids \ Used # {}
       /\ mine' = [mine EXCEPT ![side] =
            Append(@, Placed(r))]
  /\ NextSide
  /\ UNCHANGED clean

PlaceRejected ==
  /\ pc = "place"
  /\ Missing # {}
  /\ clean' = FALSE
  /\ NextSide
  /\ UNCHANGED mine

NothingMissing ==
  /\ pc = "place"
  /\ Missing = {}
  /\ NextSide
  /\ UNCHANGED <<mine, clean>>

PassEnds ==
  /\ pc = "end"
  /\ PassOver
  /\ calm' = [s \in Sides |->
       IF ~clean THEN 0 ELSE IF s \in live THEN Min({2, calm[s] + 1}) ELSE calm[s]]
  /\ UNCHANGED <<worldVars, moves, mine, clean>>

-----------------------------------------------------------------------------
World ==
  \/ UsdMoves \/ SellOut \/ SpreadMoves
  \/ \E s \in Sides : BookMoves(s) \/ \E i \in DOMAIN mine[s] : Fill(s, i)

Monitor ==
  \E s \in Sides : \E o \in OrdersOf(s) :
    CancelRemainder(s, o) \/ Judge(s, o) \/ CancelJudged(s, o) \/ CancelFails(s, o)

Pass ==
  \/ PassBegins \/ ReadOrders \/ ReadFails \/ DropBuys \/ PlanOrders
  \/ CancelReplaced \/ PlaceMissing \/ PlaceRejected \/ NothingMissing \/ PassEnds

Next == World \/ Rediscovers \/ Monitor \/ Pass

Spec == Init /\ [][Next]_vars

\* The loops start pass after pass and discovery after discovery, and every call returns
\* or times out.
FairSpec == Spec /\ WF_vars(Pass) /\ WF_vars(Rediscovers)

-----------------------------------------------------------------------------
(* Properties. *)

\* The two sides of a market share one limit: what a pass plans for both, in cents and
\* in shares, stays within what there was for the market when it planned.
PlanWithinExposure ==
  [][PlanOrders =>
       /\ Usd(plan'["a"]) + Usd(plan'["b"]) <= usd
       /\ Shares(plan'["a"]) + Shares(plan'["b"]) <= MaxShares]_vars

\* A pass that nothing disturbed leaves on each of its sides its rung and nothing
\* else, one order of the right size give or take the tolerance.
Converges ==
  [][PassEnds /\ clean => \A s \in live :
       /\ Len(mine[s]) = Cardinality(plan[s])
       /\ \A r \in plan[s] : \E o \in OrdersOf(s) : Fits(o, r, SizeTolerance)]_vars

\* Once two passes have confirmed a side, and nothing else happened, no pass that has
\* both books cancels its buys: the plan does not chase the orders it put there.
NoChurn ==
  [][CancelReplaced /\ clean /\ Replaced # {} => calm[side] < 2]_vars

\* The two checks of Step 3 that placing does not make.
OnlyStep3Checks(s, o) == OutOfBand(o.price) \/ (mode = "legacy_wall" /\ GapTooWide(Book(s)))

\* Nor does Step 3 condemn them: what passes place and leave alone, it takes away only
\* for the two checks placing does not make, or while the pool still has the spread of an
\* earlier discovery (manager.py 479, monitor.py 1390 and 1478).
ChecksAgree ==
  [][\A s \in Sides : \A o \in OrdersOf(s) :
       Judge(s, o) /\ ~OnlyStep3Checks(s, o) /\ ~Stale => calm[s] < 2]_vars

\* A pass in which every call is answered.
PassSucceeds ==
  \/ PassBegins \/ ReadOrders \/ Drops(BuysSeen) \/ PlanFrom(live)
  \/ Cancels(Replaced) \/ PlaceMissing \/ NothingMissing \/ PassEnds

\* The buys come to rest: when the market stops moving and calls stop failing, the passes
\* and Step 3, each with its own idea of the spread until the next discovery, each
\* reacting to a book with our own orders in it and to what the other did, do not go on
\* placing and cancelling for ever, however they take turns (manager.py 600-724,
\* monitor.py 1600-1650).
ComesToRest ==
  <>[][/\ Pass => PassSucceeds
       /\ \A s \in Sides : \A o \in OrdersOf(s) :
            Judge(s, o) => ~OnlyStep3Checks(s, o)]_vars
    => <>[][UNCHANGED mine]_vars

=============================================================================
