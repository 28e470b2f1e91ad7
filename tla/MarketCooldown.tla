--------------------------- MODULE MarketCooldown ---------------------------
(***************************************************************************)
(* When a wallet may buy in a market again: the per-market cooldown that   *)
(* Step 1 sets on a fill (OrderMonitor._handle_fill), that every monitor   *)
(* tick renews while the Data API shows a position                         *)
(* (_renew_position_cooldown), and that placement passes respect           *)
(* (MarketScanner.prefilter_for_template, WalletWorker.place_orders).      *)
(*                                                                         *)
(* Time goes in units of one monitor tick and is kept as what is left of   *)
(* each cooldown.  The Data API shows a change of position up to Lag units *)
(* late.  One pass is at work at a time, over any number of units; between *)
(* its network calls everything else goes on.  Which price a side deserves *)
(* is left open: a pass may keep, replace, cancel or place any side's buy. *)
(***************************************************************************)
EXTENDS Integers, FiniteSets

CONSTANTS
  Markets,
  Tokens,     \* the outcomes of all markets
  MarketOf,   \* the market of each token
  NoToken,
  Cooldown,   \* cooldown_minutes, in monitor ticks
  Lag         \* how late the Data API may be, in monitor ticks

ASSUME TokensAssumption ==
  MarketOf \in [Tokens -> Markets] /\ NoToken \notin Tokens
ASSUME TimesAssumption == Cooldown \in Nat \ {0} /\ Lag \in 0..(Cooldown - 1)

VARIABLES
  held,       \* tokens the wallet has a position in
  shown,      \* tokens the Data API shows a position in
  late,       \* for how long it has shown the wrong thing of each token
  buys,       \* tokens with a buy on the book
  unnoticed,  \* tokens with a fill for which Step 1 has not set the cooldown
  cool,       \* what is left of each market's cooldown
  eligible,   \* markets that pass every threshold but the cooldown
  mpc,        \* where the monitor tick stands
  pc,         \* where the placement pass stands
  subset,     \* its markets: what the prefilter left
  orders,     \* its snapshot of the open buys
  positions,  \* its snapshot of the positions
  sides,      \* tokens of the market at hand it has not come to
  cur,        \* the token at hand
  locked,     \* history: tokens held, and noticed, ever since the pass began
  renewed     \* history: markets the last tick renewed

worldVars == <<held, shown, late, buys, unnoticed, eligible>>
passVars  == <<pc, subset, orders, positions, sides, cur, locked>>
vars == <<worldVars, cool, mpc, passVars, renewed>>

\* What the Data API shows wrongly.
Wrong == (held \ shown) \cup (shown \ held)

PassPcs == {"idle", "orders", "positions", "dropouts", "markets", "side", "place"}

TypeOK ==
  /\ held \subseteq Tokens /\ shown \subseteq Tokens
  /\ late \in [Tokens -> 0..Lag]
  /\ \A t \in Tokens : late[t] > 0 => t \in Wrong
  /\ buys \subseteq Tokens /\ unnoticed \subseteq Tokens
  /\ cool \in [Markets -> 0..Cooldown]
  /\ eligible \subseteq Markets
  /\ mpc \in {"due", "done"}
  /\ pc \in PassPcs
  /\ subset \subseteq Markets
  /\ orders \subseteq Tokens /\ positions \subseteq Tokens /\ sides \subseteq Tokens
  /\ cur \in Tokens \cup {NoToken}
  /\ pc = "place" => cur \in Tokens
  /\ locked \subseteq Tokens /\ renewed \subseteq Markets

Init ==
  /\ held = {} /\ shown = {} /\ late = [t \in Tokens |-> 0]
  /\ buys = {} /\ unnoticed = {}
  /\ cool = [m \in Markets |-> 0]
  /\ eligible = Markets
  /\ mpc = "due"
  /\ pc = "idle" /\ subset = {} /\ orders = {} /\ positions = {} /\ sides = {}
  /\ cur = NoToken /\ locked = {}
  /\ renewed = {}

In(m, S)   == {t \in S : MarketOf[t] = m}      \* the tokens of m in S
MarketsOf(S) == {MarketOf[t] : t \in S}

\* is_in_cooldown
Cooling(m) == cool[m] > 0

-----------------------------------------------------------------------------
(* The exchange, the Data API and the scanner. *)

\* A resting buy is filled, in part or up.
Fill(t) ==
  /\ t \in buys
  /\ buys' \in {buys, buys \ {t}}
  /\ held' = held \cup {t}
  /\ late' = [late EXCEPT ![t] = 0]
  /\ unnoticed' = unnoticed \cup {t}
  /\ UNCHANGED <<shown, cool, eligible, mpc, passVars, renewed>>

\* The exit logic has sold the position.
Sell(t) ==
  /\ t \in held
  /\ held' = held \ {t}
  /\ late' = [late EXCEPT ![t] = 0]
  /\ locked' = locked \ {t}
  /\ UNCHANGED <<shown, buys, unnoticed, cool, eligible, mpc, pc, subset, orders,
                 positions, sides, cur, renewed>>

CatchUp(t) ==
  /\ t \in Wrong
  /\ shown' = IF t \in held THEN shown \cup {t} ELSE shown \ {t}
  /\ late' = [late EXCEPT ![t] = 0]
  /\ UNCHANGED <<held, buys, unnoticed, cool, eligible, mpc, passVars, renewed>>

\* A market gets past the thresholds, or falls below one.
EligibilityChanges(m) ==
  /\ eligible' = IF m \in eligible THEN eligible \ {m} ELSE eligible \cup {m}
  /\ UNCHANGED <<held, shown, late, buys, unnoticed, cool, mpc, passVars, renewed>>

Less(n) == IF n > 0 THEN n - 1 ELSE 0

\* The monitor has ticked, and the Data API is nowhere later than it may be.
TimePasses ==
  /\ mpc = "done"
  /\ \A t \in Wrong : late[t] < Lag
  /\ late' = [t \in Tokens |-> IF t \in Wrong THEN late[t] + 1 ELSE 0]
  /\ cool' = [m \in Markets |-> Less(cool[m])]
  /\ mpc' = "due"
  /\ UNCHANGED <<held, shown, buys, unnoticed, eligible, passVars, renewed>>

-----------------------------------------------------------------------------
(* The monitor tick. *)

\* Step 1, _handle_fill: set the cooldown, cancel what is left of the order.  If the
\* cooldown cannot be set the handler raises, which cancels nothing, and the fill is
\* taken for seen: its token stays unnoticed, maybe for good.
NoticeFill(t) ==
  /\ mpc = "due"
  /\ t \in unnoticed
  /\ unnoticed' = unnoticed \ {t}
  /\ cool' = [cool EXCEPT ![MarketOf[t]] = Cooldown]
  /\ buys' \in {buys, buys \ {t}}
  /\ UNCHANGED <<held, shown, late, eligible, mpc, passVars, renewed>>

\* check_exit: every market the Data API shows a position in cools down anew.
RenewCooldowns ==
  /\ mpc = "due"
  /\ cool' = [m \in Markets |-> IF m \in MarketsOf(shown) THEN Cooldown ELSE cool[m]]
  /\ renewed' = MarketsOf(shown)
  /\ mpc' = "done"
  /\ UNCHANGED <<worldVars, passVars>>

\* The positions cannot be fetched, or the database refuses: no renewal.
RenewalFails ==
  /\ mpc = "due"
  /\ renewed' = {}
  /\ mpc' = "done"
  /\ UNCHANGED <<worldVars, cool, passVars>>

-----------------------------------------------------------------------------
(* The placement pass. *)

World == UNCHANGED <<worldVars, cool, mpc, renewed>>
WorldButBuys ==
  UNCHANGED <<held, shown, late, unnoticed, eligible, cool, mpc, renewed>>

PassReturns ==
  /\ pc' = "idle"
  /\ subset' = {} /\ orders' = {} /\ positions' = {} /\ sides' = {}
  /\ cur' = NoToken /\ locked' = {}

\* prefilter_for_template: cooling markets are left out of the pass.
PassBegins ==
  /\ pc = "idle"
  /\ subset' = {m \in eligible : ~Cooling(m)}
  /\ locked' = held \ unnoticed
  /\ pc' = "orders"
  /\ UNCHANGED <<orders, positions, sides, cur>>
  /\ World

ReadOrders ==
  /\ pc = "orders"
  /\ orders' = buys
  /\ pc' = "positions"
  /\ UNCHANGED <<subset, positions, sides, cur, locked>>
  /\ World

ReadPositions ==
  /\ pc = "positions"
  /\ positions' = shown
  /\ pc' = "dropouts"
  /\ UNCHANGED <<subset, orders, sides, cur, locked>>
  /\ World

\* Either read fails: no pass this time.
PassGivesUp ==
  /\ pc \in {"orders", "positions"}
  /\ PassReturns
  /\ World

\* Markets with buys that are neither in the pass nor cooling down.
Dropped == {m \in MarketsOf(orders) \ subset : ~Cooling(m)}

\* On to the markets of the pass: the rest of the snapshots is not used again.
ToMarkets ==
  /\ pc' = "markets"
  /\ orders' = {t \in orders : MarketOf[t] \in subset}
  /\ positions' = {t \in positions : MarketOf[t] \in subset}
  /\ UNCHANGED <<subset, sides, cur, locked>>

\* Mutated form: what is cancelled is looked up among the pass's own markets.
CancelDropouts_OwnMarkets ==
  /\ pc = "dropouts"
  /\ buys' = buys \ {t \in orders : MarketOf[t] \in Dropped \cap subset}
  /\ ToMarkets
  /\ WorldButBuys

CancelDropouts ==
  /\ pc = "dropouts"
  /\ buys' = buys \ {t \in orders : MarketOf[t] \in Dropped}
  /\ ToMarkets
  /\ WorldButBuys

\* The cancellation fails: a warning, and the pass goes on.
DropoutsStay ==
  /\ pc = "dropouts"
  /\ ToMarkets
  /\ World

\* market_held: the pass's snapshot shows a position on either side.
MarketHeld(m) == In(m, positions) # {}

\* The next market that is held or not cooling down.
EnterMarket(m) ==
  /\ pc = "markets"
  /\ m \in subset
  /\ subset' = subset \ {m}
  /\ MarketHeld(m) \/ ~Cooling(m)
  /\ sides' = In(m, Tokens)
  /\ pc' = "side"
  /\ UNCHANGED <<orders, positions, cur, locked>>
  /\ World

\* Cooling down, blacklisted, in resolution, without a tier, over the limit of
\* concurrent markets, without a book or a balance: not this time.
SkipMarket(m) ==
  /\ pc = "markets"
  /\ m \in subset
  /\ subset' = subset \ {m}
  /\ orders' = orders \ In(m, Tokens)
  /\ positions' = positions \ In(m, Tokens)
  /\ UNCHANGED <<pc, sides, cur, locked>>
  /\ World

\* Mutated form: each side looks at its own position only.
CancelSide_OwnSide(t) ==
  /\ pc = "side"
  /\ t \in sides
  /\ sides' = sides \ {t}
  /\ buys' \in {buys} \cup (IF t \in orders THEN {buys \ {t}} ELSE {})
  /\ IF t \in positions THEN pc' = "side" /\ cur' = NoToken
     ELSE \/ pc' = "place" /\ cur' = t
          \/ pc' = "side" /\ cur' = NoToken
  /\ orders' = orders \ {t}
  /\ UNCHANGED <<subset, positions, locked>>
  /\ WorldButBuys

\* One side: cancel what it had (or fail to, or keep it), then perhaps place.
\* In a held market everything goes and nothing is placed.
CancelSide(t) ==
  /\ pc = "side"
  /\ t \in sides
  /\ sides' = sides \ {t}
  /\ buys' \in {buys} \cup (IF t \in orders THEN {buys \ {t}} ELSE {})
  /\ IF MarketHeld(MarketOf[t]) THEN pc' = "side" /\ cur' = NoToken
     ELSE \/ pc' = "place" /\ cur' = t
          \/ pc' = "side" /\ cur' = NoToken
  /\ orders' = orders \ {t}
  /\ UNCHANGED <<subset, positions, locked>>
  /\ WorldButBuys

PlaceSide ==
  /\ pc = "place"
  /\ buys' = buys \cup {cur}
  /\ pc' = "side" /\ cur' = NoToken
  /\ UNCHANGED <<subset, orders, positions, sides, locked>>
  /\ WorldButBuys

PlacementFails ==
  /\ pc = "place"
  /\ pc' = "side" /\ cur' = NoToken
  /\ UNCHANGED <<subset, orders, positions, sides, locked>>
  /\ World

MarketDone ==
  /\ pc = "side"
  /\ sides = {}
  /\ pc' = "markets"
  /\ positions' = {t \in positions : MarketOf[t] \in subset}
  /\ UNCHANGED <<subset, orders, sides, cur, locked>>
  /\ World

PassEnds ==
  /\ pc = "markets"
  /\ subset = {}
  /\ PassReturns
  /\ World

-----------------------------------------------------------------------------
Outside ==
  \/ \E t \in Tokens : Fill(t) \/ Sell(t) \/ CatchUp(t)
  \/ \E m \in Markets : EligibilityChanges(m)

Monitor ==
  \/ \E t \in Tokens : NoticeFill(t)
  \/ RenewCooldowns \/ RenewalFails \/ TimePasses

Pass ==
  \/ PassBegins \/ ReadOrders \/ ReadPositions \/ PassGivesUp
  \/ CancelDropouts \/ DropoutsStay
  \/ \E m \in Markets : EnterMarket(m) \/ SkipMarket(m)
  \/ \E t \in Tokens : CancelSide(t)
  \/ PlaceSide \/ PlacementFails \/ MarketDone \/ PassEnds

Next == Outside \/ Monitor \/ Pass

\* Placement passes go on; calls that fail now and then succeed again and again.
PassFairness ==
  /\ WF_vars(Pass)
  /\ SF_vars(ReadOrders) /\ SF_vars(ReadPositions) /\ SF_vars(CancelDropouts)

Spec == Init /\ [][Next]_vars
PassSpec == Spec /\ PassFairness

-----------------------------------------------------------------------------
(* Properties. *)

\* A pass that begins after Step 1 noticed a position never buys in that market
\* while the position lasts, on either side, although renewals may fail and the
\* Data API is late: the cooldown covers the time until the position shows, and
\* market_held the time after the cooldown lapsed (manager.py 420-431).
NoBuyWhileHeld == [][PlaceSide => In(MarketOf[cur], locked) = {}]_vars

\* While a noticed position lasts, its market's cooldown hardly runs: until the
\* Data API shows the position it runs from the fill that was noticed, by no
\* more than the API is late; from then on it starts anew with every tick that
\* could renew it, so that it runs from the sell-out on (monitor.py 589-593).
SoldOutCoolsDown ==
  \A t \in held \ unnoticed :
    /\ t \notin shown => cool[MarketOf[t]] >= Cooldown - late[t]
    /\ MarketOf[t] \in renewed => cool[MarketOf[t]] >= Cooldown - 1

\* A market that has fallen out of the eligible list for good, and does not
\* cool down, loses its buys for good (manager.py 353-387).
DropoutsLeave ==
  \A m \in Markets :
    <>[](m \notin eligible /\ ~Cooling(m)) => <>[](In(m, buys) = {})

=============================================================================
