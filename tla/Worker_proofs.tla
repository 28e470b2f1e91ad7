---------------------------- MODULE Worker_proofs ----------------------------
(***************************************************************************)
(* Theorems about what a wallet's worker keeps of its own: MarketCooldown, *)
(* in which markets it may buy, for any markets and outcomes and any       *)
(* cooldown that is longer than the Data API is late; and ProfitReport,    *)
(* the rows of its profit and the weekly report made of them, for any      *)
(* wallets and days and any starts and stops of the engine.                *)
(***************************************************************************)
EXTENDS MarketCooldown, ProfitReport, TLAPS

-----------------------------------------------------------------------------
(* Type correctness of MarketCooldown. *)

LEMMA OutsideTypes ==
  ASSUME TypeOK, Outside
  PROVE  TypeOK'
<1> USE TokensAssumption, TimesAssumption DEF TypeOK, passVars, Wrong
<1>1. CASE \E t \in Tokens : Fill(t) BY <1>1 DEF Fill
<1>2. CASE \E t \in Tokens : Sell(t) BY <1>2 DEF Sell
<1>3. CASE \E t \in Tokens : CatchUp(t) BY <1>3 DEF CatchUp
<1>4. CASE \E m \in Markets : EligibilityChanges(m) BY <1>4 DEF EligibilityChanges
<1>q. QED BY <1>1, <1>2, <1>3, <1>4 DEF Outside

LEMMA MonitorTypes ==
  ASSUME TypeOK, Monitor
  PROVE  TypeOK'
<1> USE TokensAssumption, TimesAssumption DEF TypeOK, passVars, worldVars, Wrong
<1>1. CASE \E t \in Tokens : NoticeFill(t) BY <1>1 DEF NoticeFill
<1>2. CASE RenewCooldowns BY <1>2 DEF RenewCooldowns, MarketsOf
<1>3. CASE RenewalFails BY <1>3 DEF RenewalFails
<1>4. CASE TimePasses
  <2>1. late' \in [Tokens -> 0..Lag]
    BY <1>4 DEF TimePasses
  <2>2. cool' \in [Markets -> 0..Cooldown]
    BY <1>4 DEF TimePasses, Less
  <2>3. \A t \in Tokens : late'[t] > 0 => t \in Wrong'
    BY <1>4 DEF TimePasses
  <2>q. QED BY <1>4, <2>1, <2>2, <2>3 DEF TimePasses
<1>q. QED BY <1>1, <1>2, <1>3, <1>4 DEF Monitor

LEMMA PassTypes ==
  ASSUME TypeOK, Pass
  PROVE  TypeOK'
<1> USE TokensAssumption DEF TypeOK, PassPcs, worldVars, World, WorldButBuys, Wrong, In
<1>1. CASE PassBegins BY <1>1 DEF PassBegins
<1>2. CASE ReadOrders BY <1>2 DEF ReadOrders
<1>3. CASE ReadPositions BY <1>3 DEF ReadPositions
<1>4. CASE PassGivesUp BY <1>4 DEF PassGivesUp, PassReturns
<1>5. CASE CancelDropouts BY <1>5 DEF CancelDropouts, ToMarkets
<1>6. CASE DropoutsStay BY <1>6 DEF DropoutsStay, ToMarkets
<1>7. CASE \E m \in Markets : EnterMarket(m) BY <1>7 DEF EnterMarket
<1>8. CASE \E m \in Markets : SkipMarket(m) BY <1>8 DEF SkipMarket
<1>9. CASE \E t \in Tokens : CancelSide(t) BY <1>9 DEF CancelSide
<1>10. CASE PlaceSide BY <1>10 DEF PlaceSide
<1>11. CASE PlacementFails BY <1>11 DEF PlacementFails
<1>12. CASE MarketDone BY <1>12 DEF MarketDone
<1>13. CASE PassEnds BY <1>13 DEF PassEnds, PassReturns
<1>q. QED BY <1>1, <1>2, <1>3, <1>4, <1>5, <1>6, <1>7, <1>8, <1>9, <1>10, <1>11, <1>12, <1>13
      DEF Pass

\* Every variable keeps its type; the Data API is late only where it is wrong,
\* and a pass places only at a token it stands at.
THEOREM TypeCorrect == Spec => []TypeOK
<1>1. Init => TypeOK
  BY TokensAssumption, TimesAssumption DEF Init, TypeOK, PassPcs
<1>2. TypeOK /\ [Next]_vars => TypeOK'
  <2> SUFFICES ASSUME TypeOK, [Next]_vars PROVE TypeOK'
    OBVIOUS
  <2>1. CASE UNCHANGED vars
    BY <2>1 DEF TypeOK, vars, worldVars, passVars, Wrong
  <2>q. QED BY <2>1, OutsideTypes, MonitorTypes, PassTypes DEF Next
<1>q. QED BY <1>1, <1>2, PTL DEF Spec

-----------------------------------------------------------------------------
(* The cooldown covers a position. *)

\* What is left of a cooldown that the last tick renewed: all of it until the
\* next unit of time.
RenewInv ==
  \A m \in renewed : cool[m] >= IF mpc = "due" THEN Cooldown - 1 ELSE Cooldown

\* A position Step 1 noticed and the Data API does not show yet is covered by
\* the cooldown set when it was noticed.
CoverInv == \A t \in held \ (unnoticed \cup shown) : cool[MarketOf[t]] >= Cooldown - late[t]

LEMMA CoverInductive ==
  ASSUME TypeOK, RenewInv, CoverInv, [Next]_vars
  PROVE  RenewInv' /\ CoverInv'
<1> USE TokensAssumption, TimesAssumption DEF TypeOK, RenewInv, CoverInv, passVars, worldVars
<1>1. CASE \E t \in Tokens : Fill(t) BY <1>1 DEF Fill
<1>2. CASE \E t \in Tokens : Sell(t) BY <1>2 DEF Sell
<1>3. CASE \E t \in Tokens : CatchUp(t) BY <1>3 DEF CatchUp
<1>4. CASE \E m \in Markets : EligibilityChanges(m) BY <1>4 DEF EligibilityChanges
<1>5. CASE \E t \in Tokens : NoticeFill(t) BY <1>5 DEF NoticeFill
<1>6. CASE RenewCooldowns BY <1>6 DEF RenewCooldowns, MarketsOf
<1>7. CASE RenewalFails BY <1>7 DEF RenewalFails
<1>8. CASE TimePasses
  <2>1. RenewInv'
    BY <1>8 DEF TimePasses, Less
  <2>2. CoverInv'
    BY <1>8 DEF TimePasses, Less, Wrong
  <2>q. QED BY <2>1, <2>2
<1>9. CASE Pass
  BY <1>9 DEF Pass, PassBegins, ReadOrders, ReadPositions, PassGivesUp, CancelDropouts,
              DropoutsStay, EnterMarket, SkipMarket, CancelSide, PlaceSide, PlacementFails,
              MarketDone, PassEnds, World, WorldButBuys
<1>10. CASE UNCHANGED vars BY <1>10 DEF vars
<1>q. QED BY <1>1, <1>2, <1>3, <1>4, <1>5, <1>6, <1>7, <1>8, <1>9, <1>10
      DEF Next, Outside, Monitor

\* The cooldown of a market covers every noticed position: from the fill until
\* the Data API shows it, then anew with every tick that renews it.
THEOREM CooldownCovers == Spec => []SoldOutCoolsDown
<1>1. Init => RenewInv /\ CoverInv
  BY DEF Init, RenewInv, CoverInv
<1>2. TypeOK /\ RenewInv /\ CoverInv /\ [Next]_vars => RenewInv' /\ CoverInv'
  BY CoverInductive
<1>3. TypeOK /\ RenewInv /\ CoverInv => SoldOutCoolsDown
  BY TokensAssumption, TimesAssumption DEF TypeOK, RenewInv, CoverInv, SoldOutCoolsDown
<1>q. QED BY <1>1, <1>2, <1>3, TypeCorrect, PTL DEF Spec

-----------------------------------------------------------------------------
(* No pass buys in a market that was held, and noticed, when it began. *)

\* The locked tokens of a set of markets are in S.
LockedIn(ms, S) == \A t \in locked : MarketOf[t] \in ms => t \in S

\* A locked position in a market of the pass was visible when the pass began,
\* so it is in the snapshot, and stays there until its market is done.
PassInv ==
  /\ locked \subseteq held
  /\ pc = "idle" => locked = {}
  /\ pc \in {"orders", "positions"} => LockedIn(subset, shown)
  /\ pc \in {"dropouts", "markets", "side", "place"} => LockedIn(subset, positions)
  /\ pc \in {"side", "place"} => LockedIn(MarketsOf(sides), positions)
  /\ pc = "place" => In(MarketOf[cur], locked) = {}

LEMMA PassInductive ==
  ASSUME TypeOK, CoverInv, PassInv, [Next]_vars
  PROVE  PassInv'
<1> USE TokensAssumption, TimesAssumption
    DEF TypeOK, PassInv, LockedIn, In, MarketsOf, passVars, worldVars, World, WorldButBuys
<1>1. CASE \E t \in Tokens : Fill(t) BY <1>1 DEF Fill
<1>2. CASE \E t \in Tokens : Sell(t) BY <1>2 DEF Sell
<1>3. CASE \E t \in Tokens : CatchUp(t) BY <1>3 DEF CatchUp, Wrong
<1>4. CASE \E m \in Markets : EligibilityChanges(m) BY <1>4 DEF EligibilityChanges
<1>5. CASE Monitor
  BY <1>5 DEF Monitor, NoticeFill, RenewCooldowns, RenewalFails, TimePasses
<1>6. CASE PassBegins
  <2>1. \A t \in held \ unnoticed : t \notin shown => Cooling(MarketOf[t])
    BY DEF CoverInv, Cooling
  <2>q. QED BY <1>6, <2>1 DEF PassBegins
<1>7. CASE ReadOrders BY <1>7 DEF ReadOrders
<1>8. CASE ReadPositions BY <1>8 DEF ReadPositions
<1>9. CASE PassGivesUp BY <1>9 DEF PassGivesUp, PassReturns
<1>10. CASE CancelDropouts BY <1>10 DEF CancelDropouts, ToMarkets
<1>11. CASE DropoutsStay BY <1>11 DEF DropoutsStay, ToMarkets
<1>12. CASE \E m \in Markets : EnterMarket(m) BY <1>12 DEF EnterMarket
<1>13. CASE \E m \in Markets : SkipMarket(m) BY <1>13 DEF SkipMarket
<1>14. CASE \E t \in Tokens : CancelSide(t) BY <1>14 DEF CancelSide, MarketHeld
<1>15. CASE PlaceSide BY <1>15 DEF PlaceSide
<1>16. CASE PlacementFails BY <1>16 DEF PlacementFails
<1>17. CASE MarketDone BY <1>17 DEF MarketDone
<1>18. CASE PassEnds BY <1>18 DEF PassEnds, PassReturns
<1>19. CASE UNCHANGED vars BY <1>19 DEF vars
<1>q. QED BY <1>1, <1>2, <1>3, <1>4, <1>5, <1>6, <1>7, <1>8, <1>9, <1>10, <1>11, <1>12,
         <1>13, <1>14, <1>15, <1>16, <1>17, <1>18, <1>19 DEF Next, Outside, Pass

\* A pass that begins after Step 1 noticed a position never buys in that market
\* while the position lasts, for any number of markets and any strategy.
THEOREM HeldMarketsNotBought == Spec => NoBuyWhileHeld
<1>1. Init => RenewInv /\ CoverInv /\ PassInv
  BY DEF Init, RenewInv, CoverInv, PassInv
<1>2. TypeOK /\ RenewInv /\ CoverInv /\ PassInv /\ [Next]_vars
        => RenewInv' /\ CoverInv' /\ PassInv'
  BY CoverInductive, PassInductive
<1>3. PassInv /\ [Next]_vars => [PlaceSide => In(MarketOf[cur], locked) = {}]_vars
  BY DEF PassInv, PlaceSide
<1>q. QED BY <1>1, <1>2, <1>3, TypeCorrect, PTL DEF Spec, NoBuyWhileHeld

-----------------------------------------------------------------------------
(* ProfitReport: a week is reported once. *)

\* The types of ProfitReport; a thread that sends has a week to send.
SomeWeek == {NoWeek} \cup Weeks
RowKinds == {Nothing, Trades, Whole}

Rebuilds == [at : {"idle", "stuck", "fetch", "write"}, today : 0 .. MaxDay,
             data : [Days -> RowKinds], next : Nat \ {0}]

ReportTypes ==
  /\ day \in Days /\ day > 1 /\ paid \subseteq Days
  /\ rows \in [Wallets -> [Days -> RowKinds]]
  /\ rebuild \in [Wallets -> [Starts -> Rebuilds]] /\ worker \in Nat
  /\ lastDate \in [Wallets -> Nat]
  /\ loop \in [Starts -> SomeWeek]
  /\ sender \in [Starts -> [at : {"none", "stuck", "send", "store"}, week : SomeWeek]]
  /\ \A l \in Starts : Working(l) => sender[l].week \in Weeks
  /\ delivered \in [Weeks -> Nat]

\* What is assembled or on its way is of the week it is: the clock waits for it.
OfThisWeek ==
  /\ \A l \in Starts : loop[l] \in {NoWeek, WeekOf(day)}
  /\ \A l \in Starts : Working(l) => sender[l].week = WeekOf(day)

\* Unless the week may be repeated, a thread that sends it is the only one, _pushing
\* is set, and no loop has another report in hand.
OneSends ==
  WeekOf(day) \notin excused =>
    \A l \in Starts : Working(l) =>
      /\ pushing
      /\ \A m \in Starts : loop[m] = NoWeek /\ (Working(m) => m = l)

\* This week's report, once it got through, is stored or about to be.
Counted ==
  /\ \A k \in Weeks : k > WeekOf(day) => delivered[k] = 0
  /\ WeekOf(day) \notin excused =>
       /\ delivered[WeekOf(day)] > 0 =>
            lastWeek = WeekOf(day) \/ \E l \in Starts : sender[l].at = "store"
       /\ \A l \in Starts : loop[l] # NoWeek \/ sender[l].at = "send" =>
            delivered[WeekOf(day)] = 0

OnceInv == OfThisWeek /\ OneSends /\ Counted /\ ReportedOnce

\* A later day is of no earlier week.
LEMMA WeeksAreOrdered ==
  ASSUME NEW d \in Days
  PROVE  /\ WeekOf(d) \in Weeks /\ WeekOf(d) \in Nat /\ WeekOf(d) # NoWeek
         /\ d < MaxDay => WeekOf(d + 1) \in Weeks /\ WeekOf(d) <= WeekOf(d + 1)
<1> USE BoundsAssumption DEF Days
<1>1. WeekOf(d) \in Weeks BY DEF Weeks
<1>2. WeekOf(d) \in Nat /\ WeekOf(d) > 0
  BY SMT DEF WeekOf
<1>3. d < MaxDay => WeekOf(d + 1) \in Weeks BY DEF Weeks
<1>4. WeekOf(d) <= WeekOf(d + 1) BY SMT DEF WeekOf
<1> QED BY <1>1, <1>2, <1>3, <1>4 DEF NoWeek

LEMMA ReportStartsTyped == ReportInit => ReportTypes
BY BoundsAssumption
   DEF ReportInit, ReportTypes, Days, Rebuilds, NoRebuild, NoSender, SomeWeek, RowKinds, Nothing,
       Working

\* The fields a rebuild changes keep their types.
LEMMA RebuildChanges ==
  ASSUME NEW r \in Rebuilds
  PROVE  /\ \A today \in 0 .. MaxDay :
              [r EXCEPT !.at = "fetch", !.today = today] \in Rebuilds
         /\ \A data \in [Days -> RowKinds] :
              [r EXCEPT !.at = "write", !.data = data] \in Rebuilds
         /\ \A next \in Nat \ {0}, data \in [Days -> RowKinds] :
              [r EXCEPT !.next = next, !.data = data] \in Rebuilds
BY DEF Rebuilds

LEMMA ReportStepTypes ==
  ASSUME ReportTypes, [ReportNext]_reportVars
  PROVE  ReportTypes'
<1> USE BoundsAssumption
    DEF ReportTypes, clock, life, ledger, push, RowKinds, SomeWeek, NoRebuild, NoSender, Working
<1>0. Days \subseteq Nat \ {0} BY DEF Days
<1>n. NoRebuild \in Rebuilds BY DEF Rebuilds
<1>1. CASE Time
  <2>1. CASE PushHour BY <2>1 DEF PushHour
  <2>2. CASE RewardPaid BY <2>2 DEF RewardPaid, Days
  <2>3. CASE NextDay BY <2>3 DEF NextDay, Days
  <2> QED BY <1>1, <2>1, <2>2, <2>3 DEF Time
<1>2. CASE Crash BY <1>2, <1>n DEF Crash
<1>3. CASE Boot BY <1>3 DEF Boot
<1>4. CASE BackoffEnds BY <1>4 DEF BackoffEnds
<1>8. CASE Operator
  <2>1. CASE EngineStarts BY <2>1 DEF EngineStarts
  <2>2. CASE EngineStops BY <2>2 DEF EngineStops
  <2> QED BY <1>8, <2>1, <2>2 DEF Operator
<1>5. ASSUME NEW w \in Wallets, NEW n \in Starts, Rebuild(w, n) PROVE ReportTypes'
  <2>r. rebuild[w][n] \in Rebuilds OBVIOUS
  <2>1. CASE StartRebuild(w, n)
    <3>1. [NoRebuild EXCEPT !.at = "fetch", !.today = day] \in Rebuilds
      <4>1. day \in 0 .. MaxDay BY DEF Days
      <4> HIDE DEF NoRebuild, ReportTypes, RowKinds
      <4> QED BY <1>n, <4>1, RebuildChanges
    <3> QED BY <2>1, <3>1 DEF StartRebuild, UnchangedBut
  <2>6. CASE StartRebuildFails(w, n)
    <3>1. [NoRebuild EXCEPT !.at = "stuck"] \in Rebuilds BY <1>n DEF Rebuilds
    <3> QED BY <2>6, <3>1 DEF StartRebuildFails, UnchangedBut
  <2>2. CASE FetchHistory(w, n)
    <3> DEFINE r == rebuild[w][n]
               data == [d \in Days |-> IF d <= r.today THEN Known(d) ELSE Nothing]
    <3>1. data \in [Days -> RowKinds] BY DEF Known, RowKinds
    <3>2. [r EXCEPT !.at = "write", !.data = data] \in Rebuilds
      <4> HIDE DEF data, ReportTypes, RowKinds
      <4> QED BY <2>r, <3>1, RebuildChanges
    <3>3. rebuild' = [rebuild EXCEPT ![w][n] = [r EXCEPT !.at = "write", !.data = data]]
      BY <2>2 DEF FetchHistory
    <3> HIDE DEF data
    <3>4. rebuild' \in [Wallets -> [Starts -> Rebuilds]] BY <3>2, <3>3
    <3> QED BY <2>2, <3>4 DEF FetchHistory, UnchangedBut
  <2>3. CASE WriteRow(w, n)
    <3> DEFINE r == rebuild[w][n]
               data == [r.data EXCEPT ![r.next] = Nothing]
    <3>1. r.next \in Days /\ r.data[r.next] \in RowKinds
      BY <2>3, <2>r DEF WriteRow, Rebuilds, Days
    <3>2. [r EXCEPT !.next = r.next + 1, !.data = data] \in Rebuilds
      <4>1. r.next + 1 \in Nat \ {0} BY <3>1 DEF Days
      <4>2. data \in [Days -> RowKinds] BY <2>r, <3>1 DEF Rebuilds
      <4> HIDE DEF r, data, ReportTypes, RowKinds
      <4> QED BY <2>r, <4>1, <4>2, RebuildChanges DEF r
    <3>3. rows' \in [Wallets -> [Days -> RowKinds]] BY <2>3, <3>1 DEF WriteRow
    <3>4. rebuild' \in [Wallets -> [Starts -> Rebuilds]]
      <4>1. rebuild' = [rebuild EXCEPT ![w][n] = [r EXCEPT !.next = r.next + 1, !.data = data]]
        BY <2>3, <2>r DEF WriteRow, Rebuilds
      <4> QED BY <3>2, <4>1
    <3> QED BY <2>3, <3>3, <3>4 DEF WriteRow, UnchangedBut
  <2>4. CASE Rebuilt(w, n)
    BY <2>4, <2>r, <1>n DEF Rebuilt, RebuildEnds, DateSet, UnchangedBut, Rebuilds
  <2>5. CASE RebuildFails(w, n) BY <2>5, <1>n DEF RebuildFails, UnchangedBut
  <2> QED BY <1>5, <2>1, <2>2, <2>3, <2>4, <2>5, <2>6 DEF Rebuild
<1>6. ASSUME NEW l \in Starts, Assemble(l) \/ Send(l) PROVE ReportTypes'
  <2>1. CASE Assemble(l) BY <2>1, WeeksAreOrdered DEF Assemble
  <2>2. CASE StartSending(l) BY <2>2 DEF StartSending
  <2>6. CASE StartSendingFails(l) BY <2>6 DEF StartSendingFails
  <2>3. CASE Sent(l)
    <3>1. delivered' \in [Weeks -> Nat] BY <2>3 DEF Sent, Deliver
    <3> QED BY <2>3, <3>1 DEF Sent
  <2>4. CASE StoreWeek(l) BY <2>4 DEF StoreWeek, SenderEnds
  <2>5. CASE SendFails(l)
    <3>1. delivered' \in [Weeks -> Nat] BY <2>5 DEF SendFails, Deliver
    <3> QED BY <2>5, <3>1 DEF SendFails, SenderEnds
  <2> QED BY <1>6, <2>1, <2>2, <2>3, <2>4, <2>5, <2>6 DEF Send
<1>7. CASE UNCHANGED reportVars BY <1>7 DEF reportVars
<1> QED BY <1>1, <1>2, <1>3, <1>4, <1>5, <1>6, <1>7, <1>8 DEF ReportNext

LEMMA ReportOnceStep ==
  ASSUME ReportTypes, ReportTypes', OnceInv, [ReportNext]_reportVars
  PROVE  OnceInv'
<1> DEFINE week == WeekOf(day)
<1>w. week \in Weeks /\ week \in Nat /\ week # NoWeek
  BY WeeksAreOrdered DEF ReportTypes
<1>d. Weeks \subseteq Nat BY WeeksAreOrdered DEF Weeks
<1> USE <1>w, <1>d
    DEF ReportTypes, OnceInv, OfThisWeek, OneSends, Counted, ReportedOnce, Working,
        clock, life, ledger, push
<1>1. CASE PushHour BY <1>1 DEF PushHour
<1>2. CASE RewardPaid BY <1>2 DEF RewardPaid
<1>3. CASE NextDay
  <2>1. /\ UNCHANGED <<loop, sender, lastWeek, delivered, excused>>
        /\ \A l \in Starts : loop[l] = NoWeek /\ ~Working(l)
    BY <1>3 DEF NextDay, AtRest
  <2>2. week' \in Weeks /\ week' \in Nat /\ week <= week'
    BY <1>3, WeeksAreOrdered DEF NextDay
  <2>3. OfThisWeek' /\ OneSends' /\ ReportedOnce' BY <2>1
  <2>4. CASE week' = week
    <3>1. Counted' BY <2>1, <2>4
    <3> QED BY <2>3, <3>1
  <2>5. CASE week' > week
    <3>1. delivered[week'] = 0 BY <2>2, <2>5
    <3>2. \A k \in Weeks : k > week' => delivered[k] = 0 BY <2>2, <2>5
    <3> QED BY <2>1, <2>3, <3>1, <3>2
  <2> HIDE DEF OnceInv, week
  <2>6. week' = week \/ week' > week BY <2>2
  <2> QED BY <2>4, <2>5, <2>6
<1>4. CASE Crash
  <2>1. /\ UNCHANGED <<day, lastWeek, delivered>> /\ excused \subseteq excused'
        /\ \A l \in Starts : sender[l].at = "store" => sender[l].week \in excused'
        /\ \A l \in Starts : loop'[l] = NoWeek /\ sender'[l].at = "none"
    BY <1>4 DEF Crash, NoSender
  <2> QED BY <2>1
<1>5. CASE Boot BY <1>5 DEF Boot
<1>6. CASE BackoffEnds BY <1>6 DEF BackoffEnds
<1>14. CASE Operator
  <2>1. UNCHANGED <<day, loop, pushing, sender, lastWeek, delivered, excused>>
    BY <1>14 DEF Operator, EngineStarts, EngineStops
  <2> QED BY <2>1
<1>7. ASSUME NEW w \in Wallets, NEW n \in Starts, Rebuild(w, n) PROVE OnceInv'
  <2>1. UNCHANGED <<day, loop, pushing, sender, lastWeek, delivered, excused>>
    BY <1>7 DEF Rebuild, StartRebuild, StartRebuildFails, FetchHistory, WriteRow, Rebuilt,
       RebuildEnds, RebuildFails, UnchangedBut
  <2> QED BY <2>1
<1>8. ASSUME NEW l \in Starts, Assemble(l) PROVE OnceInv'
  BY <1>8 DEF Assemble
<1>9. ASSUME NEW l \in Starts, StartSending(l) PROVE OnceInv'
  BY <1>9 DEF StartSending
<1>15. ASSUME NEW l \in Starts, StartSendingFails(l) PROVE OnceInv'
  BY <1>15 DEF StartSendingFails, NoSender
<1>10. ASSUME NEW l \in Starts, Sent(l) PROVE OnceInv'
  BY <1>10 DEF Sent, Deliver
<1>11. ASSUME NEW l \in Starts, StoreWeek(l) PROVE OnceInv'
  BY <1>11 DEF StoreWeek, SenderEnds, NoSender
<1>12. ASSUME NEW l \in Starts, SendFails(l) PROVE OnceInv'
  BY <1>12 DEF SendFails, SenderEnds, NoSender, Deliver
<1>13. CASE UNCHANGED reportVars BY <1>13 DEF reportVars
<1> QED BY <1>1, <1>2, <1>3, <1>4, <1>5, <1>6, <1>7, <1>8, <1>9, <1>10, <1>11, <1>12,
           <1>13, <1>14, <1>15 DEF ReportNext, Time, Send

\* No week is reported twice by any starts of the engine and of the process and any loops
\* that outlive them, but for those whose report got through without its week being stored,
\* or that two loops had found due at once (manager.py 1215-1297).
THEOREM ReportsOnce == ReportSpec => []ReportedOnce
<1>1. ReportInit => OnceInv
  <2> SUFFICES ASSUME ReportInit PROVE OnceInv OBVIOUS
  <2>1. WeekOf(day) \in Weeks
    BY ReportStartsTyped, WeeksAreOrdered DEF ReportTypes
  <2>2. \A k \in Weeks : delivered[k] = 0 BY DEF ReportInit
  <2>3. \A l \in Starts : loop[l] = NoWeek /\ ~Working(l) BY DEF ReportInit, NoSender, Working
  <2> QED
    BY <2>1, <2>2, <2>3 DEF OnceInv, OfThisWeek, OneSends, Counted, ReportedOnce,
       Working
<1>2. ReportTypes /\ OnceInv /\ [ReportNext]_reportVars => ReportTypes' /\ OnceInv'
  BY ReportStepTypes, ReportOnceStep
<1>3. OnceInv => ReportedOnce BY DEF OnceInv
<1> QED BY <1>1, <1>2, <1>3, ReportStartsTyped, PTL DEF ReportSpec

-----------------------------------------------------------------------------
(* What a report made after the day's rebuilds is of. *)

\* A day's reward is paid on the next one.
RewardsArePaid == \A d \in Days : d + 1 < day => d \in paid

\* A row of a day that is over shows the day, but what an orphan's thread spoilt.
Shows(w, d) == Complete(d, rows[w][d]) \/ <<w, d>> \in spoilt

\* No rebuild is of a day to come, or of a worker to come.
RebuildInv(w, n) ==
  LET r == rebuild[w][n]
  IN  /\ r.today <= day
      /\ r.at = "fetch" => r.next = 1
      /\ n > worker => r.at = "idle"

\* The rebuild of today by the engine's worker has fetched all there is, and the rows show
\* it as far as it got.
TodaysInv(w, n) ==
  LET r == rebuild[w][n]
  IN  /\ lastDate[w] = day => r.at = "idle"
      /\ r.at = "write" /\ r.today = day =>
           \A d \in Days : d < day =>
             IF d < r.next THEN Shows(w, d) ELSE Complete(d, r.data[d])

\* A rebuild that began before today cannot end as today's.
RowsInv ==
  \A w \in Wallets :
    /\ lastDate[w] <= day
    /\ lastDate[w] = day => \A d \in Days : d < day => Shows(w, d)
    /\ \A n \in Starts : RebuildInv(w, n) /\ (n = worker => TodaysInv(w, n))

\* A rebuild fetches all there is of the days that are over.
LEMMA KnownIsComplete ==
  ASSUME ReportTypes, RewardsArePaid, NEW d \in Days, d < day
  PROVE  Complete(d, Known(d))
BY DEF ReportTypes, RewardsArePaid, Complete, Known, Days

LEMMA RewardsStep ==
  ASSUME ReportTypes, RewardsArePaid, [ReportNext]_reportVars
  PROVE  RewardsArePaid'
<1> USE DEF RewardsArePaid, clock, life, ledger
<1>1. CASE Time BY <1>1 DEF Time, PushHour, RewardPaid, NextDay, Days, ReportTypes
<1>2. CASE Operator \/ Crash \/ Boot \/ BackoffEnds
  BY <1>2 DEF Operator, EngineStarts, EngineStops, Crash, Boot, BackoffEnds
<1>3. ASSUME NEW w \in Wallets, NEW n \in Starts, Rebuild(w, n) PROVE RewardsArePaid'
  BY <1>3 DEF Rebuild, StartRebuild, StartRebuildFails, FetchHistory, WriteRow, Rebuilt,
     RebuildEnds, RebuildFails, UnchangedBut
<1>4. ASSUME NEW l \in Starts, Assemble(l) \/ Send(l) PROVE RewardsArePaid'
  BY <1>4 DEF Send, Assemble, StartSending, StartSendingFails, Sent, StoreWeek, SendFails,
     SenderEnds
<1>5. CASE UNCHANGED reportVars BY <1>5 DEF reportVars
<1> QED BY <1>1, <1>2, <1>3, <1>4, <1>5 DEF ReportNext

\* A row that shows its day still does after a write, or the write is noted as one that
\* spoilt it; and the one the engine's worker wrote shows its day if what was fetched did.
LEMMA WriteShows ==
  ASSUME ReportTypes, NEW w \in Wallets, NEW n \in Starts, WriteRow(w, n),
         NEW v \in Wallets, NEW d \in Days,
         IF v = w /\ d = rebuild[w][n].next /\ n = worker
         THEN Complete(d, rebuild[w][n].data[d]) ELSE Shows(v, d)
  PROVE  Shows(v, d)'
<1> DEFINE r == rebuild[w][n]
<1>1. r \in Rebuilds BY DEF ReportTypes
<1>2. /\ rows' = [rows EXCEPT ![w][r.next] = r.data[r.next]] /\ day' = day
      /\ spoilt' = IF n = worker THEN spoilt \ {<<w, r.next>>}
                   ELSE IF r.data[r.next] < rows[w][r.next] THEN spoilt \cup {<<w, r.next>>}
                   ELSE spoilt
  BY DEF WriteRow, UnchangedBut, clock
<1>3. rows[v][d] \in RowKinds /\ r.data[d] \in RowKinds BY <1>1 DEF ReportTypes, Rebuilds
<1>4. CASE v = w /\ d = r.next
  <2>1. rows'[v][d] = r.data[d] BY <1>2, <1>4 DEF ReportTypes
  <2>2. CASE n = worker BY <1>2, <1>4, <2>1, <2>2 DEF Shows, Complete
  <2>3. CASE n # worker /\ <<v, d>> \in spoilt BY <1>2, <2>3 DEF Shows
  <2>4. CASE n # worker /\ Complete(d, rows[v][d])
    <3>1. Complete(d, r.data[d]) \/ r.data[d] < rows[v][d]
      BY <1>3, <2>4 DEF Complete, RowKinds, Nothing, Trades, Whole
    <3> QED BY <1>2, <1>4, <2>1, <2>4, <3>1 DEF Shows, Complete
  <2> QED BY <2>2, <2>3, <2>4 DEF Shows
<1>5. CASE ~(v = w /\ d = r.next)
  <2>1. rows'[v][d] = rows[v][d] BY <1>2, <1>5 DEF ReportTypes
  <2>2. <<v, d>> \in spoilt => <<v, d>> \in spoilt' BY <1>2, <1>5
  <2>3. Shows(v, d) BY <1>5
  <2> QED BY <1>2, <2>1, <2>2, <2>3 DEF Shows, Complete
<1> QED BY <1>4, <1>5

\* A step of a rebuild: what it changes, of which worker.
LEMMA RebuildChangesOne ==
  ASSUME ReportTypes, NEW w \in Wallets, NEW n \in Starts, Rebuild(w, n)
  PROVE  /\ UNCHANGED <<day, worker>>
         /\ \A v \in Wallets, m \in Starts :
              v # w \/ m # n => rebuild'[v][m] = rebuild[v][m]
         /\ \A v \in Wallets : v # w \/ n # worker => lastDate'[v] = lastDate[v]
         /\ ~WriteRow(w, n) => UNCHANGED <<rows, spoilt>>
<1> USE DEF ReportTypes, UnchangedBut, clock, life
<1>1. CASE StartRebuild(w, n) BY <1>1 DEF StartRebuild
<1>2. CASE StartRebuildFails(w, n) BY <1>2 DEF StartRebuildFails
<1>3. CASE FetchHistory(w, n) BY <1>3 DEF FetchHistory
<1>4. CASE WriteRow(w, n) BY <1>4 DEF WriteRow
<1>5. CASE Rebuilt(w, n) BY <1>5 DEF Rebuilt, RebuildEnds, DateSet
<1>6. CASE RebuildFails(w, n) BY <1>6 DEF RebuildFails
<1> QED BY <1>1, <1>2, <1>3, <1>4, <1>5, <1>6 DEF Rebuild

LEMMA RowsStep ==
  ASSUME ReportTypes, ReportTypes', RewardsArePaid, RowsInv, [ReportNext]_reportVars
  PROVE  RowsInv'
<1>t. /\ day \in Nat /\ day > 1 /\ Days \subseteq Nat \ {0}
      /\ worker \in Nat /\ Starts \subseteq Nat
      /\ \A w \in Wallets : lastDate[w] \in Nat /\ \A n \in Starts : rebuild[w][n] \in Rebuilds
  BY BoundsAssumption DEF ReportTypes, Days, Starts
<1> USE DEF RowsInv, RebuildInv, TodaysInv
<1>1. CASE UNCHANGED <<day, worker, rows, rebuild, lastDate, spoilt>>
  BY <1>1 DEF Shows, Complete
<1>2. CASE PushHour \/ RewardPaid BY <1>1, <1>2 DEF PushHour, RewardPaid, life, ledger
<1>3. CASE NextDay
  <2>1. day' = day + 1 /\ UNCHANGED <<worker, rows, rebuild, lastDate, spoilt>>
    BY <1>3 DEF NextDay, life, ledger
  <2>2. \A w \in Wallets :
          lastDate[w] < day' /\ \A n \in Starts : rebuild[w][n].today < day'
    BY <1>t, <2>1 DEF Rebuilds
  <2> QED BY <1>t, <2>1, <2>2 DEF Rebuilds
<1>4. CASE Crash
  <2>1. /\ UNCHANGED <<day, worker>>
        /\ \A w \in Wallets : lastDate'[w] = 0 /\ \A n \in Starts : rebuild'[w][n] = NoRebuild
    BY <1>4 DEF Crash, clock
  <2> QED BY <1>t, <2>1 DEF NoRebuild
<1>5. CASE Boot \/ BackoffEnds BY <1>1, <1>5 DEF Boot, BackoffEnds, clock, life, ledger
<1>9. CASE EngineStarts
  <2>1. /\ UNCHANGED <<day, rebuild>> /\ worker' = worker + 1
        /\ \A w \in Wallets : lastDate'[w] = 0
    BY <1>9 DEF EngineStarts, clock
  <2>2. \A w \in Wallets, n \in Starts : n >= worker' => rebuild[w][n].at = "idle"
    <3>1. \A n \in Starts : n >= worker' => n > worker BY <1>t, <2>1
    <3> QED BY <3>1
  <2>3. \A n \in Starts : n > worker' => n >= worker' BY <1>t, <2>1
  <2>4. 0 <= day /\ 0 # day BY <1>t
  <2>5. \A n \in Starts : n = worker' => n >= worker' BY <1>t, <2>1
  <2> QED BY <2>1, <2>2, <2>3, <2>4, <2>5
<1>10. CASE EngineStops BY <1>1, <1>10 DEF EngineStops, clock, ledger
<1>6. ASSUME NEW w \in Wallets, NEW n \in Starts, Rebuild(w, n) PROVE RowsInv'
  <2> DEFINE r == rebuild[w][n]
  <2>1. /\ UNCHANGED <<day, worker>>
        /\ \A v \in Wallets, m \in Starts :
             v # w \/ m # n => rebuild'[v][m] = rebuild[v][m]
        /\ \A v \in Wallets : v # w \/ n # worker => lastDate'[v] = lastDate[v]
        /\ ~WriteRow(w, n) => UNCHANGED <<rows, spoilt>>
    BY <1>6, RebuildChangesOne
  <2>2. r \in Rebuilds BY <1>t
  <2>3. \A v \in Wallets, d \in Days :
          Shows(v, d) /\ (v # w \/ n # worker \/ ~WriteRow(w, n)) => Shows(v, d)'
    BY <2>1, WriteShows DEF Shows, Complete
  <2> DEFINE Now == /\ lastDate[w] <= day
                    /\ lastDate[w] = day => \A d \in Days : d < day => Shows(w, d)
                    /\ TodaysInv(w, n)
  <2>4. RebuildInv(w, n)' /\ (n = worker => Now')
    <3>1. CASE StartRebuild(w, n)
      <4>1. /\ rebuild'[w][n] = [NoRebuild EXCEPT !.at = "fetch", !.today = day]
            /\ UNCHANGED lastDate /\ lastDate[w] # day /\ n = worker
        BY <3>1 DEF StartRebuild, Due, ReportTypes
      <4>2. rebuild'[w][n].at = "fetch" /\ rebuild'[w][n].next = 1 /\ rebuild'[w][n].today = day
        BY <4>1 DEF NoRebuild
      <4> QED BY <1>t, <2>1, <4>1, <4>2
    <3>2. CASE StartRebuildFails(w, n)
      <4>1. /\ rebuild'[w][n] = [NoRebuild EXCEPT !.at = "stuck"]
            /\ UNCHANGED lastDate /\ lastDate[w] # day /\ n = worker
        BY <3>2 DEF StartRebuildFails, Due, ReportTypes
      <4>2. rebuild'[w][n].at = "stuck" /\ rebuild'[w][n].today = 0
        BY <4>1 DEF NoRebuild
      <4> QED BY <1>t, <2>1, <4>1, <4>2
    <3>3. CASE FetchHistory(w, n)
      <4> DEFINE data == [d \in Days |-> IF d <= r.today THEN Known(d) ELSE Nothing]
      <4>1. /\ rebuild'[w][n] = [r EXCEPT !.at = "write", !.data = data]
            /\ UNCHANGED lastDate /\ r.at = "fetch" /\ r.next = 1
        BY <3>3 DEF FetchHistory, UnchangedBut, ReportTypes
      <4>2. /\ rebuild'[w][n].at = "write" /\ rebuild'[w][n].data = data
            /\ rebuild'[w][n].next = 1 /\ rebuild'[w][n].today = r.today
        BY <2>2, <4>1 DEF Rebuilds
      <4>3. r.today <= day /\ ~(n > worker)
        BY <4>1
      <4>4. r.today = day => \A d \in Days : d < day => Complete(d, data[d])
        <5>1. \A d \in Days : d < day => Complete(d, Known(d)) BY KnownIsComplete
        <5>2. \A d \in Days : r.today = day /\ d < day => data[d] = Known(d) BY <1>t
        <5> HIDE DEF data
        <5> QED BY <5>1, <5>2 DEF Complete
      <4>5. \A d \in Days : ~(d < 1) BY <1>t
      <4>6. n = worker => lastDate[w] # day /\ lastDate[w] <= day BY <4>1
      <4> HIDE DEF data
      <4> QED BY <2>1, <4>1, <4>2, <4>3, <4>4, <4>5, <4>6 DEF Complete
    <3>4. CASE WriteRow(w, n)
      <4> DEFINE data == [r.data EXCEPT ![r.next] = Nothing]
      <4>1. /\ rebuild'[w][n] = [r EXCEPT !.next = r.next + 1, !.data = data]
            /\ UNCHANGED lastDate /\ r.at = "write" /\ r.next <= r.today
        BY <2>2, <3>4 DEF WriteRow, UnchangedBut, ReportTypes, Rebuilds
      <4>2. /\ rebuild'[w][n].at = "write" /\ rebuild'[w][n].data = data
            /\ rebuild'[w][n].next = r.next + 1 /\ rebuild'[w][n].today = r.today
        BY <2>2, <4>1 DEF Rebuilds
      <4>3. r.today <= day /\ ~(n > worker) BY <4>1
      <4>4. r.next \in Nat /\ r.data \in [Days -> RowKinds] BY <2>2 DEF Rebuilds
      <4>5. ASSUME n = worker, r.today = day, NEW d \in Days, d < day
            PROVE  IF d < r.next + 1 THEN Shows(w, d)' ELSE Complete(d, data[d])
        <5>1. IF d < r.next THEN Shows(w, d) ELSE Complete(d, r.data[d]) BY <4>1, <4>5
        <5>2. CASE d = r.next BY <3>4, <4>4, <4>5, <5>1, <5>2, WriteShows
        <5>3. CASE d < r.next
          <6>1. ~(d = r.next) /\ d < r.next + 1 BY <1>t, <4>4, <5>3
          <6> QED BY <3>4, <5>1, <5>3, <6>1, WriteShows
        <5>4. CASE d > r.next
          <6>1. ~(d < r.next) /\ ~(d < r.next + 1) /\ d # r.next BY <1>t, <4>4, <5>4
          <6>2. data[d] = r.data[d] BY <4>4, <6>1
          <6> QED BY <5>1, <6>1, <6>2
        <5> QED BY <1>t, <4>4, <5>2, <5>3, <5>4
      <4>6. n = worker => lastDate[w] # day /\ lastDate[w] <= day BY <4>1
      <4> HIDE DEF data
      <4> QED BY <2>1, <4>1, <4>2, <4>3, <4>5, <4>6 DEF Complete
    <3>5. CASE Rebuilt(w, n)
      <4>1. /\ r.at = "write" /\ r.next > r.today /\ rebuild'[w][n] = NoRebuild
            /\ n = worker => lastDate'[w] = r.today
        BY <3>5 DEF Rebuilt, RebuildEnds, DateSet, ReportTypes
      <4>2. r.next \in Nat /\ r.today \in Nat /\ r.today <= day BY <2>2 DEF Rebuilds
      <4>3. n = worker /\ r.today = day => \A d \in Days : d < day => Shows(w, d)
        <5>1. \A d \in Days : r.today = day /\ d < day => d < r.next BY <1>t, <4>1, <4>2
        <5> QED BY <4>1, <5>1
      <4>4. ~WriteRow(w, n) BY <4>1, <4>2 DEF WriteRow
      <4>5. n = worker /\ r.today = day => \A d \in Days : d < day => Shows(w, d)'
        BY <2>3, <4>3, <4>4
      <4>6. rebuild'[w][n].at = "idle" /\ rebuild'[w][n].today = 0 BY <4>1 DEF NoRebuild
      <4> QED BY <1>t, <2>1, <4>1, <4>2, <4>5, <4>6
    <3>6. CASE RebuildFails(w, n)
      <4>1. rebuild'[w][n] = NoRebuild /\ UNCHANGED <<rows, lastDate, spoilt>>
        BY <3>6 DEF RebuildFails, ReportTypes
      <4>2. rebuild'[w][n].at = "idle" /\ rebuild'[w][n].today = 0 BY <4>1 DEF NoRebuild
      <4> QED BY <1>t, <2>1, <4>1, <4>2 DEF Shows, Complete
    <3> QED BY <1>6, <3>1, <3>2, <3>3, <3>4, <3>5, <3>6 DEF Rebuild
  <2>5. ASSUME NEW v \in Wallets PROVE
           /\ lastDate'[v] <= day'
           /\ lastDate'[v] = day' => \A d \in Days : d < day' => Shows(v, d)'
    <3>1. CASE v = w /\ n = worker BY <2>4, <3>1
    <3>2. CASE v # w \/ n # worker BY <2>1, <2>3, <3>2
    <3> QED BY <3>1, <3>2
  <2>6. ASSUME NEW v \in Wallets, NEW m \in Starts
        PROVE  RebuildInv(v, m)' /\ (m = worker' => TodaysInv(v, m)')
    <3>1. CASE v = w /\ m = n BY <2>1, <2>4, <3>1
    <3>2. CASE v # w \/ m # n
      <4>1. rebuild'[v][m] = rebuild[v][m] /\ RebuildInv(v, m)' BY <2>1, <3>2
      <4>2. ASSUME m = worker PROVE TodaysInv(v, m)'
        <5>1. v # w \/ n # worker BY <3>2, <4>2
        <5> QED BY <2>1, <2>3, <4>1, <4>2, <5>1 DEF Complete
      <4> QED BY <2>1, <4>1, <4>2
    <3> QED BY <3>1, <3>2
  <2> QED BY <2>5, <2>6
<1>7. ASSUME NEW l \in Starts, Assemble(l) \/ Send(l) PROVE RowsInv'
  BY <1>1, <1>7 DEF Send, Assemble, StartSending, StartSendingFails, Sent, StoreWeek, SendFails,
     SenderEnds, clock, life, ledger
<1>8. CASE UNCHANGED reportVars BY <1>1, <1>8 DEF reportVars, clock, life, ledger
<1> QED BY <1>2, <1>3, <1>4, <1>5, <1>6, <1>7, <1>8, <1>9, <1>10
        DEF ReportNext, Time, Operator

\* A report assembled after every wallet's rebuild of the day shows each day of its week
\* with its rewards, and yesterday with its trades, but the rows that the thread of a
\* stopped worker overwrote with less: for any number of days, wallets and starts, and
\* whatever rebuilds failed half-way (manager.py 253-285, 1157-1168).
THEOREM ReportsWholeDays == ReportSpec => ReportAfterRebuildIsWhole
<1> DEFINE IInv == ReportTypes /\ RewardsArePaid /\ RowsInv
<1>1. ReportInit => IInv
  BY ReportStartsTyped
     DEF ReportInit, RewardsArePaid, RowsInv, RebuildInv, TodaysInv, NoRebuild, Days
<1>2. IInv /\ [ReportNext]_reportVars => IInv'
  BY ReportStepTypes, RewardsStep, RowsStep
<1>3. IInv => \A l \in Starts :
                Assemble(l) /\ (\A w \in Wallets : RebuiltToday(w)) =>
                  \A w \in Wallets, d \in Window(day) :
                    Complete(d, rows[w][d]) \/ <<w, d>> \in spoilt
  BY DEF RowsInv, Shows, RebuiltToday, Window
<1> QED BY <1>1, <1>2, <1>3, PTL DEF ReportSpec, ReportAfterRebuildIsWhole

==============================================================================
