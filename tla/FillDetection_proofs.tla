------------------------ MODULE FillDetection_proofs ------------------------
(***************************************************************************)
(* Theorems about FillDetection, for any set of fills and orders, any      *)
(* number of restarts and any bound on time.                               *)
(***************************************************************************)
EXTENDS FillDetection, TLAPS, WellFoundedInduction

-----------------------------------------------------------------------------
(* The watermark. *)

\* A set of times has a latest one.
LEMMA LatestExists ==
  ASSUME NEW n \in Nat, NEW S \in SUBSET (0..n), S # {}
  PROVE  \E u \in S : \A v \in S : v <= u
<1> DEFINE R == OpToRel(<, Nat)
<1> HIDE DEF R
<1> DEFINE T == {n - v : v \in S}
<1>1. T \subseteq Nat /\ T # {}
  <2>1. \A v \in S : n - v \in Nat /\ n - v \in T
    OBVIOUS
  <2>q. QED BY <2>1
<1>2. IsWellFoundedOn(R, Nat)
  BY NatLessThanWellFounded DEF R
<1>3. PICK x \in T : \A y \in T : <<y, x>> \notin R
  <2> HIDE DEF T
  <2>q. QED BY <1>1, <1>2, WFMin
<1>4. \A y \in T : ~(y < x)
  BY <1>1, <1>3 DEF OpToRel, R
<1>5. PICK u \in S : x = n - u
  OBVIOUS
<1>6. ASSUME NEW v \in S PROVE v <= u
  <2>1. ~(n - v < n - u)
    BY <1>4, <1>5
  <2>2. v \in Int /\ u \in Int
    BY <1>5
  <2>q. QED BY <2>1, <2>2
<1>q. QED BY <1>6

\* The watermark advances to a time, and never goes back by advancing.
LEMMA LatestIsTime ==
  ASSUME TypeOK, NEW S \in SUBSET published
  PROVE  Latest(S, afterTs) \in 0..MaxTime
<1> DEFINE T == {matched[f] : f \in S} \cup {afterTs}
<1>1. MaxTime \in Nat
  BY FillsAssumption
<1>2. T \in SUBSET (0..MaxTime) /\ T # {}
  BY DEF TypeOK
<1> HIDE DEF T
<1>3. \E u \in T : \A v \in T : v <= u
  BY <1>1, <1>2, LatestExists
<1>4. Latest(S, afterTs) \in T
  BY <1>3 DEF Latest, T
<1>q. QED BY <1>2, <1>4

-----------------------------------------------------------------------------
(* Type correctness. *)

\* The exchange and the rest of the program keep the types.
LEMMA ExchangeTypes ==
  ASSUME TypeOK, Exchange
  PROVE  TypeOK'
<1> USE FillsAssumption DEF TypeOK, Times, exchangeVars, monitorVars, tickVars, historyVars
<1>1. CASE TimePasses BY <1>1 DEF TimePasses
<1>2. CASE RecordsAction BY <1>2 DEF RecordsAction
<1>3. CASE \E f \in Fills : Match(f) BY <1>3 DEF Match
<1>4. CASE \E f \in Fills : Publish(f) BY <1>4 DEF Publish, Unpublished
<1>5. CASE \E o \in Orders : OrderLeaves(o) BY <1>5 DEF OrderLeaves
<1>q. QED BY <1>1, <1>2, <1>3, <1>4, <1>5 DEF Exchange

\* So do starts, stops and recovery.
LEMMA ControlTypes ==
  ASSUME TypeOK, Control
  PROVE  TypeOK'
<1> USE FillsAssumption DEF TypeOK, Times, exchangeVars, monitorVars, tickVars, historyVars
<1>1. CASE \E primes \in BOOLEAN : Start(primes) BY <1>1 DEF Start
<1>2. CASE RecoverAgain BY <1>2 DEF RecoverAgain
<1>3. CASE GoesDown
  <2>1. acted' \in [Fills -> Nat]
    BY <1>3 DEF GoesDown
  <2>2. pc' = "idle" /\ afterTs' \in 0..MaxTime
    BY <1>3 DEF GoesDown, Returns
  <2>q. QED BY <1>3, <2>1, <2>2 DEF GoesDown, Returns
<1>4. CASE InitWatermark BY <1>4 DEF InitWatermark
<1>5. CASE PrimeSeen
  <2>1. Latest(published, afterTs) \in 0..MaxTime
    BY LatestIsTime
  <2>q. QED BY <1>5, <2>1 DEF PrimeSeen, Primed
<1>q. QED BY <1>1, <1>2, <1>3, <1>4, <1>5 DEF Control

\* So does the monitor's tick.
LEMMA TickTypes ==
  ASSUME TypeOK, Tick
  PROVE  TypeOK'
<1> USE FillsAssumption DEF TypeOK, Times, exchangeVars, monitorVars, tickVars, historyVars
<1>1. CASE BeginTick BY <1>1 DEF BeginTick
<1>2. CASE RetryPriming
  <2>1. Latest(published, afterTs) \in 0..MaxTime
    BY LatestIsTime
  <2>q. QED BY <1>2, <2>1 DEF RetryPriming, Primed
<1>3. CASE FetchTrades BY <1>3 DEF FetchTrades, Returns
<1>4. CASE TickGivesUp BY <1>4 DEF TickGivesUp, Returns
<1>5. CASE FetchOpenOrders BY <1>5 DEF FetchOpenOrders
<1>6. CASE \E f \in Fills : HandleFill(f) BY <1>6 DEF HandleFill
<1>7. CASE TickEnds BY <1>7 DEF TickEnds, Returns
<1>8. CASE CancelRemainder BY <1>8 DEF CancelRemainder
<1>9. CASE KeepRemainder BY <1>9 DEF KeepRemainder
<1>10. CASE MarkSeen
  <2>1. {cur} \in SUBSET published
    BY <1>10 DEF MarkSeen
  <2>2. Latest({cur}, afterTs) \in 0..MaxTime
    BY <2>1, LatestIsTime
  <2>q. QED BY <1>10, <2>1, <2>2 DEF MarkSeen
<1>q. QED BY <1>1, <1>2, <1>3, <1>4, <1>5, <1>6, <1>7, <1>8, <1>9, <1>10 DEF Tick

\* Every variable keeps its type; in particular only published fills are ever
\* seen, fetched or handled, and the watermark stays a time.
THEOREM TypeCorrect == Spec => []TypeOK
<1>1. Init => TypeOK
  <2> SUFFICES ASSUME Init PROVE TypeOK
    OBVIOUS
  <2>1. matched \in [Fills -> 0..MaxTime] /\ acted \in [Fills -> Nat]
    BY FillsAssumption DEF Init
  <2>2. now \in Times /\ lastRecord \in 0..MaxTime /\ afterTs \in 0..MaxTime
    BY FillsAssumption DEF Init, Times
  <2>q. QED BY <2>1, <2>2 DEF Init, TypeOK
<1>2. TypeOK /\ [Next]_vars => TypeOK'
  <2> SUFFICES ASSUME TypeOK, [Next]_vars PROVE TypeOK'
    OBVIOUS
  <2>1. CASE UNCHANGED vars
    BY <2>1 DEF TypeOK, vars, exchangeVars, monitorVars, tickVars, historyVars
  <2>q. QED BY <2>1, ExchangeTypes, ControlTypes, TickTypes DEF Next
<1>q. QED BY <1>1, <1>2, PTL DEF Spec

-----------------------------------------------------------------------------
(* FillDetection implements FillLedger. *)

\* Is this the fill a handler is at work on?
InHand(f) == pc \in {"cancel", "mark"} /\ f = cur

\* Why no fill is acted on twice: what was acted on is seen, or in hand, and
\* nothing of it is left among the fills the tick has still to handle.
ActInv ==
  \A f \in Fills : acted[f] # 0 =>
    /\ f \in seen \/ InHand(f)
    /\ f \in fills => InHand(f)

\* What the invariant needs of a step that handles no fill and forgets none.
LEMMA ActFrame ==
  ASSUME ActInv, UNCHANGED acted, seen \subseteq seen', fills' \subseteq fills,
         UNCHANGED cur, UNCHANGED pc \/ pc \notin {"cancel", "mark"}
  PROVE  ActInv'
BY DEF ActInv, InHand

LEMMA ActInductive ==
  ASSUME TypeOK, ActInv, [Next]_vars
  PROVE  ActInv'
<1> USE DEF tickVars, monitorVars, historyVars
<1>1. CASE Exchange
  BY <1>1, ActFrame
  DEF Exchange, TimePasses, RecordsAction, Match, Publish, OrderLeaves
<1>2. CASE Control
  <2>1. CASE GoesDown BY <2>1 DEF GoesDown, ActInv
  <2>2. CASE ~GoesDown
    BY <1>2, <2>2, ActFrame
    DEF Control, Start, RecoverAgain, InitWatermark, PrimeSeen, Primed
  <2>q. QED BY <2>1, <2>2
<1>3. CASE Tick
  <2>1. CASE BeginTick \/ FetchOpenOrders
    BY <2>1, ActFrame DEF BeginTick, FetchOpenOrders
  <2>2. CASE RetryPriming
    BY <2>2, ActFrame DEF RetryPriming, Primed
  <2>3. CASE FetchTrades
    BY <2>3 DEF FetchTrades, Returns, ActInv, InHand, TypeOK
  <2>4. CASE TickGivesUp \/ TickEnds
    BY <2>4 DEF TickGivesUp, TickEnds, Returns, ActInv, InHand
  <2>5. CASE \E f \in Fills : HandleFill(f)
    BY <2>5 DEF HandleFill, ActInv, InHand, TypeOK
  <2>6. CASE CancelRemainder \/ KeepRemainder
    BY <2>6 DEF CancelRemainder, KeepRemainder, ActInv, InHand
  <2>7. CASE MarkSeen
    BY <2>7 DEF MarkSeen, ActInv, InHand
  <2>q. QED BY <1>3, <2>1, <2>2, <2>3, <2>4, <2>5, <2>6, <2>7 DEF Tick
<1>4. CASE UNCHANGED vars
  BY <1>4, ActFrame DEF vars, tickVars, monitorVars, historyVars
<1>q. QED BY <1>1, <1>2, <1>3, <1>4 DEF Next

\* A step of the detection is a step of the ledger or leaves the ledger alone.
LEMMA StepsImplement ==
  ASSUME TypeOK, ActInv, [Next]_vars
  PROVE  [Ledger!LedgerNext]_(Ledger!ledgerVars)
<1> USE DEF exchangeVars, tickVars, monitorVars, historyVars, Ledger!ledgerVars
<1>1. CASE Exchange
  <2>1. CASE \E f \in Fills : Publish(f)
    BY <2>1 DEF Publish, Unpublished, Ledger!LedgerNext, Ledger!Publish
  <2>2. CASE ~\E f \in Fills : Publish(f)
    BY <1>1, <2>2 DEF Exchange, TimePasses, RecordsAction, Match, OrderLeaves
  <2>q. QED BY <2>1, <2>2
<1>2. CASE Control
  <2>1. CASE GoesDown
    BY <2>1 DEF GoesDown, Ledger!LedgerNext, Ledger!NewRun
  <2>2. CASE PrimeSeen
    BY <2>2 DEF PrimeSeen, Primed, Ledger!LedgerNext, Ledger!Know
  <2>3. CASE ~GoesDown /\ ~PrimeSeen
    BY <1>2, <2>3 DEF Control, Start, RecoverAgain, InitWatermark
  <2>q. QED BY <2>1, <2>2, <2>3
<1>3. CASE Tick
  <2>1. CASE RetryPriming
    BY <2>1 DEF RetryPriming, Primed, Ledger!LedgerNext, Ledger!Know
  <2>2. CASE \E f \in Fills : HandleFill(f)
    <3>1. PICK f \in Fills : HandleFill(f)
      BY <2>2
    <3>2. f \in published /\ acted[f] = 0
      BY <3>1 DEF HandleFill, ActInv, InHand, TypeOK
    <3>3. Ledger!Act(f) \/ UNCHANGED <<published, seen, acted>>
      BY <3>1, <3>2 DEF HandleFill, Ledger!Act, TypeOK
    <3>q. QED BY <3>3 DEF Ledger!LedgerNext
  <2>3. CASE MarkSeen
    <3>1. {cur} \in SUBSET published /\ seen' = seen \cup {cur}
      BY <2>3 DEF MarkSeen, TypeOK
    <3>q. QED BY <2>3, <3>1 DEF MarkSeen, Ledger!LedgerNext, Ledger!Know
  <2>4. CASE BeginTick \/ FetchTrades \/ TickGivesUp \/ FetchOpenOrders
    BY <2>4 DEF BeginTick, FetchTrades, TickGivesUp, FetchOpenOrders
  <2>5. CASE TickEnds \/ CancelRemainder \/ KeepRemainder
    BY <2>5 DEF TickEnds, CancelRemainder, KeepRemainder
  <2>q. QED BY <1>3, <2>1, <2>2, <2>3, <2>4, <2>5 DEF Tick
<1>4. CASE UNCHANGED vars
  BY <1>4 DEF vars
<1>q. QED BY <1>1, <1>2, <1>3, <1>4 DEF Next

\* Each run of the monitor acts only on published fills, and on each at most
\* once, however often fills are returned again, handlers fail and recovery
\* primes in the middle of a tick: fill detection implements the ledger.
THEOREM ImplementsLedger == Spec => ActsAtMostOnce
<1>1. Init => Ledger!LedgerInit /\ ActInv
  BY DEF Init, Ledger!LedgerInit, ActInv
<1>2. TypeOK /\ ActInv /\ [Next]_vars => ActInv'
  BY ActInductive
<1>3. TypeOK /\ ActInv /\ [Next]_vars => [Ledger!LedgerNext]_(Ledger!ledgerVars)
  BY StepsImplement
<1>q. QED BY <1>1, <1>2, <1>3, TypeCorrect, PTL DEF Spec, ActsAtMostOnce, Ledger!LedgerSpec

-----------------------------------------------------------------------------
(* Recovery replays nothing. *)

\* A worker that is down remembers nothing; a recovered one whose priming is
\* not pending has seen all that was public when it started, and so has every
\* tick that began after recovery, from its fetch on: its fills are new.
PrimedInv ==
  /\ ~up => pc = "idle" /\ ~recovered /\ rpc = "none"
  /\ rpc # "none" => up
  /\ pc = "idle" => ~clean
  /\ pc \in {"idle", "reprime", "fetch"} => fills = {}
  /\ recovered /\ ~pending => before \subseteq seen
  /\ pc \notin {"idle", "reprime"} /\ clean =>
       before \subseteq seen /\ fills \cap before = {}

LEMMA PrimedInductive ==
  ASSUME TypeOK, PrimedInv, [Next]_vars
  PROVE  PrimedInv'
<1> USE DEF TypeOK, PrimedInv, exchangeVars, tickVars, monitorVars, historyVars
<1>1. CASE Exchange
  BY <1>1 DEF Exchange, TimePasses, RecordsAction, Match, Publish, OrderLeaves
<1>2. CASE Control
  <2>1. CASE \E primes \in BOOLEAN : Start(primes) BY <2>1 DEF Start
  <2>2. CASE RecoverAgain BY <2>2 DEF RecoverAgain
  <2>3. CASE GoesDown BY <2>3 DEF GoesDown, Returns
  <2>4. CASE InitWatermark BY <2>4 DEF InitWatermark
  <2>5. CASE PrimeSeen BY <2>5 DEF PrimeSeen, Primed
  <2>q. QED BY <1>2, <2>1, <2>2, <2>3, <2>4, <2>5 DEF Control
<1>3. CASE Tick
  <2>1. CASE BeginTick BY <2>1 DEF BeginTick
  <2>2. CASE RetryPriming BY <2>2 DEF RetryPriming, Primed
  <2>3. CASE FetchTrades BY <2>3 DEF FetchTrades, Returns
  <2>4. CASE TickGivesUp BY <2>4 DEF TickGivesUp, Returns
  <2>5. CASE FetchOpenOrders BY <2>5 DEF FetchOpenOrders
  <2>6. CASE \E f \in Fills : HandleFill(f) BY <2>6 DEF HandleFill
  <2>7. CASE TickEnds BY <2>7 DEF TickEnds, Returns
  <2>8. CASE CancelRemainder BY <2>8 DEF CancelRemainder
  <2>9. CASE KeepRemainder BY <2>9 DEF KeepRemainder
  <2>10. CASE MarkSeen BY <2>10 DEF MarkSeen
  <2>q. QED BY <1>3, <2>1, <2>2, <2>3, <2>4, <2>5, <2>6, <2>7, <2>8, <2>9, <2>10 DEF Tick
<1>4. CASE UNCHANGED vars
  BY <1>4 DEF vars
<1>q. QED BY <1>1, <1>2, <1>3, <1>4 DEF Next

\* A tick that began after startup_recovery, even one whose priming failed,
\* never handles a fill that was public when the worker started.
THEOREM NothingReplayed == Spec => []NoReplayAfterRecovery
<1>1. Init => PrimedInv
  BY DEF Init, PrimedInv
<1>2. TypeOK /\ PrimedInv /\ [Next]_vars => PrimedInv'
  BY PrimedInductive
<1>3. TypeOK /\ PrimedInv => NoReplayAfterRecovery
  BY DEF TypeOK, PrimedInv, NoReplayAfterRecovery
<1>q. QED BY <1>1, <1>2, <1>3, TypeCorrect, PTL DEF Spec

-----------------------------------------------------------------------------
(* Cancellations. *)

\* From its fetch on a tick knows of no open order that was not on the book as
\* it fetched the fills.
BookInv ==
  /\ openIds \subseteq bookThen
  /\ pc \in {"idle", "reprime", "fetch"} => openIds = {}
  /\ pc \notin {"idle", "reprime", "fetch"} => open \subseteq bookThen

LEMMA BookInductive ==
  ASSUME BookInv, [Next]_vars
  PROVE  BookInv' /\ cancelled' \ cancelled \subseteq bookThen
<1> USE DEF BookInv, exchangeVars, tickVars, monitorVars, historyVars
<1>1. CASE Exchange
  BY <1>1 DEF Exchange, TimePasses, RecordsAction, Match, Publish, OrderLeaves
<1>2. CASE Control
  BY <1>2 DEF Control, Start, RecoverAgain, GoesDown, Returns, InitWatermark, PrimeSeen
<1>3. CASE Tick
  <2>1. CASE BeginTick \/ RetryPriming BY <2>1 DEF BeginTick, RetryPriming
  <2>2. CASE FetchTrades BY <2>2 DEF FetchTrades, Returns
  <2>3. CASE TickGivesUp \/ TickEnds BY <2>3 DEF TickGivesUp, TickEnds, Returns
  <2>4. CASE FetchOpenOrders BY <2>4 DEF FetchOpenOrders
  <2>5. CASE \E f \in Fills : HandleFill(f) BY <2>5 DEF HandleFill
  <2>6. CASE CancelRemainder BY <2>6 DEF CancelRemainder
  <2>7. CASE KeepRemainder \/ MarkSeen BY <2>7 DEF KeepRemainder, MarkSeen
  <2>q. QED BY <1>3, <2>1, <2>2, <2>3, <2>4, <2>5, <2>6, <2>7 DEF Tick
<1>4. CASE UNCHANGED vars
  BY <1>4 DEF vars
<1>q. QED BY <1>1, <1>2, <1>3, <1>4 DEF Next

\* A tick cancels only what was on the book when it fetched the fills.
THEOREM CancelsWhatWasOpen == Spec => NoPhantomCancel
<1>1. Init => BookInv
  BY DEF Init, BookInv
<1>2. BookInv /\ [Next]_vars => BookInv'
  BY BookInductive
<1>3. BookInv /\ [Next]_vars => [cancelled' \ cancelled \subseteq bookThen]_vars
  BY BookInductive
<1>q. QED BY <1>1, <1>2, <1>3, PTL DEF Spec, NoPhantomCancel

=============================================================================
