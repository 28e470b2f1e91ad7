----------------------- MODULE EngineLifecycle_proofs -----------------------
(***************************************************************************)
(* Theorems about EngineLifecycle, for any set of wallets, any number of   *)
(* requests served at once and any bounds.  The two races that the code    *)
(* leaves open are named by the history variables overlapped and crossed;  *)
(* everything else is shown of every interleaving.                         *)
(***************************************************************************)
EXTENDS EngineLifecycle, TLAPS

-----------------------------------------------------------------------------
(* Type correctness. *)

\* A control call keeps the types of its own bookkeeping.
LEMMA ControlCallTypes ==
  ASSUME TypeOK, NEW c \in Operators, ControlStep(c)
  PROVE  CallTypes'
<1> USE BoundsAssumption
    DEF TypeOK, CallTypes, Call, Weight, Goto, Release, Return, Disturb, callVars, races,
        NoWorker, CallPcs, Calls, Phases
<1>1. CASE StartAll(c) BY <1>1 DEF StartAll
<1>2. CASE StartMonitors(c) BY <1>2 DEF StartMonitors
<1>3. CASE StartWallet(c) BY <1>3 DEF StartWallet
<1>4. CASE CheckWallet(c) BY <1>4 DEF CheckWallet
<1>5. CASE RegisterWorker(c) BY <1>5 DEF RegisterWorker
<1>6. CASE CreateFails(c) BY <1>6 DEF CreateFails
<1>7. CASE WalletsStarted(c) BY <1>7 DEF WalletsStarted
<1>8. CASE BumpGeneration(c) BY <1>8 DEF BumpGeneration
<1>9. CASE ClearStop(c) BY <1>9 DEF ClearStop, EngineTypes
<1>10. CASE SpawnLoop(c) BY <1>10 DEF SpawnLoop
<1>11. CASE StopAll(c) BY <1>11 DEF StopAll
<1>12. CASE JoinLoop(c) BY <1>12 DEF JoinLoop
<1>13. CASE StopWallet(c) BY <1>13 DEF StopWallet
<1>14. CASE PopWorker(c) BY <1>14 DEF PopWorker, EngineTypes, WorkerTypes, NoWorker, Registered
<1>15. CASE JoinWorker(c) BY <1>15 DEF JoinWorker
<1>16. CASE CancelBuys(c) BY <1>16 DEF CancelBuys
<1>17. CASE WalletsStopped(c) BY <1>17 DEF WalletsStopped
<1>18. CASE CancelAllBuyOrders(c) BY <1>18 DEF CancelAllBuyOrders
<1>19. CASE SweepWallet(c) BY <1>19 DEF SweepWallet
<1>20. CASE PlaceAllOrders(c) BY <1>20 DEF PlaceAllOrders
<1>21. CASE ManualPass(c) BY <1>21 DEF ManualPass
<1>22. CASE TestPlaceOrders(c) BY <1>22 DEF TestPlaceOrders
<1>23. CASE ManualBuy(c) BY <1>23 DEF ManualBuy
<1>24. CASE ManualPassEnds(c) BY <1>24 DEF ManualPassEnds
<1>25. CASE ManualDone(c) BY <1>25 DEF ManualDone
<1>26. CASE LaunchWorker(c) BY <1>26 DEF LaunchWorker
<1>q. QED BY <1>1, <1>2, <1>3, <1>4, <1>5, <1>6, <1>7, <1>8, <1>9, <1>10, <1>11, <1>12,
         <1>13, <1>14, <1>15, <1>16, <1>17, <1>18, <1>19, <1>20, <1>21, <1>22, <1>23, <1>24, <1>25, <1>26 DEF ControlStep

\* A control call keeps the types of the shared engine state.
LEMMA ControlEngineTypes ==
  ASSUME TypeOK, NEW c \in Operators, ControlStep(c)
  PROVE  EngineTypes'
<1> USE DEF TypeOK, EngineTypes
<1>1. CASE StartAll(c) BY <1>1 DEF StartAll
<1>2. CASE StartMonitors(c) BY <1>2 DEF StartMonitors
<1>3. CASE StartWallet(c) BY <1>3 DEF StartWallet
<1>4. CASE CheckWallet(c) BY <1>4 DEF CheckWallet
<1>5. CASE RegisterWorker(c) BY <1>5 DEF RegisterWorker
<1>6. CASE CreateFails(c) BY <1>6 DEF CreateFails
<1>7. CASE WalletsStarted(c) BY <1>7 DEF WalletsStarted
<1>8. CASE BumpGeneration(c) BY <1>8 DEF BumpGeneration
<1>9. CASE ClearStop(c) BY <1>9 DEF ClearStop
<1>10. CASE SpawnLoop(c) BY <1>10 DEF SpawnLoop
<1>11. CASE StopAll(c) BY <1>11 DEF StopAll
<1>12. CASE JoinLoop(c) BY <1>12 DEF JoinLoop
<1>13. CASE StopWallet(c) BY <1>13 DEF StopWallet
<1>14. CASE PopWorker(c) BY <1>14 DEF PopWorker, NoWorker
<1>15. CASE JoinWorker(c) BY <1>15 DEF JoinWorker
<1>16. CASE CancelBuys(c) BY <1>16 DEF CancelBuys
<1>17. CASE WalletsStopped(c) BY <1>17 DEF WalletsStopped
<1>18. CASE CancelAllBuyOrders(c) BY <1>18 DEF CancelAllBuyOrders
<1>19. CASE SweepWallet(c) BY <1>19 DEF SweepWallet, IsRunning, Registered
<1>20. CASE PlaceAllOrders(c) BY <1>20 DEF PlaceAllOrders
<1>21. CASE ManualPass(c) BY <1>21 DEF ManualPass
<1>22. CASE TestPlaceOrders(c) BY <1>22 DEF TestPlaceOrders
<1>23. CASE ManualBuy(c) BY <1>23 DEF ManualBuy
<1>24. CASE ManualPassEnds(c) BY <1>24 DEF ManualPassEnds
<1>25. CASE ManualDone(c) BY <1>25 DEF ManualDone
<1>26. CASE LaunchWorker(c) BY <1>26 DEF LaunchWorker
<1>q. QED BY <1>1, <1>2, <1>3, <1>4, <1>5, <1>6, <1>7, <1>8, <1>9, <1>10, <1>11, <1>12,
         <1>13, <1>14, <1>15, <1>16, <1>17, <1>18, <1>19, <1>20, <1>21, <1>22, <1>23, <1>24, <1>25, <1>26 DEF ControlStep

\* A control call keeps the types of the scanner threads and the workers.
LEMMA ControlThreadTypes ==
  ASSUME TypeOK, NEW c \in Operators, ControlStep(c)
  PROVE  LoopTypes' /\ WorkerTypes'
<1> USE DEF TypeOK, LoopTypes, WorkerTypes, loopVars, workerVars
<1>1. CASE StartAll(c) BY <1>1 DEF StartAll
<1>2. CASE StartMonitors(c) BY <1>2 DEF StartMonitors
<1>3. CASE StartWallet(c) BY <1>3 DEF StartWallet
<1>4. CASE CheckWallet(c) BY <1>4 DEF CheckWallet
<1>5. CASE RegisterWorker(c) BY <1>5 DEF RegisterWorker, CallTypes
<1>6. CASE CreateFails(c) BY <1>6 DEF CreateFails
<1>7. CASE WalletsStarted(c) BY <1>7 DEF WalletsStarted
<1>8. CASE BumpGeneration(c) BY <1>8 DEF BumpGeneration
<1>9. CASE ClearStop(c) BY <1>9 DEF ClearStop
<1>10. CASE SpawnLoop(c) BY <1>10 DEF SpawnLoop, CallTypes, LoopPcs
<1>11. CASE StopAll(c) BY <1>11 DEF StopAll
<1>12. CASE JoinLoop(c) BY <1>12 DEF JoinLoop
<1>13. CASE StopWallet(c) BY <1>13 DEF StopWallet
<1>14. CASE PopWorker(c) BY <1>14 DEF PopWorker
<1>15. CASE JoinWorker(c) BY <1>15 DEF JoinWorker
<1>16. CASE CancelBuys(c) BY <1>16 DEF CancelBuys
<1>17. CASE WalletsStopped(c) BY <1>17 DEF WalletsStopped
<1>18. CASE CancelAllBuyOrders(c) BY <1>18 DEF CancelAllBuyOrders
<1>19. CASE SweepWallet(c) BY <1>19 DEF SweepWallet
<1>20. CASE PlaceAllOrders(c) BY <1>20 DEF PlaceAllOrders
<1>21. CASE ManualPass(c) BY <1>21 DEF ManualPass
<1>22. CASE TestPlaceOrders(c) BY <1>22 DEF TestPlaceOrders
<1>23. CASE ManualBuy(c) BY <1>23 DEF ManualBuy
<1>24. CASE ManualPassEnds(c) BY <1>24 DEF ManualPassEnds
<1>25. CASE ManualDone(c) BY <1>25 DEF ManualDone
<1>26. CASE LaunchWorker(c) BY <1>26 DEF LaunchWorker
<1>q. QED BY <1>1, <1>2, <1>3, <1>4, <1>5, <1>6, <1>7, <1>8, <1>9, <1>10, <1>11, <1>12,
         <1>13, <1>14, <1>15, <1>16, <1>17, <1>18, <1>19, <1>20, <1>21, <1>22, <1>23, <1>24, <1>25, <1>26 DEF ControlStep

\* A control call holds the wallet or the worker it works on.
LEMMA ControlHandleTypes ==
  ASSUME TypeOK, NEW c \in Operators, ControlStep(c)
  PROVE  HandleTypes'
<1> USE DEF TypeOK, CallTypes, HandleTypes, Call, Goto, Release, Return, callVars, races
<1>1. CASE StartAll(c) BY <1>1 DEF StartAll
<1>2. CASE StartMonitors(c) BY <1>2 DEF StartMonitors
<1>3. CASE StartWallet(c) BY <1>3 DEF StartWallet
<1>4. CASE CheckWallet(c) BY <1>4 DEF CheckWallet
<1>5. CASE RegisterWorker(c) BY <1>5 DEF RegisterWorker
<1>6. CASE CreateFails(c) BY <1>6 DEF CreateFails
<1>7. CASE WalletsStarted(c) BY <1>7 DEF WalletsStarted
<1>8. CASE BumpGeneration(c) BY <1>8 DEF BumpGeneration
<1>9. CASE ClearStop(c) BY <1>9 DEF ClearStop
<1>10. CASE SpawnLoop(c) BY <1>10 DEF SpawnLoop
<1>11. CASE StopAll(c) BY <1>11 DEF StopAll
<1>12. CASE JoinLoop(c) BY <1>12 DEF JoinLoop
<1>13. CASE StopWallet(c) BY <1>13 DEF StopWallet
<1>14. CASE PopWorker(c) BY <1>14 DEF PopWorker, Registered, EngineTypes
<1>15. CASE JoinWorker(c) BY <1>15 DEF JoinWorker
<1>16. CASE CancelBuys(c) BY <1>16 DEF CancelBuys
<1>17. CASE WalletsStopped(c) BY <1>17 DEF WalletsStopped
<1>18. CASE CancelAllBuyOrders(c) BY <1>18 DEF CancelAllBuyOrders
<1>19. CASE SweepWallet(c) BY <1>19 DEF SweepWallet
<1>20. CASE PlaceAllOrders(c) BY <1>20 DEF PlaceAllOrders
<1>21. CASE ManualPass(c) BY <1>21 DEF ManualPass
<1>22. CASE TestPlaceOrders(c) BY <1>22 DEF TestPlaceOrders
<1>23. CASE ManualBuy(c) BY <1>23 DEF ManualBuy
<1>24. CASE ManualPassEnds(c) BY <1>24 DEF ManualPassEnds
<1>25. CASE ManualDone(c) BY <1>25 DEF ManualDone
<1>26. CASE LaunchWorker(c) BY <1>26 DEF LaunchWorker
<1>q. QED BY <1>1, <1>2, <1>3, <1>4, <1>5, <1>6, <1>7, <1>8, <1>9, <1>10, <1>11, <1>12,
         <1>13, <1>14, <1>15, <1>16, <1>17, <1>18, <1>19, <1>20, <1>21, <1>22, <1>23, <1>24, <1>25, <1>26 DEF ControlStep
\* A scanner thread's own step changes only where it stands and its tasks.
LEMMA LoopStepTypes ==
  ASSUME TypeOK, NEW l \in Loops, LoopStep(l)
  PROVE  TypeOK'
<1>1. EngineTypes' /\ WorkerTypes' /\ CallTypes' /\ HandleTypes'
  BY DEF TypeOK, EngineTypes, WorkerTypes, CallTypes, HandleTypes, workerVars, callVars, races, LoopStep,
         LoopFrame, LoopTop, DiscoverCancelled, DiscoverEnds, PlaceRound, RoundEnds,
         LoopTail, LoopWakes
<1>2. loopGen' \in [Loops -> Nat]
  BY DEF TypeOK, LoopTypes, LoopStep, LoopFrame, LoopTop, DiscoverCancelled,
         DiscoverEnds, PlaceRound, RoundEnds, LoopTail, LoopWakes
<1>3. loopPc' \in [Loops -> LoopPcs]
  BY DEF TypeOK, LoopTypes, LoopPcs, LoopStep, Step, LoopTop, DiscoverCancelled,
         DiscoverEnds, PlaceRound, RoundEnds, LoopTail, LoopWakes
<1>4. task' \in [Loops -> [Wallets -> TaskPcs]]
  <2>1. CASE PlaceRound(l)
    BY <2>1 DEF TypeOK, LoopTypes, TaskPcs, PlaceRound
  <2>2. CASE ~PlaceRound(l)
    BY <2>2 DEF TypeOK, LoopTypes, LoopStep, LoopTop, DiscoverCancelled,
                DiscoverEnds, RoundEnds, LoopTail, LoopWakes
  <2>3. QED BY <2>1, <2>2
<1>5. QED BY <1>1, <1>2, <1>3, <1>4 DEF TypeOK, LoopTypes

\* A placement task's step keeps the types.
LEMMA TaskStepTypes ==
  ASSUME TypeOK, NEW l \in Loops, NEW w \in Wallets, TaskProgress(l, w) \/ TaskBuys(l, w)
  PROVE  TypeOK'
<1>1. WorkerTypes' /\ CallTypes' /\ HandleTypes'
  BY DEF TypeOK, WorkerTypes, CallTypes, HandleTypes, workerVars, callVars, races, TaskProgress,
         TaskChecksGeneration, TaskLooksUpWorker, TaskEnds, TaskStep, TaskBuys
<1>2. EngineTypes'
  BY DEF TypeOK, EngineTypes, TaskProgress,
         TaskChecksGeneration, TaskLooksUpWorker, TaskEnds, TaskStep, TaskBuys
<1>3. LoopTypes'
  BY DEF TypeOK, LoopTypes, loopVars, TaskPcs, TaskProgress,
         TaskChecksGeneration, TaskLooksUpWorker, TaskEnds, TaskStep, TaskBuys
<1>4. QED BY <1>1, <1>2, <1>3 DEF TypeOK

\* A monitor thread's step keeps the types.
LEMMA MonitorStepTypes ==
  ASSUME TypeOK, NEW k \in Workers, MonitorCancels(k) \/ MonitorExits(k)
  PROVE  TypeOK'
<1>1. LoopTypes' /\ CallTypes' /\ HandleTypes'
  BY DEF TypeOK, LoopTypes, CallTypes, HandleTypes, loopVars, callVars, races, MonitorCancels, MonitorExits
<1>2. EngineTypes' /\ WorkerTypes'
  BY DEF TypeOK, EngineTypes, WorkerTypes, workerVars, MonitorCancels, MonitorExits
<1>3. QED BY <1>1, <1>2 DEF TypeOK

\* Every variable keeps its type, whatever the number of operators.
THEOREM TypeCorrect == Spec => []TypeOK
<1>1. Init => TypeOK
  <2> SUFFICES ASSUME Init PROVE TypeOK
    OBVIOUS
  <2>1. EngineTypes
    BY DEF Init, EngineTypes
  <2>2. LoopTypes
    BY DEF Init, LoopTypes, LoopPcs, TaskPcs
  <2>3. WorkerTypes
    BY DEF Init, WorkerTypes
  <2>4. CallTypes
    <3>1. overlapped \in SUBSET Wallets /\ crossed \in BOOLEAN
      BY DEF Init
    <3>2. QED
      BY <3>1, BoundsAssumption DEF Init, CallTypes, CallPcs, Calls, Phases
  <2>5. HandleTypes
    BY DEF Init, HandleTypes
  <2>6. QED BY <2>1, <2>2, <2>3, <2>4, <2>5 DEF TypeOK
<1>2. TypeOK /\ [Next]_vars => TypeOK'
  <2> SUFFICES ASSUME TypeOK, [Next]_vars PROVE TypeOK'
    OBVIOUS
  <2>1. ASSUME NEW c \in Operators, ControlStep(c) PROVE TypeOK'
    BY <2>1, ControlCallTypes, ControlEngineTypes, ControlThreadTypes,
       ControlHandleTypes DEF TypeOK
  <2>2. CASE UNCHANGED vars
    BY <2>2 DEF vars, TypeOK, EngineTypes, LoopTypes, WorkerTypes, CallTypes, HandleTypes, loopVars,
                workerVars, callVars, races
  <2>3. QED
    BY <2>1, <2>2, LoopStepTypes, TaskStepTypes, MonitorStepTypes DEF Next
<1>3. QED
  BY <1>1, <1>2, PTL DEF Spec

-----------------------------------------------------------------------------
(* One scanner thread per generation.                                      *)

\* A start_all that will spawn a scanner thread of the current generation.
Holder(c) == pc[c] = "clear" \/ (pc[c] = "spawn" /\ myGen[c] = engineGen)

\* The inductive invariant: no live thread is ahead of the generation counter,
\* so that bumping it makes all of them stale; unless two start_all have drawn
\* the same generation, at most one call holds the current one, and while it
\* does no thread is current.
GenInv ==
  /\ \A l \in Loops : Live(l) => loopGen[l] <= engineGen
  /\ \A c \in Operators : pc[c] = "spawn" => myGen[c] <= engineGen
  /\ OneCurrentLoop
  /\ ~crossed => \A c, d \in Operators : Holder(c) /\ Holder(d) => c = d
  /\ ~crossed => \A c \in Operators : Holder(c) => \A l \in Loops : ~Current(l)

\* Steps that leave the scanner threads and the generation alone and enter
\* neither half of the hand-over.
LEMMA GenFrame ==
  ASSUME GenInv, UNCHANGED <<engineGen, loopPc, loopGen, crossed>>,
         \A c \in Operators : pc'[c] \in {"clear", "spawn"} =>
           pc'[c] = pc[c] /\ myGen'[c] = myGen[c]
  PROVE  GenInv'
BY DEF GenInv, OneCurrentLoop, Holder, Current, Live, Stale

\* Control steps preserve the invariant.
LEMMA GenControl ==
  ASSUME TypeOK, GenInv, NEW c \in Operators, ControlStep(c)
  PROVE  GenInv'
<1> USE DEF TypeOK, CallTypes, callVars, loopVars, races
<1>1. CASE StartAll(c) \/ StartMonitors(c) \/ StartWallet(c) \/ StopWallet(c)
  BY <1>1, GenFrame DEF StartAll, StartMonitors, StartWallet, StopWallet, Call
<1>2. CASE CancelAllBuyOrders(c) \/ PlaceAllOrders(c) \/ TestPlaceOrders(c)
  BY <1>2, GenFrame DEF CancelAllBuyOrders, PlaceAllOrders, TestPlaceOrders, Call
<1>3. CASE CheckWallet(c) \/ RegisterWorker(c) \/ LaunchWorker(c) \/ CreateFails(c)
  BY <1>3, GenFrame
     DEF CheckWallet, RegisterWorker, LaunchWorker, CreateFails, Goto, Release, Return
<1>4. CASE WalletsStarted(c) \/ WalletsStopped(c)
  BY <1>4, GenFrame DEF WalletsStarted, WalletsStopped, Goto, Release, Return
<1>5. CASE JoinLoop(c) \/ PopWorker(c) \/ JoinWorker(c) \/ CancelBuys(c)
  BY <1>5, GenFrame DEF JoinLoop, PopWorker, JoinWorker, CancelBuys, Goto, Release
<1>6. CASE SweepWallet(c) \/ ManualPass(c) \/ ManualBuy(c) \/ ManualPassEnds(c) \/ ManualDone(c)
  BY <1>6, GenFrame
     DEF SweepWallet, ManualPass, ManualBuy, ManualPassEnds, ManualDone, Goto, Release, Return
\* The threads and the calls that held the old generation are left behind by a bump.
<1>7. CASE BumpGeneration(c)
  <2>1. \A l \in Loops : ~Current(l)'
    BY <1>7 DEF BumpGeneration, GenInv, Current, Live, Stale, LoopTypes, EngineTypes
  <2>2. \A l \in Loops : Live(l)' => loopGen'[l] <= engineGen'
    BY <1>7 DEF BumpGeneration, GenInv, Live, LoopTypes, EngineTypes
  <2>3. \A d \in Operators : pc'[d] = "spawn" => pc[d] = "spawn" /\ myGen'[d] < engineGen'
    BY <1>7 DEF BumpGeneration, Goto, GenInv, EngineTypes
  <2>4. ~crossed' => \A d \in Operators : Holder(d)' => d = c
    <3>1. ~crossed' => \A d \in Operators : pc[d] # "clear"
      BY <1>7, Zenon DEF BumpGeneration
    <3>2. \A d \in Operators : pc'[d] = "spawn" => myGen'[d] # engineGen'
      BY <1>7, <2>3 DEF BumpGeneration, EngineTypes
    <3>3. \A d \in Operators : d # c /\ pc'[d] = "clear" => pc[d] = "clear"
      BY <1>7 DEF BumpGeneration, Goto
    <3>4. QED BY <3>1, <3>2, <3>3 DEF Holder
  <2>5. QED
    BY <2>1, <2>2, <2>3, <2>4, <1>7 DEF GenInv, OneCurrentLoop, BumpGeneration, EngineTypes
<1>8. CASE ClearStop(c)
  <2>1. UNCHANGED <<engineGen, loopPc, loopGen, crossed>>
    BY <1>8 DEF ClearStop
  <2>2. Holder(c) /\ \A d \in Operators : Holder(d)' => Holder(d)
    BY <1>8 DEF ClearStop, Goto, Holder
  <2>3. \A d \in Operators : pc'[d] = "spawn" => myGen'[d] <= engineGen'
    BY <1>8 DEF ClearStop, Goto, GenInv, EngineTypes
  <2>4. QED
    BY <2>1, <2>2, <2>3 DEF GenInv, OneCurrentLoop, Current, Live, Stale
<1>9. CASE SpawnLoop(c)
  <2>1. PICK l \in Loops : loopPc' = [loopPc EXCEPT ![l] = "top"]
                           /\ loopGen' = [loopGen EXCEPT ![l] = myGen[c]]
    BY <1>9 DEF SpawnLoop
  <2>2. UNCHANGED <<engineGen, crossed>> /\ pc[c] = "spawn"
    BY <1>9 DEF SpawnLoop
  <2>3. \A d \in Operators : Holder(d)' => d # c /\ Holder(d)
    BY <1>9 DEF SpawnLoop, Return, Release, Goto, Holder
  <2>4. \A m \in Loops : Live(m)' => loopGen'[m] <= engineGen'
    BY <2>1, <2>2 DEF GenInv, Live, LoopTypes, EngineTypes
  <2>5. \A d \in Operators : pc'[d] = "spawn" => myGen'[d] <= engineGen'
    BY <1>9 DEF SpawnLoop, Return, Release, Goto, GenInv
  <2>6. \A m \in Loops : Current(m)' => IF m = l THEN Holder(c) ELSE Current(m)
    BY <2>1, <2>2 DEF Current, Live, Stale, Holder, LoopTypes
  <2>7. QED
    BY <2>2, <2>3, <2>4, <2>5, <2>6 DEF GenInv, OneCurrentLoop
<1>10. CASE StopAll(c)
  <2>1. \A l \in Loops : Live(l)' => loopGen'[l] < engineGen'
    BY <1>10 DEF StopAll, GenInv, Live, LoopTypes, EngineTypes
  <2>2. \A l \in Loops : ~Current(l)'
    BY <1>10, <2>1 DEF Current, Stale, LoopTypes, EngineTypes, StopAll
  <2>3. \A d \in Operators : pc'[d] = "spawn" => pc[d] = "spawn" /\ myGen'[d] < engineGen'
    BY <1>10 DEF StopAll, Call, GenInv, EngineTypes
  <2>4. \A d \in Operators : Holder(d)' => Holder(d)
    BY <1>10, <2>3 DEF StopAll, Call, Holder, EngineTypes
  <2>5. UNCHANGED crossed /\ engineGen' \in Nat /\ \A l \in Loops : loopGen'[l] \in Nat
    BY <1>10 DEF StopAll, Call, EngineTypes, LoopTypes
  <2>6. \A l \in Loops : Live(l)' => loopGen'[l] <= engineGen'
    BY <2>1, <2>5
  <2>7. \A d \in Operators : pc'[d] = "spawn" => myGen'[d] <= engineGen'
    BY <1>10, <2>3, <2>5 DEF StopAll, Call
  <2>8. QED
    BY <2>2, <2>4, <2>5, <2>6, <2>7 DEF GenInv, OneCurrentLoop
<1>11. QED
  BY <1>1, <1>2, <1>3, <1>4, <1>5, <1>6, <1>7, <1>8, <1>9, <1>10 DEF ControlStep

\* A scanner thread ends only when it is stale or told to stop.
LEMMA LoopEnds ==
  ASSUME TypeOK, NEW l \in Loops, LoopStep(l)
  PROVE  /\ UNCHANGED <<engineGen, stopSet, loopGen, callVars>>
         /\ \A m \in Loops : Live(m)' => Live(m)
         /\ ~stopSet => \A m \in Loops : Current(m) => Live(m)'
<1>1. UNCHANGED <<engineGen, stopSet, loopGen, callVars>>
  BY DEF LoopStep, LoopFrame, LoopTop, DiscoverCancelled, DiscoverEnds,
         PlaceRound, RoundEnds, LoopTail, LoopWakes
<1>2. /\ Live(l)
      /\ \E where \in LoopPcs : loopPc' = [loopPc EXCEPT ![l] = where]
  BY DEF LoopStep, Step, Live, LoopPcs, LoopTop, DiscoverCancelled, DiscoverEnds,
         PlaceRound, RoundEnds, LoopTail, LoopWakes
<1>3. ~stopSet /\ Current(l) => Live(l)'
  BY DEF TypeOK, LoopTypes, LoopStep, Step, Live, Current, LoopTop, DiscoverCancelled,
         DiscoverEnds, PlaceRound, RoundEnds, LoopTail, LoopWakes
<1>4. \A m \in Loops : m # l => (Live(m)' <=> Live(m))
  BY <1>2 DEF TypeOK, LoopTypes, Live
<1>5. QED
  BY <1>1, <1>2, <1>3, <1>4 DEF Current

\* At most one scanner thread is ever current, whichever requests are served at
\* once and however many joins time out, but for two start_all that draw the
\* same generation: an old thread cannot survive a restart by having missed the
\* event that start_all clears (manager.py 825-832, 867-875).
THEOREM OneCurrentLoopHolds == Spec => []OneCurrentLoop
<1>1. Init => GenInv
  BY DEF Init, GenInv, OneCurrentLoop, Holder, Current, Live
<1>2. TypeOK /\ GenInv /\ [Next]_vars => GenInv'
  <2> SUFFICES ASSUME TypeOK, GenInv, [Next]_vars PROVE GenInv'
    OBVIOUS
  <2>1. ASSUME NEW l \in Loops, NEW w \in Wallets, TaskProgress(l, w) \/ TaskBuys(l, w)
        PROVE GenInv'
    BY <2>1, GenFrame DEF TaskProgress, TaskChecksGeneration, TaskLooksUpWorker,
                          TaskEnds, TaskStep, TaskBuys, callVars, races, loopVars
  <2>2. ASSUME NEW k \in Workers, MonitorCancels(k) \/ MonitorExits(k) PROVE GenInv'
    BY <2>2, GenFrame DEF MonitorCancels, MonitorExits, callVars, races, loopVars
  <2>3. ASSUME NEW l \in Loops, LoopStep(l) PROVE GenInv'
    <3>1. /\ UNCHANGED <<engineGen, loopGen, pc, myGen, crossed>>
          /\ \A m \in Loops : Live(m)' => Live(m)
      BY <2>3, LoopEnds DEF callVars, races
    <3>2. \A m \in Loops : Current(m)' => Current(m)
      BY <3>1 DEF Current, Stale
    <3>3. QED
      BY <3>1, <3>2 DEF GenInv, OneCurrentLoop, Holder
  <2>4. CASE UNCHANGED vars
    BY <2>4, GenFrame DEF vars, callVars, races, loopVars
  <2>5. QED
    BY <2>1, <2>2, <2>3, <2>4, GenControl DEF Next
<1>3. GenInv => OneCurrentLoop
  BY DEF GenInv
<1>4. QED
  BY <1>1, <1>2, <1>3, TypeCorrect, PTL DEF Spec

-----------------------------------------------------------------------------
(* A started engine has a scanner thread.                                  *)

\* The inductive invariant: the start_all that is under way alone has cleared
\* the event and read the generation that its thread will have; once the engine
\* is up no call is between the two.
UpInv ==
  /\ StartedEngineHasLoop
  /\ phase = "starting" => \A c, d \in Operators : pc[c] # "idle" /\ pc[d] # "idle" => c = d
  /\ phase = "starting" => \A c \in Operators :
       pc[c] = "spawn" => ~stopSet /\ myGen[c] = engineGen
  /\ phase = "up" => \A c \in Operators : pc[c] \notin {"clear", "spawn"}

\* Steps that leave the scanner threads, the generation and the event alone, enter
\* neither half of the hand-over, and neither start a call nor a phase.
LEMMA UpFrame ==
  ASSUME UpInv, UNCHANGED <<engineGen, stopSet, loopPc, loopGen>>,
         phase' \in {"starting", "up"} => phase' = phase,
         \A c \in Operators : pc'[c] \in {"clear", "spawn"} =>
           pc'[c] = pc[c] /\ myGen'[c] = myGen[c],
         phase' = "starting" => \A c \in Operators : pc[c] = "idle" => pc'[c] = "idle"
  PROVE  UpInv'
BY DEF UpInv, StartedEngineHasLoop, Current, Live, Stale

\* Control steps preserve the invariant.
LEMMA UpControl ==
  ASSUME TypeOK, UpInv, NEW c \in Operators, ControlStep(c)
  PROVE  UpInv'
<1> USE DEF TypeOK, CallTypes, callVars, loopVars, races
<1>1. CASE StartAll(c) \/ StartMonitors(c) \/ StartWallet(c) \/ StopWallet(c)
  BY <1>1, UpFrame DEF StartAll, StartMonitors, StartWallet, StopWallet, Call, Disturb
<1>2. CASE CancelAllBuyOrders(c) \/ PlaceAllOrders(c) \/ TestPlaceOrders(c)
  BY <1>2, UpFrame DEF CancelAllBuyOrders, PlaceAllOrders, TestPlaceOrders, Call, Disturb
<1>3. CASE CheckWallet(c) \/ RegisterWorker(c) \/ LaunchWorker(c) \/ CreateFails(c)
  BY <1>3, UpFrame
     DEF CheckWallet, RegisterWorker, LaunchWorker, CreateFails, Goto, Release, Return
<1>4. CASE WalletsStarted(c) \/ WalletsStopped(c)
  BY <1>4, UpFrame DEF WalletsStarted, WalletsStopped, Goto, Release, Return
<1>5. CASE JoinLoop(c) \/ PopWorker(c) \/ JoinWorker(c) \/ CancelBuys(c)
  BY <1>5, UpFrame DEF JoinLoop, PopWorker, JoinWorker, CancelBuys, Goto, Release
<1>6. CASE SweepWallet(c) \/ ManualPass(c) \/ ManualBuy(c) \/ ManualPassEnds(c) \/ ManualDone(c)
  BY <1>6, UpFrame
     DEF SweepWallet, ManualPass, ManualBuy, ManualPassEnds, ManualDone, Goto, Release, Return
<1>7. CASE BumpGeneration(c)
  BY <1>7 DEF BumpGeneration, Goto, Alone, UpInv, StartedEngineHasLoop
<1>8. CASE ClearStop(c)
  BY <1>8 DEF ClearStop, Goto, UpInv, StartedEngineHasLoop, Current, Live, Stale
<1>9. CASE SpawnLoop(c)
  <2>1. PICK l \in Loops : loopPc' = [loopPc EXCEPT ![l] = "top"]
                           /\ loopGen' = [loopGen EXCEPT ![l] = myGen[c]]
    BY <1>9 DEF SpawnLoop
  <2>2. /\ UNCHANGED <<engineGen, stopSet>> /\ pc[c] = "spawn" /\ phase # "up"
        /\ phase' = IF phase = "starting" THEN "up" ELSE phase
        /\ pc' = [pc EXCEPT ![c] = "idle"]
    BY <1>9 DEF SpawnLoop, UpInv, Return, Goto
  <2>3. CASE phase = "starting"
    <3>1. Current(l)' /\ ~stopSet'
      BY <2>1, <2>2, <2>3 DEF UpInv, Current, Live, Stale, LoopTypes
    <3>2. \A d \in Operators : pc'[d] = "idle"
      BY <2>2, <2>3 DEF UpInv
    <3>3. QED BY <3>1, <3>2, <2>2, <2>3 DEF UpInv, StartedEngineHasLoop
  <2>4. CASE phase # "starting"
    BY <2>2, <2>4 DEF UpInv, StartedEngineHasLoop
  <2>5. QED BY <2>3, <2>4
<1>10. CASE StopAll(c)
  BY <1>10 DEF StopAll, UpInv, StartedEngineHasLoop
<1>11. QED
  BY <1>1, <1>2, <1>3, <1>4, <1>5, <1>6, <1>7, <1>8, <1>9, <1>10 DEF ControlStep

\* A start_all that no other request overlapped leaves a live scanner thread of
\* the current generation, which nothing tells to stop before the next start_all,
\* stop_all or restart_all.
THEOREM StartedEngineHasLoopHolds == Spec => []StartedEngineHasLoop
<1>1. Init => UpInv
  BY DEF Init, UpInv, StartedEngineHasLoop
<1>2. TypeOK /\ UpInv /\ [Next]_vars => UpInv'
  <2> SUFFICES ASSUME TypeOK, UpInv, [Next]_vars PROVE UpInv'
    OBVIOUS
  <2>1. ASSUME NEW l \in Loops, NEW w \in Wallets, TaskProgress(l, w) \/ TaskBuys(l, w)
        PROVE UpInv'
    BY <2>1, UpFrame DEF TaskProgress, TaskChecksGeneration, TaskLooksUpWorker,
                         TaskEnds, TaskStep, TaskBuys, callVars, races, loopVars
  <2>2. ASSUME NEW k \in Workers, MonitorCancels(k) \/ MonitorExits(k) PROVE UpInv'
    BY <2>2, UpFrame DEF MonitorCancels, MonitorExits, callVars, races, loopVars
  <2>3. ASSUME NEW l \in Loops, LoopStep(l) PROVE UpInv'
    <3>1. /\ UNCHANGED <<engineGen, stopSet, loopGen, pc, myGen, phase>>
          /\ ~stopSet => \A m \in Loops : Current(m) => Current(m)'
      BY <2>3, LoopEnds DEF callVars, Current, Stale
    <3>2. QED
      BY <3>1 DEF UpInv, StartedEngineHasLoop
  <2>4. CASE UNCHANGED vars
    BY <2>4, UpFrame DEF vars, callVars, races, loopVars
  <2>5. QED
    BY <2>1, <2>2, <2>3, <2>4, UpControl DEF Next
<1>3. UpInv => StartedEngineHasLoop
  BY DEF UpInv
<1>4. QED
  BY <1>1, <1>2, <1>3, TypeCorrect, PTL DEF Spec

-----------------------------------------------------------------------------
(* The registry of workers is exact.                                       *)

\* The inductive invariant.  Of the workers: one that was not told to stop is
\* registered, one that is registered was not told, and it runs exactly if it has
\* its monitor.  Of the calls: two starts of a wallet at once are on record; a
\* start about to register finds no live monitor to displace, and what it has
\* registered stays so until it has its monitor, unless a race is on record.
WorkersExact ==
  /\ \A k \in Workers : alive[k] /\ ~told[k] =>
       /\ home[k] \in Wallets
       /\ engines[home[k]] = k \/ home[k] \in overlapped
  /\ \A w \in Wallets : Registered(w) =>
       /\ home[engines[w]] = w
       /\ ~told[engines[w]]
       /\ alive[engines[w]] <=> running[engines[w]]
  /\ \A k \in Workers : home[k] = NoWallet => ~alive[k] /\ ~told[k] /\ ~running[k]

CallsExact ==
  /\ \A c, d \in Operators, w \in Wallets :
       Starting(c, w) /\ Starting(d, w) => c = d \/ w \in overlapped
  /\ \A c \in Operators : pc[c] = "create" /\ Registered(cur[c]) =>
       ~alive[engines[cur[c]]] \/ cur[c] \in overlapped
  /\ \A c \in Operators : pc[c] = "launch" =>
       /\ home[obj[c]] = cur[c]
       /\ engines[cur[c]] = obj[c] \/ cur[c] \in overlapped
  /\ \A c \in Operators : pc[c] = "joinworker" =>
       home[obj[c]] = cur[c] /\ engines[cur[c]] # obj[c]

RegistryInv == WorkersExact /\ CallsExact

\* Steps that leave the registry and the workers alone, and give no call a wallet
\* or a worker to work on.
LEMMA RegistryFrame ==
  ASSUME RegistryInv, UNCHANGED <<engines, workerVars, overlapped>>,
         \A c \in Operators : pc'[c] \in {"create", "launch", "joinworker"} =>
           pc'[c] = pc[c] /\ cur'[c] = cur[c] /\ obj'[c] = obj[c]
  PROVE  RegistryInv'
BY DEF RegistryInv, WorkersExact, CallsExact, Registered, Starting, workerVars

\* A call that has found no running worker is about to register one.
LEMMA RegistryCheck ==
  ASSUME TypeOK, RegistryInv, NEW c \in Operators, CheckWallet(c)
  PROVE  RegistryInv'
<1> USE DEF TypeOK, CallTypes
<1>1. PICK w \in todo[c] :
        IF IsRunning(w) THEN UNCHANGED <<pc, cur, overlapped>>
        ELSE /\ Goto(c, "create") /\ cur' = [cur EXCEPT ![c] = w]
             /\ overlapped' = IF \E d \in Operators : Starting(d, w)
                              THEN overlapped \cup {w} ELSE overlapped
  BY DEF CheckWallet
<1>2. UNCHANGED <<engines, workerVars, obj>> /\ w \in Wallets /\ pc[c] = "start"
  BY DEF CheckWallet
<1>3. CASE IsRunning(w)
  BY <1>1, <1>2, <1>3, RegistryFrame
<1>4. CASE ~IsRunning(w)
  <2>1. /\ pc' = [pc EXCEPT ![c] = "create"] /\ cur' = [cur EXCEPT ![c] = w]
        /\ \A v \in Wallets : v \in overlapped => v \in overlapped'
        /\ \A d \in Operators : Starting(d, w) => w \in overlapped'
    BY <1>1, <1>4 DEF Goto
  <2>2. WorkersExact'
    BY <1>2, <2>1 DEF RegistryInv, WorkersExact, Registered, workerVars
  <2>3. Registered(w) => ~alive[engines[w]]
    BY <1>2, <1>4 DEF RegistryInv, WorkersExact, IsRunning
  <2>4. \A d \in Operators, v \in Wallets :
          Starting(d, v)' => (d = c /\ v = w) \/ (d # c /\ Starting(d, v))
    BY <1>2, <2>1 DEF Starting
  <2>5. \A d, e \in Operators, v \in Wallets :
          Starting(d, v)' /\ Starting(e, v)' => d = e \/ v \in overlapped'
    BY <2>1, <2>4 DEF RegistryInv, CallsExact
  <2>6. CallsExact'
    BY <1>2, <2>1, <2>3, <2>5 DEF RegistryInv, CallsExact, Registered, workerVars
  <2>7. QED BY <2>2, <2>6 DEF RegistryInv
<1>5. QED BY <1>3, <1>4

\* A worker is registered: it displaces none that has its monitor.
LEMMA RegistryRegister ==
  ASSUME TypeOK, RegistryInv, NEW c \in Operators, RegisterWorker(c)
  PROVE  RegistryInv'
<1> USE DEF TypeOK, CallTypes, EngineTypes, WorkerTypes
<1>1. PICK k \in Workers :
        /\ home[k] = NoWallet
        /\ home' = [home EXCEPT ![k] = cur[c]]
        /\ engines' = [engines EXCEPT ![cur[c]] = k]
        /\ obj' = [obj EXCEPT ![c] = k]
  BY DEF RegisterWorker, NextWorker
<1>2. /\ UNCHANGED <<alive, told, running, cur, overlapped>>
      /\ pc[c] = "create" /\ pc' = [pc EXCEPT ![c] = "launch"] /\ cur[c] \in Wallets
  BY DEF RegisterWorker, Goto, races, HandleTypes
<1>3. k # NoWorker
  BY DEF Workers, NoWorker
<1>4. \A w \in Wallets : engines[w] # k
  BY <1>1, <1>3, NoWalletAssumption DEF RegistryInv, WorkersExact, Registered
<1>5. ~alive[k] /\ ~told[k] /\ ~running[k]
  BY <1>1 DEF RegistryInv, WorkersExact
<1>6. ASSUME NEW j \in Workers, alive'[j], ~told'[j]
      PROVE  home'[j] \in Wallets /\ (engines'[home'[j]] = j \/ home'[j] \in overlapped')
  <2>1. j # k /\ home'[j] = home[j] /\ home[j] \in Wallets
    BY <1>1, <1>2, <1>5, <1>6 DEF RegistryInv, WorkersExact
  <2>2. engines[home[j]] = j \/ home[j] \in overlapped
    BY <1>2, <1>6 DEF RegistryInv, WorkersExact
  <2>3. j # NoWorker
    BY DEF Workers, NoWorker
  <2>4. home[j] = cur[c] /\ engines[home[j]] = j => home[j] \in overlapped
    BY <1>2, <1>6, <2>3 DEF RegistryInv, CallsExact, Registered
  <2>5. QED BY <1>1, <1>2, <2>1, <2>2, <2>4
<1>7. ASSUME NEW w \in Wallets, Registered(w)'
      PROVE  /\ home'[engines'[w]] = w
             /\ ~told'[engines'[w]]
             /\ alive'[engines'[w]] <=> running'[engines'[w]]
  <2>1. CASE w = cur[c]
    BY <1>1, <1>2, <1>5, <2>1
  <2>2. CASE w # cur[c]
    <3>1. engines'[w] = engines[w] /\ engines[w] \in Workers /\ engines[w] # k /\ Registered(w)
      BY <1>1, <1>4, <1>7, <2>2 DEF Registered
    <3>2. QED BY <1>1, <1>2, <3>1 DEF RegistryInv, WorkersExact
  <2>3. QED BY <2>1, <2>2
<1>8. WorkersExact'
  <2>1. \A j \in Workers : home'[j] = NoWallet => ~alive'[j] /\ ~told'[j] /\ ~running'[j]
    BY <1>1, <1>2, NoWalletAssumption DEF RegistryInv, WorkersExact
  <2>2. QED BY <1>6, <1>7, <2>1 DEF WorkersExact
<1>9. \A d \in Operators, v \in Wallets : Starting(d, v)' => Starting(d, v)
  BY <1>2 DEF Starting
<1>10. ASSUME NEW d \in Operators, pc'[d] = "create", Registered(cur[d])'
       PROVE  ~alive'[engines'[cur'[d]]] \/ cur'[d] \in overlapped'
  <2>1. d # c /\ pc[d] = "create" /\ cur[d] \in Wallets
    BY <1>2, <1>10 DEF HandleTypes
  <2>2. CASE cur[d] = cur[c]
    BY <1>2, <2>1, <2>2 DEF RegistryInv, CallsExact, Starting
  <2>3. CASE cur[d] # cur[c]
    BY <1>1, <1>2, <1>10, <2>1, <2>3 DEF RegistryInv, CallsExact, Registered
  <2>4. QED BY <2>2, <2>3
<1>11. ASSUME NEW d \in Operators, pc'[d] = "launch"
       PROVE  home'[obj'[d]] = cur'[d] /\ (engines'[cur'[d]] = obj'[d] \/ cur'[d] \in overlapped')
  <2>1. CASE d = c
    BY <1>1, <1>2, <2>1
  <2>2. CASE d # c
    <3>1. pc[d] = "launch" /\ cur[d] \in Wallets /\ obj[d] \in Workers /\ home[obj[d]] = cur[d]
      BY <1>2, <1>11, <2>2 DEF HandleTypes, RegistryInv, CallsExact
    <3>2. obj[d] # k
      BY <1>1, <3>1, NoWalletAssumption
    <3>3. cur[d] = cur[c] => cur[d] \in overlapped
      BY <1>2, <2>2, <3>1 DEF RegistryInv, CallsExact, Starting
    <3>4. QED BY <1>1, <1>2, <2>2, <3>1, <3>2, <3>3 DEF RegistryInv, CallsExact
  <2>3. QED BY <2>1, <2>2
<1>12. ASSUME NEW d \in Operators, pc'[d] = "joinworker"
       PROVE  home'[obj'[d]] = cur'[d] /\ engines'[cur'[d]] # obj'[d]
  <2>1. d # c /\ pc[d] = "joinworker" /\ cur[d] \in Wallets /\ obj[d] \in Workers
    BY <1>2, <1>12 DEF HandleTypes
  <2>2. home[obj[d]] = cur[d] /\ engines[cur[d]] # obj[d] /\ obj[d] # k
    BY <1>1, <2>1, NoWalletAssumption DEF RegistryInv, CallsExact
  <2>3. QED BY <1>1, <1>2, <2>1, <2>2
<1>13. CallsExact'
  BY <1>2, <1>9, <1>10, <1>11, <1>12 DEF RegistryInv, CallsExact
<1>14. QED BY <1>8, <1>13 DEF RegistryInv

\* A worker gets its monitor: it is the registered one, or a race is on record.
LEMMA RegistryLaunch ==
  ASSUME TypeOK, RegistryInv, NEW c \in Operators, LaunchWorker(c)
  PROVE  RegistryInv'
<1> USE DEF TypeOK, CallTypes, EngineTypes, WorkerTypes
<1> DEFINE k == obj[c]
<1>1. /\ k \in Workers /\ cur[c] \in Wallets /\ home[k] = cur[c]
      /\ engines[cur[c]] = k \/ cur[c] \in overlapped
      /\ pc[c] = "launch"
  BY DEF LaunchWorker, HandleTypes, RegistryInv, CallsExact
<1>2. /\ told' = [told EXCEPT ![k] = FALSE]
      /\ alive' = [alive EXCEPT ![k] = TRUE]
      /\ running' = [running EXCEPT ![k] = TRUE]
      /\ UNCHANGED <<engines, home, overlapped>>
      /\ pc' = [pc EXCEPT ![c] = "start"]
      /\ \A d \in Operators \ {c} : cur'[d] = cur[d] /\ obj'[d] = obj[d]
  BY DEF LaunchWorker, Goto, Release, races
<1>3. WorkersExact'
  <2>1. ASSUME NEW j \in Workers, alive'[j], ~told'[j]
        PROVE  home'[j] \in Wallets /\ (engines'[home'[j]] = j \/ home'[j] \in overlapped')
    <3>1. CASE j = k
      BY <1>1, <1>2, <3>1
    <3>2. CASE j # k
      BY <1>1, <1>2, <2>1, <3>2 DEF RegistryInv, WorkersExact
    <3>3. QED BY <3>1, <3>2
  <2>2. ASSUME NEW w \in Wallets, Registered(w)'
        PROVE  /\ home'[engines'[w]] = w
               /\ ~told'[engines'[w]]
               /\ alive'[engines'[w]] <=> running'[engines'[w]]
    <3>1. engines[w] \in Workers /\ Registered(w)
      BY <1>2, <2>2 DEF Registered
    <3>2. CASE engines[w] = k
      BY <1>1, <1>2, <3>1, <3>2 DEF RegistryInv, WorkersExact
    <3>3. CASE engines[w] # k
      BY <1>1, <1>2, <3>1, <3>3 DEF RegistryInv, WorkersExact
    <3>4. QED BY <3>2, <3>3
  <2>3. \A j \in Workers : home'[j] = NoWallet => ~alive'[j] /\ ~told'[j] /\ ~running'[j]
    BY <1>1, <1>2, NoWalletAssumption DEF RegistryInv, WorkersExact
  <2>4. QED BY <2>1, <2>2, <2>3 DEF WorkersExact
<1>4. ASSUME NEW d \in Operators, pc'[d] = "create", Registered(cur[d])'
      PROVE  ~alive'[engines'[cur'[d]]] \/ cur'[d] \in overlapped'
  <2>1. d # c /\ pc[d] = "create" /\ cur[d] \in Wallets /\ cur'[d] = cur[d] /\ Registered(cur[d])
    BY <1>2, <1>4 DEF HandleTypes, Registered
  <2>2. CASE cur[d] = cur[c]
    BY <1>1, <1>2, <2>1, <2>2 DEF RegistryInv, CallsExact, Starting
  <2>3. CASE cur[d] # cur[c]
    <3>1. engines[cur[d]] # k /\ engines[cur[d]] \in Workers
      BY <1>1, <2>1, <2>3 DEF RegistryInv, WorkersExact, Registered
    <3>2. QED BY <1>1, <1>2, <2>1, <3>1 DEF RegistryInv, CallsExact
  <2>4. QED BY <2>2, <2>3
<1>5. /\ \A d \in Operators, v \in Wallets : Starting(d, v)' => Starting(d, v)
      /\ \A d \in Operators : pc'[d] \in {"launch", "joinworker"} =>
           pc'[d] = pc[d] /\ cur'[d] = cur[d] /\ obj'[d] = obj[d]
  BY <1>2 DEF Starting
<1>6. CallsExact'
  BY <1>2, <1>4, <1>5 DEF RegistryInv, CallsExact
<1>7. QED BY <1>3, <1>6 DEF RegistryInv

\* A stop takes the worker from the registry and tells it, in this order.
LEMMA RegistryPop ==
  ASSUME TypeOK, RegistryInv, NEW c \in Operators, PopWorker(c)
  PROVE  RegistryInv'
<1> USE DEF TypeOK, CallTypes, EngineTypes, WorkerTypes
<1>1. PICK w \in todo[c] :
        IF ~Registered(w) THEN UNCHANGED <<engines, told, obj, cur, pc, overlapped>>
        ELSE /\ engines' = [engines EXCEPT ![w] = NoWorker]
             /\ overlapped' = IF \E d \in Operators : pc[d] = "launch" /\ cur[d] = w
                              THEN overlapped \cup {w} ELSE overlapped
             /\ told' = [told EXCEPT ![engines[w]] = TRUE]
             /\ obj' = [obj EXCEPT ![c] = engines[w]]
             /\ cur' = [cur EXCEPT ![c] = w]
             /\ Goto(c, "joinworker")
  BY DEF PopWorker
<1>2. UNCHANGED <<home, alive, running>> /\ w \in Wallets /\ pc[c] = "stop"
  BY DEF PopWorker
<1>3. CASE ~Registered(w)
  BY <1>1, <1>2, <1>3, RegistryFrame DEF workerVars
<1>4. CASE Registered(w)
  <2> DEFINE k == engines[w]
  <2>1. k \in Workers /\ home[k] = w /\ k # NoWorker
    BY <1>2, <1>4 DEF RegistryInv, WorkersExact, Registered
  <2>2. /\ engines' = [engines EXCEPT ![w] = NoWorker]
        /\ told' = [told EXCEPT ![k] = TRUE]
        /\ obj' = [obj EXCEPT ![c] = k] /\ cur' = [cur EXCEPT ![c] = w]
        /\ pc' = [pc EXCEPT ![c] = "joinworker"]
        /\ \A v \in Wallets : v \in overlapped => v \in overlapped'
        /\ \A d \in Operators : pc[d] = "launch" /\ cur[d] = w => w \in overlapped'
    BY <1>1, <1>4 DEF Goto
  <2>3. WorkersExact'
    <3>1. ASSUME NEW j \in Workers, alive'[j], ~told'[j]
          PROVE  home'[j] \in Wallets /\ (engines'[home'[j]] = j \/ home'[j] \in overlapped')
      <4>1. j # k /\ ~told[j] /\ alive[j]
        BY <1>2, <2>1, <2>2, <3>1
      <4>2. QED BY <1>2, <2>1, <2>2, <4>1 DEF RegistryInv, WorkersExact
    <3>2. ASSUME NEW v \in Wallets, Registered(v)'
          PROVE  /\ home'[engines'[v]] = v
                 /\ ~told'[engines'[v]]
                 /\ alive'[engines'[v]] <=> running'[engines'[v]]
      <4>1. v # w /\ engines'[v] = engines[v] /\ engines[v] \in Workers /\ Registered(v)
        BY <1>2, <2>2, <3>2 DEF Registered
      <4>2. engines[v] # k
        BY <2>1, <4>1 DEF RegistryInv, WorkersExact
      <4>3. QED BY <1>2, <2>1, <2>2, <4>1, <4>2 DEF RegistryInv, WorkersExact
    <3>3. \A j \in Workers : home'[j] = NoWallet => ~alive'[j] /\ ~told'[j] /\ ~running'[j]
      BY <1>2, <2>1, <2>2, NoWalletAssumption DEF RegistryInv, WorkersExact
    <3>4. QED BY <3>1, <3>2, <3>3 DEF WorkersExact
  <2>4. \A d \in Operators, v \in Wallets : Starting(d, v)' => Starting(d, v)
    BY <1>2, <2>2 DEF Starting
  <2>5. \A d \in Operators : d # c => pc'[d] = pc[d] /\ cur'[d] = cur[d] /\ obj'[d] = obj[d]
    BY <2>2
  <2>6. ASSUME NEW d \in Operators, pc'[d] = "create", Registered(cur[d])'
        PROVE  ~alive'[engines'[cur'[d]]] \/ cur'[d] \in overlapped'
    <3>1. d # c /\ pc[d] = "create" /\ cur'[d] = cur[d] /\ cur[d] \in Wallets
      BY <2>2, <2>5, <2>6 DEF HandleTypes
    <3>2. cur[d] # w
      BY <2>2, <2>6, <3>1 DEF Registered
    <3>3. QED BY <1>2, <2>2, <2>6, <3>1, <3>2 DEF RegistryInv, CallsExact, Registered
  <2>7. ASSUME NEW d \in Operators, pc'[d] = "launch"
        PROVE  home'[obj'[d]] = cur'[d] /\ (engines'[cur'[d]] = obj'[d] \/ cur'[d] \in overlapped')
    <3>1. /\ d # c /\ pc[d] = "launch" /\ cur'[d] = cur[d] /\ obj'[d] = obj[d]
          /\ cur[d] \in Wallets
      BY <2>2, <2>5, <2>7 DEF HandleTypes
    <3>2. QED BY <1>2, <2>2, <3>1 DEF RegistryInv, CallsExact
  <2>8. ASSUME NEW d \in Operators, pc'[d] = "joinworker"
        PROVE  home'[obj'[d]] = cur'[d] /\ engines'[cur'[d]] # obj'[d]
    <3>1. CASE d = c
      BY <1>2, <2>1, <2>2, <3>1
    <3>2. CASE d # c
      <4>1. /\ pc[d] = "joinworker" /\ cur'[d] = cur[d] /\ obj'[d] = obj[d]
            /\ cur[d] \in Wallets /\ obj[d] \in Workers
        BY <2>5, <2>8, <3>2 DEF HandleTypes
      <4>2. obj[d] # NoWorker
        BY <4>1 DEF Workers, NoWorker
      <4>3. QED BY <1>2, <2>2, <4>1, <4>2 DEF RegistryInv, CallsExact
    <3>3. QED BY <3>1, <3>2
  <2>9. \A d, e \in Operators, v \in Wallets :
          Starting(d, v)' /\ Starting(e, v)' => d = e \/ v \in overlapped'
    BY <2>2, <2>4 DEF RegistryInv, CallsExact
  <2>10. CallsExact'
    BY <2>6, <2>7, <2>8, <2>9 DEF CallsExact
  <2>11. QED BY <2>3, <2>10 DEF RegistryInv
<1>5. QED BY <1>3, <1>4

\* The wait for a monitor ends: its worker was taken from the registry before.
LEMMA RegistryJoin ==
  ASSUME TypeOK, RegistryInv, NEW c \in Operators, JoinWorker(c)
  PROVE  RegistryInv'
<1> USE DEF TypeOK, CallTypes, EngineTypes, WorkerTypes
<1>1. /\ running' = [running EXCEPT ![obj[c]] = FALSE]
      /\ UNCHANGED <<engines, home, alive, told, cur, obj, overlapped>>
      /\ pc' = [pc EXCEPT ![c] = "cancel"]
      /\ cur[c] \in Wallets /\ obj[c] \in Workers
  BY DEF JoinWorker, Goto, races, HandleTypes
<1>2. \A w \in Wallets : Registered(w) => engines[w] # obj[c]
  BY <1>1 DEF JoinWorker, RegistryInv, CallsExact, WorkersExact
<1>3. \A w \in Wallets : Registered(w) => running'[engines[w]] = running[engines[w]]
  BY <1>1, <1>2 DEF Registered
<1>4. WorkersExact'
  <2>1. \A w \in Wallets : Registered(w) =>
          /\ home'[engines'[w]] = w
          /\ ~told'[engines'[w]]
          /\ alive'[engines'[w]] <=> running'[engines'[w]]
    BY <1>1, <1>3 DEF RegistryInv, WorkersExact
  <2>2. \A k \in Workers : home'[k] = NoWallet => ~alive'[k] /\ ~told'[k] /\ ~running'[k]
    BY <1>1 DEF RegistryInv, WorkersExact
  <2>3. QED BY <1>1, <2>1, <2>2 DEF RegistryInv, WorkersExact, Registered
<1>5. CallsExact'
  BY <1>1 DEF RegistryInv, CallsExact, Registered, Starting
<1>6. QED BY <1>4, <1>5 DEF RegistryInv

\* Control steps preserve the invariant.
LEMMA RegistryControl ==
  ASSUME TypeOK, RegistryInv, NEW c \in Operators, ControlStep(c)
  PROVE  RegistryInv'
<1> USE DEF TypeOK, CallTypes, callVars, races
<1>1. CASE StartAll(c) \/ StartMonitors(c) \/ StartWallet(c) \/ StopWallet(c) \/ StopAll(c)
  BY <1>1, RegistryFrame DEF StartAll, StartMonitors, StartWallet, StopWallet, StopAll, Call
<1>2. CASE CancelAllBuyOrders(c) \/ PlaceAllOrders(c) \/ TestPlaceOrders(c)
  BY <1>2, RegistryFrame DEF CancelAllBuyOrders, PlaceAllOrders, TestPlaceOrders, Call
<1>3. CASE WalletsStarted(c) \/ WalletsStopped(c) \/ CreateFails(c)
  BY <1>3, RegistryFrame
     DEF WalletsStarted, WalletsStopped, CreateFails, Goto, Release, Return
<1>4. CASE BumpGeneration(c) \/ ClearStop(c) \/ SpawnLoop(c) \/ JoinLoop(c) \/ CancelBuys(c)
  BY <1>4, RegistryFrame
     DEF BumpGeneration, ClearStop, SpawnLoop, JoinLoop, CancelBuys, Goto, Release, Return
<1>5. CASE SweepWallet(c) \/ ManualPass(c) \/ ManualBuy(c) \/ ManualPassEnds(c) \/ ManualDone(c)
  BY <1>5, RegistryFrame
     DEF SweepWallet, ManualPass, ManualBuy, ManualPassEnds, ManualDone, Goto, Release, Return
<1>6. QED
  BY <1>1, <1>2, <1>3, <1>4, <1>5, RegistryCheck, RegistryRegister, RegistryLaunch,
     RegistryPop, RegistryJoin DEF ControlStep

\* Under any requests served at once, the registry names exactly the monitor threads
\* that were not told to stop, but for the wallets whose starts were overlapped
\* (start_wallet and stop_wallet take no lock, manager.py 1142-1177).
THEOREM RegistryIsExactHolds == Spec => []RegistryIsExact
<1>1. Init => RegistryInv
  BY DEF Init, RegistryInv, WorkersExact, CallsExact, Registered, Starting
<1>2. TypeOK /\ RegistryInv /\ [Next]_vars => RegistryInv'
  <2> SUFFICES ASSUME TypeOK, RegistryInv, [Next]_vars PROVE RegistryInv'
    OBVIOUS
  <2>1. ASSUME NEW l \in Loops, LoopStep(l) PROVE RegistryInv'
    BY <2>1, RegistryFrame
       DEF LoopStep, LoopFrame, LoopTop, DiscoverCancelled, DiscoverEnds, PlaceRound,
           RoundEnds, LoopTail, LoopWakes, callVars, races
  <2>2. ASSUME NEW l \in Loops, NEW w \in Wallets, TaskProgress(l, w) \/ TaskBuys(l, w)
        PROVE RegistryInv'
    BY <2>2, RegistryFrame DEF TaskProgress, TaskChecksGeneration, TaskLooksUpWorker,
                               TaskEnds, TaskStep, TaskBuys, callVars, races
  <2>3. ASSUME NEW k \in Workers, MonitorCancels(k) PROVE RegistryInv'
    BY <2>3, RegistryFrame DEF MonitorCancels, callVars, races
  <2>4. ASSUME NEW k \in Workers, MonitorExits(k) PROVE RegistryInv'
    <3>1. UNCHANGED <<engines, home, told, running, pc, cur, obj, overlapped>>
      BY <2>4 DEF MonitorExits, callVars, races
    <3>2. /\ \A j \in Workers : alive'[j] => alive[j]
          /\ \A w \in Wallets : Registered(w) => alive'[engines[w]] = alive[engines[w]]
      <4>1. alive' = [alive EXCEPT ![k] = FALSE] /\ told[k]
        BY <2>4 DEF MonitorExits
      <4>2. \A w \in Wallets : Registered(w) => engines[w] # k
        BY <4>1 DEF RegistryInv, WorkersExact
      <4>3. QED BY <4>1, <4>2 DEF TypeOK, WorkerTypes, EngineTypes, Registered
    <3>3. WorkersExact'
      BY <3>1, <3>2 DEF RegistryInv, WorkersExact, Registered
    <3>4. CallsExact'
      BY <2>4, <3>1 DEF MonitorExits, RegistryInv, CallsExact, Registered, Starting, TypeOK,
                        CallTypes, HandleTypes, WorkerTypes, EngineTypes
    <3>5. QED BY <3>3, <3>4 DEF RegistryInv
  <2>5. CASE UNCHANGED vars
    BY <2>5, RegistryFrame DEF vars, callVars, races
  <2>6. QED
    BY <2>1, <2>2, <2>3, <2>4, <2>5, RegistryControl DEF Next
<1>3. RegistryInv => RegistryIsExact
  BY DEF RegistryInv, WorkersExact, RegistryIsExact, IsRunning
<1>4. QED
  BY <1>1, <1>2, <1>3, TypeCorrect, PTL DEF Spec

-----------------------------------------------------------------------------
(* A stopped engine begins no pass.                                        *)

StopPcs == {"stop", "joinworker", "cancel"}

\* The inductive invariant.  A stop_all that no other request overlaps is the only
\* call under way; what it has not yet come to is all that is registered, so that
\* nothing is when it returns.  Then nobody is about to register a worker, and a
\* task that looks its worker up finds none.
StopInv ==
  /\ phase = "stopping" => \A c, d \in Operators : pc[c] # "idle" /\ pc[d] # "idle" => c = d
  /\ \A c \in Operators : op[c] = "stop_all" => pc[c] \in {"join"} \cup StopPcs
  /\ phase = "stopping" => \A c \in Operators :
       op[c] = "stop_all" /\ pc[c] \in StopPcs =>
         \A w \in Wallets : Registered(w) => w \in todo[c]
  /\ phase = "stopped" =>
       /\ \A c \in Operators : pc[c] = "idle"
       /\ \A w \in Wallets : ~Registered(w)

\* Steps that leave the registry and the calls alone.
LEMMA StopFrame ==
  ASSUME StopInv, UNCHANGED <<engines, pc, op, todo, phase>>
  PROVE  StopInv'
BY DEF StopInv, Registered

\* A step of a call other than stop_all.
LEMMA StopOther ==
  ASSUME TypeOK, StopInv, NEW c \in Operators, op'[c] # "stop_all",
         \A d \in Operators \ {c} : pc'[d] = pc[d] /\ op'[d] = op[d],
         phase' # "stopped",
         phase' = "stopping" => phase = "stopping" /\ pc[c] # "idle"
  PROVE  StopInv'
<1>1. ASSUME phase' = "stopping"
      PROVE  \A d, e \in Operators : pc'[d] # "idle" /\ pc'[e] # "idle" => d = e
  BY <1>1 DEF StopInv
<1>2. ASSUME phase' = "stopping", NEW d \in Operators, op'[d] = "stop_all", pc'[d] \in StopPcs
      PROVE  FALSE
  BY <1>2 DEF StopInv, StopPcs
<1>3. \A d \in Operators : op'[d] = "stop_all" => pc'[d] \in {"join"} \cup StopPcs
  BY DEF StopInv
<1>4. QED BY <1>1, <1>2, <1>3 DEF StopInv

\* A control step, by what it does to a stop_all that is under way.
LEMMA StopControl ==
  ASSUME TypeOK, StopInv, NEW c \in Operators, ControlStep(c)
  PROVE  StopInv'
<1> USE DEF TypeOK, CallTypes
<1>1. CASE StartAll(c) \/ StartMonitors(c) \/ StartWallet(c) \/ StopWallet(c)
  BY <1>1, StopOther DEF StartAll, StartMonitors, StartWallet, StopWallet, Call, Disturb
<1>2. CASE CancelAllBuyOrders(c) \/ PlaceAllOrders(c) \/ TestPlaceOrders(c)
  BY <1>2, StopOther DEF CancelAllBuyOrders, PlaceAllOrders, TestPlaceOrders, Call, Disturb
<1>3. CASE CheckWallet(c) \/ RegisterWorker(c) \/ LaunchWorker(c)
  BY <1>3, StopOther DEF CheckWallet, RegisterWorker, LaunchWorker, Goto, StopInv, StopPcs
<1>4. CASE CreateFails(c) \/ WalletsStarted(c)
  BY <1>4, StopOther DEF CreateFails, WalletsStarted, Goto, Return, StopInv, StopPcs
<1>5. CASE BumpGeneration(c) \/ ClearStop(c) \/ SpawnLoop(c)
  BY <1>5, StopOther DEF BumpGeneration, ClearStop, SpawnLoop, Goto, Return, StopInv, StopPcs
<1>6. CASE SweepWallet(c) \/ ManualPass(c) \/ ManualPassEnds(c) \/ ManualDone(c)
  BY <1>6, StopOther
     DEF SweepWallet, ManualPass, ManualPassEnds, ManualDone, Goto, Return, StopInv, StopPcs
<1>7. CASE ManualBuy(c)
  BY <1>7, StopFrame DEF ManualBuy, callVars
<1>8. CASE StopAll(c)
  <2>1. /\ pc' = [pc EXCEPT ![c] = "join"] /\ UNCHANGED engines
        /\ \A d \in Operators : d # c => op'[d] = op[d]
        /\ phase' = IF Alone(c) THEN "stopping" ELSE "down"
    BY <1>8 DEF StopAll, Call
  <2>2. QED BY <2>1 DEF StopInv, Alone, StopPcs
<1>9. CASE JoinLoop(c)
  <2>1. /\ pc' = [pc EXCEPT ![c] = "stop"] /\ UNCHANGED <<engines, op, phase>>
        /\ todo'[c] = {w \in Wallets : Registered(w)} /\ pc[c] = "join"
    BY <1>9 DEF JoinLoop, Goto
  <2>2. \A d \in Operators : phase' = "stopping" /\ pc'[d] \in StopPcs => d = c
    BY <2>1 DEF StopInv, StopPcs
  <2>3. QED BY <2>1, <2>2 DEF StopInv, StopPcs, Registered
<1>10. CASE PopWorker(c)
  <2>1. PICK w \in todo[c] :
          /\ todo' = [todo EXCEPT ![c] = @ \ {w}]
          /\ engines' = IF Registered(w) THEN [engines EXCEPT ![w] = NoWorker] ELSE engines
    BY <1>10 DEF PopWorker
  <2>2. w \in Wallets
    BY <2>1
  <2>3. \A v \in Wallets : Registered(v)' => Registered(v) /\ v # w
    BY <2>1, <2>2 DEF Registered, EngineTypes
  <2>4. /\ UNCHANGED <<op, phase>> /\ phase # "stopped" /\ pc[c] = "stop" /\ pc'[c] \in StopPcs
        /\ \A d \in Operators : d # c => pc'[d] = pc[d]
    BY <1>10 DEF PopWorker, Goto, StopInv, StopPcs
  <2>5. \A d \in Operators : phase' = "stopping" /\ pc'[d] \in StopPcs => d = c
    BY <2>4 DEF StopInv, StopPcs
  <2> QED BY <2>1, <2>3, <2>4, <2>5 DEF StopInv, StopPcs
<1>11. CASE JoinWorker(c) \/ CancelBuys(c)
  <2>1. /\ UNCHANGED <<engines, op, todo, phase>> /\ pc[c] \in StopPcs /\ pc'[c] \in StopPcs
        /\ \A d \in Operators : d # c => pc'[d] = pc[d]
    BY <1>11 DEF JoinWorker, CancelBuys, Goto, StopPcs
  <2>2. QED BY <2>1 DEF StopInv, StopPcs, Registered
<1>12. CASE WalletsStopped(c)
  <2>1. CASE op[c] = "stop_all"
    <3>1. /\ pc' = [pc EXCEPT ![c] = "idle"] /\ op' = [op EXCEPT ![c] = "none"]
          /\ UNCHANGED engines /\ todo[c] = {} /\ pc[c] = "stop"
          /\ phase' = IF phase = "stopping" THEN "stopped" ELSE phase
      BY <1>12, <2>1 DEF WalletsStopped, Return, Goto
    <3>2. QED BY <2>1, <3>1 DEF StopInv, StopPcs, Registered
  <2>2. CASE op[c] # "stop_all"
    BY <1>12, <2>2, StopOther DEF WalletsStopped, Return, Goto, StopInv
  <2> QED BY <2>1, <2>2
<1> QED BY <1>1, <1>2, <1>3, <1>4, <1>5, <1>6, <1>7, <1>8, <1>9, <1>10, <1>11, <1>12 DEF ControlStep

\* From the return of a stop_all that no other request overlapped to the next call, no
\* placement task begins a pass, for any number of wallets, restarts and tasks that
\* were queued, and whatever raced before it (manager.py 1484-1492).
THEOREM StoppedEngineStartsNoPassHolds == Spec => StoppedEngineStartsNoPass
<1>1. Init => StopInv
  BY DEF Init, StopInv, StopPcs
<1>2. TypeOK /\ StopInv /\ [Next]_vars => StopInv'
  <2> SUFFICES ASSUME TypeOK, StopInv, [Next]_vars PROVE StopInv'
    OBVIOUS
  <2>1. ASSUME NEW l \in Loops, LoopStep(l) PROVE StopInv'
    BY <2>1, StopFrame
       DEF LoopStep, LoopFrame, LoopTop, DiscoverCancelled, DiscoverEnds, PlaceRound,
           RoundEnds, LoopTail, LoopWakes, callVars
  <2>2. ASSUME NEW l \in Loops, NEW w \in Wallets, TaskProgress(l, w) \/ TaskBuys(l, w)
        PROVE StopInv'
    BY <2>2, StopFrame DEF TaskProgress, TaskChecksGeneration, TaskLooksUpWorker,
                           TaskEnds, TaskStep, TaskBuys, callVars
  <2>3. ASSUME NEW k \in Workers, MonitorCancels(k) \/ MonitorExits(k) PROVE StopInv'
    BY <2>3, StopFrame DEF MonitorCancels, MonitorExits, callVars
  <2>4. CASE UNCHANGED vars
    BY <2>4, StopFrame DEF vars, callVars
  <2> QED BY <2>1, <2>2, <2>3, <2>4, StopControl DEF Next
\* Nothing but a task's look at its worker begins a pass, and it finds none.
<1>3. TypeOK /\ StopInv /\ [Next]_vars =>
        [phase = "stopped" =>
           \A l \in Loops, w \in Wallets :
             task'[l][w] = "placing" => task[l][w] = "placing"]_vars
  <2> SUFFICES ASSUME TypeOK, StopInv, Next, phase = "stopped",
                      NEW l \in Loops, NEW w \in Wallets, task'[l][w] = "placing"
               PROVE  task[l][w] = "placing"
    BY DEF StoppedEngineStartsNoPass
  <2>1. ~IsRunning(w)
    BY DEF StopInv, IsRunning
  <2>2. ASSUME NEW m \in Loops, NEW v \in Wallets, TaskProgress(m, v)
        PROVE  task[l][w] = "placing"
    <3>1. CASE m = l /\ v = w
      BY <2>1, <2>2, <3>1 DEF TaskProgress, TaskChecksGeneration, TaskLooksUpWorker, TaskEnds,
                              TaskStep, TypeOK, LoopTypes
    <3>2. CASE m # l \/ v # w
      BY <2>2, <3>2 DEF TaskProgress, TaskChecksGeneration, TaskLooksUpWorker, TaskEnds,
                        TaskStep, TypeOK, LoopTypes
    <3> QED BY <3>1, <3>2
  <2>3. ASSUME NEW m \in Loops, LoopStep(m) PROVE task[l][w] = "placing"
    BY <2>3 DEF LoopStep, LoopTop, DiscoverCancelled, DiscoverEnds, PlaceRound, RoundEnds,
                LoopTail, LoopWakes, TypeOK, LoopTypes
  <2>4. ASSUME NEW c \in Operators, ControlStep(c) PROVE task' = task
    BY <2>4 DEF ControlStep, StartAll, StartMonitors, StartWallet, CheckWallet,
                RegisterWorker, LaunchWorker, CreateFails, WalletsStarted, BumpGeneration, ClearStop, SpawnLoop, StopAll, JoinLoop,
                StopWallet, PopWorker, JoinWorker, CancelBuys, WalletsStopped, CancelAllBuyOrders,
                SweepWallet, PlaceAllOrders, ManualPass, TestPlaceOrders, ManualBuy,
                ManualPassEnds, ManualDone, loopVars
  <2>5. ASSUME \/ \E m \in Loops, v \in Wallets : TaskBuys(m, v)
               \/ \E k \in Workers : MonitorCancels(k) \/ MonitorExits(k)
        PROVE  task' = task
    BY <2>5 DEF TaskBuys, MonitorCancels, MonitorExits, loopVars
  <2> QED BY <2>2, <2>3, <2>4, <2>5 DEF Next
<1> QED BY <1>1, <1>2, <1>3, TypeCorrect, PTL DEF Spec, StoppedEngineStartsNoPass

=============================================================================
