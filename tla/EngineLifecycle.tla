--------------------------- MODULE EngineLifecycle ---------------------------
(***************************************************************************)
(* The engine's threads and who may start, stop or replace them:           *)
(* EngineManager's start/stop/restart calls (engine/manager.py), the       *)
(* shared scanner loop with its pool of placement tasks, and the monitor   *)
(* thread of each WalletWorker.                                            *)
(*                                                                         *)
(* EngineManager takes no lock: every web request runs on a thread of its  *)
(* own (Operators), the scanner loop on another, placement tasks on a      *)
(* pool, monitors on one thread per wallet.  What keeps an old scanner     *)
(* loop from living on after a restart is _engine_generation alone.        *)
(*                                                                         *)
(* A placement pass (WalletWorker.place_orders) is modelled by when it     *)
(* begins, that it may put buys on the book, and when it ends; what it     *)
(* decides for each market is the subject of MarketCooldown.               *)
(*                                                                         *)
(* Two requests served at once can break the engine in two known ways.     *)
(* The history variables overlapped and crossed record that one of them    *)
(* happened; they guard no step, and the properties name them.             *)
(***************************************************************************)
EXTENDS Integers

CONSTANTS
  Wallets,      \* the enabled wallets in the database
  Operators,    \* the threads that serve control requests, numbered
  NoWallet,     \* not a wallet: an unused worker object's home
  CancelMayFail,\* does the exchange ever refuse or lose a cancellation
  MaxCalls,     \* bound: starts, stops and manual calls in a behaviour
  MaxWorkers    \* bound: worker objects created in a behaviour

ASSUME NoWalletAssumption == NoWallet \notin Wallets
ASSUME CancelAssumption == CancelMayFail \in BOOLEAN
ASSUME OperatorsAssumption == Operators \subseteq Nat
ASSUME BoundsAssumption == MaxCalls \in Nat /\ MaxWorkers \in Nat

Loops    == 1..MaxCalls      \* scanner threads, in the order they are spawned
Workers  == 1..MaxWorkers    \* WalletWorker objects, in creation order
NoWorker == 0

VARIABLES
  engineGen,   \* EngineManager._engine_generation
  stopSet,     \* EngineManager._stop_event.is_set()
  engines,     \* EngineManager.engines: wallet -> registered worker
  loopPc,      \* where each scanner thread stands
  loopGen,     \* the generation it was started with
  task,        \* the loop's placement task for each wallet
  home,        \* the wallet a worker object belongs to
  alive,       \* is the worker's monitor thread running
  told,        \* WalletWorker._stop_event.is_set()
  running,     \* WalletWorker.running
  resting,     \* does the wallet have buys on the exchange's book
  pc, op, todo, cur, obj, myGen,   \* the control calls in progress
  phase,       \* history: what the last start/stop call served alone established
  overlapped,  \* history: wallets of which a start was overlapped by another
               \* start, or by a stop that came before its monitor thread
  crossed,     \* history: two start_all drew the same generation
  calls        \* history: starts, stops and manual calls so far

loopVars   == <<loopPc, loopGen, task>>
workerVars == <<home, alive, told, running>>
races      == <<overlapped, crossed>>
callVars   == <<pc, op, todo, cur, obj, myGen, phase, races, calls>>
vars == <<engineGen, stopSet, engines, loopVars, workerVars, resting, callVars>>

LoopPcs  == {"unborn", "top", "discover", "gate", "tasks", "tail", "wait", "done"}
TaskPcs  == {"none", "queued", "checked", "placing"}
CallPcs  == {"idle", "start", "create", "launch", "bump", "clear", "spawn", "join", "stop",
             "joinworker", "cancel", "sweep", "place", "placing"}
Calls    == {"none", "start_all", "start_monitors", "start_wallet", "stop_all",
             "restart_all", "stop_wallet", "cancel_all_buy_orders",
             "place_all_orders", "test_place_orders"}
Phases   == {"down", "starting", "up", "stopping", "stopped"}

EngineTypes ==
  /\ engineGen \in Nat
  /\ stopSet \in BOOLEAN
  /\ engines \in [Wallets -> Workers \cup {NoWorker}]
  /\ resting \in [Wallets -> BOOLEAN]

LoopTypes ==
  /\ loopPc \in [Loops -> LoopPcs]
  /\ loopGen \in [Loops -> Nat]
  /\ task \in [Loops -> [Wallets -> TaskPcs]]

WorkerTypes ==
  /\ home \in [Workers -> Wallets \cup {NoWallet}]
  /\ alive \in [Workers -> BOOLEAN]
  /\ told \in [Workers -> BOOLEAN]
  /\ running \in [Workers -> BOOLEAN]

CallTypes ==
  /\ pc \in [Operators -> CallPcs]
  /\ op \in [Operators -> Calls]
  /\ todo \in [Operators -> SUBSET Wallets]
  /\ cur \in [Operators -> Wallets \cup {NoWallet}]
  /\ obj \in [Operators -> Workers \cup {NoWorker}]
  /\ myGen \in [Operators -> Nat]
  /\ phase \in Phases
  /\ overlapped \in SUBSET Wallets
  /\ crossed \in BOOLEAN
  /\ calls \in 0..MaxCalls

\* A call that creates, joins, cancels or places holds what it works on.
HandleTypes ==
  \A c \in Operators :
    /\ pc[c] \in {"create", "cancel", "placing"} => cur[c] \in Wallets
    /\ pc[c] \in {"launch", "joinworker"} => cur[c] \in Wallets /\ obj[c] \in Workers

\* The type invariant.
TypeOK == EngineTypes /\ LoopTypes /\ WorkerTypes /\ CallTypes /\ HandleTypes

Init ==
  /\ engineGen = 0
  /\ stopSet = FALSE
  /\ engines = [w \in Wallets |-> NoWorker]
  /\ loopPc = [l \in Loops |-> "unborn"]
  /\ loopGen = [l \in Loops |-> 0]
  /\ task = [l \in Loops |-> [w \in Wallets |-> "none"]]
  /\ home = [k \in Workers |-> NoWallet]
  /\ alive = [k \in Workers |-> FALSE]
  /\ told = [k \in Workers |-> FALSE]
  /\ running = [k \in Workers |-> FALSE]
  /\ resting = [w \in Wallets |-> FALSE]
  /\ pc = [c \in Operators |-> "idle"]
  /\ op = [c \in Operators |-> "none"]
  /\ todo = [c \in Operators |-> {}]
  /\ cur = [c \in Operators |-> NoWallet]
  /\ obj = [c \in Operators |-> NoWorker]
  /\ myGen = [c \in Operators |-> 0]
  /\ phase = "down"
  /\ overlapped = {}
  /\ crossed = FALSE
  /\ calls = 0

-----------------------------------------------------------------------------
(* What several handlers ask. *)

\* Mutated form: a loop that knows only the stop event, as before generations.
Stale_EventOnly(l) == FALSE

\* _scanner_loop.stale(): the loop belongs to a generation that is over.
Stale(l) == loopGen[l] # engineGen

Live(l) == loopPc[l] \notin {"unborn", "done"}

Registered(w) == engines[w] # NoWorker
IsRunning(w)  == Registered(w) /\ running[engines[w]]

\* The oldest thread or object that has not been used yet.
NextLoop(l)   == loopPc[l] = "unborn" /\ \A m \in Loops : loopPc[m] = "unborn" => l <= m
NextWorker(k) == home[k] = NoWallet /\ \A j \in Workers : home[j] = NoWallet => k <= j

\* What a call counts for MaxCalls: a restart is a stop and a start.
Weight(name) == IF name = "restart_all" THEN 2 ELSE 1

\* A control request arrives on thread c and starts working through ws.  Idle
\* threads are alike: the one with the lowest number serves it.
Call(c, name, ws, where) ==
  /\ pc[c] = "idle"
  /\ \A d \in Operators : pc[d] = "idle" => c <= d
  /\ calls + Weight(name) <= MaxCalls
  /\ calls' = calls + Weight(name)
  /\ op' = [op EXCEPT ![c] = name]
  /\ todo' = [todo EXCEPT ![c] = ws]
  /\ pc' = [pc EXCEPT ![c] = where]
  /\ UNCHANGED <<obj, myGen, races>>

Goto(c, where) == pc' = [pc EXCEPT ![c] = where]

\* The call has dealt with the wallet and the worker it held.
Release(c) == cur' = [cur EXCEPT ![c] = NoWallet] /\ obj' = [obj EXCEPT ![c] = NoWorker]

\* The handler on thread c returns, or raises; its locals are gone.
Return(c) ==
  /\ Goto(c, "idle")
  /\ op' = [op EXCEPT ![c] = "none"]
  /\ todo' = [todo EXCEPT ![c] = {}]
  /\ Release(c)
  /\ myGen' = [myGen EXCEPT ![c] = 0]

\* No other control call is in progress.
Alone(c) == \A d \in Operators \ {c} : pc[d] = "idle"

\* A call that arrives during a start_all or stop_all, or after a stop_all, ends
\* what that call would establish or has established.
Disturb == phase' = IF phase = "up" THEN "up" ELSE "down"

\* A start of w is under way on thread c: it found no running worker, and the
\* worker it registers has no monitor thread yet.
Starting(c, w) == pc[c] \in {"create", "launch"} /\ cur[c] = w

-----------------------------------------------------------------------------
(* Starting: start_all, start_monitors, start_wallet. *)

StartAll(c) ==
  /\ Call(c, "start_all", Wallets, "start")
  /\ Disturb
  /\ UNCHANGED <<engineGen, stopSet, engines, loopVars, workerVars, resting, cur>>

StartMonitors(c) ==
  /\ Call(c, "start_monitors", Wallets, "start")
  /\ Disturb
  /\ UNCHANGED <<engineGen, stopSet, engines, loopVars, workerVars, resting, cur>>

StartWallet(c) ==
  /\ \E w \in Wallets : Call(c, "start_wallet", {w}, "start")
  /\ Disturb
  /\ UNCHANGED <<engineGen, stopSet, engines, loopVars, workerVars, resting, cur>>

\* Mutated form: the look-up is missing.
CheckWallet_NoLookup(c) ==
  /\ pc[c] = "start"
  /\ \E w \in todo[c] :
       /\ todo' = [todo EXCEPT ![c] = @ \ {w}]
       /\ Goto(c, "create") /\ cur' = [cur EXCEPT ![c] = w]
       /\ overlapped' = IF \E d \in Operators : Starting(d, w)
                        THEN overlapped \cup {w} ELSE overlapped
  /\ UNCHANGED <<engineGen, stopSet, engines, loopVars, workerVars, resting,
                 op, obj, myGen, phase, crossed, calls>>

\* start_wallet looks the wallet up; a running worker is left alone.
CheckWallet(c) ==
  /\ pc[c] = "start"
  /\ \E w \in todo[c] :
       /\ todo' = [todo EXCEPT ![c] = @ \ {w}]
       /\ IF IsRunning(w) THEN UNCHANGED <<pc, cur, overlapped>>
          ELSE /\ Goto(c, "create") /\ cur' = [cur EXCEPT ![c] = w]
               /\ overlapped' = IF \E d \in Operators : Starting(d, w)
                                THEN overlapped \cup {w} ELSE overlapped
  /\ UNCHANGED <<engineGen, stopSet, engines, loopVars, workerVars, resting,
                 op, obj, myGen, phase, crossed, calls>>

\* After decrypting the key and building the API client: the worker is registered ...
RegisterWorker(c) ==
  /\ pc[c] = "create"
  /\ \E k \in Workers :
       /\ NextWorker(k)
       /\ home' = [home EXCEPT ![k] = cur[c]]
       /\ engines' = [engines EXCEPT ![cur[c]] = k]
       /\ obj' = [obj EXCEPT ![c] = k]
  /\ Goto(c, "launch")
  /\ UNCHANGED <<engineGen, stopSet, loopVars, alive, told, running, resting,
                 op, todo, cur, myGen, phase, races, calls>>

\* ... and then started: worker.start() clears its event and spawns its monitor.
LaunchWorker(c) ==
  /\ pc[c] = "launch"
  /\ told' = [told EXCEPT ![obj[c]] = FALSE]
  /\ alive' = [alive EXCEPT ![obj[c]] = TRUE]
  /\ running' = [running EXCEPT ![obj[c]] = TRUE]
  /\ Goto(c, "start") /\ Release(c)
  /\ UNCHANGED <<engineGen, stopSet, engines, loopVars, home, resting,
                 op, todo, myGen, phase, races, calls>>

\* Decryption, client construction or Thread.start raises: the whole call is
\* abandoned; in the last case the worker stays registered without a monitor.
CreateFails(c) ==
  /\ pc[c] \in {"create", "launch"}
  /\ Return(c)
  /\ UNCHANGED <<engineGen, stopSet, engines, loopVars, workerVars, resting,
                 phase, races, calls>>

\* All wallets are up: start_all goes on to the scanner, the others return.
WalletsStarted(c) ==
  /\ pc[c] = "start"
  /\ todo[c] = {}
  /\ IF op[c] \in {"start_all", "restart_all"}
       THEN Goto(c, "bump") /\ UNCHANGED <<op, todo, cur, obj, myGen>>
       ELSE Return(c)
  /\ UNCHANGED <<engineGen, stopSet, engines, loopVars, workerVars, resting,
                 phase, races, calls>>

\* Mutated form: start_all reuses the generation it finds.
BumpGeneration_Kept(c) ==
  /\ pc[c] = "bump"
  /\ phase' = IF Alone(c) THEN "starting" ELSE "down"
  /\ crossed' = (crossed \/ \E d \in Operators : pc[d] = "clear")
  /\ Goto(c, "clear")
  /\ UNCHANGED <<engineGen, stopSet, engines, loopVars, workerVars, resting,
                 op, todo, cur, obj, myGen, overlapped, calls>>

\* self._engine_generation += 1
BumpGeneration(c) ==
  /\ pc[c] = "bump"
  /\ engineGen' = engineGen + 1
  /\ phase' = IF Alone(c) THEN "starting" ELSE "down"
  /\ crossed' = (crossed \/ \E d \in Operators : pc[d] = "clear")
  /\ Goto(c, "clear")
  /\ UNCHANGED <<stopSet, engines, loopVars, workerVars, resting,
                 op, todo, cur, obj, myGen, overlapped, calls>>

\* gen = self._engine_generation; self._stop_event.clear()
ClearStop(c) ==
  /\ pc[c] = "clear"
  /\ myGen' = [myGen EXCEPT ![c] = engineGen]
  /\ stopSet' = FALSE
  /\ Goto(c, "spawn")
  /\ UNCHANGED <<engineGen, engines, loopVars, workerVars, resting,
                 op, todo, cur, obj, phase, races, calls>>

SpawnLoop(c) ==
  /\ pc[c] = "spawn"
  /\ \E l \in Loops :
       /\ NextLoop(l)
       /\ loopPc' = [loopPc EXCEPT ![l] = "top"]
       /\ loopGen' = [loopGen EXCEPT ![l] = myGen[c]]
  /\ phase' = IF phase = "starting" THEN "up" ELSE phase
  /\ Return(c)
  /\ UNCHANGED <<engineGen, stopSet, engines, task, workerVars, resting,
                 races, calls>>

-----------------------------------------------------------------------------
(* Stopping: stop_all, restart_all (stop_all then start_all), stop_wallet. *)

StopAll(c) ==
  /\ \E name \in {"stop_all", "restart_all"} : Call(c, name, {}, "join")
  /\ engineGen' = engineGen + 1
  /\ stopSet' = TRUE
  /\ phase' = IF Alone(c) THEN "stopping" ELSE "down"
  /\ UNCHANGED <<engines, loopVars, workerVars, resting, cur>>

\* join(timeout=30) on the scanner thread: it ended, or the wait ran out.
JoinLoop(c) ==
  /\ pc[c] = "join"
  /\ todo' = [todo EXCEPT ![c] = {w \in Wallets : Registered(w)}]
  /\ Goto(c, "stop")
  /\ UNCHANGED <<engineGen, stopSet, engines, loopVars, workerVars, resting,
                 op, cur, obj, myGen, phase, races, calls>>

StopWallet(c) ==
  /\ \E w \in Wallets : Call(c, "stop_wallet", {w}, "stop")
  /\ Disturb
  /\ UNCHANGED <<engineGen, stopSet, engines, loopVars, workerVars, resting, cur>>

\* Mutated form: the worker is unregistered but its event is never set.
PopWorker_NotTold(c) ==
  /\ pc[c] = "stop"
  /\ \E w \in todo[c] :
       /\ todo' = [todo EXCEPT ![c] = @ \ {w}]
       /\ IF ~Registered(w) THEN UNCHANGED <<engines, obj, cur, pc>>
          ELSE /\ engines' = [engines EXCEPT ![w] = NoWorker]
               /\ obj' = [obj EXCEPT ![c] = engines[w]]
               /\ cur' = [cur EXCEPT ![c] = w]
               /\ Goto(c, "joinworker")
  /\ UNCHANGED <<engineGen, stopSet, loopVars, home, alive, told, running, resting,
                 op, myGen, phase, races, calls>>

\* stop_wallet: engines.pop(address, None), then worker.stop() sets its event.
PopWorker(c) ==
  /\ pc[c] = "stop"
  /\ \E w \in todo[c] :
       /\ todo' = [todo EXCEPT ![c] = @ \ {w}]
       /\ IF ~Registered(w) THEN UNCHANGED <<engines, told, obj, cur, pc, overlapped>>
          ELSE /\ engines' = [engines EXCEPT ![w] = NoWorker]
               /\ overlapped' = IF \E d \in Operators : pc[d] = "launch" /\ cur[d] = w
                                THEN overlapped \cup {w} ELSE overlapped
               /\ told' = [told EXCEPT ![engines[w]] = TRUE]
               /\ obj' = [obj EXCEPT ![c] = engines[w]]
               /\ cur' = [cur EXCEPT ![c] = w]
               /\ Goto(c, "joinworker")
  /\ UNCHANGED <<engineGen, stopSet, loopVars, home, alive, running, resting,
                 op, myGen, phase, crossed, calls>>

\* join(timeout=30) on the monitor thread: it ended, or the wait ran out.
JoinWorker(c) ==
  /\ pc[c] = "joinworker"
  /\ running' = [running EXCEPT ![obj[c]] = FALSE]
  /\ Goto(c, "cancel")
  /\ UNCHANGED <<engineGen, stopSet, engines, loopVars, home, alive, told, resting,
                 op, todo, cur, obj, myGen, phase, races, calls>>

\* _cancel_buy_orders; an exchange failure is logged and swallowed.
CancelBuys(c) ==
  /\ pc[c] = "cancel"
  /\ \E failed \in {FALSE, CancelMayFail} :
       resting' = IF failed THEN resting ELSE [resting EXCEPT ![cur[c]] = FALSE]
  /\ Goto(c, "stop") /\ Release(c)
  /\ UNCHANGED <<engineGen, stopSet, engines, loopVars, workerVars,
                 op, todo, myGen, phase, races, calls>>

WalletsStopped(c) ==
  /\ pc[c] = "stop"
  /\ todo[c] = {}
  /\ IF op[c] = "restart_all"
       THEN /\ Goto(c, "start") /\ todo' = [todo EXCEPT ![c] = Wallets]
            /\ UNCHANGED <<op, cur, obj, myGen>>
       ELSE Return(c)
  /\ phase' = IF op[c] = "stop_all" /\ phase = "stopping" THEN "stopped" ELSE phase
  /\ UNCHANGED <<engineGen, stopSet, engines, loopVars, workerVars, resting,
                 races, calls>>

-----------------------------------------------------------------------------
(* Manual calls on the running engine. *)

CancelAllBuyOrders(c) ==
  /\ Call(c, "cancel_all_buy_orders", {w \in Wallets : Registered(w)}, "sweep")
  /\ Disturb
  /\ UNCHANGED <<engineGen, stopSet, engines, loopVars, workerVars, resting, cur>>

SweepWallet(c) ==
  /\ pc[c] = "sweep"
  /\ \E w \in todo[c], failed \in {FALSE, CancelMayFail} :
       /\ todo' = [todo EXCEPT ![c] = @ \ {w}]
       /\ resting' = IF failed \/ ~IsRunning(w) THEN resting
                     ELSE [resting EXCEPT ![w] = FALSE]
  /\ UNCHANGED <<engineGen, stopSet, engines, loopVars, workerVars,
                 pc, op, cur, obj, myGen, phase, races, calls>>

PlaceAllOrders(c) ==
  /\ Call(c, "place_all_orders", {w \in Wallets : Registered(w)}, "place")
  /\ Disturb
  /\ UNCHANGED <<engineGen, stopSet, engines, loopVars, workerVars, resting, cur>>

ManualPass(c) ==
  /\ pc[c] = "place"
  /\ \E w \in todo[c] :
       /\ todo' = [todo EXCEPT ![c] = @ \ {w}]
       /\ IF ~IsRunning(w) THEN UNCHANGED <<pc, cur>>
          ELSE Goto(c, "placing") /\ cur' = [cur EXCEPT ![c] = w]
  /\ UNCHANGED <<engineGen, stopSet, engines, loopVars, workerVars, resting,
                 op, obj, myGen, phase, races, calls>>

\* test_place_orders needs no running worker: it builds a transient one.
TestPlaceOrders(c) ==
  /\ \E w \in Wallets :
       Call(c, "test_place_orders", {}, "placing") /\ cur' = [cur EXCEPT ![c] = w]
  /\ Disturb
  /\ UNCHANGED <<engineGen, stopSet, engines, loopVars, workerVars, resting>>

ManualBuy(c) ==
  /\ pc[c] = "placing"
  /\ resting' = [resting EXCEPT ![cur[c]] = TRUE]
  /\ UNCHANGED <<engineGen, stopSet, engines, loopVars, workerVars, callVars>>

ManualPassEnds(c) ==
  /\ pc[c] = "placing"
  /\ Goto(c, "place") /\ Release(c)
  /\ UNCHANGED <<engineGen, stopSet, engines, loopVars, workerVars, resting,
                 op, todo, myGen, phase, races, calls>>

ManualDone(c) ==
  /\ pc[c] \in {"sweep", "place"}
  /\ todo[c] = {}
  /\ Return(c)
  /\ UNCHANGED <<engineGen, stopSet, engines, loopVars, workerVars, resting,
                 phase, races, calls>>

-----------------------------------------------------------------------------
(* The scanner loop. *)

Step(l, where) == loopPc' = [loopPc EXCEPT ![l] = where]

LoopFrame == UNCHANGED <<engineGen, stopSet, engines, loopGen, workerVars,
                         resting, callVars>>

\* The while condition, then the test for a client and registered wallets.
LoopTop(l) ==
  /\ loopPc[l] = "top"
  /\ IF stopSet \/ Stale(l) THEN Step(l, "done")
     ELSE IF \E w \in Wallets : Registered(w)
          THEN Step(l, "discover") \/ Step(l, "gate")
          ELSE Step(l, "tail")
  /\ UNCHANGED task
  /\ LoopFrame

\* A checkpoint of the discovery finds its generation over: ScanSuperseded.
DiscoverCancelled(l) ==
  /\ loopPc[l] = "discover"
  /\ Stale(l)
  /\ Step(l, "done")
  /\ UNCHANGED task
  /\ LoopFrame

\* The discovery ends or fails past its last checkpoint.
DiscoverEnds(l) ==
  /\ loopPc[l] = "discover"
  /\ Step(l, "gate")
  /\ UNCHANGED task
  /\ LoopFrame

\* _place_round: prefilter every running wallet and submit a task for each;
\* a wallet whose prefilter raised is left out.
PlaceRound(l) ==
  /\ loopPc[l] = "gate"
  /\ IF Stale(l) THEN Step(l, "done") /\ UNCHANGED task
     ELSE /\ \E survivors \in SUBSET {w \in Wallets : IsRunning(w)} :
               task' = [task EXCEPT ![l] =
                          [w \in Wallets |-> IF w \in survivors THEN "queued" ELSE "none"]]
          /\ Step(l, "tasks")
  /\ LoopFrame

\* The round returns when the pool has finished all of its tasks.
RoundEnds(l) ==
  /\ loopPc[l] = "tasks"
  /\ \A w \in Wallets : task[l][w] = "none"
  /\ Step(l, "tail")
  /\ UNCHANGED task
  /\ LoopFrame

LoopTail(l) ==
  /\ loopPc[l] = "tail"
  /\ Step(l, IF Stale(l) THEN "done" ELSE "wait")
  /\ UNCHANGED task
  /\ LoopFrame

\* _stop_event.wait(timeout): set, or the interval is over.
LoopWakes(l) ==
  /\ loopPc[l] = "wait"
  /\ Step(l, "top")
  /\ UNCHANGED task
  /\ LoopFrame

-----------------------------------------------------------------------------
(* _place_one on the pool, and the monitor threads. *)

TaskStep(l, w, from, to) ==
  /\ task[l][w] = from
  /\ task' = [task EXCEPT ![l][w] = to]
  /\ UNCHANGED <<engineGen, stopSet, engines, loopPc, loopGen, workerVars,
                 resting, callVars>>

\* The task compares its generation first ...
TaskChecksGeneration(l, w) ==
  TaskStep(l, w, "queued", IF Stale(l) THEN "none" ELSE "checked")

\* Mutated form: the worker is used without looking whether it still runs.
TaskLooksUpWorker_Unchecked(l, w) == TaskStep(l, w, "checked", "placing")

\* ... then looks its worker up, and from there on checks nothing again.
TaskLooksUpWorker(l, w) ==
  TaskStep(l, w, "checked", IF IsRunning(w) THEN "placing" ELSE "none")

TaskEnds(l, w) == TaskStep(l, w, "placing", "none")

TaskBuys(l, w) ==
  /\ task[l][w] = "placing"
  /\ resting' = [resting EXCEPT ![w] = TRUE]
  /\ UNCHANGED <<engineGen, stopSet, engines, loopVars, workerVars, callVars>>

\* A monitor tick cancels what no longer complies.
MonitorCancels(k) ==
  /\ alive[k]
  /\ resting' = [resting EXCEPT ![home[k]] = FALSE]
  /\ UNCHANGED <<engineGen, stopSet, engines, loopVars, workerVars, callVars>>

\* The monitor loop ends at the first look at its event after stop().
MonitorExits(k) ==
  /\ alive[k]
  /\ told[k]
  /\ alive' = [alive EXCEPT ![k] = FALSE]
  /\ UNCHANGED <<engineGen, stopSet, engines, loopVars, home, told, running,
                 resting, callVars>>

-----------------------------------------------------------------------------
ControlStep(c) ==
  \/ StartAll(c) \/ StartMonitors(c) \/ StartWallet(c)
  \/ CheckWallet(c) \/ RegisterWorker(c) \/ LaunchWorker(c) \/ CreateFails(c) \/ WalletsStarted(c)
  \/ BumpGeneration(c) \/ ClearStop(c) \/ SpawnLoop(c)
  \/ StopAll(c) \/ JoinLoop(c) \/ StopWallet(c) \/ PopWorker(c) \/ JoinWorker(c)
  \/ CancelBuys(c) \/ WalletsStopped(c)
  \/ CancelAllBuyOrders(c) \/ SweepWallet(c) \/ PlaceAllOrders(c) \/ ManualPass(c)
  \/ TestPlaceOrders(c) \/ ManualBuy(c) \/ ManualPassEnds(c) \/ ManualDone(c)

LoopStep(l) ==
  \/ LoopTop(l) \/ DiscoverCancelled(l) \/ DiscoverEnds(l) \/ PlaceRound(l)
  \/ RoundEnds(l) \/ LoopTail(l) \/ LoopWakes(l)

TaskProgress(l, w) ==
  TaskChecksGeneration(l, w) \/ TaskLooksUpWorker(l, w) \/ TaskEnds(l, w)

Next ==
  \/ \E c \in Operators : ControlStep(c)
  \/ \E l \in Loops : LoopStep(l)
  \/ \E l \in Loops, w \in Wallets : TaskProgress(l, w) \/ TaskBuys(l, w)
  \/ \E k \in Workers : MonitorCancels(k) \/ MonitorExits(k)

\* Threads are scheduled and every network call they make times out; nothing
\* makes the operator call anything.
Fairness ==
  /\ \A l \in Loops : WF_vars(LoopStep(l))
  /\ \A l \in Loops, w \in Wallets : WF_vars(TaskProgress(l, w))
  /\ \A k \in Workers : WF_vars(MonitorExits(k))

Spec     == Init /\ [][Next]_vars
FairSpec == Spec /\ Fairness

-----------------------------------------------------------------------------
(* Properties. *)

Current(l) == Live(l) /\ ~Stale(l)

\* At most one scanner thread belongs to the current generation, whatever
\* joins timed out and however often the engine was restarted: two of them
\* would place every order twice and cancel each other's (manager.py 825-832).
\* The one exception is named: two start_all served at once, of which one
\* increments the generation between the other's increment and its reading it
\* back (869-870, no lock).
OneCurrentLoop ==
  ~crossed => \A l, m \in Loops : Current(l) /\ Current(m) => l = m

\* Once start_all has returned, and until the next stop or start, the engine
\* has a live scanner thread of its own generation that nothing tells to stop:
\* start_all clears the event of the previous stop before it spawns.
StartedEngineHasLoop ==
  phase = "up" => ~stopSet /\ \E l \in Loops : Current(l)

\* Under any two requests served at once, the registry names exactly the monitor
\* threads that were not told to stop: no monitor lives on where no stop call can
\* reach it, and no wallet that counts as running is left without its monitor.
\* The first has one exception, which is named: a wallet of which two starts were
\* both between their look-up (manager.py 1142) and the monitor's start (1168), or
\* whose worker a stop took from the registry between 1167 and 1168.
RegistryIsExact ==
  /\ \A k \in Workers : alive[k] /\ ~told[k] =>
       engines[home[k]] = k \/ home[k] \in overlapped
  /\ \A w \in Wallets : IsRunning(w) =>
       LET k == engines[w] IN home[k] = w /\ alive[k] /\ ~told[k]

\* From the moment stop_all has returned, and until the operator calls again,
\* no placement task begins a pass: tasks that were queued when the engine
\* stopped give up at one of their two checks (manager.py 1484-1492).  The
\* stop_all is one that no other request overlapped; starts before it may have
\* raced in any way.
StoppedEngineStartsNoPass ==
  [][phase = "stopped" =>
       \A l \in Loops, w \in Wallets :
         task'[l][w] = "placing" => task[l][w] = "placing"]_vars

\* A scanner thread of an earlier generation ends, although start_all has
\* cleared the only event it was told to stop by (manager.py 825-832).
StaleLoopEnds ==
  \A l \in Loops : Live(l) /\ loopGen[l] # engineGen ~> loopPc[l] = "done"

\* Nothing of the engine is at work, but for the monitors that RegistryIsExact
\* excepts.
Quiet ==
  /\ \A l \in Loops : ~Live(l) /\ \A w \in Wallets : task[l][w] = "none"
  /\ \A k \in Workers : alive[k] => home[k] \in overlapped

\* What outlived the joins of stop_all ends by itself: unless the operator
\* calls again, a state is reached in which no scanner thread, placement task
\* or monitor thread is left.
StopDrains == phase = "stopped" ~> Quiet \/ phase # "stopped"

=============================================================================
