----------------------------- MODULE ScanControl -----------------------------
(***************************************************************************)
(* Who writes the candidate pool, and who places orders from it            *)
(* (EngineManager in engine/manager.py): manual scans that supersede each  *)
(* other by _scan_generation, the scanner loop's own discoveries, which    *)
(* only the engine's generation can cut off, and the placement rounds that *)
(* take eligible_markets as it stands.                                     *)
(*                                                                         *)
(* A pool is abstracted to whether it is a scan's whole result, part of    *)
(* one, or empty.  The assignments after an is_current() or stale() check  *)
(* are one step with their check; a write to the database is a step of its *)
(* own.  Wallets are assumed to be running whenever a scanner loop is      *)
(* (EngineLifecycle has the rest).                                         *)
(***************************************************************************)
EXTENDS Naturals

CONSTANTS
  MaxScans,   \* bound: manual scans in a behaviour
  MaxGen      \* bound: engine generations in a behaviour

ASSUME BoundsAssumption == MaxScans \in Nat /\ MaxGen \in Nat

Scans == 1..MaxScans    \* manual scan threads, by the generation they carry
Loops == 1..MaxGen      \* scanner loops, by the engine generation they carry

VARIABLES
  status,       \* scan_status
  pool,         \* eligible_markets
  timed,        \* has a scan ever set last_scan_time
  scanGen,      \* _scan_generation
  scanPc,       \* where each manual scan thread stands
  scanBefore,   \* its prev_eligible
  engineGen,    \* _engine_generation
  stopSet,      \* _stop_event.is_set()
  starting,     \* is start_all between its reset of the pool and its new loop
  loopPc,       \* where each scanner loop stands
  loopBefore,   \* the prev_eligible of its discovery
  saved,        \* the manual scan whose result the database holds
  cut,          \* history: a cut-off discovery left the status behind
  doubled       \* history: start_all was called on a running engine

scanVars   == <<scanGen, scanPc, scanBefore>>
engineVars == <<engineGen, stopSet, starting, doubled>>
loopVars   == <<loopPc, loopBefore>>
vars == <<status, pool, timed, scanVars, engineVars, loopVars, saved, cut>>

Pools   == {"empty", "partial", "whole"}
ScanPcs == {"unborn", "begin", "scan", "check", "save", "close", "gone"}
LoopPcs == {"unborn", "top", "scan", "gate", "place", "gone"}

ScanTypes ==
  /\ scanGen \in 0..MaxScans
  /\ scanPc \in [Scans -> ScanPcs]
  /\ \A s \in Scans : scanPc[s] = "unborn" <=> s > scanGen
  /\ scanBefore \in [Scans -> Pools]
  /\ saved \in 0..scanGen

LoopTypes ==
  /\ engineGen \in 0..MaxGen
  /\ loopPc \in [Loops -> LoopPcs]
  /\ loopBefore \in [Loops -> Pools]

FlagTypes ==
  /\ timed \in BOOLEAN /\ stopSet \in BOOLEAN /\ starting \in BOOLEAN
  /\ cut \in BOOLEAN /\ doubled \in BOOLEAN

TypeOK ==
  /\ status \in {"idle", "scanning", "done"}
  /\ pool \in Pools
  /\ ScanTypes /\ LoopTypes /\ FlagTypes

Init ==
  /\ status = "idle" /\ pool = "empty" /\ timed = FALSE
  /\ scanGen = 0
  /\ scanPc = [s \in Scans |-> "unborn"]
  /\ scanBefore = [s \in Scans |-> "empty"]
  /\ engineGen = 0 /\ stopSet = FALSE /\ starting = FALSE
  /\ loopPc = [g \in Loops |-> "unborn"]
  /\ loopBefore = [g \in Loops |-> "empty"]
  /\ saved = 0
  /\ cut = FALSE /\ doubled = FALSE

\* on_found: one more candidate in whatever list eligible_markets names now.
Grown == IF pool = "empty" THEN "partial" ELSE pool

ScanGoes(s, p) == scanPc' = [scanPc EXCEPT ![s] = p]
LoopGoes(g, p) == loopPc' = [loopPc EXCEPT ![g] = p]

\* _scan_with_status returns or raises.
ScanLeaves(s, p) == ScanGoes(s, p) /\ scanBefore' = [scanBefore EXCEPT ![s] = "empty"]
LoopReturns(g, p) == LoopGoes(g, p) /\ loopBefore' = [loopBefore EXCEPT ![g] = "empty"]

\* The status is set to done, or is known not to be "scanning".
Settled == status' = "done" /\ cut' = FALSE

-----------------------------------------------------------------------------
(* Manual scans. *)

\* start_scan_async: refused while a scan shows, unless forced.
StartScan(force) ==
  /\ scanGen < MaxScans
  /\ status # "scanning" \/ force
  /\ scanGen' = scanGen + 1
  /\ ScanGoes(scanGen + 1, "begin")
  /\ status' = "scanning"
  /\ UNCHANGED <<pool, timed, scanBefore, engineVars, loopVars, saved, cut>>

\* _ensure_scanner_api finds no enabled wallet: nothing to scan with.
NoWallet(s) ==
  /\ scanPc[s] = "begin"
  /\ ScanGoes(s, "close")
  /\ UNCHANGED <<status, pool, timed, scanGen, scanBefore, engineVars, loopVars, saved, cut>>

\* The pool is emptied, to be filled as candidates are found.
BeginScan(s) ==
  /\ scanPc[s] = "begin"
  /\ ScanGoes(s, "scan")
  /\ scanBefore' = [scanBefore EXCEPT ![s] = pool]
  /\ IF s = scanGen THEN status' = "scanning" /\ pool' = "empty"
     ELSE UNCHANGED <<status, pool>>
  /\ UNCHANGED <<timed, scanGen, engineVars, loopVars, saved, cut>>

Found(s) ==
  /\ scanPc[s] = "scan"
  /\ s = scanGen
  /\ pool' = Grown
  /\ UNCHANGED <<status, timed, scanVars, engineVars, loopVars, saved, cut>>

\* ScanSuperseded, at the next check of cancel().
Superseded(s) ==
  /\ scanPc[s] = "scan"
  /\ s # scanGen
  /\ ScanLeaves(s, "close")
  /\ UNCHANGED <<status, pool, timed, scanGen, engineVars, loopVars, saved, cut>>

\* The previous pool comes back.
ScanFails(s) ==
  /\ scanPc[s] = "scan"
  /\ ScanLeaves(s, "close")
  /\ IF s = scanGen THEN Settled /\ pool' = scanBefore[s]
     ELSE UNCHANGED <<status, cut, pool>>
  /\ UNCHANGED <<timed, scanGen, engineVars, loopVars, saved>>

\* A scan may also find no candidate at all.
ScanCompletes(s) ==
  /\ scanPc[s] = "scan"
  /\ ScanLeaves(s, "check")
  /\ IF s = scanGen THEN Settled /\ pool' \in {"empty", "whole"} /\ timed' = TRUE
     ELSE UNCHANGED <<status, cut, pool, timed>>
  /\ UNCHANGED <<scanGen, engineVars, loopVars, saved>>

\* scan_markets looks whether its scan is still current ...
CheckResult(s) ==
  /\ scanPc[s] = "check"
  /\ ScanGoes(s, IF s = scanGen THEN "save" ELSE "close")
  /\ UNCHANGED <<status, pool, timed, scanGen, scanBefore, engineVars, loopVars, saved, cut>>

\* ... and saves its result to the database, unless that fails; meanwhile another
\* scan may have begun, and even have saved its own.
SaveResult(s) ==
  /\ scanPc[s] = "save"
  /\ ScanGoes(s, "close")
  /\ saved' \in {s, saved}
  /\ UNCHANGED <<status, pool, timed, scanGen, scanBefore, engineVars, loopVars, cut>>

\* Mutated form: nothing settles the status of a scan that returned early.
ScanEnds_NoFinally(s) ==
  /\ scanPc[s] = "close"
  /\ ScanGoes(s, "gone")
  /\ UNCHANGED <<status, pool, timed, scanGen, scanBefore, engineVars, loopVars, saved, cut>>

\* _run_scan's finally.
ScanEnds(s) ==
  /\ scanPc[s] = "close"
  /\ ScanGoes(s, "gone")
  /\ IF s = scanGen /\ status = "scanning" THEN Settled ELSE UNCHANGED <<status, cut>>
  /\ UNCHANGED <<pool, timed, scanGen, scanBefore, engineVars, loopVars, saved>>

-----------------------------------------------------------------------------
(* The engine and its scanner loops. *)

\* start_all empties the pool first, to force a discovery ...
ResetPool ==
  /\ ~starting /\ engineGen < MaxGen
  /\ starting' = TRUE
  /\ pool' = "empty"
  /\ doubled' = (doubled \/ (engineGen > 0 /\ ~stopSet))
  /\ UNCHANGED <<status, timed, scanVars, engineGen, stopSet, loopVars, saved, cut>>

\* ... and launches the loop when the wallets are up and recovered.
LaunchLoop ==
  /\ starting
  /\ starting' = FALSE
  /\ engineGen < MaxGen
  /\ engineGen' = engineGen + 1
  /\ stopSet' = FALSE
  /\ LoopGoes(engineGen + 1, "top")
  /\ UNCHANGED <<status, pool, timed, scanVars, loopBefore, saved, cut, doubled>>

\* stop_all; the join may time out, the loop may go on for a while.
StopAll ==
  /\ ~starting /\ engineGen < MaxGen
  /\ engineGen' = engineGen + 1
  /\ stopSet' = TRUE
  /\ UNCHANGED <<status, pool, timed, scanVars, starting, loopVars, saved, cut, doubled>>

Stale(g) == g # engineGen

\* The checks at the loop's head, after the discovery and after the round.
LoopLeaves(g) ==
  /\ loopPc[g] \in {"top", "gate"}
  /\ stopSet \/ Stale(g)
  /\ LoopGoes(g, "gone")
  /\ UNCHANGED <<status, pool, timed, scanVars, engineVars, loopBefore, saved, cut>>

\* _should_discover, _discover: current whatever manual scans do.  The interval
\* may have elapsed at any time.
BeginDiscovery(g) ==
  /\ loopPc[g] = "top" /\ ~stopSet /\ ~Stale(g)
  /\ LoopGoes(g, "scan")
  /\ loopBefore' = [loopBefore EXCEPT ![g] = pool]
  /\ status' = "scanning"
  /\ pool' = "empty"
  /\ UNCHANGED <<timed, scanVars, engineVars, saved, cut>>

NothingDue(g) ==
  /\ loopPc[g] = "top" /\ ~stopSet /\ ~Stale(g)
  /\ pool # "empty" /\ timed
  /\ LoopGoes(g, "gate")
  /\ UNCHANGED <<status, pool, timed, scanVars, engineVars, loopBefore, saved, cut>>

DiscoveryFinds(g) ==
  /\ loopPc[g] = "scan"
  /\ ~Stale(g)
  /\ pool' = Grown
  /\ UNCHANGED <<status, timed, scanVars, engineVars, loopVars, saved, cut>>

\* ScanSuperseded: the loop breaks, and nobody touches the status.
DiscoveryIsCut(g) ==
  /\ loopPc[g] = "scan"
  /\ Stale(g)
  /\ LoopReturns(g, "gone")
  /\ cut' = (status = "scanning")
  /\ UNCHANGED <<status, pool, timed, scanVars, engineVars, saved>>

\* Mutated form: the pool stays as the failure left it.
DiscoveryFails_NoRestore(g) ==
  /\ loopPc[g] = "scan"
  /\ LoopReturns(g, "gate")
  /\ Settled
  /\ UNCHANGED <<pool, timed, scanVars, engineVars, saved>>

DiscoveryFails(g) ==
  /\ loopPc[g] = "scan"
  /\ LoopReturns(g, "gate")
  /\ pool' = loopBefore[g]
  /\ Settled
  /\ UNCHANGED <<timed, scanVars, engineVars, saved>>

DiscoveryCompletes(g) ==
  /\ loopPc[g] = "scan"
  /\ LoopReturns(g, "gate")
  /\ pool' \in {"empty", "whole"}
  /\ timed' = TRUE
  /\ Settled
  /\ UNCHANGED <<scanVars, engineVars, saved>>

\* _place_round on eligible_markets as it stands now.
RoundBegins(g) ==
  /\ loopPc[g] = "gate" /\ ~Stale(g)
  /\ pool # "empty"
  /\ LoopGoes(g, "place")
  /\ UNCHANGED <<status, pool, timed, scanVars, engineVars, loopBefore, saved, cut>>

\* An empty pool: no round.
NoRound(g) ==
  /\ loopPc[g] = "gate" /\ ~Stale(g)
  /\ pool = "empty"
  /\ LoopGoes(g, "top")
  /\ UNCHANGED <<status, pool, timed, scanVars, engineVars, loopBefore, saved, cut>>

RoundEnds(g) ==
  /\ loopPc[g] = "place"
  /\ LoopGoes(g, "top")
  /\ UNCHANGED <<status, pool, timed, scanVars, engineVars, loopBefore, saved, cut>>

-----------------------------------------------------------------------------
Scan(s) ==
  \/ NoWallet(s) \/ BeginScan(s) \/ Found(s) \/ Superseded(s)
  \/ ScanFails(s) \/ ScanCompletes(s) \/ CheckResult(s) \/ SaveResult(s) \/ ScanEnds(s)

Loop(g) ==
  \/ LoopLeaves(g) \/ BeginDiscovery(g) \/ NothingDue(g)
  \/ DiscoveryFinds(g) \/ DiscoveryIsCut(g) \/ DiscoveryFails(g) \/ DiscoveryCompletes(g)
  \/ RoundBegins(g) \/ NoRound(g) \/ RoundEnds(g)

Operator ==
  \/ \E force \in BOOLEAN : StartScan(force)
  \/ ResetPool \/ LaunchLoop \/ StopAll

Next ==
  \/ Operator
  \/ \E s \in Scans : Scan(s)
  \/ \E g \in Loops : Loop(g)

Spec == Init /\ [][Next]_vars

-----------------------------------------------------------------------------
(* Properties. *)

Scanning ==
  \/ \E s \in Scans : scanPc[s] \notin {"unborn", "gone"}
  \/ \E g \in Loops : loopPc[g] = "scan"

\* A status of "scanning" that no scan is there to settle comes from one cause
\* alone, a discovery that was cut off; however manual scans supersede each
\* other, fail, or find no wallet (_run_scan's docstring, manager.py 977-978).
StuckOnlyByCut == status = "scanning" /\ ~cut => Scanning

\* Without manual scans the loop never places from part of a pool, whatever
\* discoveries fail or are cut off and however often the engine is stopped and
\* started (manager.py 1398-1402): what would be missing from the pool would be
\* cancelled as dropouts.
AutoRoundsUseWholePools ==
  [][scanGen = 0 /\ ~doubled => \A g \in Loops : RoundBegins(g) => pool = "whole"]_vars

=============================================================================
