--------------------------- MODULE Discovery_proofs ---------------------------
(***************************************************************************)
(* Theorems about ScanControl and CandidatePool.                           *)
(*                                                                         *)
(* First how discoveries, manual scans and rounds share one pool and one   *)
(* status, for any number of manual scans and engine generations.  Then    *)
(* what a discovery puts into the pool, which no wallet is the worse for:  *)
(* a market that passes for one suits its template and has its precise     *)
(* reward, and one that it wants is not lost, for any wallets, markets,    *)
(* templates and edits.                                                    *)
(***************************************************************************)
EXTENDS ScanControl, CandidatePool, TLAPS, FiniteSetTheorems, WellFoundedInduction

-----------------------------------------------------------------------------
(* The pool and its status (ScanControl). *)

\* A generation that no loop was launched for yet, or that stands for a stop,
\* has no loop.
LoopInv ==
  /\ \A g \in Loops : g > engineGen => loopPc[g] = "unborn"
  /\ stopSet => engineGen \in Loops /\ loopPc[engineGen] = "unborn"

\* What an unsettled status leans on: the current manual scan, a discovery, or
\* the mark that one was cut off.
StatusInv ==
  status = "scanning" /\ ~cut =>
    \/ scanGen \in Scans /\ scanPc[scanGen] # "gone"
    \/ \E g \in Loops : loopPc[g] = "scan"

\* Without manual scans and double starts, only the current loop's discovery
\* has a partial pool under way, unless the engine was stopped in its course.
PoolInv ==
  scanGen = 0 /\ ~doubled =>
    /\ pool = "partial" =>
         stopSet \/ (engineGen \in Loops /\ loopPc[engineGen] = "scan")
    /\ \A g \in Loops : loopBefore[g] # "partial"
    /\ starting => pool # "partial" /\ (stopSet \/ engineGen = 0)

-----------------------------------------------------------------------------
(* Type correctness. *)

LEMMA StepScanTypes ==
  ASSUME TypeOK, [Next]_vars
  PROVE  ScanTypes'
<1> USE BoundsAssumption
    DEF TypeOK, ScanTypes, scanVars, engineVars, loopVars,
        ScanGoes, ScanLeaves, Scans, Pools, ScanPcs
<1>1. CASE \E force \in BOOLEAN : StartScan(force) BY <1>1 DEF StartScan
<1>2. CASE ResetPool BY <1>2 DEF ResetPool
<1>3. CASE LaunchLoop BY <1>3 DEF LaunchLoop
<1>4. CASE StopAll BY <1>4 DEF StopAll
<1>5. CASE \E s \in Scans : NoWallet(s) BY <1>5 DEF NoWallet
<1>6. CASE \E s \in Scans : BeginScan(s) BY <1>6 DEF BeginScan
<1>7. CASE \E s \in Scans : Found(s) BY <1>7 DEF Found
<1>8. CASE \E s \in Scans : Superseded(s) BY <1>8 DEF Superseded
<1>9. CASE \E s \in Scans : ScanFails(s) BY <1>9 DEF ScanFails
<1>10. CASE \E s \in Scans : ScanCompletes(s) BY <1>10 DEF ScanCompletes
<1>11. CASE \E s \in Scans : CheckResult(s) \/ SaveResult(s) BY <1>11 DEF CheckResult, SaveResult
<1>12. CASE \E s \in Scans : ScanEnds(s) BY <1>12 DEF ScanEnds
<1>13. CASE \E g \in Loops : LoopLeaves(g) BY <1>13 DEF LoopLeaves
<1>14. CASE \E g \in Loops : BeginDiscovery(g) BY <1>14 DEF BeginDiscovery
<1>15. CASE \E g \in Loops : NothingDue(g) BY <1>15 DEF NothingDue
<1>16. CASE \E g \in Loops : DiscoveryFinds(g) BY <1>16 DEF DiscoveryFinds
<1>17. CASE \E g \in Loops : DiscoveryIsCut(g) BY <1>17 DEF DiscoveryIsCut
<1>18. CASE \E g \in Loops : DiscoveryFails(g) BY <1>18 DEF DiscoveryFails
<1>19. CASE \E g \in Loops : DiscoveryCompletes(g) BY <1>19 DEF DiscoveryCompletes
<1>20. CASE \E g \in Loops : RoundBegins(g) BY <1>20 DEF RoundBegins
<1>21. CASE \E g \in Loops : NoRound(g) BY <1>21 DEF NoRound
<1>22. CASE \E g \in Loops : RoundEnds(g) BY <1>22 DEF RoundEnds
<1>23. CASE UNCHANGED vars BY <1>23 DEF vars
<1>q. QED BY <1>1, <1>2, <1>3, <1>4, <1>5, <1>6, <1>7, <1>8, <1>9, <1>10, <1>11, <1>12,
         <1>13, <1>14, <1>15, <1>16, <1>17, <1>18, <1>19, <1>20, <1>21, <1>22, <1>23
         DEF Next, Operator, Scan, Loop

LEMMA StepLoopTypes ==
  ASSUME TypeOK, [Next]_vars
  PROVE  LoopTypes'
<1> USE BoundsAssumption
    DEF TypeOK, LoopTypes, scanVars, engineVars, loopVars,
        LoopGoes, LoopReturns, Loops, Pools, LoopPcs
<1>1. CASE \E force \in BOOLEAN : StartScan(force) BY <1>1 DEF StartScan
<1>2. CASE ResetPool BY <1>2 DEF ResetPool
<1>3. CASE LaunchLoop BY <1>3 DEF LaunchLoop
<1>4. CASE StopAll BY <1>4 DEF StopAll
<1>5. CASE \E s \in Scans : NoWallet(s) BY <1>5 DEF NoWallet
<1>6. CASE \E s \in Scans : BeginScan(s) BY <1>6 DEF BeginScan
<1>7. CASE \E s \in Scans : Found(s) BY <1>7 DEF Found
<1>8. CASE \E s \in Scans : Superseded(s) BY <1>8 DEF Superseded
<1>9. CASE \E s \in Scans : ScanFails(s) BY <1>9 DEF ScanFails
<1>10. CASE \E s \in Scans : ScanCompletes(s) BY <1>10 DEF ScanCompletes
<1>11. CASE \E s \in Scans : CheckResult(s) \/ SaveResult(s) BY <1>11 DEF CheckResult, SaveResult
<1>12. CASE \E s \in Scans : ScanEnds(s) BY <1>12 DEF ScanEnds
<1>13. CASE \E g \in Loops : LoopLeaves(g) BY <1>13 DEF LoopLeaves
<1>14. CASE \E g \in Loops : BeginDiscovery(g) BY <1>14 DEF BeginDiscovery
<1>15. CASE \E g \in Loops : NothingDue(g) BY <1>15 DEF NothingDue
<1>16. CASE \E g \in Loops : DiscoveryFinds(g) BY <1>16 DEF DiscoveryFinds
<1>17. CASE \E g \in Loops : DiscoveryIsCut(g) BY <1>17 DEF DiscoveryIsCut
<1>18. CASE \E g \in Loops : DiscoveryFails(g) BY <1>18 DEF DiscoveryFails
<1>19. CASE \E g \in Loops : DiscoveryCompletes(g) BY <1>19 DEF DiscoveryCompletes
<1>20. CASE \E g \in Loops : RoundBegins(g) BY <1>20 DEF RoundBegins
<1>21. CASE \E g \in Loops : NoRound(g) BY <1>21 DEF NoRound
<1>22. CASE \E g \in Loops : RoundEnds(g) BY <1>22 DEF RoundEnds
<1>23. CASE UNCHANGED vars BY <1>23 DEF vars
<1>q. QED BY <1>1, <1>2, <1>3, <1>4, <1>5, <1>6, <1>7, <1>8, <1>9, <1>10, <1>11, <1>12,
         <1>13, <1>14, <1>15, <1>16, <1>17, <1>18, <1>19, <1>20, <1>21, <1>22, <1>23
         DEF Next, Operator, Scan, Loop

LEMMA StepFlagTypes ==
  ASSUME TypeOK, [Next]_vars
  PROVE  FlagTypes'
<1> USE Zenon DEF TypeOK, FlagTypes, scanVars, engineVars, loopVars, Settled
<1>1. CASE \E force \in BOOLEAN : StartScan(force) BY <1>1 DEF StartScan
<1>2. CASE ResetPool BY <1>2 DEF ResetPool
<1>3. CASE LaunchLoop BY <1>3 DEF LaunchLoop
<1>4. CASE StopAll BY <1>4 DEF StopAll
<1>5. CASE \E s \in Scans : NoWallet(s) BY <1>5 DEF NoWallet
<1>6. CASE \E s \in Scans : BeginScan(s) BY <1>6 DEF BeginScan
<1>7. CASE \E s \in Scans : Found(s) BY <1>7 DEF Found
<1>8. CASE \E s \in Scans : Superseded(s) BY <1>8 DEF Superseded
<1>9. CASE \E s \in Scans : ScanFails(s) BY <1>9 DEF ScanFails
<1>10. CASE \E s \in Scans : ScanCompletes(s) BY <1>10 DEF ScanCompletes
<1>11. CASE \E s \in Scans : CheckResult(s) \/ SaveResult(s) BY <1>11 DEF CheckResult, SaveResult
<1>12. CASE \E s \in Scans : ScanEnds(s) BY <1>12 DEF ScanEnds
<1>13. CASE \E g \in Loops : LoopLeaves(g) BY <1>13 DEF LoopLeaves
<1>14. CASE \E g \in Loops : BeginDiscovery(g) BY <1>14 DEF BeginDiscovery
<1>15. CASE \E g \in Loops : NothingDue(g) BY <1>15 DEF NothingDue
<1>16. CASE \E g \in Loops : DiscoveryFinds(g) BY <1>16 DEF DiscoveryFinds
<1>17. CASE \E g \in Loops : DiscoveryIsCut(g) BY <1>17 DEF DiscoveryIsCut
<1>18. CASE \E g \in Loops : DiscoveryFails(g) BY <1>18 DEF DiscoveryFails
<1>19. CASE \E g \in Loops : DiscoveryCompletes(g) BY <1>19 DEF DiscoveryCompletes
<1>20. CASE \E g \in Loops : RoundBegins(g) BY <1>20 DEF RoundBegins
<1>21. CASE \E g \in Loops : NoRound(g) BY <1>21 DEF NoRound
<1>22. CASE \E g \in Loops : RoundEnds(g) BY <1>22 DEF RoundEnds
<1>23. CASE UNCHANGED vars BY <1>23 DEF vars
<1>q. QED BY <1>1, <1>2, <1>3, <1>4, <1>5, <1>6, <1>7, <1>8, <1>9, <1>10, <1>11, <1>12,
         <1>13, <1>14, <1>15, <1>16, <1>17, <1>18, <1>19, <1>20, <1>21, <1>22, <1>23
         DEF Next, Operator, Scan, Loop

LEMMA StepPoolTypes ==
  ASSUME TypeOK, [Next]_vars
  PROVE  status' \in {"idle", "scanning", "done"} /\ pool' \in Pools
<1> USE DEF TypeOK, ScanTypes, LoopTypes, scanVars, engineVars, loopVars, Settled, Pools
<1>1. CASE \E force \in BOOLEAN : StartScan(force) BY <1>1 DEF StartScan
<1>2. CASE ResetPool BY <1>2 DEF ResetPool
<1>3. CASE LaunchLoop BY <1>3 DEF LaunchLoop
<1>4. CASE StopAll BY <1>4 DEF StopAll
<1>5. CASE \E s \in Scans : NoWallet(s) BY <1>5 DEF NoWallet
<1>6. CASE \E s \in Scans : BeginScan(s) BY <1>6 DEF BeginScan
<1>7. CASE \E s \in Scans : Found(s) BY <1>7 DEF Found, Grown
<1>8. CASE \E s \in Scans : Superseded(s) BY <1>8 DEF Superseded
<1>9. CASE \E s \in Scans : ScanFails(s) BY <1>9 DEF ScanFails
<1>10. CASE \E s \in Scans : ScanCompletes(s) BY <1>10 DEF ScanCompletes
<1>11. CASE \E s \in Scans : CheckResult(s) \/ SaveResult(s) BY <1>11 DEF CheckResult, SaveResult
<1>12. CASE \E s \in Scans : ScanEnds(s) BY <1>12 DEF ScanEnds
<1>13. CASE \E g \in Loops : LoopLeaves(g) BY <1>13 DEF LoopLeaves
<1>14. CASE \E g \in Loops : BeginDiscovery(g) BY <1>14 DEF BeginDiscovery
<1>15. CASE \E g \in Loops : NothingDue(g) BY <1>15 DEF NothingDue
<1>16. CASE \E g \in Loops : DiscoveryFinds(g) BY <1>16 DEF DiscoveryFinds, Grown
<1>17. CASE \E g \in Loops : DiscoveryIsCut(g) BY <1>17 DEF DiscoveryIsCut
<1>18. CASE \E g \in Loops : DiscoveryFails(g) BY <1>18 DEF DiscoveryFails
<1>19. CASE \E g \in Loops : DiscoveryCompletes(g) BY <1>19 DEF DiscoveryCompletes
<1>20. CASE \E g \in Loops : RoundBegins(g) BY <1>20 DEF RoundBegins
<1>21. CASE \E g \in Loops : NoRound(g) BY <1>21 DEF NoRound
<1>22. CASE \E g \in Loops : RoundEnds(g) BY <1>22 DEF RoundEnds
<1>23. CASE UNCHANGED vars BY <1>23 DEF vars
<1>q. QED BY <1>1, <1>2, <1>3, <1>4, <1>5, <1>6, <1>7, <1>8, <1>9, <1>10, <1>11, <1>12,
         <1>13, <1>14, <1>15, <1>16, <1>17, <1>18, <1>19, <1>20, <1>21, <1>22, <1>23
         DEF Next, Operator, Scan, Loop

\* Every variable keeps its type.
THEOREM TypeCorrect == Spec => []TypeOK
<1>1. Init => TypeOK
  <2> SUFFICES ASSUME Init PROVE TypeOK
    OBVIOUS
  <2>1. ScanTypes
    BY BoundsAssumption DEF Init, ScanTypes, Scans, Pools, ScanPcs
  <2>2. LoopTypes
    BY BoundsAssumption DEF Init, LoopTypes, Loops, Pools, LoopPcs
  <2>3. FlagTypes
    BY DEF Init, FlagTypes
  <2>q. QED BY <2>1, <2>2, <2>3 DEF Init, TypeOK, Pools
<1>2. TypeOK /\ [Next]_vars => TypeOK'
  BY StepScanTypes, StepLoopTypes, StepFlagTypes, StepPoolTypes DEF TypeOK
<1>q. QED BY <1>1, <1>2, PTL DEF Spec

-----------------------------------------------------------------------------
(* The status. *)

LEMMA StepLoops ==
  ASSUME TypeOK, LoopInv, [Next]_vars
  PROVE  LoopInv'
<1> USE BoundsAssumption
    DEF TypeOK, ScanTypes, LoopTypes, LoopInv, scanVars, engineVars, loopVars, ScanGoes, LoopGoes, ScanLeaves, LoopReturns, Settled,
        Loops, Stale
<1>1. CASE \E force \in BOOLEAN : StartScan(force) BY <1>1 DEF StartScan
<1>2. CASE ResetPool BY <1>2 DEF ResetPool
<1>3. CASE LaunchLoop BY <1>3 DEF LaunchLoop
<1>4. CASE StopAll BY <1>4 DEF StopAll
<1>5. CASE \E s \in Scans : NoWallet(s) BY <1>5 DEF NoWallet
<1>6. CASE \E s \in Scans : BeginScan(s) BY <1>6 DEF BeginScan
<1>7. CASE \E s \in Scans : Found(s) BY <1>7 DEF Found
<1>8. CASE \E s \in Scans : Superseded(s) BY <1>8 DEF Superseded
<1>9. CASE \E s \in Scans : ScanFails(s) BY <1>9 DEF ScanFails
<1>10. CASE \E s \in Scans : ScanCompletes(s) BY <1>10 DEF ScanCompletes
<1>11. CASE \E s \in Scans : CheckResult(s) \/ SaveResult(s) BY <1>11 DEF CheckResult, SaveResult
<1>12. CASE \E s \in Scans : ScanEnds(s) BY <1>12 DEF ScanEnds
<1>13. CASE \E g \in Loops : LoopLeaves(g) BY <1>13 DEF LoopLeaves
<1>14. CASE \E g \in Loops : BeginDiscovery(g) BY <1>14 DEF BeginDiscovery
<1>15. CASE \E g \in Loops : NothingDue(g) BY <1>15 DEF NothingDue
<1>16. CASE \E g \in Loops : DiscoveryFinds(g) BY <1>16 DEF DiscoveryFinds
<1>17. CASE \E g \in Loops : DiscoveryIsCut(g) BY <1>17 DEF DiscoveryIsCut
<1>18. CASE \E g \in Loops : DiscoveryFails(g) BY <1>18 DEF DiscoveryFails
<1>19. CASE \E g \in Loops : DiscoveryCompletes(g) BY <1>19 DEF DiscoveryCompletes
<1>20. CASE \E g \in Loops : RoundBegins(g) BY <1>20 DEF RoundBegins
<1>21. CASE \E g \in Loops : NoRound(g) BY <1>21 DEF NoRound
<1>22. CASE \E g \in Loops : RoundEnds(g) BY <1>22 DEF RoundEnds
<1>23. CASE UNCHANGED vars BY <1>23 DEF vars
<1>q. QED BY <1>1, <1>2, <1>3, <1>4, <1>5, <1>6, <1>7, <1>8, <1>9, <1>10, <1>11, <1>12,
         <1>13, <1>14, <1>15, <1>16, <1>17, <1>18, <1>19, <1>20, <1>21, <1>22, <1>23
         DEF Next, Operator, Scan, Loop

LEMMA StepStatus ==
  ASSUME TypeOK, LoopInv, StatusInv, [Next]_vars
  PROVE  StatusInv'
<1> USE BoundsAssumption
    DEF TypeOK, ScanTypes, LoopTypes, LoopInv, StatusInv, scanVars, engineVars, loopVars, ScanGoes, LoopGoes, ScanLeaves, LoopReturns, Settled,
        Scans, Loops
<1>1. CASE \E force \in BOOLEAN : StartScan(force) BY <1>1 DEF StartScan
<1>2. CASE ResetPool BY <1>2 DEF ResetPool
<1>3. CASE LaunchLoop BY <1>3 DEF LaunchLoop
<1>4. CASE StopAll BY <1>4 DEF StopAll
<1>5. CASE \E s \in Scans : NoWallet(s) BY <1>5 DEF NoWallet
<1>6. CASE \E s \in Scans : BeginScan(s) BY <1>6 DEF BeginScan
<1>7. CASE \E s \in Scans : Found(s) BY <1>7 DEF Found
<1>8. CASE \E s \in Scans : Superseded(s) BY <1>8 DEF Superseded
<1>9. CASE \E s \in Scans : ScanFails(s) BY <1>9 DEF ScanFails
<1>10. CASE \E s \in Scans : ScanCompletes(s) BY <1>10 DEF ScanCompletes
<1>11. CASE \E s \in Scans : CheckResult(s) \/ SaveResult(s) BY <1>11 DEF CheckResult, SaveResult
<1>12. CASE \E s \in Scans : ScanEnds(s) BY <1>12 DEF ScanEnds
<1>13. CASE \E g \in Loops : LoopLeaves(g) BY <1>13 DEF LoopLeaves
<1>14. CASE \E g \in Loops : BeginDiscovery(g) BY <1>14 DEF BeginDiscovery
<1>15. CASE \E g \in Loops : NothingDue(g) BY <1>15 DEF NothingDue
<1>16. CASE \E g \in Loops : DiscoveryFinds(g) BY <1>16 DEF DiscoveryFinds
<1>17. CASE \E g \in Loops : DiscoveryIsCut(g) BY <1>17 DEF DiscoveryIsCut
<1>18. CASE \E g \in Loops : DiscoveryFails(g) BY <1>18 DEF DiscoveryFails
<1>19. CASE \E g \in Loops : DiscoveryCompletes(g) BY <1>19 DEF DiscoveryCompletes
<1>20. CASE \E g \in Loops : RoundBegins(g) BY <1>20 DEF RoundBegins
<1>21. CASE \E g \in Loops : NoRound(g) BY <1>21 DEF NoRound
<1>22. CASE \E g \in Loops : RoundEnds(g) BY <1>22 DEF RoundEnds
<1>23. CASE UNCHANGED vars BY <1>23 DEF vars
<1>q. QED BY <1>1, <1>2, <1>3, <1>4, <1>5, <1>6, <1>7, <1>8, <1>9, <1>10, <1>11, <1>12,
         <1>13, <1>14, <1>15, <1>16, <1>17, <1>18, <1>19, <1>20, <1>21, <1>22, <1>23
         DEF Next, Operator, Scan, Loop

\* A status left at "scanning" is the doing of a cut-off discovery, for any
\* number of manual scans and restarts (StuckOnlyByCut).
THEOREM StatusSettles == Spec => []StuckOnlyByCut
<1>1. Init => LoopInv /\ StatusInv
  BY BoundsAssumption DEF Init, LoopInv, StatusInv, Loops
<1>2. TypeOK /\ LoopInv /\ StatusInv /\ [Next]_vars => LoopInv' /\ StatusInv'
  BY StepLoops, StepStatus
<1>3. TypeOK /\ StatusInv => StuckOnlyByCut
  BY DEF TypeOK, ScanTypes, LoopTypes, LoopInv, StatusInv, StuckOnlyByCut, Scanning, Scans
<1>q. QED BY <1>1, <1>2, <1>3, TypeCorrect, PTL DEF Spec

-----------------------------------------------------------------------------
(* Placement rounds. *)

LEMMA StepPool ==
  ASSUME TypeOK, LoopInv, PoolInv, [Next]_vars
  PROVE  PoolInv'
<1> USE BoundsAssumption
    DEF TypeOK, ScanTypes, LoopTypes, LoopInv, PoolInv, scanVars, engineVars, loopVars, ScanGoes, LoopGoes, ScanLeaves, LoopReturns, Settled,
        Scans, Loops, Stale, Pools
<1>1. CASE \E force \in BOOLEAN : StartScan(force) BY <1>1 DEF StartScan
<1>2. CASE ResetPool
  <2>1. ~doubled' => ~doubled /\ (stopSet \/ ~(engineGen > 0))
    BY <1>2, Zenon DEF ResetPool
  <2>q. QED BY <1>2, <2>1 DEF ResetPool
<1>3. CASE LaunchLoop BY <1>3 DEF LaunchLoop
<1>4. CASE StopAll BY <1>4 DEF StopAll
<1>5. CASE \E s \in Scans : NoWallet(s) BY <1>5 DEF NoWallet
<1>6. CASE \E s \in Scans : BeginScan(s) BY <1>6 DEF BeginScan
<1>7. CASE \E s \in Scans : Found(s) BY <1>7 DEF Found
<1>8. CASE \E s \in Scans : Superseded(s) BY <1>8 DEF Superseded
<1>9. CASE \E s \in Scans : ScanFails(s) BY <1>9 DEF ScanFails
<1>10. CASE \E s \in Scans : ScanCompletes(s) BY <1>10 DEF ScanCompletes
<1>11. CASE \E s \in Scans : CheckResult(s) \/ SaveResult(s) BY <1>11 DEF CheckResult, SaveResult
<1>12. CASE \E s \in Scans : ScanEnds(s) BY <1>12 DEF ScanEnds
<1>13. CASE \E g \in Loops : LoopLeaves(g) BY <1>13 DEF LoopLeaves
<1>14. CASE \E g \in Loops : BeginDiscovery(g) BY <1>14 DEF BeginDiscovery
<1>15. CASE \E g \in Loops : NothingDue(g) BY <1>15 DEF NothingDue
<1>16. CASE \E g \in Loops : DiscoveryFinds(g) BY <1>16 DEF DiscoveryFinds
<1>17. CASE \E g \in Loops : DiscoveryIsCut(g) BY <1>17 DEF DiscoveryIsCut
<1>18. CASE \E g \in Loops : DiscoveryFails(g) BY <1>18 DEF DiscoveryFails
<1>19. CASE \E g \in Loops : DiscoveryCompletes(g) BY <1>19 DEF DiscoveryCompletes
<1>20. CASE \E g \in Loops : RoundBegins(g) BY <1>20 DEF RoundBegins
<1>21. CASE \E g \in Loops : NoRound(g) BY <1>21 DEF NoRound
<1>22. CASE \E g \in Loops : RoundEnds(g) BY <1>22 DEF RoundEnds
<1>23. CASE UNCHANGED vars BY <1>23 DEF vars
<1>q. QED BY <1>1, <1>2, <1>3, <1>4, <1>5, <1>6, <1>7, <1>8, <1>9, <1>10, <1>11, <1>12,
         <1>13, <1>14, <1>15, <1>16, <1>17, <1>18, <1>19, <1>20, <1>21, <1>22, <1>23
         DEF Next, Operator, Scan, Loop

\* Without manual scans and double starts, no round is taken from part of a
\* pool (AutoRoundsUseWholePools).
THEOREM AutoRounds == Spec => AutoRoundsUseWholePools
<1> DEFINE Good == scanGen = 0 /\ ~doubled => \A g \in Loops : RoundBegins(g) => pool = "whole"
<1>1. Init => LoopInv /\ PoolInv
  BY BoundsAssumption DEF Init, LoopInv, PoolInv, Loops
<1>2. TypeOK /\ LoopInv /\ PoolInv /\ [Next]_vars => LoopInv' /\ PoolInv'
  BY StepLoops, StepPool
<1>3. TypeOK /\ LoopInv /\ PoolInv => Good
  BY DEF TypeOK, ScanTypes, LoopTypes, LoopInv, PoolInv, RoundBegins, Stale, Pools
<1>4. TypeOK /\ LoopInv /\ PoolInv /\ [Next]_vars => [Good]_vars
  BY <1>3
<1>q. QED BY <1>1, <1>2, <1>4, TypeCorrect, PTL DEF Spec, AutoRoundsUseWholePools

-----------------------------------------------------------------------------
(* What a discovery finds (CandidatePool). *)

\* The queries of a discovery (the first half of Query).
QueriesOf(ts) == SlugsNeeded(ts) \cup (IF AnyOther(ts) THEN {AllCategories} ELSE {})

\* Where each field of the entry is from: the tags are the queries that found the
\* market, and its own once Gamma told them; a date is the event's until Gamma's.
FromDetails ==
  /\ entry.tags = (found \ {AllCategories}) \cup (IF "tags" \in reply.details THEN market.cats ELSE {})
  /\ entry.created = IF "created" \in reply.details THEN market.created ELSE market.eventCreated
  /\ entry.end = IF "end" \in reply.details THEN market.end ELSE market.eventEnd

IsEntry(e) ==
  e = [tags |-> e.tags, created |-> e.created, end |-> e.end, reward |-> e.reward, in |-> e.in]

\* How far the entry has come with each phase.
EntryInv ==
  /\ market.cats \subseteq Cats
  /\ IsEntry(entry)
  /\ reply = [missed |-> reply.missed, details |-> reply.details, exact |-> reply.exact]
  /\ phase # "query" =>
       found = (QueriesOf(templates) \cap (market.cats \cup {AllCategories})) \ reply.missed
  /\ phase \in {"query", "gate"} => reply.details = {}
  /\ phase \in {"query", "gate", "details", "price"} => entry.in = FALSE
  /\ phase = "details" => FromDetails /\ reply.details = {}
  /\ phase = "price" => FromDetails
  /\ entry.in => FromDetails

LEMMA InitEntryInv == CandidateInit => EntryInv
BY CatsAssumption DEF CandidateInit, EntryInv, IsEntry, NoEntry, NoReply

LEMMA StepEntryInv == EntryInv /\ [CandidateNext]_candidateVars => EntryInv'
<1> SUFFICES ASSUME EntryInv, [CandidateNext]_candidateVars PROVE EntryInv'
  OBVIOUS
<1>1. CASE Query
  <2>1. PICK missed : reply' = [reply EXCEPT !.missed = missed]
               /\ found' = (QueriesOf(templates') \cap (market.cats \cup {AllCategories})) \ missed
    BY <1>1 DEF Query, QueriesOf
  <2>2. /\ reply' = [missed |-> missed, details |-> reply.details, exact |-> reply.exact]
        /\ reply.details = {}
    BY <1>1, <2>1 DEF EntryInv, Query
  <2> QED BY <1>1, <2>1, <2>2 DEF Query, EntryInv, IsEntry
<1>2. CASE Gate
  <2>1. phase = "gate" /\ entry.in = FALSE /\ reply.details = {}
    BY <1>2 DEF Gate, EntryInv
  <2>2. CASE entry' = entry /\ phase' = "done"
    BY <1>2, <2>1, <2>2 DEF Gate, EntryInv, IsEntry
  <2>3. CASE /\ entry' = [tags |-> found \ {AllCategories}, created |-> market.eventCreated,
                          end |-> market.eventEnd, reward |-> market.batch, in |-> FALSE]
             /\ phase' = "details"
    <3>1. /\ IsEntry(entry)' /\ entry'.in = FALSE /\ entry'.tags = found \ {AllCategories}
          /\ entry'.created = market.eventCreated /\ entry'.end = market.eventEnd
      BY <2>3 DEF IsEntry
    <3>2. FromDetails'
      BY <1>2, <2>1, <3>1 DEF Gate, FromDetails
    <3> QED BY <1>2, <2>1, <2>3, <3>1, <3>2 DEF Gate, EntryInv
  <2> QED BY <1>2, <2>2, <2>3 DEF Gate
<1>3. CASE Details
  <2>1. PICK got :
          /\ reply' = [reply EXCEPT !.details = got]
          /\ \/ entry' = NoEntry /\ phase' = "done"
             \/ entry' = WithDetails(entry, got) /\ phase' = "price"
    BY <1>3 DEF Details
  <2>2. reply' = [missed |-> reply.missed, details |-> got, exact |-> reply.exact]
    BY <2>1 DEF EntryInv
  <2>3. phase = "details" /\ UNCHANGED <<market, templates, found>>
    BY <1>3 DEF Details
  <2>4. CASE entry' = NoEntry /\ phase' = "done"
    BY <2>2, <2>3, <2>4 DEF EntryInv, IsEntry, NoEntry
  <2>5. CASE entry' = WithDetails(entry, got) /\ phase' = "price"
    <3>1. entry' = [tags    |-> IF "tags" \in got THEN entry.tags \cup market.cats ELSE entry.tags,
                    created |-> IF "created" \in got THEN market.created ELSE entry.created,
                    end     |-> IF "end" \in got THEN market.end ELSE entry.end,
                    reward  |-> entry.reward, in |-> entry.in]
      BY <2>5 DEF WithDetails, EntryInv, IsEntry
    <3>2. /\ entry.tags = found \ {AllCategories} /\ entry.created = market.eventCreated
          /\ entry.end = market.eventEnd /\ entry.in = FALSE
      BY <2>3 DEF EntryInv, FromDetails
    <3>3. FromDetails' /\ IsEntry(entry)' /\ entry'.in = FALSE
      BY <2>2, <2>3, <3>1, <3>2 DEF FromDetails, IsEntry
    <3> QED BY <2>2, <2>3, <2>5, <3>3 DEF EntryInv
  <2> QED BY <2>1, <2>4, <2>5
<1>4. CASE Price
  <2>1. PICK exact, ok :
          /\ entry' = [entry EXCEPT !.reward = IF exact THEN market.precise ELSE market.batch,
                                    !.in = TRUE]
          /\ reply' = [reply EXCEPT !.exact = ok]
    BY <1>4 DEF Price
  <2>2. /\ entry' = [tags |-> entry.tags, created |-> entry.created, end |-> entry.end,
                     reward |-> IF exact THEN market.precise ELSE market.batch, in |-> TRUE]
        /\ reply' = [missed |-> reply.missed, details |-> reply.details, exact |-> ok]
    BY <2>1 DEF EntryInv, IsEntry
  <2>3. /\ phase = "price" /\ phase' = "done" /\ FromDetails
        /\ UNCHANGED <<market, templates, found>>
    BY <1>4 DEF Price, EntryInv
  <2>4. FromDetails' /\ IsEntry(entry)'
    BY <2>2, <2>3 DEF FromDetails, IsEntry
  <2> QED BY <2>2, <2>3, <2>4 DEF EntryInv
<1>5. CASE Midnight
  BY <1>5 DEF Midnight, EntryInv, IsEntry, FromDetails
<1>6. CASE Edit
  BY <1>6 DEF Edit, EntryInv, IsEntry, FromDetails
<1>7. CASE UNCHANGED candidateVars
  BY <1>7 DEF candidateVars, EntryInv, IsEntry, FromDetails
<1> QED BY <1>1, <1>2, <1>3, <1>4, <1>5, <1>6, <1>7 DEF CandidateNext

\* Every wallet's template has one in the discovery's set that it agrees with on all
\* that the discovery asks of it.
LEMMA TemplateIsStoodFor ==
  ASSUME NEW w \in Wallets
  PROVE  \E t \in ActiveTemplates : KeyOf(t) = KeyOf(template[w])
<1> DEFINE all == {template[v] : v \in Wallets}
           pick(k) == CHOOSE t \in all : KeyOf(t) = k
<1>1. template[w] \in all
  OBVIOUS
<1>2. KeyOf(pick(KeyOf(template[w]))) = KeyOf(template[w])
  BY <1>1
<1>3. pick(KeyOf(template[w])) \in ActiveTemplates
  BY <1>1 DEF ActiveTemplates
<1> QED BY <1>2, <1>3

\* What no query missed is found by all that some template asks it to be found by.
LEMMA TagsAgree ==
  ASSUME EntryInv, phase # "query", reply.missed = {}, NEW u \in templates,
         NEW tags, tags = market.cats \/ tags = found \ {AllCategories}
  PROVE  \/ tags = market.cats
         \/ /\ ~u.other
            /\ tags \cap u.included = market.cats \cap u.included
            /\ tags \cap u.veto = market.cats \cap u.veto
<1> SUFFICES ASSUME tags # market.cats
             PROVE  /\ ~u.other
                    /\ tags \cap u.included = market.cats \cap u.included
                    /\ tags \cap u.veto = market.cats \cap u.veto
  OBVIOUS
<1>1. market.cats \subseteq Cats /\ AllCategories \notin market.cats
  BY CatsAssumption DEF EntryInv
<1>2. tags = market.cats \cap SlugsNeeded(templates)
  BY <1>1 DEF EntryInv, QueriesOf
<1>3. ~AnyOther(templates)
  BY <1>1, <1>2 DEF SlugsNeeded
<1>4. ~u.other
  BY <1>3 DEF AnyOther
<1>5. /\ u.included \cap Cats \subseteq SlugsNeeded(templates)
      /\ u.veto \cap Cats \subseteq SlugsNeeded(templates)
  BY <1>3 DEF SlugsNeeded, IncludedUnion, VetoUnion
<1> QED BY <1>1, <1>2, <1>4, <1>5

\* The tags of an entry are the market's own, or those it was found by.
LEMMA TagsAreFromEither ==
  ASSUME EntryInv, FromDetails, phase # "query"
  PROVE  entry.tags = market.cats \/ entry.tags = found \ {AllCategories}
<1>1. found \ {AllCategories} \subseteq market.cats
  BY DEF EntryInv
<1> QED BY <1>1 DEF FromDetails

\* The invariant gives the property: with the same dates, and tags that agree on what
\* the template asks, the round's gates are the template's.
LEMMA PassingSuits == EntryInv => PassingMarketSuits
<1> SUFFICES ASSUME EntryInv, phase = "done", TagsKnown, DatesKnown,
                    NEW w \in Wallets, Prefilter(w)
             PROVE  Suits(w)
  BY DEF PassingMarketSuits
<1> DEFINE t == template[w]
<1>1. entry.created = market.created /\ entry.end = market.end
  BY DEF Prefilter, EntryInv, FromDetails, DatesKnown
<1>2. \/ entry.tags = market.cats
      \/ /\ ~t.other
         /\ entry.tags \cap t.included = market.cats \cap t.included
         /\ entry.tags \cap t.veto = market.cats \cap t.veto
  <2>1. CASE entry.tags = market.cats
    BY <2>1
  <2>2. CASE Unedited /\ reply.missed = {}
    <3>1. PICK u \in templates : KeyOf(u) = KeyOf(t)
      BY <2>2, TemplateIsStoodFor DEF Unedited
    <3>2. u.included = t.included /\ u.other = t.other /\ u.veto = t.veto
      BY <3>1 DEF KeyOf
    <3>3. entry.tags = market.cats \/ entry.tags = found \ {AllCategories}
      BY TagsAreFromEither DEF Prefilter, EntryInv
    <3>4. \/ entry.tags = market.cats
          \/ /\ ~u.other
             /\ entry.tags \cap u.included = market.cats \cap u.included
             /\ entry.tags \cap u.veto = market.cats \cap u.veto
      BY <2>2, <3>3, TagsAgree
    <3> QED BY <3>2, <3>4
  <2> QED BY <2>1, <2>2 DEF TagsKnown
<1>3. MarketWanted(market.cats, t.included, t.other, t.veto)
  BY <1>2 DEF Prefilter, MarketWanted, InCategories
<1>4. ProtectsNew(t, market.cats) => ProtectsNew(t, entry.tags)
  BY <1>2 DEF ProtectsNew, InCategories
<1>5. InWindow(t, market.end) /\ ~(ProtectsNew(t, market.cats) /\ TooNew(t.hours, market.created))
  BY <1>1, <1>4 DEF Prefilter
<1> QED BY <1>3, <1>5 DEF Suits

\* A market that passes for a wallet suits its template, also the next day and after
\* an edit: the discovery's savings on queries and look-ups never let a vetoed, too
\* new or unwanted market through (scanner.py 222-395, 689-747).
THEOREM MarketsThatPassSuit == CandidateSpec => []PassingMarketSuits
<1>1. EntryInv /\ [CandidateNext]_candidateVars => EntryInv'
  BY StepEntryInv
<1> QED BY InitEntryInv, <1>1, PassingSuits, PTL DEF CandidateSpec

-----------------------------------------------------------------------------
(* Nothing a wallet wants is lost, and nothing is left without its price.   *)

\* A set of natural numbers has a least one.
LEMMA LeastExists ==
  ASSUME NEW S \in SUBSET Nat, S # {}
  PROVE  Least(S) \in S /\ \A y \in S : Least(S) <= y
<1>1. PICK s \in S : TRUE
  OBVIOUS
<1> DEFINE Below(x) == {y \in S : y < x}
           T == {Below(x) : x \in {z \in S : z <= s}}
<1>2. IsWellFoundedOn(StrictSubsetOrdering(0..s), SUBSET (0..s))
  <2>1. s \in Nat
    OBVIOUS
  <2>2. IsFiniteSet(0..s)
    BY <2>1, FS_Interval
  <2> QED BY <2>2, FS_StrictSubsetOrderingWellFounded, FS_FiniteSubsetsOfFinite
<1>3. T \subseteq SUBSET (0..s) /\ T # {}
  <2>1. ASSUME NEW x \in S, x <= s PROVE Below(x) \subseteq 0..s
    <3>1. s \in Nat /\ x \in Nat /\ \A y \in S : y \in Nat
      OBVIOUS
    <3>2. \A y \in S : y < x => y \in 0..s
      BY <2>1, <3>1
    <3> QED BY <3>2
  <2>2. s <= s
    BY s \in Nat
  <2> QED BY <2>1, <2>2
<1>4. PICK U \in T : \A V \in T : <<V, U>> \notin StrictSubsetOrdering(0..s)
  <2> HIDE DEF T
  <2> QED BY <1>2, <1>3, WFMin
<1>5. PICK x \in S : x <= s /\ U = Below(x)
  BY <1>4
<1>6. \A y \in S : x <= y
  <2>1. SUFFICES ASSUME NEW y \in S, y < x PROVE FALSE
    BY x \in Nat, \A y \in S : y \in Nat
  <2>2. x \in Nat /\ y \in Nat /\ s \in Nat /\ \A z \in S : z \in Nat
    OBVIOUS
  <2>3. Below(y) \in T
    BY <1>5, <2>1, <2>2
  <2>4. Below(y) \subseteq Below(x)
    <3>1. \A z \in S : z < y => z < x
      BY <2>1, <2>2
    <3> QED BY <3>1
  <2>5. y \in Below(x) /\ y \notin Below(y)
    BY <2>1, <2>2
  <2>6. Below(y) \subseteq 0..s /\ Below(x) \subseteq 0..s
    BY <1>3, <1>4, <1>5, <2>3
  <2>7. <<Below(y), Below(x)>> \in StrictSubsetOrdering(0..s)
    BY <2>4, <2>5, <2>6 DEF StrictSubsetOrdering
  <2> QED BY <1>4, <1>5, <2>3, <2>7
<1> QED BY <1>6 DEF Least

\* What a template of the discovery asks of the market, but for its window and price.
Wants(u) ==
  /\ MarketWanted(market.cats, u.included, u.other, u.veto)
  /\ ~(ProtectsNew(u, market.cats) /\ TooNew(u.hours, market.created))
  /\ market.batch >= u.floor /\ market.size \in u.sizes

Amounts(t) == t.floor \in Nat /\ t.hours \in Nat

\* What the discovery dropped although it knew all, no template of it wants; what it did
\* not ask the price of is for none of its windows and sizes.
KeepInv ==
  /\ market.batch \in Int /\ market.precise \in Int /\ market.created \in Int \cup {NoDate}
  /\ \A u \in templates : Amounts(u)
  /\ ~entry.in => clock = 0 /\ \A w \in Wallets : Amounts(template[w])
  /\ entry.in => phase = "done" /\ entry.reward \in {market.batch, market.precise}
  /\ (phase = "done" /\ ~entry.in /\ reply.missed = {} /\ DatesKnown) =>
       \A u \in templates : ~Wants(u)
  /\ (entry.in /\ clock = 0 /\ reply.exact) =>
       entry.reward = market.precise \/ ~ShouldPrice(templates, market, entry.end)

LEMMA InitKeepInv == CandidateInit => KeepInv
BY AmountsAssumption DEF CandidateInit, KeepInv, NoEntry, Amounts

\* The gate lets pass what a template wants: it is found, and pays as much as the least
\* of the thresholds.
LEMMA GateKeeps ==
  ASSUME EntryInv, KeepInv, phase = "gate", reply.missed = {}, NEW u \in templates, Wants(u)
  PROVE  /\ found # {}
         /\ MarketWanted(found \ {AllCategories}, IncludedUnion(templates), AnyOther(templates), {})
         /\ market.batch >= Least({t.floor : t \in templates})
<1> DEFINE tags == found \ {AllCategories}
<1>1. \/ tags = market.cats
      \/ ~u.other /\ tags \cap u.included = market.cats \cap u.included
  BY TagsAgree
<1>2. InCategories(tags, u.included, u.other)
  BY <1>1 DEF Wants, MarketWanted, InCategories
<1>3. InCategories(tags, IncludedUnion(templates), AnyOther(templates))
  BY <1>2 DEF InCategories, IncludedUnion, AnyOther
<1>4. found # {}
  <2>1. CASE AnyOther(templates)
    BY <2>1 DEF EntryInv, QueriesOf
  <2>2. CASE ~AnyOther(templates)
    BY <1>3, <2>2 DEF InCategories
  <2> QED BY <2>1, <2>2
<1>5. market.batch >= Least({t.floor : t \in templates})
  <2> DEFINE floors == {t.floor : t \in templates}
  <2>1. floors \in SUBSET Nat /\ u.floor \in floors
    BY DEF KeepInv, Amounts
  <2>2. Least(floors) \in Nat /\ Least(floors) <= u.floor
    BY <2>1, LeastExists
  <2>3. market.batch \in Int /\ u.floor \in Nat /\ market.batch >= u.floor
    BY <2>1 DEF KeepInv, Wants
  <2>4. \A a, b, c \in Int : a <= b /\ c >= b => c >= a
    OBVIOUS
  <2>5. market.batch >= Least(floors)
    <3> HIDE DEF floors
    <3>1. Least(floors) \in Int /\ u.floor \in Int
      BY <2>2, <2>3
    <3> QED BY <2>2, <2>3, <2>4, <3>1
  <2> QED BY <2>5
<1> QED BY <1>3, <1>4, <1>5 DEF MarketWanted

\* What is dropped as too new, every template protects: also the one that wants it.
LEMMA DetailsKeep ==
  ASSUME EntryInv, KeepInv, clock = 0, phase # "query", reply.missed = {},
         NEW u \in templates, Wants(u),
         NEW tags, tags = market.cats \/ tags = found \ {AllCategories}
  PROVE  ~TooNew(LoosestHours(templates, tags), market.created)
<1> SUFFICES ASSUME TooNew(LoosestHours(templates, tags), market.created) PROVE FALSE
  OBVIOUS
<1>1. \A t \in templates : ProtectsNew(t, tags)
  BY DEF TooNew, LoosestHours
<1>2. ProtectsNew(u, market.cats)
  <2>1. \/ tags = market.cats
        \/ ~u.other /\ tags \cap u.included = market.cats \cap u.included
    BY TagsAgree
  <2> QED BY <1>1, <2>1 DEF ProtectsNew, InCategories
<1> DEFINE hours == {t.hours : t \in templates}
<1>3. hours \in SUBSET Nat /\ u.hours \in hours
  BY DEF KeepInv, Amounts
<1>4. Least(hours) \in Nat /\ Least(hours) <= u.hours
  BY <1>3, LeastExists
<1>5. TooNew(Least(hours), market.created)
  BY <1>1 DEF LoosestHours
<1>6. u.hours \in Nat /\ market.created \in Int \cup {NoDate} /\ u.hours > 0
  BY <1>2, <1>3 DEF KeepInv, ProtectsNew
<1> HIDE DEF hours
<1>7. TooNew(u.hours, market.created)
  BY <1>4, <1>5, <1>6 DEF TooNew
<1> QED BY <1>2, <1>7 DEF Wants

LEMMA StepKeepInv == EntryInv /\ EntryInv' /\ KeepInv /\ [CandidateNext]_candidateVars => KeepInv'
<1> SUFFICES ASSUME EntryInv, EntryInv', KeepInv, [CandidateNext]_candidateVars PROVE KeepInv'
  OBVIOUS
<1>1. CASE Query
  <2>1. ~entry.in /\ clock = 0 /\ phase' = "gate"
    BY <1>1 DEF Query, EntryInv, KeepInv
  <2>2. \A u \in templates' : Amounts(u)
    <3>1. ActiveTemplates \subseteq {template[w] : w \in Wallets}
      BY DEF ActiveTemplates
    <3> QED BY <1>1, <2>1, <3>1 DEF Query, KeepInv
  <2> QED BY <1>1, <2>1, <2>2 DEF Query, KeepInv
<1>2. CASE Gate
  <2>1. phase = "gate" /\ ~entry.in /\ ~entry'.in
    BY <1>2 DEF Gate, EntryInv
  <2>2. ASSUME phase' = "done", reply.missed = {}, NEW u \in templates PROVE ~Wants(u)
    BY <1>2, <2>1, <2>2, GateKeeps DEF Gate
  <2> QED BY <1>2, <2>1, <2>2
          DEF Gate, KeepInv, Wants, DatesKnown, TooNew
<1>3. CASE Details
  <2>1. PICK got :
          /\ reply' = [reply EXCEPT !.details = got]
          /\ LET e == WithDetails(entry, got) IN
             IF TooNew(LoosestHours(templates, e.tags), e.created)
             THEN entry' = NoEntry /\ phase' = "done"
             ELSE entry' = e /\ phase' = "price"
    BY <1>3 DEF Details
  <2> DEFINE e == WithDetails(entry, got)
  <2>2. /\ phase = "details" /\ ~entry.in /\ clock = 0 /\ FromDetails /\ reply.details = {}
        /\ UNCHANGED <<market, template, templates, found, clock>>
    BY <1>3 DEF Details, EntryInv, KeepInv
  <2>3. /\ e.tags = IF "tags" \in got THEN entry.tags \cup market.cats ELSE entry.tags
        /\ e.created = IF "created" \in got THEN market.created ELSE entry.created
        /\ e.in = entry.in
    BY DEF WithDetails, EntryInv, IsEntry
  <2>4. reply'.details = got /\ reply'.missed = reply.missed
    BY <2>1 DEF EntryInv
  <2>5. ~entry'.in
    BY <2>1, <2>2, <2>3 DEF NoEntry
  <2>6. ASSUME phase' = "done", reply.missed = {}, DatesKnown', NEW u \in templates
        PROVE  ~Wants(u)
    <3>1. e.tags = market.cats \/ e.tags = found \ {AllCategories}
      <4>1. entry.tags = found \ {AllCategories} /\ found \ {AllCategories} \subseteq market.cats
        BY <2>2 DEF FromDetails, EntryInv
      <4> QED BY <2>3, <4>1
    <3>2. e.created = market.created
      BY <2>2, <2>3, <2>4, <2>6 DEF FromDetails, DatesKnown
    <3>3. TooNew(LoosestHours(templates, e.tags), market.created)
      BY <2>1, <2>6, <3>2
    <3> HIDE DEF e
    <3> QED BY <2>2, <2>6, <3>1, <3>3, DetailsKeep
  <2> QED BY <2>2, <2>4, <2>5, <2>6 DEF KeepInv, Wants, TooNew
<1>4. CASE Price
  <2>1. PICK exact \in BOOLEAN :
          /\ entry' = [entry EXCEPT !.reward = IF exact THEN market.precise ELSE market.batch,
                                    !.in = TRUE]
          /\ reply' = [reply EXCEPT !.exact = exact \/ ~ShouldPrice(templates, market, entry.end)]
    BY <1>4 DEF Price
  <2>2. /\ entry'.in /\ entry'.end = entry.end
        /\ entry'.reward = IF exact THEN market.precise ELSE market.batch
        /\ reply'.exact = (exact \/ ~ShouldPrice(templates, market, entry.end))
    BY <2>1 DEF EntryInv, IsEntry
  <2>3. phase' = "done" /\ UNCHANGED <<market, template, templates, found, clock>>
    BY <1>4 DEF Price
  <2>4. ShouldPrice(templates, market, entry.end)' <=> ShouldPrice(templates, market, entry.end)
    BY <2>2, <2>3 DEF ShouldPrice, InWindow, UnionSizes
  <2> QED BY <2>2, <2>3, <2>4 DEF KeepInv
<1>5. CASE Midnight
  BY <1>5 DEF Midnight, KeepInv
<1>6. CASE Edit
  BY <1>6 DEF Edit, KeepInv, ShouldPrice, InWindow, UnionSizes
<1>7. CASE UNCHANGED candidateVars
  BY <1>7 DEF candidateVars, KeepInv, Wants, DatesKnown, TooNew, ShouldPrice, InWindow, UnionSizes
<1> QED BY <1>1, <1>2, <1>3, <1>4, <1>5, <1>6, <1>7 DEF CandidateNext

\* What a wallet wants, its stand-in in the discovery wants; so it was kept, and with
\* tags that agree the round's gates let it pass.
LEMMA WantedPasses == EntryInv /\ KeepInv => NothingWantedIsLost
<1> SUFFICES ASSUME EntryInv, KeepInv, phase = "done", Unedited, clock = 0, reply.missed = {}, DatesKnown,
                    NEW w \in Wallets, Suits(w), Pays(w), Fits(w)
             PROVE  Prefilter(w)
  BY DEF NothingWantedIsLost
<1> DEFINE t == template[w]
<1>1. PICK u \in templates : KeyOf(u) = KeyOf(t)
  BY TemplateIsStoodFor DEF Unedited
<1>2. /\ u.included = t.included /\ u.other = t.other /\ u.veto = t.veto /\ u.floor = t.floor
      /\ u.sizes = t.sizes /\ u.hours = t.hours /\ u.newCats = t.newCats /\ u.newOther = t.newOther
  BY <1>1 DEF KeyOf
<1>3. Wants(u)
  BY <1>2 DEF Suits, Pays, Fits, Wants, ProtectsNew
<1>4. entry.in /\ entry.reward \in {market.batch, market.precise}
  BY <1>3 DEF KeepInv
<1>5. FromDetails
  BY <1>4 DEF EntryInv
<1>6. entry.created = market.created /\ entry.end = market.end
  BY <1>5 DEF FromDetails, DatesKnown
<1>7. \/ entry.tags = market.cats
      \/ /\ ~t.other
         /\ entry.tags \cap t.included = market.cats \cap t.included
         /\ entry.tags \cap t.veto = market.cats \cap t.veto
  BY <1>2, <1>5, TagsAreFromEither, TagsAgree
<1>8. MarketWanted(entry.tags, t.included, t.other, t.veto)
  BY <1>7 DEF Suits, MarketWanted, InCategories
<1>9. ProtectsNew(t, entry.tags) => ProtectsNew(t, market.cats)
  BY <1>7 DEF ProtectsNew, InCategories
<1> QED BY <1>4, <1>6, <1>8, <1>9 DEF Prefilter, Suits, Pays, Fits

\* A market that passes is of a size and in a window that the discovery asked prices for.
LEMMA PassingIsPriced == KeepInv => PassingMarketIsPriced
<1> SUFFICES ASSUME KeepInv, Unedited, clock = 0, reply.exact, NEW w \in Wallets, Prefilter(w)
             PROVE  entry.reward = market.precise
  BY DEF PassingMarketIsPriced
<1> DEFINE t == template[w]
<1>1. PICK u \in templates : KeyOf(u) = KeyOf(t)
  BY TemplateIsStoodFor DEF Unedited
<1>2. u.sizes = t.sizes /\ u.minDays = t.minDays /\ u.maxDays = t.maxDays
  BY <1>1 DEF KeyOf
<1>3. ShouldPrice(templates, market, entry.end)
  BY <1>2 DEF Prefilter, ShouldPrice, UnionSizes, InWindow
<1> QED BY <1>3 DEF KeepInv, Prefilter

\* The one discovery for the templates of all wallets loses nothing that one of them
\* wants, if no query missed the market and its dates were learnt (scanner.py 222-331,
\* manager.py 1299-1331).
THEOREM NothingWantedLost == CandidateSpec => []NothingWantedIsLost
<1>1. EntryInv /\ KeepInv /\ [CandidateNext]_candidateVars => EntryInv' /\ KeepInv'
  BY StepEntryInv, StepKeepInv
<1> QED BY InitEntryInv, InitKeepInv, <1>1, WantedPasses, PTL DEF CandidateSpec

\* A market that passes for a wallet on the day of the discovery has its precise reward,
\* if the call for it was answered: no saving on calls lets a batch reward decide
\* (scanner.py 333-395).
THEOREM PassingMarketsArePriced == CandidateSpec => []PassingMarketIsPriced
<1>1. EntryInv /\ KeepInv /\ [CandidateNext]_candidateVars => EntryInv' /\ KeepInv'
  BY StepEntryInv, StepKeepInv
<1> QED BY InitEntryInv, InitKeepInv, <1>1, PassingIsPriced, PTL DEF CandidateSpec

===============================================================================
