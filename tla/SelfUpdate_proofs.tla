-------------------------- MODULE SelfUpdate_proofs --------------------------
(***************************************************************************)
(* Type correctness of SelfUpdate, and for any requests and versions that  *)
(* an update launches only a whole package of its release, though it may   *)
(* have been downloaded in part, and that it leaves a server whole.        *)
(***************************************************************************)
EXTENDS SelfUpdate, TLAPS

\* What the threads rely on: beyond the fetch a request has its release, on the way
\* to a rollback the commit to go back to, and a package that is there is of a release.
ThreadsAreSet ==
  /\ \A r \in Requests :
       /\ pc[r] \notin {"idle", "fetch"} => info[r] \in Infos
       /\ pc[r] \in {"git_fetch", "reset", "pip", "roll_back"} => oldCommit[r] \in Versions
  /\ file = NoFile \/ file.ver \in Versions

TypeInv == TypeOK /\ ThreadsAreSet

\* parse_release returns a package and a digest of the release, or says that there
\* is none.
LEMMA ParsedIsInfo ==
  ASSUME NEW tag \in Versions, NEW assets \in Assets, NEW i \in ParseRelease(tag, assets)
  PROVE  i \in Infos
<1> DEFINE want == IF platform = "darwin" THEN "dmg" ELSE "exe"
           pkg  == IF want \in assets THEN want ELSE Missing
           shas == IF pkg # Missing /\ Digest[want] \in assets THEN {Digest[want]}
                   ELSE IF assets \cap Shas = {} THEN {Missing} ELSE assets \cap Shas
<1>1. pkg \in {"exe", "dmg", Missing}
  OBVIOUS
<1>2. Digest[want] \in Shas
  BY DEF Digest, Shas
<1>3. shas \subseteq Shas \cup {Missing}
  BY <1>2
<1>4. i \in [tag: {tag}, pkg: {pkg}, sha: shas]
  BY DEF ParseRelease
<1> HIDE DEF want, pkg, shas
<1> QED BY <1>1, <1>3, <1>4 DEF Infos

LEMMA InitTypeInv == Init => TypeInv
<1> SUFFICES ASSUME Init PROVE TypeInv
  OBVIOUS
<1>1. TypeOK
  BY VersionsAssumption DEF Init, TypeOK, Fields, Pcs, NoFile
<1>2. ThreadsAreSet
  BY DEF Init, ThreadsAreSet
<1> QED BY <1>1, <1>2 DEF TypeInv

\* Giving up leaves every thread but one as it was, and that one idle.
LEMMA GiveUpTypeInv ==
  ASSUME TypeInv, NEW r \in Requests, GiveUp(r),
         {tree', deps'} \subseteq Versions \cup {NoVersion}, excused' \in BOOLEAN,
         file' \in {file, NoFile}
  PROVE  TypeInv'
<1>1. /\ pc' \in [Requests -> Pcs] /\ info' \in [Requests -> Infos \cup {NoInfo}]
      /\ oldCommit' \in [Requests -> Versions \cup {NoVersion}]
  BY DEF TypeInv, TypeOK, GiveUp, Pcs
<1>2. file' \in [ver: Versions \cup {NoVersion}, whole: BOOLEAN]
  <2>1. file \in [ver: Versions \cup {NoVersion}, whole: BOOLEAN]
    BY DEF TypeInv, TypeOK
  <2>2. NoFile \in [ver: Versions \cup {NoVersion}, whole: BOOLEAN]
    BY DEF NoFile
  <2> QED BY <2>1, <2>2
<1>3. TypeOK'
  BY <1>1, <1>2 DEF TypeInv, TypeOK, GiveUp
<1>4. ThreadsAreSet'
  BY DEF TypeInv, TypeOK, ThreadsAreSet, GiveUp
<1> QED BY <1>3, <1>4 DEF TypeInv

\* Moving on is harmless as long as what the next step relies on is there.
LEMMA AdvanceTypeInv ==
  ASSUME TypeInv, NEW r \in Requests, NEW to \in Pcs, NEW st \in InWork \cup {"idle", "error"},
         Advance(r, to, st),
         {tree', deps'} \subseteq Versions \cup {NoVersion}, excused' \in BOOLEAN,
         file' \in [ver: Versions \cup {NoVersion}, whole: BOOLEAN],
         file' = NoFile \/ file'.ver \in Versions,
         info[r] \in Infos,
         \/ oldCommit' = oldCommit
         \/ \E c \in Versions : oldCommit' = [oldCommit EXCEPT ![r] = c],
         to \in {"git_fetch", "reset", "pip", "roll_back"} => oldCommit'[r] \in Versions
  PROVE  TypeInv'
<1>1. TypeOK'
  BY DEF TypeInv, TypeOK, Advance
<1>2. ThreadsAreSet'
  <2>1. \A q \in Requests :
          /\ pc'[q] \notin {"idle", "fetch"} => info'[q] \in Infos
          /\ pc'[q] \in {"git_fetch", "reset", "pip", "roll_back"} => oldCommit'[q] \in Versions
    <3> TAKE q \in Requests
    <3>1. CASE q = r
      BY <3>1 DEF TypeInv, TypeOK, Advance
    <3>2. CASE q # r
      BY <3>2 DEF TypeInv, TypeOK, ThreadsAreSet, Advance
    <3> QED BY <3>1, <3>2
  <2> QED BY <2>1 DEF ThreadsAreSet
<1> QED BY <1>1, <1>2 DEF TypeInv

\* A process that is gone has no threads.
LEMMA GoneTypeInv ==
  ASSUME TypeInv, ProcessGone, {tree', deps'} \subseteq Versions \cup {NoVersion},
         excused' \in BOOLEAN, file' = file
  PROVE  TypeInv'
<1>1. TypeOK'
  BY DEF TypeInv, TypeOK, ProcessGone, Fields, Pcs
<1>2. ThreadsAreSet'
  BY DEF TypeInv, ThreadsAreSet, ProcessGone
<1> QED BY <1>1, <1>2 DEF TypeInv

LEMMA StepTypeInv == TypeInv /\ [Next]_vars => TypeInv'
<1> SUFFICES ASSUME TypeInv, [Next]_vars PROVE TypeInv'
  OBVIOUS
<1> USE DEF TypeInv
<1>1. ASSUME NEW r \in Requests, Look(r) PROVE TypeInv'
  <2>1. TypeOK'
    BY <1>1 DEF Look, TypeOK, Pcs, diskVars
  <2>2. ThreadsAreSet'
    BY <1>1 DEF Look, TypeOK, ThreadsAreSet, diskVars
  <2> QED BY <2>1, <2>2
<1>2. ASSUME NEW r \in Requests, Claim(r) PROVE TypeInv'
  <2>1. PICK tag \in Versions, assets \in Assets :
          \E j \in ParseRelease(tag, assets) : info' = [info EXCEPT ![r] = j]
    BY <1>2 DEF Claim, Assets
  <2>2. PICK i \in Infos : info' = [info EXCEPT ![r] = i]
    BY <2>1, ParsedIsInfo
  <2>3. pc' = [pc EXCEPT ![r] = "spawn"]
    BY <1>2 DEF Claim
  <2>4. TypeOK'
    BY <1>2, <2>2 DEF Claim, TypeOK, Pcs, InWork, diskVars
  <2>5. ThreadsAreSet'
    BY <1>2, <2>2, <2>3 DEF Claim, TypeOK, ThreadsAreSet, diskVars
  <2> QED BY <2>4, <2>5
<1>3. ASSUME NEW r \in Requests, NothingToInstall(r) PROVE TypeInv'
  BY <1>3 DEF NothingToInstall, TypeOK, ThreadsAreSet, Pcs, diskVars, history
<1>20. ASSUME NEW r \in Requests, Spawn(r) PROVE TypeInv'
  BY <1>20 DEF Spawn, TypeOK, ThreadsAreSet, Pcs, diskVars, history
<1>21. ASSUME NEW r \in Requests, SpawnFails(r) PROVE TypeInv'
  BY <1>21 DEF SpawnFails, TypeOK, ThreadsAreSet, Pcs, diskVars
<1>4. ASSUME NEW r \in Requests, RevParse(r) PROVE TypeInv'
  <2>1. CASE GiveUp(r)
    BY <1>4, <2>1, GiveUpTypeInv DEF RevParse, TypeOK, diskVars
  <2>2. ASSUME NEW head \in Versions, oldCommit' = [oldCommit EXCEPT ![r] = head],
               Advance(r, "git_fetch", "downloading")
        PROVE  TypeInv'
    BY <1>4, <2>2, AdvanceTypeInv DEF RevParse, TypeOK, ThreadsAreSet, diskVars, Pcs, InWork
  <2> QED BY <1>4, <2>1, <2>2 DEF RevParse
<1>5. ASSUME NEW r \in Requests, GitFetch(r) PROVE TypeInv'
  <2>1. CASE GiveUp(r)
    BY <1>5, <2>1, GiveUpTypeInv DEF GitFetch, TypeOK, diskVars
  <2>2. ASSUME NEW to \in {"reset", "roll_back"}, Advance(r, to, state), UNCHANGED oldCommit
        PROVE  TypeInv'
    BY <1>5, <2>2, AdvanceTypeInv DEF GitFetch, TypeOK, ThreadsAreSet, diskVars, Pcs, InWork
  <2> QED BY <1>5, <2>1, <2>2 DEF GitFetch
<1>6. ASSUME NEW r \in Requests, ResetToTag(r) PROVE TypeInv'
  <2>1. info[r] \in Infos /\ info[r].tag \in Versions
    BY <1>6 DEF ResetToTag, ThreadsAreSet, Infos
  <2>2. tree' \in Versions \cup {NoVersion} /\ UNCHANGED <<file, deps>> /\ excused' \in BOOLEAN
    BY <1>6, <2>1 DEF ResetToTag, TypeOK
  <2>3. CASE GiveUp(r)
    BY <2>2, <2>3, GiveUpTypeInv DEF TypeOK
  <2>4. ASSUME NEW to \in {"pip", "roll_back"}, NEW st \in {"installing", state},
               Advance(r, to, st), UNCHANGED oldCommit
        PROVE  TypeInv'
    BY <1>6, <2>1, <2>2, <2>4, AdvanceTypeInv DEF ResetToTag, TypeOK, ThreadsAreSet, Pcs, InWork
  <2> QED BY <1>6, <2>3, <2>4 DEF ResetToTag
<1>7. ASSUME NEW r \in Requests, PipInstall(r) PROVE TypeInv'
  <2>1. PICK to \in {"shutdown", "roll_back"} : Advance(r, to, state)
    BY <1>7 DEF PipInstall
  <2>2. deps' \in Versions \cup {NoVersion} /\ excused' \in BOOLEAN
    BY <1>7 DEF PipInstall, TypeOK
  <2> QED BY <1>7, <2>1, <2>2, AdvanceTypeInv
          DEF PipInstall, TypeOK, ThreadsAreSet, Pcs, InWork
<1>8. ASSUME NEW r \in Requests, RollBack(r) PROVE TypeInv'
  <2>1. tree' \in Versions \cup {NoVersion} /\ excused' \in BOOLEAN
    BY <1>8 DEF RollBack, TypeOK, ThreadsAreSet
  <2> QED BY <1>8, <2>1, GiveUpTypeInv DEF RollBack, TypeOK
<1>9. ASSUME NEW r \in Requests, StartDownload(r) PROVE TypeInv'
  <2>1. info[r] \in Infos /\ info[r].tag \in Versions
    BY <1>9 DEF StartDownload, ThreadsAreSet, Infos
  <2>2. \A q \in Requests :
          /\ pc'[q] \in Pcs
          /\ pc'[q] \in {"idle", "fetch", "git_fetch", "reset", "pip", "roll_back"} => pc'[q] = pc[q]
          /\ pc'[q] \notin {"idle", "fetch"} => pc[q] \notin {"idle", "fetch"}
    BY <1>9 DEF StartDownload, Writers, Pcs, TypeOK
  <2>3. pc' \in [Requests -> Pcs]
    BY <1>9, <2>2 DEF StartDownload
  <2>4. TypeOK'
    BY <1>9, <2>1, <2>3 DEF StartDownload, TypeOK, history
  <2>5. ThreadsAreSet'
    BY <1>9, <2>1, <2>2 DEF StartDownload, ThreadsAreSet
  <2> QED BY <2>4, <2>5
<1>10. ASSUME NEW r \in Requests, EndDownload(r) PROVE TypeInv'
  <2>1. pc[r] \in {"download", "torn"} /\ info[r] \in Infos
    BY <1>10 DEF EndDownload, Writers, ThreadsAreSet
  <2>2. CASE UNCHANGED file /\ GiveUp(r)
    BY <1>10, <2>2, GiveUpTypeInv DEF EndDownload, TypeOK
  <2>3. CASE file' \in Written(r) /\ Advance(r, "verify", "verifying")
    <3>1. /\ file' \in [ver: Versions \cup {NoVersion}, whole: BOOLEAN]
          /\ file' = NoFile \/ file'.ver \in Versions
      <4>1. file' = file \/ \E whole \in BOOLEAN : file' = [file EXCEPT !.whole = whole]
        BY <2>3 DEF Written
      <4>2. ASSUME NEW whole \in BOOLEAN, file' = [file EXCEPT !.whole = whole], file # NoFile
            PROVE  file' \in [ver: Versions \cup {NoVersion}, whole: BOOLEAN] /\ file'.ver \in Versions
        BY <4>2 DEF TypeOK, ThreadsAreSet
      <4>3. CASE file = NoFile
        BY <2>3, <4>3 DEF Written, TypeOK
      <4> QED BY <4>1, <4>2, <4>3 DEF TypeOK, ThreadsAreSet
    <3> QED BY <1>10, <2>1, <2>3, <3>1, AdvanceTypeInv DEF EndDownload, TypeOK, Pcs, InWork
  <2> QED BY <1>10, <2>2, <2>3 DEF EndDownload
<1>11. ASSUME NEW r \in Requests, Verify(r) PROVE TypeInv'
  BY <1>11, AdvanceTypeInv DEF Verify, TypeOK, ThreadsAreSet, diskVars, Pcs, InWork
<1>12. ASSUME NEW r \in Requests, VerifyFails(r) PROVE TypeInv'
  BY <1>12, GiveUpTypeInv DEF VerifyFails, TypeOK
<1>13. ASSUME NEW r \in Requests, Launch(r) PROVE TypeInv'
  <2>1. CASE GiveUp(r) /\ UNCHANGED <<tree, deps>>
    BY <1>13, <2>1, GiveUpTypeInv DEF Launch, TypeOK
  <2>2. CASE /\ file # NoFile
             /\ tree' = IF file.whole THEN file.ver ELSE tree
             /\ deps' = tree'
             /\ Advance(r, "shutdown", state) /\ UNCHANGED oldCommit
    <3>1. {tree', deps'} \subseteq Versions \cup {NoVersion}
      BY <2>2 DEF TypeOK, ThreadsAreSet
    <3> QED BY <1>13, <2>2, <3>1, AdvanceTypeInv DEF Launch, TypeOK, ThreadsAreSet, Pcs, InWork
  <2> QED BY <1>13, <2>1, <2>2 DEF Launch
<1>14. ASSUME NEW r \in Requests, Shutdown(r) PROVE TypeInv'
  BY <1>14, GoneTypeInv DEF Shutdown, TypeOK, diskVars
<1>15. ASSUME Crash PROVE TypeInv'
  <2>1. \A r \in Requests : /\ pc[r] = "reset" => info[r].tag \in Versions
                            /\ pc[r] = "roll_back" => oldCommit[r] \in Versions
    BY DEF ThreadsAreSet, Infos
  <2>2. deps' \in Versions \cup {NoVersion} /\ excused' \in BOOLEAN
    BY <1>15 DEF Crash, TypeOK
  <2>3. tree' \in Versions \cup {NoVersion}
    <3>1. \/ tree' = tree
          \/ \E r \in Requests : pc[r] = "reset" /\ tree' \in {info[r].tag, NoVersion}
          \/ \E r \in Requests : pc[r] = "roll_back" /\ tree' \in {oldCommit[r], NoVersion}
      BY <1>15 DEF Crash
    <3>2. tree \in Versions \cup {NoVersion}
      BY DEF TypeOK
    <3> QED BY <2>1, <3>1, <3>2
  <2> QED BY <1>15, <2>2, <2>3, GoneTypeInv DEF Crash
<1>16. ASSUME Boot PROVE TypeInv'
  BY <1>16 DEF Boot, TypeOK, ThreadsAreSet, memVars, diskVars, history
<1>17. ASSUME EngineStarts PROVE TypeInv'
  BY <1>17 DEF EngineStarts, TypeOK, ThreadsAreSet, diskVars, history
<1>18. ASSUME EngineStops PROVE TypeInv'
  BY <1>18 DEF EngineStops, TypeOK, ThreadsAreSet, diskVars, history
<1>19. ASSUME UNCHANGED vars PROVE TypeInv'
  BY <1>19 DEF vars, memVars, diskVars, history, TypeOK, ThreadsAreSet
<1> QED
  BY <1>1, <1>2, <1>3, <1>4, <1>5, <1>6, <1>7, <1>8, <1>9, <1>10, <1>11, <1>12, <1>13,
     <1>14, <1>15, <1>16, <1>17, <1>18, <1>19, <1>20, <1>21 DEF Next, ThreadStep

\* Every variable keeps its type, whatever fails or raises, and a rollback always has
\* the commit it goes back to (update.py 350-396).
THEOREM TypeCorrect == Spec => []TypeInv
<1> QED BY InitTypeInv, StepTypeInv, PTL DEF Spec

-----------------------------------------------------------------------------
\* Unless two requests raced, one at most is under way, and STATE says so once it
\* has claimed it: the look of another is then refused.
Alone ==
  ~raced =>
    /\ \A q, r \in Requests : pc[q] # "idle" /\ pc[r] # "idle" => q = r
    /\ \A r \in Requests : pc[r] \notin {"idle", "fetch"} => InProgress

\* A step of a request that was under way leaves it the only one.
LEMMA MoveAlone ==
  ASSUME TypeInv, Alone, NEW r \in Requests, pc[r] # "idle", raced' = raced,
         \A q \in Requests \ {r} : pc[q] = "idle" => pc'[q] = "idle",
         pc'[r] = "idle" \/ InProgress'
  PROVE  Alone'
<1> SUFFICES ASSUME ~raced PROVE Alone'
  BY DEF Alone
<1>1. \A q \in Requests \ {r} : pc'[q] = "idle"
  BY DEF Alone
<1> QED BY <1>1 DEF Alone

LEMMA StepAlone == TypeInv /\ Alone /\ [Next]_vars => Alone'
<1> SUFFICES ASSUME TypeInv, Alone, [Next]_vars PROVE Alone'
  OBVIOUS
<1>1. ASSUME NEW r \in Requests, Look(r) PROVE Alone'
  <2>1. ~raced' => \A q \in Requests : pc[q] = "idle"
    BY <1>1 DEF Look, Alone
  <2> QED BY <1>1, <2>1 DEF Look, Alone, TypeInv, TypeOK
<1>2. ASSUME NEW r \in Requests, ThreadStep(r), ~Shutdown(r) PROVE Alone'
  <2>1. pc[r] # "idle" /\ raced' = raced
    BY <1>2 DEF ThreadStep, Claim, NothingToInstall, Spawn, SpawnFails, RevParse, GitFetch,
              ResetToTag, PipInstall,
                RollBack, StartDownload, EndDownload, Verify, VerifyFails, Launch, Writers,
                Advance, GiveUp, history
  <2>2. \A q \in Requests \ {r} : pc[q] = "idle" => pc'[q] = "idle"
    <3>1. CASE StartDownload(r)
      BY <3>1 DEF StartDownload, Writers
    <3>2. CASE ~StartDownload(r)
      BY <1>2, <3>2 DEF ThreadStep, Claim, NothingToInstall, Spawn, SpawnFails, RevParse,
              GitFetch, ResetToTag,
                PipInstall, RollBack, EndDownload, Verify, VerifyFails, Launch, Advance, GiveUp,
                TypeInv, TypeOK
    <3> QED BY <3>1, <3>2
  <2>3. ~raced => pc'[r] = "idle" \/ InProgress'
    <3> SUFFICES ASSUME ~raced PROVE pc'[r] = "idle" \/ InProgress'
      OBVIOUS
    <3>1. CASE Claim(r) \/ NothingToInstall(r) \/ SpawnFails(r)
      BY <3>1 DEF Claim, NothingToInstall, SpawnFails, InProgress, InWork, TypeInv, TypeOK
    <3>2. CASE pc[r] # "fetch"
      <4>1. state \in InWork
        BY <2>1, <3>2 DEF Alone, InProgress
      <4>2. pc'[r] = "idle" \/ state' \in InWork
        BY <1>2, <3>2, <4>1 DEF ThreadStep, Claim, NothingToInstall, Spawn, SpawnFails, RevParse,
              GitFetch,
                ResetToTag, PipInstall, RollBack, StartDownload, EndDownload, Verify,
                VerifyFails, Launch, Advance, GiveUp, TypeInv, TypeOK, InWork
      <4> QED BY <4>2 DEF InProgress
    <3> QED BY <1>2, <3>1, <3>2 DEF ThreadStep, Spawn, RevParse, GitFetch, ResetToTag,
                PipInstall, RollBack, StartDownload, EndDownload, Verify, VerifyFails, Launch,
                Writers
  <2>4. CASE raced
    BY <2>1, <2>4 DEF Alone
  <2> QED BY <2>1, <2>2, <2>3, <2>4, MoveAlone
<1>3. ASSUME ProcessGone PROVE Alone'
  BY <1>3 DEF ProcessGone, Alone
<1>4. CASE Boot \/ UNCHANGED vars
  BY <1>4 DEF Boot, Alone, InProgress, vars, memVars, history
<1>5. CASE EngineStarts \/ EngineStops
  BY <1>5 DEF EngineStarts, EngineStops, Alone, InProgress, history
<1> QED BY <1>1, <1>2, <1>3, <1>4, <1>5 DEF Next, Shutdown, Crash

-----------------------------------------------------------------------------
\* What was verified is still there when the installer is launched.
VerifiedToLaunch == \A r \in Requests : ~raced /\ pc[r] = "launch" => Verified(r)

LEMMA StepVerifiedToLaunch ==
  TypeInv /\ Alone /\ VerifiedToLaunch /\ [Next]_vars => VerifiedToLaunch'
<1> SUFFICES ASSUME TypeInv, Alone, VerifiedToLaunch, [Next]_vars,
                    NEW l \in Requests, ~raced', pc'[l] = "launch"
             PROVE  Verified(l)'
  BY DEF VerifiedToLaunch
\* A thread other than l's was idle, and has nothing to step from.
<1>1. ASSUME NEW r \in Requests, Look(r) PROVE Verified(l)'
  <2>1. pc[l] = "launch" /\ r # l
    BY <1>1 DEF Look, TypeInv, TypeOK
  <2>2. ~raced /\ UNCHANGED <<file, info>>
    BY <1>1, <2>1 DEF Look, diskVars
  <2> QED BY <2>1, <2>2 DEF VerifiedToLaunch, Verified
<1>2. ASSUME NEW r \in Requests, ThreadStep(r), ~Shutdown(r) PROVE Verified(l)'
  <2>1. pc[r] # "idle" /\ ~raced
    BY <1>2 DEF ThreadStep, Claim, NothingToInstall, Spawn, SpawnFails, RevParse, GitFetch,
              ResetToTag, PipInstall,
                RollBack, StartDownload, EndDownload, Verify, VerifyFails, Launch, Writers,
                Advance, GiveUp, history
  <2>2. r = l
    <3> SUFFICES ASSUME r # l PROVE FALSE
      OBVIOUS
    <3>1. pc[l] = "idle"
      BY <2>1 DEF Alone
    <3>2. CASE StartDownload(r)
      BY <3>1, <3>2 DEF StartDownload, Writers
    <3>3. CASE ~StartDownload(r)
      BY <1>2, <3>1, <3>3 DEF ThreadStep, Claim, NothingToInstall, Spawn, SpawnFails, RevParse,
              GitFetch, ResetToTag,
                PipInstall, RollBack, EndDownload, Verify, VerifyFails, Launch, Advance, GiveUp,
                TypeInv, TypeOK
    <3> QED BY <3>2, <3>3
  <2>3. Verify(l)
    BY <1>2, <2>2 DEF ThreadStep, Claim, NothingToInstall, Spawn, SpawnFails, RevParse, GitFetch,
              ResetToTag,
                PipInstall, RollBack, StartDownload, EndDownload, VerifyFails, Launch,
                Advance, GiveUp, TypeInv, TypeOK
  <2> QED BY <2>3 DEF Verify, Verified, Advance, diskVars
<1>3. ASSUME ProcessGone PROVE Verified(l)'
  BY <1>3 DEF ProcessGone
<1>4. CASE Boot \/ UNCHANGED vars
  BY <1>4 DEF Boot, vars, memVars, diskVars, history, VerifiedToLaunch, Verified
<1>5. CASE EngineStarts \/ EngineStops
  BY <1>5 DEF EngineStarts, EngineStops, diskVars, history, VerifiedToLaunch, Verified
<1> QED BY <1>1, <1>2, <1>3, <1>4, <1>5 DEF Next, Shutdown, Crash

\* An installer is launched only on a whole package of the release, however early its
\* download ended and whichever digest was fetched, unless two requests had both
\* looked before either claimed STATE: for any requests, versions and platforms
\* (update.py 203-240, 407-408).
THEOREM LaunchesTheVerified == Spec => LaunchIsVerified
<1>1. Init => Alone /\ VerifiedToLaunch
  BY DEF Init, Alone, VerifiedToLaunch
<1>2. TypeInv /\ VerifiedToLaunch /\ [Next]_vars =>
        [\A r \in Requests :
           Launch(r) /\ pc'[r] = "shutdown" =>
             raced \/ (file.whole /\ file.ver = info[r].tag)]_vars
  BY DEF VerifiedToLaunch, Verified, Launch
<1> QED BY <1>1, <1>2, StepAlone, StepVerifiedToLaunch, TypeCorrect, PTL
        DEF Spec, LaunchIsVerified

-----------------------------------------------------------------------------
(* What a server has on disk.                                               *)

\* The steps of an update that changes nothing yet, of one that has moved the clone,
\* and of either that has its rollback before it.
BeforeReset == {"spawn", "rev_parse", "git_fetch", "reset"}
Restorable  == {"git_fetch", "reset", "pip", "roll_back"}

GitSteps    == {"idle", "fetch", "pip", "shutdown"} \cup BeforeReset \cup Restorable

\* No update is at work beyond its look.
NoneClaimed == \A r \in Requests : pc[r] \in {"idle", "fetch"}

\* While nothing went wrong that excuses it, the requirements are of what runs until
\* pip is done and the clone can be taken back to what runs; then both are of the
\* release, and the process ends.
InstallInv ==
  /\ \A r \in Requests : pc[r] \in GitSteps
  /\ ~up => \A r \in Requests : pc[r] = "idle"
  /\ raced /\ ~excused => NoneClaimed
  /\ \A r \in Requests : ~raced => /\ pc[r] = "pip" => tree \in Versions
                                   /\ pc[r] = "shutdown" => deps = tree /\ tree \in Versions
  /\ ~excused =>
       /\ IF up THEN running \in Versions ELSE deps = tree /\ tree \in Versions
       /\ up /\ NoneClaimed => tree = running /\ deps = running
       /\ \A r \in Requests :
            /\ pc[r] \in BeforeReset => tree = running
            /\ pc[r] \in BeforeReset \cup Restorable => deps = running
            /\ pc[r] \in Restorable => oldCommit[r] = running

ServerInv == platform = "server" => InstallInv

\* With nothing else under way, a step of the only thread has but to keep its own part.
LEMMA MoveInstall ==
  ASSUME TypeInv, Alone, InstallInv, NEW r \in Requests, pc[r] # "idle",
         NEW to \in GitSteps,
         pc' = [pc EXCEPT ![r] = to], UNCHANGED <<up, raced, running>>,
         raced => excused',
         ~raced /\ to = "pip" => tree' \in Versions,
         ~raced /\ to = "shutdown" => deps' = tree' /\ tree' \in Versions,
         ~excused' => ~excused,
         ~excused' =>
           /\ to = "idle" => tree' = running /\ deps' = running
           /\ to # "fetch"
           /\ to \in BeforeReset => tree' = running
           /\ to \in BeforeReset \cup Restorable => deps' = running
           /\ to \in Restorable => oldCommit'[r] = running
  PROVE  InstallInv'
<1>1. up
  BY DEF InstallInv
<1>2. /\ pc'[r] = to /\ \A q \in Requests \ {r} : pc'[q] = pc[q]
  BY DEF TypeInv, TypeOK
<1>3. ~raced => \A q \in Requests \ {r} : pc'[q] = "idle"
  BY <1>2 DEF Alone
<1>4. \A q \in Requests : pc'[q] \in GitSteps
  BY <1>2 DEF InstallInv
<1>5. \A q \in Requests : ~raced => /\ pc'[q] = "pip" => tree' \in Versions
                                    /\ pc'[q] = "shutdown" => deps' = tree' /\ tree' \in Versions
  BY <1>2, <1>3
<1>6. ASSUME ~excused' PROVE /\ running \in Versions
                             /\ NoneClaimed' => tree' = running /\ deps' = running
                             /\ \A q \in Requests :
                                  /\ pc'[q] \in BeforeReset => tree' = running
                                  /\ pc'[q] \in BeforeReset \cup Restorable => deps' = running
                                  /\ pc'[q] \in Restorable => oldCommit'[q] = running
  BY <1>1, <1>2, <1>3, <1>6 DEF InstallInv, NoneClaimed, GitSteps, BeforeReset, Restorable
<1> QED BY <1>1, <1>4, <1>5, <1>6 DEF InstallInv

LEMMA StepServerInv == TypeInv /\ Alone /\ ServerInv /\ [Next]_vars => ServerInv'
<1> SUFFICES ASSUME TypeInv, Alone, ServerInv, [Next]_vars, platform' = "server"
             PROVE  InstallInv'
  BY DEF ServerInv
<1>1. platform = "server"
  BY DEF Next, ThreadStep, Look, Claim, NothingToInstall, Spawn, SpawnFails, RevParse, GitFetch,
         ResetToTag,
         PipInstall, RollBack, StartDownload, EndDownload, Verify, VerifyFails, Launch,
         Shutdown, Crash, Boot, EngineStarts, EngineStops, Advance, GiveUp, ProcessGone, vars
<1>2. InstallInv
  BY <1>1 DEF ServerInv
\* What is claimed is claimed by one.
<1>3. ASSUME NEW r \in Requests, pc[r] \notin {"idle", "fetch"} PROVE raced => excused
  BY <1>2, <1>3 DEF InstallInv, NoneClaimed
<1>4. ASSUME NEW r \in Requests, Look(r) PROVE InstallInv'
  <2>1. /\ up /\ pc'[r] = "fetch" /\ \A q \in Requests \ {r} : pc'[q] = pc[q]
        /\ UNCHANGED <<oldCommit, tree, deps, running, up, excused>>
    BY <1>4 DEF Look, diskVars, TypeInv, TypeOK
  <2>2. NoneClaimed' <=> NoneClaimed
    BY <1>4, <2>1 DEF Look, NoneClaimed
  <2>3. ~raced => NoneClaimed
    BY <1>4 DEF Look, Alone, NoneClaimed
  <2>4. \A q \in Requests : ~raced' => pc'[q] \notin {"pip", "shutdown"}
    BY <1>4, <2>1, <2>3 DEF Look, NoneClaimed
  <2>5. ~excused' => NoneClaimed'
    BY <1>2, <2>1, <2>2, <2>3 DEF InstallInv
  <2>6. \A q \in Requests : pc'[q] \in GitSteps
    BY <1>2, <2>1 DEF InstallInv, GitSteps
  <2>7. \A q \in Requests : ~excused' => pc'[q] \notin BeforeReset \cup Restorable
    BY <2>5 DEF NoneClaimed, GitSteps, BeforeReset, Restorable
  <2> QED BY <1>2, <2>1, <2>2, <2>4, <2>5, <2>6, <2>7 DEF InstallInv
<1>5. ASSUME NEW r \in Requests, Claim(r) PROVE InstallInv'
  <2>1. ~raced => NoneClaimed
    BY <1>5 DEF Claim, Alone, NoneClaimed
  <2>2. ~excused' => up /\ tree = running /\ deps = running
    BY <1>1, <1>2, <1>5, <2>1 DEF Claim, InstallInv
  <2> QED BY <1>1, <1>2, <1>5, <2>2, MoveInstall DEF Claim, diskVars, GitSteps, BeforeReset,
              Restorable
<1>17. ASSUME NEW r \in Requests, Spawn(r) PROVE InstallInv'
  BY <1>1, <1>2, <1>3, <1>17, MoveInstall
     DEF Spawn, diskVars, history, InstallInv, GitSteps, BeforeReset, Restorable
<1>18. ASSUME NEW r \in Requests, SpawnFails(r) PROVE InstallInv'
  BY <1>2, <1>3, <1>18, MoveInstall
     DEF SpawnFails, diskVars, InstallInv, GitSteps, BeforeReset, Restorable
<1>6. ASSUME NEW r \in Requests, NothingToInstall(r) PROVE InstallInv'
  <2>1. /\ pc'[r] = "idle" /\ pc[r] = "fetch" /\ \A q \in Requests \ {r} : pc'[q] = pc[q]
        /\ UNCHANGED <<oldCommit, tree, deps, running, up, raced, excused>>
    BY <1>6 DEF NothingToInstall, diskVars, history, TypeInv, TypeOK
  <2>2. NoneClaimed' <=> NoneClaimed
    BY <2>1 DEF NoneClaimed
  <2>3. \A q \in Requests : /\ pc'[q] \in GitSteps
                            /\ pc'[q] \in {"shutdown"} \cup BeforeReset \cup Restorable => pc'[q] = pc[q]
    BY <1>2, <2>1 DEF InstallInv, GitSteps, BeforeReset, Restorable
  <2> QED BY <1>2, <2>1, <2>2, <2>3 DEF InstallInv, GitSteps, BeforeReset, Restorable
<1>7. ASSUME NEW r \in Requests, RevParse(r) PROVE InstallInv'
  <2>1. /\ pc[r] = "rev_parse" /\ \E to \in {"git_fetch", "idle"} : pc' = [pc EXCEPT ![r] = to]
        /\ UNCHANGED <<tree, deps, running, up, raced, excused>>
    BY <1>7 DEF RevParse, Advance, GiveUp, diskVars
  <2>2. ~excused => tree = running /\ deps = running /\ running \in Versions
    BY <1>2, <2>1 DEF InstallInv, GitSteps, BeforeReset, Restorable
  <2>3. ~excused /\ pc'[r] = "git_fetch" => oldCommit'[r] = running
    <3>1. CASE GiveUp(r)
      BY <3>1 DEF GiveUp, TypeInv, TypeOK
    <3>2. ASSUME NEW head \in Versions, tree # NoVersion => head = tree,
                 oldCommit' = [oldCommit EXCEPT ![r] = head]
          PROVE  ~excused => oldCommit'[r] = running
      BY <2>2, <3>2, VersionsAssumption DEF TypeInv, TypeOK
    <3> QED BY <1>7, <3>1, <3>2 DEF RevParse
  <2>4. PICK to \in {"git_fetch", "idle"} : pc' = [pc EXCEPT ![r] = to]
    BY <2>1
  <2>5. pc'[r] = to
    BY <2>4 DEF TypeInv, TypeOK
  <2>6. to \in GitSteps /\ to \notin BeforeReset \ Restorable /\ to \notin {"fetch", "pip", "shutdown"}
    BY DEF GitSteps, BeforeReset, Restorable
  <2>7. to \in BeforeReset \cup Restorable => to = "git_fetch"
    BY DEF BeforeReset, Restorable
  <2> QED BY <1>2, <1>3, <2>1, <2>2, <2>3, <2>4, <2>5, <2>6, <2>7, MoveInstall
<1>8. ASSUME NEW r \in Requests, GitFetch(r) PROVE InstallInv'
  BY <1>2, <1>3, <1>8, MoveInstall
     DEF GitFetch, Advance, GiveUp, diskVars, InstallInv, GitSteps, BeforeReset, Restorable
<1>9. ASSUME NEW r \in Requests, ResetToTag(r) PROVE InstallInv'
  <2>1. pc[r] = "reset" /\ UNCHANGED <<deps, up, raced, running>> /\ (excused => excused')
    <3>1. pc[r] = "reset" /\ UNCHANGED deps
      BY <1>9 DEF ResetToTag
    <3>2. CASE GiveUp(r) /\ excused' = (excused \/ tree' # tree)
      BY <3>1, <3>2 DEF GiveUp
    <3>3. ASSUME NEW to \in Pcs, NEW st \in {"installing", state}, Advance(r, to, st),
                 UNCHANGED excused
          PROVE  UNCHANGED <<up, raced, running>> /\ (excused => excused')
      BY <3>1, <3>3 DEF Advance
    <3> QED BY <1>9, <3>2, <3>3 DEF ResetToTag, Pcs
  <2>2. ~excused => /\ tree = running /\ deps = running /\ running \in Versions
                    /\ oldCommit[r] = running
    BY <1>2, <2>1 DEF InstallInv, GitSteps, BeforeReset, Restorable
  <2>3. info[r].tag \in Versions
    BY <2>1 DEF TypeInv, ThreadsAreSet, Infos
  <2>4. raced => excused'
    BY <1>3, <2>1
  <2>5. CASE GiveUp(r) /\ excused' = (excused \/ tree' # tree)
    BY <1>2, <2>1, <2>2, <2>4, <2>5, MoveInstall DEF GiveUp, GitSteps, BeforeReset, Restorable
  <2>6. ASSUME NEW to \in {"pip", "roll_back"}, pc' = [pc EXCEPT ![r] = to], UNCHANGED oldCommit,
               to = "pip" => tree' = info[r].tag
        PROVE  InstallInv'
    BY <1>2, <2>1, <2>2, <2>3, <2>4, <2>6, MoveInstall DEF GitSteps, BeforeReset, Restorable
  <2> QED BY <1>9, <2>5, <2>6 DEF ResetToTag, Advance
<1>10. ASSUME NEW r \in Requests, PipInstall(r) PROVE InstallInv'
  <2>1. /\ pc[r] = "pip" /\ UNCHANGED <<tree, oldCommit, up, raced, running>>
        /\ excused => excused'
    BY <1>10 DEF PipInstall, Advance
  <2>2. /\ ~raced => tree \in Versions
        /\ ~excused => deps = running /\ oldCommit[r] = running
    <3>1. pc[r] \in Restorable
      BY <2>1 DEF Restorable
    <3>2. ~raced => tree \in Versions
      BY <1>2, <2>1 DEF InstallInv
    <3> QED BY <1>2, <3>1, <3>2 DEF InstallInv
  <2>3. raced => excused'
    BY <1>3, <2>1
  <2>4. CASE deps' = tree /\ pc' = [pc EXCEPT ![r] = "shutdown"]
    BY <1>2, <2>1, <2>2, <2>3, <2>4, MoveInstall DEF GitSteps, BeforeReset, Restorable
  <2>5. CASE (deps' = deps \/ excused') /\ pc' = [pc EXCEPT ![r] = "roll_back"]
    BY <1>2, <2>1, <2>2, <2>3, <2>5, MoveInstall DEF GitSteps, BeforeReset, Restorable
  <2> QED BY <1>10, <2>4, <2>5 DEF PipInstall, Advance
<1>11. ASSUME NEW r \in Requests, RollBack(r) PROVE InstallInv'
  <2>1. /\ pc[r] = "roll_back" /\ pc' = [pc EXCEPT ![r] = "idle"]
        /\ UNCHANGED <<deps, up, raced, running>>
    BY <1>11 DEF RollBack, GiveUp
  <2>2. (raced => excused') /\ (excused => excused')
    BY <1>3, <1>11, <2>1 DEF RollBack
  <2>3. ~excused' => tree' = running /\ deps' = running
    BY <1>2, <1>11, <2>1 DEF RollBack, InstallInv, GitSteps, BeforeReset, Restorable
  <2> QED BY <1>2, <2>1, <2>2, <2>3, MoveInstall DEF GitSteps, BeforeReset, Restorable
<1>12. ASSUME NEW r \in Requests, Shutdown(r) PROVE InstallInv'
  <2>1. ~excused' => deps = tree /\ tree \in Versions
    BY <1>2, <1>12 DEF Shutdown, InstallInv, NoneClaimed
  <2> QED BY <1>12, <2>1
          DEF Shutdown, ProcessGone, diskVars, InstallInv, NoneClaimed, GitSteps, BeforeReset,
              Restorable
<1>13. ASSUME Crash PROVE InstallInv'
  <2>1. ~excused' => deps' = deps /\ tree' = tree
    BY <1>13 DEF Crash
  <2>2. ~excused' => deps = tree /\ tree \in Versions
    <3>1. ~excused' => /\ ~excused
                       /\ \A q \in Requests : pc[q] \notin {"reset", "pip", "roll_back"}
      BY <1>13 DEF Crash
    <3>2. CASE NoneClaimed
      BY <1>2, <1>13, <3>1, <3>2 DEF Crash, InstallInv
    <3>3. ASSUME NEW q \in Requests, pc[q] \notin {"idle", "fetch"}, ~excused' PROVE deps = tree /\ tree \in Versions
      <4>1. ~raced /\ up
        BY <1>2, <1>3, <1>13, <3>1, <3>3 DEF Crash
      <4>2. CASE pc[q] = "shutdown"
        BY <1>2, <4>1, <4>2 DEF InstallInv
      <4>3. CASE pc[q] # "shutdown"
        <5>1. pc[q] \in BeforeReset
          BY <1>2, <3>1, <3>3, <4>3 DEF InstallInv, GitSteps, BeforeReset, Restorable
        <5> QED BY <1>2, <3>1, <3>3, <4>1, <5>1 DEF InstallInv
      <4> QED BY <4>2, <4>3
    <3> QED BY <3>2, <3>3 DEF NoneClaimed
  <2> QED BY <1>13, <2>1, <2>2 DEF Crash, ProcessGone, InstallInv, NoneClaimed, GitSteps,
              BeforeReset, Restorable
<1>14. CASE Boot
  BY <1>2, <1>14 DEF Boot, memVars, diskVars, history, InstallInv, NoneClaimed, GitSteps,
              BeforeReset, Restorable
<1>15. CASE EngineStarts \/ EngineStops \/ UNCHANGED vars
  BY <1>2, <1>15 DEF EngineStarts, EngineStops, vars, memVars, diskVars, history,
                     InstallInv, NoneClaimed
\* The desktop's steps are none of a server's.
<1>16. ASSUME NEW r \in Requests PROVE ~( \/ StartDownload(r) \/ EndDownload(r) \/ Verify(r)
                                          \/ VerifyFails(r) \/ Launch(r) )
  BY <1>2 DEF InstallInv, StartDownload, EndDownload, Verify, VerifyFails, Launch, Writers,
              GitSteps, BeforeReset, Restorable
<1> QED BY <1>4, <1>5, <1>6, <1>7, <1>8, <1>9, <1>10, <1>11, <1>12, <1>13, <1>14, <1>15, <1>16,
       <1>17, <1>18 DEF Next, ThreadStep

\* With no update at work, a server has on disk what it runs, with its requirements,
\* whatever step of an update failed, but for the five excuses, for any requests
\* and versions (update.py 343-396).
THEOREM InstallsWhole == Spec => []InstallIsWhole
<1>1. Init => Alone /\ ServerInv
  BY VersionsAssumption DEF Init, Alone, ServerInv, InstallInv, NoneClaimed, GitSteps,
              BeforeReset, Restorable
<1>2. ServerInv => InstallIsWhole
  BY DEF ServerInv, InstallInv, InstallIsWhole, NoneClaimed
<1> QED BY <1>1, <1>2, StepAlone, StepServerInv, TypeCorrect, PTL DEF Spec
=============================================================================
