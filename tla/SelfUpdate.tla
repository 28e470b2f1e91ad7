------------------------------ MODULE SelfUpdate ------------------------------
(***************************************************************************)
(* The program updates itself (web/update.py): a request looks whether an  *)
(* engine or an update is active, asks GitHub for the latest release, and  *)
(* only then claims STATE and starts a thread.  On a desktop the thread    *)
(* downloads the package, verifies its SHA-256 and launches the installer; *)
(* on a server it moves the clone to the release's tag, installs the       *)
(* requirements and exits, and systemd starts what is then on disk.        *)
(*                                                                         *)
(* Requests run on the threads of the web server, so that two of them, and *)
(* starts and stops of the engine, interleave between the look and the     *)
(* claim.  A command that fails and one that raises (a time-out) are told  *)
(* apart where the code treats them differently; either may come half-way, *)
(* and a download may end before its last byte.                            *)
(***************************************************************************)

CONSTANTS
  Platforms,    \* where it may run: subset of {"server", "win32", "darwin"}
  Requests,     \* requests to update that can be served at a time
  Versions,     \* versions of the program
  Installed,    \* the one that is installed first
  NoVersion     \* none of them: not known, not there, or a mixture

ASSUME VersionsAssumption == Installed \in Versions /\ NoVersion \notin Versions

VARIABLES
  platform,     \* SERVER_MODE, or else sys.platform
  engine,       \* the fields of the engine's manager that say it is at work
  state,        \* STATE.state of the module: how far an update is
  pc,           \* where each request, or the thread it started, stands
  info,         \* the release it works on, as parse_release returned it
  oldCommit,    \* old_commit of _run_git_update
  file,         \* the package at dest: its version and whether it is whole
  tree,         \* the version on disk
  deps,         \* the version whose requirements are installed, NoVersion if mixed
  running,      \* the version the process runs
  up,           \* does the process run
  raced,        \* history: two requests passed the look before either claimed
  excused,      \* history: something may have left the installation in pieces
  stranded      \* history: STATE was claimed for a thread that could not be started

memVars  == <<engine, state, pc, info, oldCommit>>
diskVars == <<file, tree, deps>>
history  == <<raced, excused, stranded>>
vars == <<platform, memVars, diskVars, running, up, history>>

Fields == {"_scanner_thread", "scan_status", "running"}
InWork == {"downloading", "verifying", "installing"}
Pcs == {"idle", "fetch", "spawn", "rev_parse", "git_fetch", "reset", "pip", "roll_back",
        "start", "download", "torn", "verify", "launch", "shutdown"}

\* What a release may hold: a package for either platform, and digests, of which a
\* single package's may bear any name; and the digests that fit a package.
Digest  == [exe |-> "exe.sha256", dmg |-> "dmg.sha256"]
Fitting == [exe |-> {"exe.sha256", "old.sha256"}, dmg |-> {"dmg.sha256"}]
Shas    == {"exe.sha256", "dmg.sha256", "old.sha256"}
Assets  == SUBSET ({"exe", "dmg"} \cup Shas)
Missing == "missing"
Infos   == [tag: Versions, pkg: {"exe", "dmg", Missing}, sha: Shas \cup {Missing}]
NoInfo  == [tag |-> NoVersion, pkg |-> Missing, sha |-> Missing]
NoFile  == [ver |-> NoVersion, whole |-> FALSE]

TypeOK ==
  /\ platform \in Platforms /\ engine \subseteq Fields
  /\ state \in InWork \cup {"idle", "error"}
  /\ pc \in [Requests -> Pcs] /\ info \in [Requests -> Infos \cup {NoInfo}]
  /\ oldCommit \in [Requests -> Versions \cup {NoVersion}]
  /\ file \in [ver: Versions \cup {NoVersion}, whole: BOOLEAN]
  /\ {tree, deps, running} \subseteq Versions \cup {NoVersion}
  /\ {up, raced, excused, stranded} \subseteq BOOLEAN

Init ==
  /\ platform \in Platforms
  /\ engine = {} /\ state = "idle" /\ pc = [r \in Requests |-> "idle"]
  /\ info = [r \in Requests |-> NoInfo] /\ oldCommit = [r \in Requests |-> NoVersion]
  /\ file = NoFile /\ tree = Installed /\ deps = Installed /\ running = Installed
  /\ up = TRUE /\ raced = FALSE /\ excused = FALSE /\ stranded = FALSE

-----------------------------------------------------------------------------
(* The look and the claim.                                                  *)

\* The package of this platform, and the digest that goes with it by its name;
\* if there is none, the first digest of the list, which may be any.
ParseRelease(tag, assets) ==
  LET want == IF platform = "darwin" THEN "dmg" ELSE "exe"
      pkg  == IF want \in assets THEN want ELSE Missing
      shas == IF pkg # Missing /\ Digest[want] \in assets THEN {Digest[want]}
              ELSE IF assets \cap Shas = {} THEN {Missing} ELSE assets \cap Shas
  IN  [tag: {tag}, pkg: {pkg}, sha: shas]

\* The loop's thread, a scan, or a wallet that runs.
EngineActive == engine # {}

InProgress == state \in InWork

\* A request finds no engine and no update active (start_update).
Look(r) ==
  /\ up /\ pc[r] = "idle" /\ ~EngineActive /\ ~InProgress
  /\ pc' = [pc EXCEPT ![r] = "fetch"]
  /\ raced' = (\E q \in Requests : pc[q] = "fetch" \/ (raced /\ pc[q] # "idle"))
  /\ UNCHANGED <<platform, engine, state, info, oldCommit, diskVars, running, up, excused, stranded>>

Usable(i) == IF platform = "server" THEN TRUE ELSE i.pkg # Missing /\ i.sha # Missing

\* The release is fetched and STATE claimed, whatever happened meanwhile.
Claim(r) ==
  /\ pc[r] = "fetch"
  /\ \E tag \in Versions, assets \in IF platform = "server" THEN {{}} ELSE Assets :
       \E i \in ParseRelease(tag, assets) :
         Usable(i) /\ info' = [info EXCEPT ![r] = i]
  /\ state' = "downloading" /\ pc' = [pc EXCEPT ![r] = "spawn"]
  /\ excused' = (excused \/ (raced /\ platform = "server"))
  /\ UNCHANGED <<platform, engine, oldCommit, diskVars, running, up, raced, stranded>>

Spawn(r) ==
  /\ pc[r] = "spawn"
  /\ pc' = [pc EXCEPT ![r] = IF platform = "server" THEN "rev_parse" ELSE "start"]
  /\ UNCHANGED <<platform, engine, state, info, oldCommit, diskVars, running, up, history>>

\* The system has no thread to give: start raises, and STATE stays as it is.
SpawnFails(r) ==
  /\ pc[r] = "spawn" /\ pc' = [pc EXCEPT ![r] = "idle"]
  /\ info' = [info EXCEPT ![r] = NoInfo]
  /\ stranded' = TRUE
  /\ UNCHANGED <<platform, engine, state, oldCommit, diskVars, running, up, raced, excused>>

\* GitHub does not answer, or the release has nothing for this platform.
NothingToInstall(r) ==
  /\ pc[r] = "fetch"
  /\ pc' = [pc EXCEPT ![r] = "idle"]
  /\ UNCHANGED <<platform, engine, state, info, oldCommit, diskVars, running, up, history>>

\* A step of a thread that only moves it on, or ends it with an error.
Advance(r, to, st) ==
  /\ pc' = [pc EXCEPT ![r] = to] /\ state' = st
  /\ UNCHANGED <<platform, engine, info, running, up, raced, stranded>>

GiveUp(r) ==
  /\ pc' = [pc EXCEPT ![r] = "idle"] /\ state' = "error"
  /\ info' = [info EXCEPT ![r] = NoInfo] /\ oldCommit' = [oldCommit EXCEPT ![r] = NoVersion]
  /\ stranded' = FALSE
  /\ UNCHANGED <<platform, engine, running, up, raced>>

-----------------------------------------------------------------------------
(* On a server: _run_git_update.                                            *)

\* HEAD, which a mixture leaves at either commit.
RevParse(r) ==
  /\ pc[r] = "rev_parse"
  /\ \/ /\ \E head \in Versions :
             /\ tree # NoVersion => head = tree
             /\ oldCommit' = [oldCommit EXCEPT ![r] = head]
        /\ Advance(r, "git_fetch", "downloading")
     \/ GiveUp(r)
  /\ UNCHANGED <<diskVars, excused>>

\* A fetch that fails gives up; one that raises rolls back what it did not do.
GitFetch(r) ==
  /\ pc[r] = "git_fetch" /\ UNCHANGED <<diskVars, excused>>
  /\ \/ Advance(r, "reset", state) /\ UNCHANGED oldCommit
     \/ Advance(r, "roll_back", state) /\ UNCHANGED oldCommit
     \/ GiveUp(r)

\* The clone moves to the tag.  A reset that fails or raises may have moved it,
\* or a part of it; only what raised is rolled back.
ResetToTag(r) ==
  /\ pc[r] = "reset" /\ UNCHANGED <<file, deps>>
  /\ \/ /\ tree' = info[r].tag
        /\ Advance(r, "pip", "installing") /\ UNCHANGED <<oldCommit, excused>>
     \/ /\ tree' \in {tree, info[r].tag, NoVersion}
        /\ Advance(r, "roll_back", state) /\ UNCHANGED <<oldCommit, excused>>
     \/ /\ tree' \in {tree, info[r].tag, NoVersion}
        /\ GiveUp(r) /\ excused' = (excused \/ tree' # tree)

PipInstall_NoRollback(r) ==
  /\ pc[r] = "pip" /\ UNCHANGED <<file, tree>>
  /\ \/ /\ deps' = tree /\ UNCHANGED <<excused, oldCommit>>
        /\ Advance(r, "shutdown", state)
     \/ UNCHANGED <<deps, excused>> /\ GiveUp(r)

\* The requirements of what is on disk are installed; a failure, or a time-out,
\* may come half-way.
PipInstall(r) ==
  /\ pc[r] = "pip" /\ UNCHANGED <<file, tree, oldCommit>>
  /\ \/ /\ deps' = tree /\ UNCHANGED excused
        /\ Advance(r, "shutdown", state)
     \/ /\ UNCHANGED <<deps, excused>>
        /\ Advance(r, "roll_back", state)
     \/ /\ deps' = NoVersion /\ excused' = TRUE
        /\ Advance(r, "roll_back", state)

RollBack(r) ==
  /\ pc[r] = "roll_back" /\ UNCHANGED <<file, deps>>
  /\ \/ tree' = oldCommit[r] /\ UNCHANGED excused
     \/ tree' \in {tree, oldCommit[r], NoVersion} /\ excused' = TRUE
  /\ GiveUp(r)

-----------------------------------------------------------------------------
(* On a desktop: _run_update.                                               *)

Writers == {q \in Requests : pc[q] \in {"download", "torn"}}

\* The file is opened for writing, and emptied, under whoever else writes it.
StartDownload(r) ==
  /\ pc[r] = "start"
  /\ file' = [ver |-> info[r].tag, whole |-> FALSE]
  /\ pc' = [q \in Requests |->
       CASE q = r -> IF \E w \in Writers : info[w].tag # info[r].tag THEN "torn" ELSE "download"
         [] q # r -> IF q \in Writers THEN "torn" ELSE pc[q]]
  /\ UNCHANGED <<platform, engine, state, info, oldCommit, tree, deps, running, up, history>>

\* What a download that ends, at its last byte or before, makes of the file.  Bytes
\* that another download emptied are gone; of the same package they are the bytes
\* the other one writes.
Written(r) ==
  IF file = NoFile THEN {file}
  ELSE IF pc[r] = "download" THEN {[file EXCEPT !.whole = whole] : whole \in BOOLEAN}
  ELSE IF file.ver = info[r].tag THEN {file, [file EXCEPT !.whole = TRUE]}
  ELSE {[file EXCEPT !.whole = FALSE]}

EndDownload(r) ==
  /\ r \in Writers /\ UNCHANGED <<oldCommit, tree, deps, excused>>
  /\ \/ file' \in Written(r) /\ Advance(r, "verify", "verifying")
     \/ UNCHANGED file /\ GiveUp(r)

Verified_IfPaired(r) ==
  info[r].sha = Digest[info[r].pkg] => file = [ver |-> info[r].tag, whole |-> TRUE]

\* Is the file's digest the one that was fetched, of this package of this release?
Verified(r) ==
  /\ file = [ver |-> info[r].tag, whole |-> TRUE]
  /\ info[r].sha \in Fitting[info[r].pkg]

Verify(r) ==
  /\ pc[r] = "verify" /\ Verified(r)
  /\ Advance(r, "launch", "installing")
  /\ UNCHANGED <<oldCommit, diskVars, excused>>

VerifyFails_StateStays(r) ==
  /\ pc[r] = "verify" /\ pc' = [pc EXCEPT ![r] = "idle"]
  /\ UNCHANGED <<platform, engine, state, info, oldCommit, diskVars, running, up, history>>

\* The digest differs, and the file is removed if it can be, or something raised.
VerifyFails(r) ==
  /\ pc[r] = "verify"
  /\ file' \in {file, NoFile}
  /\ GiveUp(r) /\ UNCHANGED <<tree, deps, excused>>

\* The installer outlives the process and puts a whole package in its place.
Launch(r) ==
  /\ pc[r] = "launch" /\ UNCHANGED <<file, excused>>
  /\ \/ /\ file # NoFile
        /\ tree' = IF file.whole THEN file.ver ELSE tree
        /\ deps' = tree'
        /\ Advance(r, "shutdown", state) /\ UNCHANGED oldCommit
     \/ GiveUp(r) /\ UNCHANGED <<tree, deps>>

-----------------------------------------------------------------------------
(* The process, and the engine in it.                                       *)

ProcessGone ==
  /\ up' = FALSE /\ engine' = {} /\ state' = "idle"
  /\ pc' = [r \in Requests |-> "idle"] /\ info' = [r \in Requests |-> NoInfo]
  /\ oldCommit' = [r \in Requests |-> NoVersion]
  /\ raced' = FALSE /\ stranded' = FALSE
  /\ UNCHANGED <<platform, running>>

\* _shutdown_self: os._exit, whatever else the process is doing.
Shutdown(r) ==
  /\ pc[r] = "shutdown" /\ ProcessGone
  /\ excused' = (excused /\ raced)
  /\ UNCHANGED diskVars

\* The process is killed, or the machine goes down.
Crash ==
  /\ up /\ ProcessGone
  /\ LET between == {r \in Requests : pc[r] \in {"reset", "pip", "roll_back"}}
         piping  == {r \in Requests : pc[r] = "pip"}
     IN  /\ excused' = (excused \/ between # {})
         /\ deps' \in IF piping = {} THEN {deps} ELSE {deps, NoVersion}
         /\ \/ tree' = tree
            \/ \E r \in between : pc[r] = "reset" /\ tree' \in {info[r].tag, NoVersion}
            \/ \E r \in between : pc[r] = "roll_back" /\ tree' \in {oldCommit[r], NoVersion}
  /\ UNCHANGED file

\* systemd, the installer's helper, or the user starts what is on disk.
Boot ==
  /\ ~up /\ up' = TRUE /\ running' = tree
  /\ UNCHANGED <<platform, memVars, diskVars, history>>

\* A wallet is started, a scan begins, or start_all has its loop's thread, which
\* it starts last.
EngineStarts ==
  /\ up /\ \E f \in Fields \ engine : engine' = engine \cup {f}
  /\ UNCHANGED <<platform, state, pc, info, oldCommit, diskVars, running, up, history>>

\* A scan ends, or a stop drops the thread it has waited 30 s for, which may go on,
\* and clears a wallet's flag, before it cancels the wallet's buys.
EngineStops ==
  /\ up /\ \E f \in engine : engine' = engine \ {f}
  /\ UNCHANGED <<platform, state, pc, info, oldCommit, diskVars, running, up, history>>

ThreadStep(r) ==
  \/ Claim(r) \/ NothingToInstall(r) \/ Spawn(r) \/ SpawnFails(r)
  \/ RevParse(r) \/ GitFetch(r) \/ ResetToTag(r) \/ PipInstall(r) \/ RollBack(r)
  \/ StartDownload(r) \/ EndDownload(r) \/ Verify(r) \/ VerifyFails(r) \/ Launch(r)
  \/ Shutdown(r)

Next ==
  \/ \E r \in Requests : Look(r) \/ ThreadStep(r)
  \/ EngineStarts \/ EngineStops \/ Crash \/ Boot

Spec == Init /\ [][Next]_vars

\* Every call of a thread returns or times out: 5 s for GitHub, 30 s for a read
\* of the download, 600 s for a command (update.py 89-98, 237, 336).
FairSpec == Spec /\ \A r \in Requests : WF_vars(ThreadStep(r))

-----------------------------------------------------------------------------
(* Properties.                                                              *)

\* With no update at work, what is on disk is what runs, with its requirements,
\* whatever step of an update failed, but for five things: the rollback failed, pip
\* stopped half-way, the process died in between, two requests had both looked
\* before either claimed STATE, or git failed to reset the clone and had moved some
\* of it: that is not rolled back (update.py 367-369), though the docstring says
\* of every step that it is (343-344).
InstallIsWhole ==
  (platform = "server" /\ up /\ ~excused /\ \A r \in Requests : pc[r] = "idle")
    => tree = running /\ deps = running

\* An installer is launched on a whole package of the release, though a download may
\* end early without an error and its file be replaced under the thread, unless two
\* downloads raced: none of them can begin while another is between its
\* verification and its launch (update.py 214-226, 239-247, 407-408).
LaunchIsVerified ==
  [][\A r \in Requests :
       Launch(r) /\ pc'[r] = "shutdown" =>
         raced \/ (file.whole /\ file.ver = info[r].tag)]_vars

\* STATE does not stay in progress, which would refuse every later request: whatever
\* fails, an update ends with an error or with the process.  But for one thing: it
\* was claimed, and the thread could not be started (update.py 416-422, 440-446).
UpdateEnds == InProgress ~> (~InProgress \/ stranded)
=============================================================================
