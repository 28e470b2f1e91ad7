\* Two requests on a server or a desktop, two versions.
CONSTANTS
  Platforms = {"server", "win32"}
  Requests = {r1, r2}
  Versions = {v1, v2}
  Installed = v1
  NoVersion = none
SPECIFICATION FairSpec
INVARIANTS InstallIsWhole
PROPERTIES LaunchIsVerified UpdateEnds
CHECK_DEADLOCK FALSE
