SPECIFICATION Spec
CONSTANTS
  None = None
  Updaters = {"u", "f"}
  Forced = {"f"}
  DevBuilds = {3}
  Versions = {1, 2, 3, 4}
  First = 2
  Pinned = {"u"}
  Signed = {1, 2, 3}
  Platforms = {"linux", "macos"}
INVARIANTS
  TypeOK
  LiveGenuine
CHECK_DEADLOCK FALSE
