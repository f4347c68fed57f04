\* Resume dies after docker run and before it saves Running.
SPECIFICATION Spec
CONSTANTS
  Commands = {c1}
  Watcher = watcher
  RepoCount = 1
  Watched = FALSE
  Invoked = {"resume", "stop"}
  CrashAt = {"saveRunning"}
  MaxPatches = 0
  MaxFaults = 1
  EditsAt = {}
INVARIANTS
  StopTakesGuestDown
