\* Resume is repeated until it works.
SPECIFICATION RetrySpec
CONSTANTS
  Commands = {c1}
  Watcher = watcher
  RepoCount = 2
  Watched = FALSE
  Invoked <- OfStopAndResume
  CrashAt <- RecoverablePhases
  MaxPatches = 2
  MaxFaults = 2
  EditsAt = {"idle"}
PROPERTIES
  Resumable
