\* The watcher beside the user's commands.
SPECIFICATION FairSpec
CONSTANTS
  Commands = {c1}
  Watcher = watcher
  RepoCount = 1
  Watched = TRUE
  Invoked = {"attach", "reconnect", "list"}
  CrashAt = {"load", "restore", "trust", "saveRunning"}
  MaxPatches = 1
  MaxFaults = 1
  EditsAt = {}
PROPERTIES
  ExpiredSessionsStop
