\* One command at a time, which can die in every phase.
SPECIFICATION Spec
CONSTANTS
  Commands = {c1}
  Watcher = watcher
  RepoCount = 2
  Watched = FALSE
  Invoked = {"stop", "resume", "attach", "list", "expire", "clean", "forceClean"}
  CrashAt <- AnyPhase
  MaxPatches = 3
  MaxFaults = 2
  EditsAt = {"idle"}
INVARIANTS
  TypeOK
  WorkKept
  AgentHasMetadata
  AgentIsRecorded
PROPERTIES
  BranchesMoveForward
