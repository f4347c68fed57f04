\* One repository whose retained worktree the user edits between two sync commands;
\* every recoverable interruption, fair processes.
SPECIFICATION FairSpec
CONSTANTS
  RepoCount = 1
  MaxPatches = 2
  MaxConflicts = 1
  MaxFaults = 1
  MaxAborts = 1
  EditsAt = {"idle"}
  Overlap = FALSE
PROPERTIES
  SyncFinishes
