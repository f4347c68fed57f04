\* The user commits in a retained worktree between two sync commands.
SPECIFICATION Spec
CONSTANTS
  RepoCount = 1
  MaxPatches = 2
  MaxConflicts = 0
  MaxFaults = 1
  MaxAborts = 0
  EditsAt = {"idle"}
  Overlap = FALSE
PROPERTIES
  NoGuestOnlyCommitDiscarded
