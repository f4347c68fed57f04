\* Two repositories that share every phase; nobody edits a frozen worktree.
SPECIFICATION Spec
CONSTANTS
  RepoCount = 2
  MaxPatches = 2
  MaxConflicts = 1
  MaxFaults = 1
  MaxAborts = 0
  EditsAt = {}
  Overlap = FALSE
INVARIANTS
  TypeOK
  PhaseBarrier
  
  JournalledWorkKept
  PushedMeansPublished
  SessionBranchAligned
PROPERTIES
  PushesOnlyAcceptedForward
  HostKeepsPatches
