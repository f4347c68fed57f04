\* A preview that was closed or adopted, and what is left of it.
SPECIFICATION Spec
CONSTANTS
  Commands = {c1}
  Invoked = {"preview"}
  CrashAt = {}
  UserCommits = FALSE
  MaxPatches = 0
  MaxFaults = 0
INVARIANTS
  NoBranchWithoutPreview
CHECK_DEADLOCK FALSE
