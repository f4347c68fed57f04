\* Overlays, a preview and its adoption, one command at a time.
SPECIFICATION Spec
CONSTANTS
  Commands = {c1}
  Invoked = {"overlay", "undo", "preview", "accept", "resume", "clean"}
  CrashAt <- WholeViews
  UserCommits = FALSE
  MaxPatches = 4
  MaxFaults = 2
INVARIANTS
  TypeOK
  HostWorkKept
  BoxWorkKept
  OverlayIsApplied
  
CHECK_DEADLOCK FALSE
