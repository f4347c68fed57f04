\* One acceptance at a time, of one or all of two repositories.
SPECIFICATION Spec
CONSTANTS
  Commands = {c1}
  RepoCount = 2
  Invoked = {"one", "all", "continue", "abort"}
  Options <- NoneStashAll
  UserActsAt <- BesideStashes
  MaxPatches = 3
  MaxStashes = 1
  MaxTroubles = 1
  MaxFaults = 0
INVARIANTS
  TypeOK
  HostWorkKept
  NoPartialFastForward
  SuccessIsComplete
