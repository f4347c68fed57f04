\* Two commands of the same repository, with a patient user.
SPECIFICATION PatientSpec
CONSTANTS
  Commands = {c1, c2}
  RepoCount = 1
  Invoked = {"one", "continue"}
  Options = {{"merge"}}
  UserActsAt <- AnyPhase
  MaxPatches = 3
  MaxStashes = 0
  MaxTroubles = 1
  MaxFaults = 1
PROPERTIES
  
  PausedAcceptancesEnd
