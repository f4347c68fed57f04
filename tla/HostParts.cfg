\* The parts that share no state, each on an instance of its own.
SPECIFICATION PartsSpec
CONSTANTS
  \* launches: two at a time, which can fail or die at every step
  Launches = {l1, l2}
  RepoCount = 2
  HostCount = 5
  Width = 8
  First <- FromTheLast
  Taken = {0, 1, 4}
  CrashAt <- AnyPhase
  SaveFails = FALSE
  MaxFaults = 3
  \* Beads' files in the worktree
  Baselines = {"config"}
  Sources = {"source"}
  Lookalikes <- NoLookalikes
  Caches = {}
  Shipped = {"config", "source"}
  Edits = {"e1", "e2"}
  Resumes = 1
  AgentSteps = 3
  \* tasks
  Issues = {"i1", "i2"}
  Memories = {"m"}
  TaskSteps = 3
  \* brokered access
  Configs <- SomeConfigs
  Urls <- SomeUrls
  Refs <- SomeRefs
  Remotes = {"origin"}
  Planners = {"p1"}
  AccessSteps = 1
  MaxPlans = 1
  \* init --update
  Files <- SomeFiles
  DefaultSkills <- TwoDefaults
  Families <- TwoFamilies
  Updaters = {"u1", "u2"}
  EditsAt = {"start", "read", "stage", "recheck", "ended"}
  Saves = 2
  \* images
  Launchers = {"a", "b"}
  Projects = {"a"}
  EditAt = {"start", "binary", "base", "baseBuild", "project", "chosen", "failed"}
  Changes = 2
  \* conversations
  Sessions = {"pair", "alone"}
  Repositories <- PairAndAlone
  Hooks <- OlderHooks
  Users = {"u1"}
  Talks = 2
  \* mounts
  HostTree <- GrownHost
  HostStart <- SomeHost
  Links <- SomeLinks
  Protected <- SomeProtected
  MountConfigs <- SomeMountConfigs
  \* rebases of the worktrees
  Worktrees = 2
  HostBranches <- TwoBranchesAndOne
  Detachable = {2}
  Items = 3
INVARIANTS
  PartsTypeOK
  MountsAreKept
  NoDanglingRegistration
  FailuresAreTold
  SharedOnlyBySimultaneous
  WorkIsExact
  AccessIsGranted
  ImagesAreFresh
  
  MountsKeepTheHost
  
PROPERTIES
  TasksKept
  RefreshIsAtomic
CHECK_DEADLOCK FALSE
