------------------------ MODULE LaunchRollback_proofs ------------------------
(***************************************************************************)
(* Proofs about LaunchRollback, for any number of launches, repositories   *)
(* and addresses: types; no worktree is taken away under a guest that may  *)
(* exist, none stays registered without its directory; what a failed       *)
(* launch leaves; who can share an address, and which addresses are never  *)
(* tried.                                                                  *)
(***************************************************************************)
EXTENDS LaunchRollback, TLAPS

\* What one launch, or its session later, does.
Step(l) ==
  \/ Prepares(l) \/ StartsGuest(l) \/ TakesBack(l)
  \/ Runtime(l) \/ Later(l) \/ Crash(l)

LEMMA NextIsStep == Next => \E l \in Launches : Step(l)
BY DEF Next, Step

-----------------------------------------------------------------------------
(***************************************************************************)
(* Type correctness                                                        *)
(***************************************************************************)
LEMMA PhaseNames ==
  /\ "idle" \in Phases
  /\ "store" \in Phases
  /\ "snapshot" \in Phases
  /\ "add" \in Phases
  /\ "isolate" \in Phases
  /\ "fill" \in Phases
  /\ "agent" \in Phases
  /\ "run" \in Phases
  /\ "poll" \in Phases
  /\ "trust" \in Phases
  /\ "save" \in Phases
  /\ "probe" \in Phases
  /\ "restore" \in Phases
  /\ "remove" \in Phases
  /\ "delete" \in Phases
  /\ "ended" \in Phases
BY DEF Phases

Process == [pc : Phases, repo : Repos, owned : 0 .. RepoCount,
            failed : BOOLEAN]
ProcType == proc \in [Launches -> Process]

LEMMA RepoFacts ==
  /\ RepoCount \in Nat /\ RepoCount >= 1
  /\ 1 \in Repos /\ RepoCount \in Repos
  /\ \A r \in Repos : r \in Int /\ 1 <= r /\ r <= RepoCount
  /\ \A r \in Repos : r \in 0 .. RepoCount /\ r - 1 \in 0 .. RepoCount
  /\ \A r \in Repos : r < RepoCount => r + 1 \in Repos
BY ConstantsAssumption DEF Repos

LEMMA MovesKeepType ==
  ASSUME ProcType, NEW l \in Launches
  PROVE  /\ \A phase \in Phases : Goes(l, phase) => ProcType'
         /\ \A n \in 0 .. RepoCount : RollsBack(l, n) => ProcType'
         /\ \A wrong \in BOOLEAN : NextOwned(l, wrong) => ProcType'
<1> USE DEF ProcType
<1>1. \A phase \in Phases : Goes(l, phase) => ProcType'
  BY DEF Goes, Process
<1>2. ASSUME NEW n \in 0 .. RepoCount, RollsBack(l, n)
      PROVE  ProcType'
  BY <1>2, RepoFacts, PhaseNames DEF RollsBack, Process
<1>3. ASSUME NEW wrong \in BOOLEAN, NextOwned(l, wrong)
      PROVE  ProcType'
  <2>1. proc[l] \in Process
    OBVIOUS
  <2>2. proc[l].owned <= RepoCount /\ proc[l].owned \in Int
    BY <2>1, RepoFacts DEF Process
  <2>3. proc[l].repo < proc[l].owned => proc[l].repo + 1 \in Repos
    <3>1. proc[l].repo \in Repos /\ proc[l].repo \in Int
      BY <2>1, RepoFacts DEF Process
    <3>2. proc[l].repo < proc[l].owned => proc[l].repo < RepoCount
      BY <2>2, <3>1, RepoFacts
    <3>3. QED
      BY <3>1, <3>2, RepoFacts
  <2>4. proc'[l] \in Process
    BY <1>3, <2>1, <2>3, PhaseNames DEF NextOwned, Process
  <2>5. QED
    BY <1>3, <2>4 DEF NextOwned
<1>4. QED
  BY <1>1, <1>2, <1>3

LEMMA StepKeepsProcType ==
  ASSUME ProcType, NEW l \in Launches, Step(l)
  PROVE  ProcType'
<1> USE PhaseNames, MovesKeepType
<1>0. Cur(l) \in Repos /\ 0 \in 0 .. RepoCount /\ RepoCount \in 0 .. RepoCount
  BY RepoFacts DEF ProcType, Process, Cur
<1>1. CASE Prepares(l)
  <2>1. CASE ChooseHost(l) \/ NoHostFree(l) \/ CreateStorage(l)
    BY <2>1 DEF ChooseHost, NoHostFree, CreateStorage, Ends
  <2>2. CASE SnapshotHostChanges(l) \/ AddWorktree(l) \/ IsolateMetadata(l)
    BY <1>0, <2>2, RepoFacts
       DEF SnapshotHostChanges, AddWorktree, IsolateMetadata
  <2>3. CASE AddFails(l) \/ IsolateFails(l)
    BY <1>0, <2>3, RepoFacts DEF AddFails, IsolateFails
  <2>4. CASE FillWorktree(l)
    <3>1. ASSUME Cur(l) < RepoCount,
                 proc' = [proc EXCEPT ![l].pc = "add", ![l].repo = @ + 1]
          PROVE  ProcType'
      BY <1>0, <3>1, RepoFacts DEF ProcType, Process, Cur
    <3>2. QED
      BY <1>0, <2>4, <3>1, RepoFacts DEF FillWorktree
  <2>5. CASE StartAgent(l) \/ SpecFails(l)
    BY <1>0, <2>5 DEF StartAgent, SpecFails
  <2>6. QED
    BY <1>1, <2>1, <2>2, <2>3, <2>4, <2>5 DEF Prepares
<1>2. CASE StartsGuest(l)
  <2>1. CASE RunGuest(l) \/ RunUncertain(l) \/ RunRefused(l)
    BY <2>1 DEF RunGuest, RunUncertain, RunRefused, Ends
  <2>2. CASE PublishesPort(l) \/ StartupFails(l) \/ TrustHost(l)
    BY <2>2 DEF PublishesPort, StartupFails, TrustHost
  <2>3. CASE TrustFails(l) \/ SaveSession(l)
    BY <2>3 DEF TrustFails, SaveSession, Ends
  <2>4. CASE ConfirmAbsent(l)
    BY <1>0, <2>4 DEF ConfirmAbsent, Ends
  <2>5. QED
    BY <1>2, <2>1, <2>2, <2>3, <2>4 DEF StartsGuest
<1>3. CASE TakesBack(l)
  BY <1>3 DEF TakesBack, RestoreMetadata, RemoveWorktree, DeleteStorage, Ends
<1>4. CASE Runtime(l) \/ Later(l)
  BY <1>4 DEF Runtime, DaemonCreates, GuestExits, ProcType,
              Later, StopSession, ResumeSession, CleanSession
<1>5. CASE Crash(l)
  BY <1>5 DEF Crash, Ends
<1>6. QED
  BY <1>1, <1>2, <1>3, <1>4, <1>5 DEF Step

LaunchType ==
  /\ record \in [Launches -> {"none", "Running", "Stopped", "Removed"}]
  /\ host \in [Launches -> Hosts \cup {NoHost}]
  /\ outcome \in [Launches -> Outcomes]
  /\ beside \in [Launches -> SUBSET Launches]
  /\ faults \in Nat

ResourceType ==
  /\ storage \in [Launches -> BOOLEAN]
  /\ linked \in [Launches -> SUBSET Repos]
  /\ tree \in [Launches -> [Repos -> Trees]]
  /\ agent \in [Launches -> BOOLEAN]
  /\ guest \in [Launches -> Guests]

LEMMA TypeInParts == TypeOK <=> ProcType /\ LaunchType /\ ResourceType
BY DEF TypeOK, ProcType, Process, LaunchType, ResourceType

LEMMA FaultType == faults \in Nat /\ Fault => faults' \in Nat
BY DEF Fault

LEMMA EndsType ==
  ASSUME LaunchType, NEW l \in Launches, NEW how \in Outcomes, Ends(l, how)
  PROVE  outcome' \in [Launches -> Outcomes]
BY DEF Ends, LaunchType

LEMMA StepKeepsLaunchType ==
  ASSUME LaunchType, NEW l \in Launches, Step(l)
  PROVE  LaunchType'
<1> USE FaultType, EndsType DEF LaunchType, told
<1>0. {"none", "created", "failed", "rolledBack", "incomplete",
       "preserved", "died"} \subseteq Outcomes
  BY DEF Outcomes
<1>1. CASE Prepares(l)
  <2>1. CASE ChooseHost(l)
    <3>1. ASSUME NEW k \in 0 .. HostCount - 1 PROVE Candidate(l, k) \in Hosts
      <4>1. First[l] + k \in Int /\ HostCount \in Nat \ {0}
            /\ Width \in Nat \ {0}
        BY ConstantsAssumption DEF Hosts
      <4>2. (First[l] + k) % Width \in Int
        BY <4>1
      <4>3. QED
        BY <4>1, <4>2 DEF Candidate, Hosts
    <3>2. host' \in [Launches -> Hosts \cup {NoHost}]
      BY <2>1, <3>1 DEF ChooseHost
    <3>3. beside' \in [Launches -> SUBSET Launches]
      BY <2>1 DEF ChooseHost
    <3>4. QED
      BY <2>1, <3>2, <3>3 DEF ChooseHost
  <2>2. CASE NoHostFree(l) \/ CreateStorage(l)
    BY <1>0, <2>2 DEF NoHostFree, CreateStorage
  <2>3. CASE SnapshotHostChanges(l) \/ AddWorktree(l) \/ AddFails(l)
    BY <2>3 DEF SnapshotHostChanges, AddWorktree, AddFails
  <2>4. CASE IsolateMetadata(l) \/ IsolateFails(l) \/ FillWorktree(l)
    BY <2>4 DEF IsolateMetadata, IsolateFails, FillWorktree
  <2>5. CASE StartAgent(l) \/ SpecFails(l)
    BY <2>5 DEF StartAgent, SpecFails
  <2>6. QED
    BY <1>1, <2>1, <2>2, <2>3, <2>4, <2>5 DEF Prepares
<1>2. CASE StartsGuest(l)
  <2>1. CASE RunGuest(l) \/ RunUncertain(l) \/ RunRefused(l)
    BY <1>0, <2>1 DEF RunGuest, RunUncertain, RunRefused
  <2>2. CASE PublishesPort(l) \/ StartupFails(l) \/ TrustHost(l)
    BY <2>2 DEF PublishesPort, StartupFails, TrustHost
  <2>3. CASE TrustFails(l) \/ SaveSession(l) \/ ConfirmAbsent(l)
    BY <1>0, <2>3 DEF TrustFails, SaveSession, ConfirmAbsent
  <2>4. QED
    BY <1>2, <2>1, <2>2, <2>3 DEF StartsGuest
<1>3. CASE TakesBack(l)
  BY <1>0, <1>3 DEF TakesBack, RestoreMetadata, RemoveWorktree, DeleteStorage
<1>4. CASE Runtime(l)
  BY <1>4 DEF Runtime, DaemonCreates, GuestExits
<1>5. CASE Later(l)
  BY <1>5 DEF Later, StopSession, ResumeSession, CleanSession
<1>6. CASE Crash(l)
  BY <1>0, <1>6 DEF Crash
<1>7. QED
  BY <1>1, <1>2, <1>3, <1>4, <1>5, <1>6 DEF Step

LEMMA StepKeepsResourceType ==
  ASSUME ResourceType, ProcType, NEW l \in Launches, Step(l)
  PROVE  ResourceType'
<1> USE DEF ResourceType, worktrees, runtime
<1>0. Cur(l) \in Repos
  BY DEF ProcType, Process, Cur
<1>1. ASSUME NEW g \in Guests PROVE Guest(l, g) => guest' \in [Launches -> Guests]
  BY DEF Guest
<1>2. /\ {"none", "link", "isolated", "broken"} = Trees
      /\ {"none", "asked", "up", "down"} = Guests
  BY DEF Trees, Guests
<1>3. ASSUME NEW t \in Trees, tree' = [tree EXCEPT ![l][Cur(l)] = t]
      PROVE  tree' \in [Launches -> [Repos -> Trees]]
  BY <1>0, <1>3
<1>4. ASSUME NEW t \in Trees
      PROVE  [tree EXCEPT ![l] = [r \in Repos |-> t]]
               \in [Launches -> [Repos -> Trees]]
  OBVIOUS
<1>5. CASE Prepares(l)
  <2>1. CASE ChooseHost(l) \/ NoHostFree(l) \/ CreateStorage(l)
    BY <2>1 DEF ChooseHost, NoHostFree, CreateStorage
  <2>2. CASE SnapshotHostChanges(l) \/ FillWorktree(l)
    BY <2>2 DEF SnapshotHostChanges, FillWorktree
  <2>3. CASE AddWorktree(l) \/ AddFails(l)
    <3>1. tree' \in [Launches -> [Repos -> Trees]]
      BY <1>2, <1>3, <2>3 DEF AddWorktree, AddFails
    <3>2. QED
      BY <1>0, <2>3, <3>1 DEF AddWorktree, AddFails
  <2>4. CASE IsolateMetadata(l) \/ IsolateFails(l)
    BY <1>2, <1>3, <2>4 DEF IsolateMetadata, IsolateFails
  <2>5. CASE StartAgent(l) \/ SpecFails(l)
    BY <2>5 DEF StartAgent, SpecFails, StopsAgent
  <2>6. QED
    BY <1>5, <2>1, <2>2, <2>3, <2>4, <2>5 DEF Prepares
<1>6. CASE StartsGuest(l)
  <2>1. CASE RunGuest(l) \/ RunUncertain(l) \/ RunRefused(l)
    BY <1>1, <1>2, <2>1 DEF RunGuest, RunUncertain, RunRefused, StopsAgent
  <2>2. CASE PublishesPort(l) \/ StartupFails(l) \/ TrustHost(l)
    BY <1>1, <1>2, <2>2 DEF PublishesPort, StartupFails, TrustHost, StopsAgent
  <2>3. CASE TrustFails(l) \/ SaveSession(l) \/ ConfirmAbsent(l)
    BY <1>1, <1>2, <2>3 DEF TrustFails, SaveSession, ConfirmAbsent, StopsAgent
  <2>4. QED
    BY <1>6, <2>1, <2>2, <2>3 DEF StartsGuest
<1>7. CASE TakesBack(l)
  <2>1. CASE RestoreMetadata(l)
    <3>1. tree' \in [Launches -> [Repos -> Trees]]
      BY <1>2, <1>3, <2>1 DEF RestoreMetadata
    <3>2. QED
      BY <2>1, <3>1 DEF RestoreMetadata
  <2>2. CASE RemoveWorktree(l)
    <3>1. tree' \in [Launches -> [Repos -> Trees]]
      BY <1>2, <1>3, <2>2 DEF RemoveWorktree
    <3>2. QED
      BY <2>2, <3>1 DEF RemoveWorktree
  <2>3. CASE DeleteStorage(l)
    BY <1>2, <1>4, <2>3 DEF DeleteStorage
  <2>4. QED
    BY <1>7, <2>1, <2>2, <2>3 DEF TakesBack
<1>8. CASE Runtime(l)
  BY <1>1, <1>2, <1>8 DEF Runtime, DaemonCreates, GuestExits
<1>9. CASE Later(l)
  BY <1>1, <1>2, <1>4, <1>9
     DEF Later, StopSession, ResumeSession, CleanSession, StopsAgent
<1>10. CASE Crash(l)
  BY <1>1, <1>2, <1>10 DEF Crash
<1>11. QED
  BY <1>5, <1>6, <1>7, <1>8, <1>9, <1>10 DEF Step

LEMMA InitType == Init => TypeOK
BY RepoFacts, PhaseNames DEF Init, TypeOK, Trees, Guests, Outcomes

LEMMA StepType == TypeOK /\ [Next]_vars => TypeOK'
<1> SUFFICES ASSUME TypeOK, [Next]_vars PROVE TypeOK'
  OBVIOUS
<1>1. ASSUME NEW l \in Launches, Step(l) PROVE TypeOK'
  BY <1>1, TypeInParts, StepKeepsProcType, StepKeepsLaunchType,
     StepKeepsResourceType
     DEF TypeOK, ProcType, Process, LaunchType, ResourceType
<1>2. CASE UNCHANGED vars
  BY <1>2 DEF TypeOK, vars, worktrees, runtime, told
<1>3. QED
  BY <1>1, <1>2, NextIsStep

\* Every reachable state is well typed, for any launches and any bounds.
THEOREM TypeCorrect == Spec => []TypeOK
<1>1. QED
  BY InitType, StepType, PTL DEF Spec

-----------------------------------------------------------------------------
(***************************************************************************)
(* Steps change one launch at a time                                       *)
(***************************************************************************)
Same(m) ==
  /\ record'[m] = record[m]
  /\ storage'[m] = storage[m]
  /\ linked'[m] = linked[m]
  /\ tree'[m] = tree[m]
  /\ agent'[m] = agent[m]
  /\ guest'[m] = guest[m]
  /\ proc'[m] = proc[m]
  /\ outcome'[m] = outcome[m]

LEMMA StepIsLocal ==
  ASSUME TypeOK, NEW l \in Launches, Step(l), NEW m \in Launches, m # l
  PROVE  Same(m)
<1> USE DEF Same, TypeOK, worktrees, runtime, told, Goes, Ends, Guest,
            StopsAgent, RollsBack, NextOwned
<1>1. CASE Prepares(l)
  <2>1. CASE ChooseHost(l) \/ NoHostFree(l) \/ CreateStorage(l)
    BY <2>1 DEF ChooseHost, NoHostFree, CreateStorage
  <2>2. CASE SnapshotHostChanges(l) \/ AddWorktree(l) \/ AddFails(l)
    BY <2>2 DEF SnapshotHostChanges, AddWorktree, AddFails
  <2>3. CASE IsolateMetadata(l) \/ IsolateFails(l) \/ FillWorktree(l)
    BY <2>3 DEF IsolateMetadata, IsolateFails, FillWorktree
  <2>4. CASE StartAgent(l) \/ SpecFails(l)
    BY <2>4 DEF StartAgent, SpecFails
  <2>5. QED
    BY <1>1, <2>1, <2>2, <2>3, <2>4 DEF Prepares
<1>2. CASE StartsGuest(l)
  <2>1. CASE RunGuest(l) \/ RunUncertain(l) \/ RunRefused(l)
    BY <2>1 DEF RunGuest, RunUncertain, RunRefused
  <2>2. CASE PublishesPort(l) \/ StartupFails(l) \/ TrustHost(l)
    BY <2>2 DEF PublishesPort, StartupFails, TrustHost
  <2>3. CASE TrustFails(l) \/ SaveSession(l) \/ ConfirmAbsent(l)
    BY <2>3 DEF TrustFails, SaveSession, ConfirmAbsent
  <2>4. QED
    BY <1>2, <2>1, <2>2, <2>3 DEF StartsGuest
<1>3. CASE TakesBack(l)
  <2>1. CASE RestoreMetadata(l)
    BY <2>1 DEF RestoreMetadata
  <2>2. CASE RemoveWorktree(l)
    BY <2>2 DEF RemoveWorktree
  <2>3. CASE DeleteStorage(l)
    BY <2>3 DEF DeleteStorage
  <2>4. QED
    BY <1>3, <2>1, <2>2, <2>3 DEF TakesBack
<1>4. CASE Runtime(l)
  BY <1>4 DEF Runtime, DaemonCreates, GuestExits
<1>5. CASE Later(l)
  BY <1>5 DEF Later, StopSession, ResumeSession, CleanSession
<1>6. CASE Crash(l)
  BY <1>6 DEF Crash
<1>7. QED
  BY <1>1, <1>2, <1>3, <1>4, <1>5, <1>6 DEF Step

-----------------------------------------------------------------------------
(***************************************************************************)
(* Worktrees under a guest, and registrations                              *)
(***************************************************************************)
OneLaunchInv(l) ==
  PreparedInv(l) /\ RollbackInv(l) /\ GuestInv(l) /\ RecordInv(l)

LEMMA SameKeepsOneLaunchInv ==
  ASSUME NEW m \in Launches, OneLaunchInv(m), Same(m)
  PROVE  OneLaunchInv(m)'
<1> USE DEF OneLaunchInv, Same, At, Cur, Ready, WithWorktrees, WithGuest
<1>1. PreparedInv(m)'
  BY DEF PreparedInv
<1>2. RollbackInv(m)'
  BY DEF RollbackInv
<1>3. GuestInv(m)'
  BY DEF GuestInv
<1>4. RecordInv(m)'
  BY DEF RecordInv
<1>5. QED
  BY <1>1, <1>2, <1>3, <1>4

\* What the move to a phase makes of the process.
LEMMA MovesTo ==
  ASSUME TypeOK, NEW l \in Launches
  PROVE  /\ \A phase : Goes(l, phase) =>
              /\ proc'[l].pc = phase
              /\ proc'[l].repo = proc[l].repo
              /\ proc'[l].owned = proc[l].owned
              /\ proc'[l].failed = proc[l].failed
         /\ \A n : RollsBack(l, n) =>
              /\ n = 0 => proc'[l].pc = "delete"
              /\ n # 0 => proc'[l].pc = "restore"
              /\ proc'[l].repo = 1
              /\ proc'[l].owned = n
              /\ proc'[l].failed = FALSE
<1>1. proc \in [Launches -> Process] /\ proc[l] \in Process
  BY DEF TypeOK, Process
<1>2. ASSUME NEW phase, Goes(l, phase)
      PROVE  /\ proc'[l].pc = phase
             /\ proc'[l].repo = proc[l].repo
             /\ proc'[l].owned = proc[l].owned
             /\ proc'[l].failed = proc[l].failed
  BY <1>1, <1>2 DEF Goes, Process
<1>3. ASSUME NEW n, RollsBack(l, n)
      PROVE  /\ n = 0 => proc'[l].pc = "delete"
             /\ n # 0 => proc'[l].pc = "restore"
             /\ proc'[l].repo = 1
             /\ proc'[l].owned = n
             /\ proc'[l].failed = FALSE
  BY <1>1, <1>3 DEF RollsBack, Process
<1>4. QED
  BY <1>2, <1>3

\* The next worktree, or the storage after the last one.
LEMMA NextTo ==
  ASSUME TypeOK, NEW l \in Launches, NEW wrong \in BOOLEAN, NextOwned(l, wrong)
  PROVE  /\ proc[l].repo < proc[l].owned =>
              proc'[l].pc = "restore" /\ proc'[l].repo = proc[l].repo + 1
         /\ ~(proc[l].repo < proc[l].owned) =>
              proc'[l].pc = "delete" /\ proc'[l].repo = proc[l].repo
         /\ proc'[l].owned = proc[l].owned
         /\ proc'[l].failed <=> proc[l].failed \/ wrong
<1>1. proc \in [Launches -> Process] /\ proc[l] \in Process
  BY DEF TypeOK, Process
<1>2. proc'[l] = [proc[l] EXCEPT
                    !.pc = IF proc[l].repo < proc[l].owned
                             THEN "restore" ELSE "delete",
                    !.repo = IF proc[l].repo < proc[l].owned
                               THEN @ + 1 ELSE @,
                    !.failed = @ \/ wrong]
  BY <1>1 DEF NextOwned
<1>3. QED
  BY <1>1, <1>2 DEF Process

\* A rollback of the first `n` worktrees, none registered beyond them.
LEMMA RollbackBegins ==
  ASSUME TypeOK, NEW l \in Launches, NEW n \in 0 .. RepoCount, RollsBack(l, n),
         storage'[l], guest'[l] = "none", outcome'[l] = "none",
         record'[l] = "none",
         \A r \in linked'[l] : r \in Repos /\ r <= n
  PROVE  OneLaunchInv(l)'
<1> USE DEF At, Cur
<1>1. /\ n = 0 => proc'[l].pc = "delete"
      /\ n # 0 => proc'[l].pc = "restore"
      /\ proc'[l].repo = 1 /\ proc'[l].owned = n
  BY MovesTo
<1>2. proc'[l].pc \in {"delete", "restore"}
  BY <1>1
<1>3. PreparedInv(l)'
  BY <1>2 DEF PreparedInv, WithWorktrees
<1>4. RollbackInv(l)'
  <2>1. ASSUME n = 0 PROVE linked'[l] = {}
    <3>1. \A r \in linked'[l] : r \in Int /\ 1 <= r /\ r <= 0
      BY <2>1, RepoFacts
    <3>2. \A r \in linked'[l] : FALSE
      BY <3>1
    <3>3. QED
      BY <3>2
  <2>2. n # 0 => 1 <= n
    BY RepoFacts
  <2>3. \A r \in linked'[l] : 1 <= r /\ r <= n
    BY RepoFacts
  <2>4. QED
    BY <1>1, <2>1, <2>2, <2>3 DEF RollbackInv
<1>5. GuestInv(l)' /\ RecordInv(l)'
  BY DEF GuestInv, RecordInv
<1>6. QED
  BY <1>3, <1>4, <1>5 DEF OneLaunchInv

\* An invocation that ends, with its guest and record as they are.
LEMMA EndKeepsInv ==
  ASSUME TypeOK, NEW l \in Launches, NEW how \in Outcomes \ {"none"},
         Ends(l, how), storage'[l] \/ linked'[l] = {},
         record'[l] = "none",
         guest'[l] # "none" => storage'[l] /\ Ready(l)',
         guest'[l] = "asked" => how \in {"preserved", "died"}
  PROVE  OneLaunchInv(l)'
<1> USE DEF At, Cur
<1>1. proc'[l].pc = "ended" /\ outcome'[l] = how
  BY MovesTo DEF Ends, TypeOK
<1>2. PreparedInv(l)' /\ RollbackInv(l)'
  BY <1>1 DEF PreparedInv, RollbackInv, WithWorktrees
<1>3. GuestInv(l)' /\ RecordInv(l)'
  BY <1>1 DEF GuestInv, RecordInv, WithGuest
<1>4. QED
  BY <1>2, <1>3 DEF OneLaunchInv

\* A launch that goes on has told nothing, recorded nothing, and has no
\* guest before it runs one nor after it began to roll back.
LEMMA GoesOn ==
  ASSUME NEW l \in Launches, OneLaunchInv(l), ~At(l, "ended")
  PROVE  /\ outcome[l] = "none" /\ record[l] = "none" /\ guest[l] # "asked"
         /\ proc[l].pc \notin {"poll", "trust", "save", "probe"} =>
              guest[l] = "none"
BY DEF OneLaunchInv, GuestInv, RecordInv, WithGuest, At

\* What the invariant asks of each phase before there is a guest.
LEMMA InvBeforeGuest ==
  ASSUME NEW l \in Launches, storage'[l], record'[l] = "none",
         outcome'[l] = "none", guest'[l] = "none"
  PROVE  /\ /\ proc'[l].pc = "snapshot"
            /\ proc'[l].repo = 1 /\ linked'[l] = {}
            => OneLaunchInv(l)'
         /\ /\ proc'[l].pc = "add"
            /\ \A r \in Repos : /\ r \in linked'[l] <=> r < proc'[l].repo
                                /\ r < proc'[l].repo => tree'[l][r] = "isolated"
            => OneLaunchInv(l)'
         /\ /\ proc'[l].pc = "isolate"
            /\ \A r \in Repos : /\ r \in linked'[l] <=> r <= proc'[l].repo
                                /\ r < proc'[l].repo => tree'[l][r] = "isolated"
            => OneLaunchInv(l)'
         /\ /\ proc'[l].pc = "fill"
            /\ \A r \in Repos : /\ r \in linked'[l] <=> r <= proc'[l].repo
                                /\ r <= proc'[l].repo => tree'[l][r] = "isolated"
            => OneLaunchInv(l)'
         /\ /\ proc'[l].pc \in {"agent", "run", "probe"}
            /\ \A r \in Repos : r \in linked'[l] /\ tree'[l][r] = "isolated"
            => OneLaunchInv(l)'
<1> USE DEF At, Cur
<1>1. GuestInv(l)' /\ RecordInv(l)'
  BY DEF GuestInv, RecordInv
<1>2. proc'[l].pc \notin {"restore", "remove", "delete", "ended"} =>
        RollbackInv(l)'
  BY DEF RollbackInv
<1>3. ASSUME proc'[l].pc = "snapshot", proc'[l].repo = 1, linked'[l] = {}
      PROVE  OneLaunchInv(l)'
  BY <1>1, <1>2, <1>3 DEF OneLaunchInv, PreparedInv, WithWorktrees
<1>4. ASSUME proc'[l].pc = "add",
             \A r \in Repos : /\ r \in linked'[l] <=> r < proc'[l].repo
                              /\ r < proc'[l].repo => tree'[l][r] = "isolated"
      PROVE  OneLaunchInv(l)'
  BY <1>1, <1>2, <1>4 DEF OneLaunchInv, PreparedInv, WithWorktrees
<1>5. ASSUME proc'[l].pc = "isolate",
             \A r \in Repos : /\ r \in linked'[l] <=> r <= proc'[l].repo
                              /\ r < proc'[l].repo => tree'[l][r] = "isolated"
      PROVE  OneLaunchInv(l)'
  BY <1>1, <1>2, <1>5 DEF OneLaunchInv, PreparedInv, WithWorktrees
<1>6. ASSUME proc'[l].pc = "fill",
             \A r \in Repos : /\ r \in linked'[l] <=> r <= proc'[l].repo
                              /\ r <= proc'[l].repo => tree'[l][r] = "isolated"
      PROVE  OneLaunchInv(l)'
  BY <1>1, <1>2, <1>6 DEF OneLaunchInv, PreparedInv, WithWorktrees
<1>7. ASSUME proc'[l].pc \in {"agent", "run", "probe"},
             \A r \in Repos : r \in linked'[l] /\ tree'[l][r] = "isolated"
      PROVE  OneLaunchInv(l)'
  BY <1>1, <1>2, <1>7 DEF OneLaunchInv, PreparedInv, Ready, WithWorktrees
<1>8. QED
  BY <1>3, <1>4, <1>5, <1>6, <1>7

LEMMA PreparesKeepsInv ==
  ASSUME TypeOK, NEW l \in Launches, OneLaunchInv(l), Prepares(l)
  PROVE  OneLaunchInv(l)'
<1> USE MovesTo DEF worktrees, runtime, told
<1>1. /\ proc[l] \in Process /\ Cur(l) \in Repos /\ Cur(l) \in Int
      /\ Cur(l) - 1 \in 0 .. RepoCount /\ Cur(l) \in 0 .. RepoCount
      /\ RepoCount \in 0 .. RepoCount /\ 0 \in 0 .. RepoCount
      /\ Cur(l) = proc[l].repo
  <2>1. proc[l] \in Process
    BY DEF TypeOK, Process
  <2>2. Cur(l) = proc[l].repo /\ Cur(l) \in Repos
    BY <2>1 DEF Process, Cur
  <2>3. RepoCount \in 0 .. RepoCount /\ 0 \in 0 .. RepoCount
    BY RepoFacts
  <2>4. QED
    BY <2>1, <2>2, <2>3, RepoFacts
<1>2. ~At(l, "ended") /\ proc[l].pc \notin {"poll", "trust", "save", "probe"}
  BY DEF Prepares, ChooseHost, NoHostFree, CreateStorage, SnapshotHostChanges,
         AddWorktree, AddFails, IsolateMetadata, IsolateFails, FillWorktree,
         StartAgent, SpecFails, At
<1>3. outcome[l] = "none" /\ record[l] = "none" /\ guest[l] = "none"
  BY <1>2, GoesOn
<1>4. CASE ChooseHost(l)
  <2>1. proc'[l].pc = "store" /\ proc'[l].repo = 1 /\ linked[l] = {}
    BY <1>4 DEF ChooseHost, OneLaunchInv, PreparedInv, At, Cur
  <2>2. QED
    BY <1>3, <1>4, <2>1
       DEF ChooseHost, OneLaunchInv, PreparedInv, RollbackInv, GuestInv,
           RecordInv, At, Cur, WithWorktrees
<1>5. CASE NoHostFree(l)
  <2>1. linked[l] = {}
    BY <1>5 DEF NoHostFree, OneLaunchInv, PreparedInv
  <2>2. QED
    BY <1>3, <1>5, <2>1, EndKeepsInv DEF NoHostFree, Outcomes
<1>6. CASE CreateStorage(l)
  <2>1. linked[l] = {} /\ proc[l].repo = 1 /\ storage'[l]
    BY <1>6 DEF CreateStorage, OneLaunchInv, PreparedInv, Cur, TypeOK
  <2>2. CASE Goes(l, "snapshot") /\ UNCHANGED outcome
    <3>1. proc'[l].pc = "snapshot" /\ proc'[l].repo = 1
      BY <2>1, <2>2
    <3>2. QED
      BY <1>3, <1>6, <2>1, <2>2, <3>1, InvBeforeGuest DEF CreateStorage
  <2>3. CASE Ends(l, "failed")
    BY <1>3, <1>6, <2>1, <2>3, EndKeepsInv DEF CreateStorage, Outcomes
  <2>4. QED
    BY <1>6, <2>2, <2>3 DEF CreateStorage
<1>7. CASE SnapshotHostChanges(l)
  <2>1. linked[l] = {} /\ proc[l].repo = 1 /\ storage[l]
    BY <1>7 DEF SnapshotHostChanges, OneLaunchInv, PreparedInv, Cur, At
  <2>2. CASE Goes(l, "add")
    <3>1. proc'[l].pc = "add" /\ proc'[l].repo = 1
      BY <2>1, <2>2
    <3>2. \A r \in Repos : r \notin linked'[l] /\ ~(r < 1)
      BY <1>7, <2>1, RepoFacts DEF SnapshotHostChanges
    <3>3. QED
      BY <1>3, <1>7, <2>1, <3>1, <3>2, InvBeforeGuest DEF SnapshotHostChanges
  <2>3. CASE RollsBack(l, 0)
    BY <1>1, <1>3, <1>7, <2>1, <2>3, RollbackBegins DEF SnapshotHostChanges
  <2>4. QED
    BY <1>7, <2>2, <2>3 DEF SnapshotHostChanges
<1>8. CASE AddWorktree(l) \/ AddFails(l)
  <2>1. /\ storage[l]
        /\ \A r \in Repos : r \in linked[l] <=> r < Cur(l)
        /\ \A r \in Repos : r < Cur(l) => tree[l][r] = "isolated"
    BY <1>8 DEF AddWorktree, AddFails, OneLaunchInv, PreparedInv, At
  <2>2. linked[l] \subseteq Repos /\ tree[l] \in [Repos -> Trees]
    BY DEF TypeOK
  <2>3. CASE AddWorktree(l)
    <3>1. linked'[l] = linked[l] \cup {Cur(l)}
      BY <2>3 DEF AddWorktree, TypeOK
    <3>2. \A r \in Repos : r # Cur(l) => tree'[l][r] = tree[l][r]
      BY <2>3, <2>2 DEF AddWorktree, TypeOK
    <3>3. \A r \in Repos : r \in linked'[l] <=> r <= Cur(l)
      BY <1>1, <2>1, <3>1, RepoFacts
    <3>4. CASE Goes(l, "isolate")
      <4>1. \A r \in Repos : r < Cur(l) => tree'[l][r] = "isolated"
        <5>1. \A r \in Repos : r < Cur(l) => r # Cur(l)
          BY <1>1
        <5>2. QED
          BY <2>1, <3>2, <5>1
      <4>2. proc'[l].pc = "isolate" /\ proc'[l].repo = Cur(l)
        BY <1>1, <3>4
      <4>3. QED
        BY <1>3, <2>1, <2>3, <3>3, <4>1, <4>2, InvBeforeGuest DEF AddWorktree
    <3>5. CASE RollsBack(l, Cur(l))
      <4>1. \A r \in linked'[l] : r \in Repos /\ r <= Cur(l)
        BY <1>1, <2>2, <3>1, <3>3
      <4>2. QED
        BY <1>1, <1>3, <2>1, <2>3, <3>5, <4>1, RollbackBegins DEF AddWorktree
    <3>6. QED
      BY <2>3, <3>4, <3>5 DEF AddWorktree
  <2>4. CASE AddFails(l)
    <3>1. \A r \in linked'[l] : r \in Repos /\ r <= Cur(l) - 1 /\ r <= Cur(l)
      BY <1>1, <2>1, <2>2, <2>4, RepoFacts DEF AddFails
    <3>2. storage'[l] /\ guest'[l] = "none" /\ outcome'[l] = "none"
          /\ record'[l] = "none"
      BY <1>3, <2>1, <2>4 DEF AddFails
    <3>3. RollsBack(l, Cur(l) - 1) \/ RollsBack(l, Cur(l))
      BY <2>4 DEF AddFails
    <3>4. QED
      BY <1>1, <3>1, <3>2, <3>3, RollbackBegins
  <2>5. QED
    BY <1>8, <2>3, <2>4
<1>9. CASE IsolateMetadata(l) \/ IsolateFails(l)
  <2>1. /\ storage[l]
        /\ \A r \in Repos : r \in linked[l] <=> r <= Cur(l)
        /\ \A r \in Repos : r < Cur(l) => tree[l][r] = "isolated"
    BY <1>9 DEF IsolateMetadata, IsolateFails, OneLaunchInv, PreparedInv, At
  <2>2. linked[l] \subseteq Repos /\ tree[l] \in [Repos -> Trees]
    BY DEF TypeOK
  <2>3. /\ \A r \in linked'[l] : r \in Repos /\ r <= Cur(l)
        /\ linked'[l] = linked[l]
        /\ storage'[l] /\ guest'[l] = "none" /\ outcome'[l] = "none"
        /\ record'[l] = "none"
    BY <1>3, <1>9, <2>1, <2>2 DEF IsolateMetadata, IsolateFails
  <2>4. CASE RollsBack(l, Cur(l))
    BY <1>1, <2>3, <2>4, RollbackBegins
  <2>5. CASE IsolateMetadata(l) /\ Goes(l, "fill")
    <3>1. \A r \in Repos : r <= Cur(l) => tree'[l][r] = "isolated"
      <4>1. tree'[l] = [tree[l] EXCEPT ![Cur(l)] = "isolated"]
        BY <2>5 DEF IsolateMetadata, TypeOK
      <4>2. QED
        BY <1>1, <2>1, <2>2, <4>1, RepoFacts
    <3>2. proc'[l].pc = "fill" /\ proc'[l].repo = Cur(l)
      BY <1>1, <2>5
    <3>3. QED
      BY <2>1, <2>3, <3>1, <3>2, InvBeforeGuest
  <2>6. QED
    BY <1>9, <2>4, <2>5 DEF IsolateMetadata, IsolateFails
<1>10. CASE FillWorktree(l)
  <2>1. /\ storage[l]
        /\ \A r \in Repos : r \in linked[l] <=> r <= Cur(l)
        /\ \A r \in Repos : r <= Cur(l) => tree[l][r] = "isolated"
    BY <1>10 DEF FillWorktree, OneLaunchInv, PreparedInv, At
  <2>2. /\ linked' = linked /\ tree' = tree
        /\ storage'[l] /\ guest'[l] = "none" /\ outcome'[l] = "none"
        /\ record'[l] = "none" /\ linked[l] \subseteq Repos
    BY <1>3, <1>10, <2>1 DEF FillWorktree, TypeOK
  <2>3. CASE /\ Cur(l) < RepoCount
             /\ proc' = [proc EXCEPT ![l].pc = "add", ![l].repo = @ + 1]
    <3>1. proc'[l].pc = "add" /\ proc'[l].repo = Cur(l) + 1
      BY <1>1, <2>3 DEF TypeOK, Process
    <3>2. \A r \in Repos : r <= Cur(l) <=> r < Cur(l) + 1
      BY <1>1, RepoFacts
    <3>3. QED
      BY <2>1, <2>2, <3>1, <3>2, InvBeforeGuest
  <2>4. CASE Cur(l) = RepoCount /\ Goes(l, "agent")
    <3>1. \A r \in Repos : r \in linked'[l] /\ tree'[l][r] = "isolated"
      BY <2>1, <2>2, <2>4, RepoFacts
    <3>2. proc'[l].pc = "agent"
      BY <2>4
    <3>3. QED
      BY <2>2, <3>1, <3>2, InvBeforeGuest
  <2>5. CASE RollsBack(l, Cur(l))
    BY <1>1, <2>1, <2>2, <2>5, RollbackBegins
  <2>6. QED
    BY <1>10, <2>3, <2>4, <2>5 DEF FillWorktree
<1>11. CASE StartAgent(l) \/ SpecFails(l)
  <2>1. storage[l] /\ Ready(l)
    BY <1>11 DEF StartAgent, SpecFails, OneLaunchInv, PreparedInv, At,
                 WithWorktrees
  <2>2. /\ linked' = linked /\ tree' = tree
        /\ storage'[l] /\ guest'[l] = "none" /\ outcome'[l] = "none"
        /\ record'[l] = "none" /\ linked[l] \subseteq Repos
    BY <1>3, <1>11, <2>1 DEF StartAgent, SpecFails, TypeOK
  <2>3. CASE RollsBack(l, RepoCount)
    BY <1>1, <2>2, <2>3, RepoFacts, RollbackBegins
  <2>4. CASE Goes(l, "run")
    <3>1. proc'[l].pc = "run"
      BY <2>4
    <3>2. QED
      BY <2>1, <2>2, <3>1, InvBeforeGuest DEF Ready
  <2>5. QED
    BY <1>11, <2>3, <2>4 DEF StartAgent, SpecFails
<1>12. QED
  BY <1>4, <1>5, <1>6, <1>7, <1>8, <1>9, <1>10, <1>11 DEF Prepares

\* What the invariant asks of a launch whose guest may be there.
LEMMA InvWithGuest ==
  ASSUME NEW l \in Launches, storage'[l], record'[l] = "none",
         outcome'[l] = "none", guest'[l] # "asked",
         \A r \in Repos : r \in linked'[l] /\ tree'[l][r] = "isolated",
         proc'[l].pc \in {"poll", "trust", "save", "probe"}
  PROVE  OneLaunchInv(l)'
<1> USE DEF At, Cur
<1>1. PreparedInv(l)'
  BY DEF PreparedInv, Ready, WithWorktrees
<1>2. RollbackInv(l)'
  BY DEF RollbackInv
<1>3. GuestInv(l)' /\ RecordInv(l)'
  BY DEF GuestInv, RecordInv, Ready, WithGuest
<1>4. QED
  BY <1>1, <1>2, <1>3 DEF OneLaunchInv

LEMMA StartsGuestKeepsInv ==
  ASSUME TypeOK, NEW l \in Launches, OneLaunchInv(l), StartsGuest(l)
  PROVE  OneLaunchInv(l)'
<1> USE DEF worktrees, runtime
<1>1. proc[l].pc \in {"run", "poll", "trust", "save", "probe"}
  BY DEF StartsGuest, RunGuest, RunUncertain, RunRefused, PublishesPort,
         StartupFails, TrustHost, TrustFails, ConfirmAbsent, SaveSession, At
<1>2. storage[l] /\ \A r \in Repos : r \in linked[l] /\ tree[l][r] = "isolated"
  BY <1>1 DEF OneLaunchInv, PreparedInv, Ready, WithWorktrees, At
<1>3. outcome[l] = "none" /\ record[l] = "none" /\ guest[l] # "asked"
  BY <1>1, GoesOn DEF At
<1>4. storage'[l] /\ \A r \in Repos : r \in linked'[l] /\ tree'[l][r] = "isolated"
  BY <1>2 DEF StartsGuest, RunGuest, RunUncertain, RunRefused, PublishesPort,
         StartupFails, TrustHost, TrustFails, ConfirmAbsent, SaveSession
<1>5. Ready(l)'
  BY <1>4 DEF Ready
<1>6. CASE RunGuest(l)
  <2>1. proc'[l].pc = "poll" /\ guest'[l] = "up"
    BY <1>6, MovesTo DEF RunGuest, Guest, TypeOK
  <2>2. record'[l] = "none" /\ outcome'[l] = "none"
    BY <1>3, <1>6 DEF RunGuest, told
  <2>3. QED
    BY <1>4, <2>1, <2>2, InvWithGuest
<1>7. CASE RunUncertain(l)
  <2>1. Ends(l, "preserved") /\ record'[l] = "none"
    BY <1>3, <1>7 DEF RunUncertain
  <2>2. QED
    BY <1>4, <1>5, <2>1, EndKeepsInv DEF Outcomes
<1>8. CASE RunRefused(l) \/ PublishesPort(l) \/ TrustHost(l) \/ StartupFails(l)
  <2>1. proc'[l].pc \in {"poll", "trust", "save", "probe"}
    BY <1>8, MovesTo DEF RunRefused, PublishesPort, TrustHost, StartupFails
  <2>2. guest'[l] # "asked"
    BY <1>3, <1>8 DEF RunRefused, PublishesPort, TrustHost, StartupFails,
                      Guest, TypeOK
  <2>3. record'[l] = "none" /\ outcome'[l] = "none"
    BY <1>3, <1>8 DEF RunRefused, PublishesPort, TrustHost, StartupFails, told
  <2>4. QED
    BY <1>4, <2>1, <2>2, <2>3, InvWithGuest
<1>9. CASE TrustFails(l)
  <2>1. guest'[l] # "asked" /\ record'[l] = "none"
    BY <1>3, <1>9 DEF TrustFails, Guest, TypeOK
  <2>2. CASE Goes(l, "probe") /\ UNCHANGED outcome
    <3>1. proc'[l].pc = "probe" /\ outcome'[l] = "none"
      BY <1>3, <2>2, MovesTo
    <3>2. QED
      BY <1>4, <2>1, <3>1, InvWithGuest
  <2>3. CASE Ends(l, "preserved")
    BY <1>4, <1>5, <2>1, <2>3, EndKeepsInv DEF Outcomes
  <2>4. QED
    BY <1>9, <2>2, <2>3 DEF TrustFails
<1>10. CASE ConfirmAbsent(l)
  <2>1. record'[l] = "none" /\ guest'[l] = guest[l]
    BY <1>3, <1>10 DEF ConfirmAbsent
  <2>2. CASE /\ guest[l] \in {"none", "asked"}
             /\ RollsBack(l, RepoCount)
             /\ UNCHANGED <<outcome, faults>>
    <3>1. \A r \in linked'[l] : r \in Repos /\ r <= RepoCount
      BY <1>10, RepoFacts DEF ConfirmAbsent, TypeOK
    <3>2. RepoCount \in 0 .. RepoCount
      BY RepoFacts
    <3>3. QED
      BY <1>3, <1>4, <2>1, <2>2, <3>1, <3>2, RollbackBegins
  <2>3. CASE Ends(l, "preserved")
    BY <1>4, <1>5, <2>1, <2>3, EndKeepsInv DEF Outcomes
  <2>4. QED
    BY <1>10, <2>2, <2>3 DEF ConfirmAbsent
<1>11. CASE SaveSession(l)
  <2>1. guest'[l] # "asked"
    BY <1>3, <1>11 DEF SaveSession
  <2>2. CASE record' = [record EXCEPT ![l] = "Running"] /\ Ends(l, "created")
    <3>1. proc'[l].pc = "ended" /\ outcome'[l] = "created"
          /\ record'[l] = "Running"
      BY <2>2, MovesTo DEF Ends, TypeOK
    <3>2. PreparedInv(l)' /\ RollbackInv(l)'
      BY <1>4, <3>1 DEF PreparedInv, RollbackInv, WithWorktrees, At
    <3>3. GuestInv(l)' /\ RecordInv(l)'
      BY <1>4, <1>5, <2>1, <3>1 DEF GuestInv, RecordInv, WithGuest, At
    <3>4. QED
      BY <3>2, <3>3 DEF OneLaunchInv
  <2>3. CASE Ends(l, "failed") /\ UNCHANGED record
    BY <1>3, <1>4, <1>5, <2>1, <2>3, EndKeepsInv DEF Outcomes
  <2>4. QED
    BY <1>11, <2>2, <2>3 DEF SaveSession
<1>12. QED
  BY <1>6, <1>7, <1>8, <1>9, <1>10, <1>11 DEF StartsGuest

\* The rollback goes on, from worktree to worktree, to the storage.
LEMMA RollbackGoesOn ==
  ASSUME NEW l \in Launches, storage'[l], record'[l] = "none",
         outcome'[l] = "none", guest'[l] = "none"
  PROVE  /\ /\ proc'[l].pc \in {"restore", "remove"}
            /\ proc'[l].repo <= proc'[l].owned
            /\ \A r \in linked'[l] :
                 proc'[l].failed
                   \/ (proc'[l].repo <= r /\ r <= proc'[l].owned)
            => OneLaunchInv(l)'
         /\ /\ proc'[l].pc = "delete"
            /\ proc'[l].failed \/ linked'[l] = {}
            => OneLaunchInv(l)'
<1> USE DEF At, Cur
<1>1. GuestInv(l)' /\ RecordInv(l)'
  BY DEF GuestInv, RecordInv
<1>2. proc'[l].pc \in {"restore", "remove", "delete"} => PreparedInv(l)'
  BY DEF PreparedInv, WithWorktrees
<1>3. ASSUME proc'[l].pc \in {"restore", "remove"},
             proc'[l].repo <= proc'[l].owned,
             \A r \in linked'[l] :
               proc'[l].failed
                 \/ (proc'[l].repo <= r /\ r <= proc'[l].owned)
      PROVE  OneLaunchInv(l)'
  BY <1>1, <1>2, <1>3 DEF OneLaunchInv, RollbackInv
<1>4. ASSUME proc'[l].pc = "delete", proc'[l].failed \/ linked'[l] = {}
      PROVE  OneLaunchInv(l)'
  BY <1>1, <1>2, <1>4 DEF OneLaunchInv, RollbackInv
<1>5. QED
  BY <1>3, <1>4

\* One worktree done: it is not registered any more, or counts as failed.
LEMMA NextOwnedKeepsInv ==
  ASSUME TypeOK, NEW l \in Launches, storage'[l], record'[l] = "none",
         outcome'[l] = "none", guest'[l] = "none",
         NEW wrong \in BOOLEAN, NextOwned(l, wrong),
         proc[l].repo <= proc[l].owned,
         \A r \in linked'[l] : r \in Repos,
         \A r \in linked'[l] :
           \/ proc[l].failed \/ wrong
           \/ proc[l].repo < r /\ r <= proc[l].owned
  PROVE  OneLaunchInv(l)'
<1>1. /\ proc[l].repo \in Int /\ proc[l].owned \in Int
      /\ \A r \in linked'[l] : r \in Int
  <2>1. proc[l].repo \in Repos /\ proc[l].owned \in 0 .. RepoCount
    BY DEF TypeOK
  <2>2. proc[l].owned \in Int
    BY <2>1, RepoFacts
  <2>3. proc[l].repo \in Int /\ \A r \in linked'[l] : r \in Int
    BY <2>1, RepoFacts
  <2>4. QED
    BY <2>2, <2>3
<1>2. CASE proc[l].repo < proc[l].owned
  <2>1. /\ proc'[l].pc = "restore" /\ proc'[l].repo = proc[l].repo + 1
        /\ proc'[l].owned = proc[l].owned
        /\ proc'[l].failed <=> proc[l].failed \/ wrong
    BY <1>2, NextTo
  <2>2. proc'[l].repo <= proc'[l].owned
    BY <1>1, <1>2, <2>1
  <2>3. \A r \in linked'[l] :
          proc'[l].failed \/ (proc'[l].repo <= r /\ r <= proc'[l].owned)
    BY <1>1, <2>1
  <2>4. QED
    BY <2>1, <2>2, <2>3, RollbackGoesOn
<1>3. CASE ~(proc[l].repo < proc[l].owned)
  <2>1. /\ proc'[l].pc = "delete"
        /\ proc'[l].failed <=> proc[l].failed \/ wrong
    BY <1>3, NextTo
  <2>2. ASSUME ~(proc[l].failed \/ wrong) PROVE linked'[l] = {}
    <3>1. \A r \in linked'[l] : FALSE
      BY <1>1, <1>3, <2>2
    <3>2. QED
      BY <3>1
  <2>3. QED
    BY <2>1, <2>2, RollbackGoesOn
<1>4. QED
  BY <1>2, <1>3

LEMMA TakesBackKeepsInv ==
  ASSUME TypeOK, NEW l \in Launches, OneLaunchInv(l), TakesBack(l)
  PROVE  OneLaunchInv(l)'
<1> USE DEF worktrees, runtime, told
<1>1. proc[l].pc \in {"restore", "remove", "delete"}
  BY DEF TakesBack, RestoreMetadata, RemoveWorktree, DeleteStorage, At
<1>2. /\ outcome[l] = "none" /\ record[l] = "none" /\ guest[l] = "none"
      /\ storage[l]
  BY <1>1, GoesOn DEF OneLaunchInv, PreparedInv, At
<1>3. linked[l] \subseteq Repos /\ Cur(l) \in Repos /\ Cur(l) = proc[l].repo
  BY DEF TypeOK, Cur
<1>4. proc[l].pc \in {"restore", "remove"} =>
        /\ Cur(l) <= proc[l].owned
        /\ \A r \in linked[l] :
             proc[l].failed \/ (Cur(l) <= r /\ r <= proc[l].owned)
  BY DEF OneLaunchInv, RollbackInv, At
<1>5. CASE RestoreMetadata(l)
  <2>1. /\ linked'[l] = linked[l] /\ storage'[l] /\ guest'[l] = "none"
        /\ outcome'[l] = "none" /\ record'[l] = "none"
        /\ proc[l].pc = "restore"
    BY <1>2, <1>5 DEF RestoreMetadata, At
  <2>2. CASE Goes(l, "remove")
    <3>1. /\ proc'[l].pc = "remove" /\ proc'[l].repo = proc[l].repo
          /\ proc'[l].owned = proc[l].owned
          /\ proc'[l].failed = proc[l].failed
      BY <2>2, MovesTo
    <3>2. QED
      BY <1>3, <1>4, <2>1, <3>1, RollbackGoesOn
  <2>3. CASE NextOwned(l, TRUE)
    BY <1>3, <1>4, <2>1, <2>3, NextOwnedKeepsInv
  <2>4. QED
    BY <1>5, <2>2, <2>3 DEF RestoreMetadata
<1>6. CASE RemoveWorktree(l)
  <2>1. /\ storage'[l] /\ guest'[l] = "none" /\ proc[l].pc = "remove"
        /\ outcome'[l] = "none" /\ record'[l] = "none"
    BY <1>2, <1>6 DEF RemoveWorktree, At
  <2>2. linked'[l] = linked[l] \/ linked'[l] = linked[l] \ {Cur(l)}
    BY <1>6 DEF RemoveWorktree, TypeOK
  <2>3. \A r \in linked'[l] : r \in linked[l] /\ r \in Repos
    BY <1>3, <2>2
  <2>4. CASE NextOwned(l, TRUE)
    BY <1>3, <1>4, <2>1, <2>3, <2>4, NextOwnedKeepsInv
  <2>5. CASE linked' = [linked EXCEPT ![l] = @ \ {Cur(l)}] /\ NextOwned(l, FALSE)
    <3>1. linked'[l] = linked[l] \ {Cur(l)}
      BY <2>5 DEF TypeOK
    <3>2. \A r \in linked'[l] :
            proc[l].failed \/ (proc[l].repo < r /\ r <= proc[l].owned)
      <4>1. \A r \in linked'[l] : r # proc[l].repo /\ r \in Int
        BY <1>3, <2>3, <3>1, RepoFacts
      <4>2. proc[l].repo \in Int
        BY <1>3, RepoFacts
      <4>3. \A r \in linked'[l] :
              proc[l].failed \/ (proc[l].repo <= r /\ r <= proc[l].owned)
        BY <1>3, <1>4, <2>1, <2>3
      <4>4. QED
        BY <4>1, <4>2, <4>3
    <3>3. QED
      BY <1>3, <1>4, <2>1, <2>3, <2>5, <3>2, NextOwnedKeepsInv
  <2>6. QED
    BY <1>6, <2>4, <2>5 DEF RemoveWorktree
<1>7. CASE DeleteStorage(l)
  <2>1. /\ linked'[l] = linked[l] /\ guest'[l] = "none"
        /\ record'[l] = "none"
    BY <1>2, <1>7 DEF DeleteStorage
  <2>2. proc[l].failed \/ linked[l] = {}
    BY <1>7 DEF DeleteStorage, OneLaunchInv, RollbackInv
  <2>3. CASE Ends(l, "rolledBack") /\ ~proc[l].failed
    BY <2>1, <2>2, <2>3, EndKeepsInv DEF Outcomes
  <2>4. CASE Ends(l, "incomplete") /\ UNCHANGED storage
    BY <1>2, <2>1, <2>4, EndKeepsInv DEF Outcomes
  <2>5. QED
    BY <1>7, <2>3, <2>4 DEF DeleteStorage
<1>8. QED
  BY <1>5, <1>6, <1>7 DEF TakesBack

LEMMA RuntimeKeepsInv ==
  ASSUME TypeOK, NEW l \in Launches, OneLaunchInv(l), Runtime(l)
  PROVE  OneLaunchInv(l)'
<1> USE DEF worktrees, told
<1>1. /\ record' = record /\ storage' = storage /\ linked' = linked
      /\ tree' = tree /\ proc' = proc /\ outcome' = outcome
  BY DEF Runtime, DaemonCreates, GuestExits
<1>2. guest[l] # "none" /\ guest'[l] # "asked" /\ record[l] # "Stopped"
  BY DEF Runtime, DaemonCreates, GuestExits, Guest, TypeOK, OneLaunchInv,
         RecordInv
<1>3. PreparedInv(l)' /\ RollbackInv(l)'
  BY <1>1 DEF OneLaunchInv, PreparedInv, RollbackInv, At, Cur, Ready
<1>4. GuestInv(l)' /\ RecordInv(l)'
  BY <1>1, <1>2 DEF OneLaunchInv, GuestInv, RecordInv, At, Ready
<1>5. QED
  BY <1>3, <1>4 DEF OneLaunchInv

LEMMA LaterKeepsInv ==
  ASSUME TypeOK, NEW l \in Launches, OneLaunchInv(l), Later(l)
  PROVE  OneLaunchInv(l)'
<1> USE DEF told, runtime
<1>1. record[l] # "none" /\ proc' = proc /\ outcome' = outcome
  BY DEF Later, StopSession, ResumeSession, CleanSession
<1>2. proc[l].pc = "ended" /\ outcome[l] = "created"
  BY <1>1 DEF OneLaunchInv, RecordInv, At
<1>3. PreparedInv(l)'
  BY <1>1, <1>2 DEF PreparedInv, At, WithWorktrees
<1>4. CASE StopSession(l)
  <2>1. storage[l] /\ \A r \in Repos : r \in linked[l]
    BY <1>4 DEF StopSession, OneLaunchInv, RecordInv, Ready
  <2>2. linked[l] = Repos
    BY <2>1 DEF TypeOK
  <2>3. /\ guest'[l] = "none" /\ record'[l] = "Stopped"
        /\ storage' = storage /\ linked' = linked
    BY <1>4 DEF StopSession, Guest, TypeOK
  <2>4. QED
    BY <1>1, <1>2, <1>3, <2>1, <2>2, <2>3
       DEF OneLaunchInv, RollbackInv, GuestInv, RecordInv, At
<1>5. CASE ResumeSession(l)
  <2>1. storage[l] /\ linked[l] = Repos
    BY <1>5 DEF ResumeSession, OneLaunchInv, RecordInv
  <2>2. /\ guest'[l] = "up" /\ record'[l] = "Running"
        /\ storage' = storage /\ linked' = linked
        /\ tree'[l] = [r \in Repos |-> "isolated"]
    BY <1>5 DEF ResumeSession, Guest, TypeOK
  <2>3. Ready(l)'
    BY <2>1, <2>2 DEF Ready
  <2>4. QED
    BY <1>1, <1>2, <1>3, <2>1, <2>2, <2>3
       DEF OneLaunchInv, RollbackInv, GuestInv, RecordInv, At, WithGuest
<1>6. CASE CleanSession(l)
  <2>1. guest[l] = "none"
    BY <1>6 DEF CleanSession, OneLaunchInv, RecordInv
  <2>2. linked'[l] = {} /\ guest'[l] = "none" /\ record'[l] = "Removed"
    BY <1>6, <2>1 DEF CleanSession, TypeOK
  <2>3. QED
    BY <1>1, <1>2, <1>3, <2>2
       DEF OneLaunchInv, RollbackInv, GuestInv, RecordInv, At
<1>7. QED
  BY <1>4, <1>5, <1>6 DEF Later

LEMMA CrashKeepsInv ==
  ASSUME TypeOK, NEW l \in Launches, OneLaunchInv(l), Crash(l)
  PROVE  OneLaunchInv(l)'
<1> USE DEF worktrees
<1>1. /\ record'[l] = "none" /\ Ends(l, "died") /\ ~At(l, "ended")
      /\ storage' = storage /\ linked' = linked /\ tree' = tree
  BY GoesOn DEF Crash, InProgress
<1>2. guest'[l] # "none" => storage[l] /\ Ready(l)
  BY DEF Crash, Guest, TypeOK, OneLaunchInv, GuestInv, PreparedInv,
         WithWorktrees, At
<1>3. storage[l] \/ linked[l] = {}
  BY <1>1 DEF OneLaunchInv, PreparedInv
<1>4. Ready(l)' <=> Ready(l)
  BY <1>1 DEF Ready
<1>5. QED
  BY <1>1, <1>2, <1>3, <1>4, EndKeepsInv DEF Outcomes

LEMMA InitLaunchInv == Init => LaunchInv
<1> SUFFICES ASSUME Init, NEW l \in Launches PROVE OneLaunchInv(l)
  BY DEF LaunchInv, OneLaunchInv
<1>1. /\ proc[l].pc = "idle" /\ proc[l].repo = 1 /\ linked[l] = {}
      /\ guest[l] = "none" /\ record[l] = "none" /\ outcome[l] = "none"
  BY DEF Init
<1>2. PreparedInv(l) /\ RollbackInv(l)
  BY <1>1 DEF PreparedInv, RollbackInv, At, Cur, WithWorktrees
<1>3. GuestInv(l) /\ RecordInv(l)
  BY <1>1 DEF GuestInv, RecordInv, At
<1>4. QED
  BY <1>2, <1>3 DEF OneLaunchInv

LEMMA StepLaunchInv == TypeOK /\ LaunchInv /\ [Next]_vars => LaunchInv'
<1> SUFFICES ASSUME TypeOK, LaunchInv, [Next]_vars,
                    NEW m \in Launches
             PROVE  OneLaunchInv(m)'
  BY DEF LaunchInv, OneLaunchInv
<1>1. OneLaunchInv(m)
  BY DEF LaunchInv, OneLaunchInv
<1>2. ASSUME NEW l \in Launches, Step(l) PROVE OneLaunchInv(m)'
  <2>1. CASE m # l
    BY <1>1, <1>2, <2>1, StepIsLocal, SameKeepsOneLaunchInv
  <2>2. CASE m = l
    BY <1>1, <1>2, <2>2, PreparesKeepsInv, StartsGuestKeepsInv,
       TakesBackKeepsInv, RuntimeKeepsInv, LaterKeepsInv, CrashKeepsInv
       DEF Step
  <2>3. QED
    BY <2>1, <2>2
<1>3. CASE UNCHANGED vars
  <2>1. Same(m)
    BY <1>3 DEF Same, vars, worktrees, runtime, told
  <2>2. QED
    BY <1>1, <2>1, SameKeepsOneLaunchInv
<1>4. QED
  BY <1>2, <1>3, NextIsStep

THEOREM LaunchInvariant == Spec => []LaunchInv
<1>1. QED
  BY InitLaunchInv, StepLaunchInv, TypeCorrect, PTL DEF Spec

\* The worktrees of a guest that exists, or can still be created, are never
\* taken away: a launch rolls back only when it is certain of its absence.
THEOREM MountsKept == Spec => []MountsAreKept
<1>1. LaunchInv => MountsAreKept
  BY DEF LaunchInv, GuestInv, MountsAreKept
<1>2. QED
  BY <1>1, LaunchInvariant, PTL

\* Storage goes only after every worktree in it was unregistered.
THEOREM NoneDangling == Spec => []NoDanglingRegistration
<1>1. LaunchInv => NoDanglingRegistration
  BY DEF LaunchInv, PreparedInv, RollbackInv, NoDanglingRegistration
<1>2. QED
  BY <1>1, LaunchInvariant, PTL

-----------------------------------------------------------------------------
(***************************************************************************)
(* Addresses                                                               *)
(***************************************************************************)

\* What a step other than a choice makes of addresses.
LEMMA OnlyChoiceChangesHosts ==
  ASSUME TypeOK, LaunchInv, NEW l \in Launches, Step(l), ~ChooseHost(l)
  PROVE  /\ UNCHANGED <<host, beside>>
         /\ \A m \in Launches : Holds(m)' => Holds(m)
<1> USE DEF worktrees, runtime, told
<1>1. UNCHANGED <<host, beside>>
  BY DEF Step, Prepares, NoHostFree, CreateStorage, SnapshotHostChanges,
         AddWorktree, AddFails, IsolateMetadata, IsolateFails, FillWorktree,
         StartAgent, SpecFails, StartsGuest, RunGuest, RunUncertain,
         RunRefused, PublishesPort, StartupFails, TrustHost, TrustFails,
         ConfirmAbsent, SaveSession, TakesBack, RestoreMetadata,
         RemoveWorktree, DeleteStorage, Runtime, DaemonCreates, GuestExits,
         Later, StopSession, ResumeSession, CleanSession, Crash
<1>2. \A m \in Launches : m # l => (Holds(m)' <=> Holds(m))
  BY StepIsLocal DEF Same, Holds, InProgress, Recorded, At
<1>3. CASE InProgress(l)
  BY <1>1, <1>2, <1>3 DEF Holds
<1>4. CASE At(l, "idle")
  <2>1. NoHostFree(l)
    <3>1. record[l] = "none" /\ guest[l] = "none"
      BY <1>4 DEF LaunchInv, RecordInv, GuestInv, At, WithGuest
    <3>2. QED
      BY <1>4, <3>1
         DEF Step, Prepares, CreateStorage, SnapshotHostChanges, AddWorktree,
             AddFails, IsolateMetadata, IsolateFails, FillWorktree,
             StartAgent, SpecFails, StartsGuest, RunGuest, RunUncertain,
             RunRefused, PublishesPort, StartupFails, TrustHost, TrustFails,
             ConfirmAbsent, SaveSession, TakesBack, RestoreMetadata,
             RemoveWorktree, DeleteStorage, Runtime, DaemonCreates,
             GuestExits, Later, StopSession, ResumeSession, CleanSession,
             Crash, InProgress, At
  <2>2. proc'[l].pc = "ended"
    BY <2>1, MovesTo DEF NoHostFree, Ends
  <2>3. ~Holds(l)'
    BY <1>4, <2>1, <2>2
       DEF NoHostFree, Holds, InProgress, Recorded, At, LaunchInv, RecordInv
  <2>4. QED
    BY <1>1, <1>2, <2>3
<1>5. CASE At(l, "ended")
  <2>1. Runtime(l) \/ Later(l)
    BY <1>5
       DEF Step, Prepares, ChooseHost, NoHostFree, CreateStorage,
           SnapshotHostChanges, AddWorktree, AddFails, IsolateMetadata,
           IsolateFails, FillWorktree, StartAgent, SpecFails, StartsGuest,
           RunGuest, RunUncertain, RunRefused, PublishesPort, StartupFails,
           TrustHost, TrustFails, ConfirmAbsent, SaveSession, TakesBack,
           RestoreMetadata, RemoveWorktree, DeleteStorage, Crash,
           InProgress, At
  <2>2. proc' = proc
    BY <2>1 DEF Runtime, DaemonCreates, GuestExits, Later, StopSession,
                ResumeSession, CleanSession
  <2>3. Recorded(l)' => Recorded(l)
    BY <2>1 DEF Runtime, DaemonCreates, GuestExits, Later, StopSession,
                ResumeSession, CleanSession, Recorded, TypeOK
  <2>4. QED
    BY <1>1, <1>2, <2>2, <2>3 DEF Holds, InProgress, At
<1>6. QED
  BY <1>3, <1>4, <1>5 DEF InProgress

LEMMA InitHostInv == Init => HostInv
BY DEF Init, HostInv, Holds, InProgress, Recorded, At

LEMMA StepHostInv ==
  TypeOK /\ LaunchInv /\ HostInv /\ [Next]_vars => HostInv'
<1> SUFFICES ASSUME TypeOK, LaunchInv, HostInv, [Next]_vars PROVE HostInv'
  OBVIOUS
<1>1. ASSUME NEW l \in Launches, Step(l), ~ChooseHost(l) PROVE HostInv'
  BY <1>1, OnlyChoiceChangesHosts DEF HostInv
<1>2. ASSUME NEW l \in Launches, ChooseHost(l) PROVE HostInv'
  <2>1. /\ record' = record
        /\ \A m \in Launches : m # l => /\ proc'[m] = proc[m]
                                        /\ host'[m] = host[m]
                                        /\ beside'[m] = beside[m]
    BY <1>2 DEF ChooseHost, Goes, TypeOK
  <2>2. beside'[l] = {m \in Launches : InProgress(m)}
    BY <1>2 DEF ChooseHost, TypeOK
  <2>3. host'[l] \notin UsedHosts
    BY <1>2 DEF ChooseHost, TypeOK
  <2>4. ASSUME NEW m \in Launches, m # l, Holds(m)', host'[m] = host'[l]
        PROVE  m \in beside'[l]
    <3>1. Holds(m)
      BY <2>1, <2>4 DEF Holds, InProgress, Recorded, At
    <3>2. ~Recorded(m)
      BY <2>1, <2>3, <2>4 DEF UsedHosts
    <3>3. QED
      BY <2>2, <3>1, <3>2 DEF Holds
  <2>5. ASSUME NEW m \in Launches, NEW n \in Launches, m # l, n # l, m # n,
               Holds(m)', Holds(n)', host'[m] = host'[n]
        PROVE  m \in beside'[n] \/ n \in beside'[m]
    <3>1. Holds(m) /\ Holds(n)
      BY <2>1, <2>5 DEF Holds, InProgress, Recorded, At
    <3>2. QED
      BY <2>1, <2>5, <3>1 DEF HostInv
  <2>6. QED
    BY <2>4, <2>5 DEF HostInv
<1>3. CASE UNCHANGED vars
  BY <1>3 DEF vars, told, HostInv, Holds, InProgress, Recorded, At
<1>4. QED
  BY <1>1, <1>2, <1>3, NextIsStep

\* Two sessions on record share an address only if their launches overlapped.
THEOREM SharingIsSimultaneous == Spec => []SharedOnlyBySimultaneous
<1>1. HostInv => SharedOnlyBySimultaneous
  BY DEF HostInv, Holds, SharedOnlyBySimultaneous
<1>2. QED
  BY <1>1, InitHostInv, StepHostInv, TypeCorrect, LaunchInvariant, PTL DEF Spec

-----------------------------------------------------------------------------
(***************************************************************************)
(* What failures leave                                                     *)
(***************************************************************************)
OneAgentInv(l) ==
  /\ agent[l] => \/ proc[l].pc \in {"run", "poll", "trust", "save"}
                 \/ outcome[l] \in {"created", "died"}
  /\ outcome[l] \in {"failed", "rolledBack", "incomplete"} =>
       guest[l] = "none"

LEMMA SameKeepsOneAgentInv ==
  ASSUME NEW m \in Launches, OneAgentInv(m), Same(m)
  PROVE  OneAgentInv(m)'
BY DEF OneAgentInv, Same

\* What is told at the end of an invocation.
LEMMA Tells ==
  ASSUME TypeOK, NEW l \in Launches
  PROVE  \A how : Ends(l, how) => outcome'[l] = how
BY DEF Ends, TypeOK

LEMMA StepKeepsAgentInv ==
  ASSUME SaveFails = FALSE, TypeOK, NEW l \in Launches,
         OneLaunchInv(l), OneAgentInv(l), Step(l)
  PROVE  OneAgentInv(l)'
<1> USE DEF OneAgentInv, worktrees, runtime, told
<1>1. ~At(l, "ended") => outcome[l] = "none"
  BY GoesOn
<1>2. StopsAgent(l) => ~agent'[l]
  BY DEF StopsAgent, TypeOK
<1>3. CASE Prepares(l)
  <2>1. guest'[l] = "none"
    BY <1>3, GoesOn
       DEF Prepares, ChooseHost, NoHostFree, CreateStorage,
           SnapshotHostChanges, AddWorktree, AddFails, IsolateMetadata,
           IsolateFails, FillWorktree, StartAgent, SpecFails, At
  <2>2. CASE StartAgent(l)
    <3>1. outcome'[l] = "none"
      BY <1>1, <2>2 DEF StartAgent, At
    <3>2. CASE Goes(l, "run")
      BY <2>1, <3>1, <3>2, MovesTo
    <3>3. CASE UNCHANGED agent
      BY <1>1, <2>1, <2>2, <3>1, <3>3 DEF StartAgent, At
    <3>4. QED
      BY <2>2, <3>2, <3>3 DEF StartAgent
  <2>3. CASE SpecFails(l)
    BY <1>2, <2>1, <2>3 DEF SpecFails
  <2>4. CASE ~StartAgent(l) /\ ~SpecFails(l)
    <3>1. agent' = agent /\ ~At(l, "ended") /\ ~At(l, "run") /\ ~At(l, "poll")
          /\ ~At(l, "trust") /\ ~At(l, "save")
      BY <1>3, <2>4
         DEF Prepares, ChooseHost, NoHostFree, CreateStorage,
             SnapshotHostChanges, AddWorktree, AddFails, IsolateMetadata,
             IsolateFails, FillWorktree, At
    <3>2. ~agent'[l]
      BY <1>1, <3>1 DEF At
    <3>3. QED
      BY <2>1, <3>2
  <2>5. QED
    BY <2>2, <2>3, <2>4
<1>4. CASE StartsGuest(l)
  <2>1. outcome[l] = "none"
    BY <1>1, <1>4
       DEF StartsGuest, RunGuest, RunUncertain, RunRefused, PublishesPort,
           StartupFails, TrustHost, TrustFails, ConfirmAbsent, SaveSession, At
  <2>2. CASE RunGuest(l) \/ PublishesPort(l) \/ TrustHost(l)
    <3>1. proc'[l].pc \in {"poll", "trust", "save"} /\ outcome'[l] = "none"
      BY <2>1, <2>2, MovesTo DEF RunGuest, PublishesPort, TrustHost
    <3>2. QED
      BY <3>1
  <2>3. CASE RunRefused(l) \/ StartupFails(l)
    BY <1>2, <2>1, <2>3 DEF RunRefused, StartupFails
  <2>4. CASE RunUncertain(l) \/ TrustFails(l)
    <3>1. ~agent'[l]
      BY <1>2, <2>4 DEF RunUncertain, TrustFails
    <3>2. outcome'[l] \in {"none", "preserved"}
      BY <2>1, <2>4, Tells DEF RunUncertain, TrustFails
    <3>3. QED
      BY <3>1, <3>2
  <2>5. CASE ConfirmAbsent(l)
    <3>1. ~agent'[l]
      BY <2>1, <2>5 DEF ConfirmAbsent, At
    <3>2. outcome'[l] \in {"none", "preserved"}
      BY <2>1, <2>5, Tells DEF ConfirmAbsent
    <3>3. QED
      BY <3>1, <3>2
  <2>6. CASE SaveSession(l)
    <3>1. outcome'[l] = "created"
      BY <2>6, Tells DEF SaveSession
    <3>2. QED
      BY <3>1
  <2>7. QED
    BY <1>4, <2>2, <2>3, <2>4, <2>5, <2>6 DEF StartsGuest
<1>5. CASE TakesBack(l)
  <2>1. /\ guest'[l] = "none" /\ agent' = agent
        /\ proc[l].pc \in {"restore", "remove", "delete"}
    BY <1>5, GoesOn DEF TakesBack, RestoreMetadata, RemoveWorktree,
                        DeleteStorage, At
  <2>2. ~agent'[l]
    BY <1>1, <2>1 DEF At
  <2>3. QED
    BY <2>1, <2>2
<1>6. CASE Runtime(l)
  <2>1. agent' = agent /\ proc' = proc /\ outcome' = outcome
        /\ guest[l] # "none"
    BY <1>6 DEF Runtime, DaemonCreates, GuestExits
  <2>2. QED
    BY <2>1
<1>7. CASE Later(l)
  <2>1. record[l] # "none" /\ outcome' = outcome
    BY <1>7 DEF Later, StopSession, ResumeSession, CleanSession
  <2>2. outcome'[l] = "created"
    BY <2>1 DEF OneLaunchInv, RecordInv
  <2>3. QED
    BY <2>2
<1>8. CASE Crash(l)
  <2>1. outcome'[l] = "died"
    BY <1>8, Tells DEF Crash
  <2>2. QED
    BY <2>1
<1>9. QED
  BY <1>3, <1>4, <1>5, <1>6, <1>7, <1>8 DEF Step

LEMMA InitAgentInv == Init => AgentInv
BY DEF Init, AgentInv

LEMMA StepAgentInv ==
  ASSUME SaveFails = FALSE
  PROVE  TypeOK /\ LaunchInv /\ AgentInv /\ [Next]_vars => AgentInv'
<1> SUFFICES ASSUME TypeOK, LaunchInv, AgentInv, [Next]_vars,
                    NEW m \in Launches
             PROVE  OneAgentInv(m)'
  BY DEF AgentInv, OneAgentInv
<1>1. OneAgentInv(m) /\ OneLaunchInv(m)
  BY DEF AgentInv, OneAgentInv, LaunchInv, OneLaunchInv
<1>2. ASSUME NEW l \in Launches, Step(l) PROVE OneAgentInv(m)'
  BY <1>1, <1>2, StepIsLocal, SameKeepsOneAgentInv, StepKeepsAgentInv
<1>3. CASE UNCHANGED vars
  BY <1>1, <1>3 DEF OneAgentInv, vars, runtime, told
<1>4. QED
  BY <1>2, <1>3, NextIsStep

\* If records can be saved, a launch that ends with an error leaves no agent,
\* and no guest that the user was not told of.
THEOREM FailuresTold ==
  ASSUME SaveFails = FALSE
  PROVE  Spec => []FailuresAreTold
<1>1. AgentInv /\ LaunchInv => FailuresAreTold
  <2> SUFFICES ASSUME AgentInv, LaunchInv, NEW l \in Launches,
                      outcome[l] \in {"failed", "rolledBack", "incomplete",
                                      "preserved"}
               PROVE  ~agent[l] /\ (guest[l] # "none" => outcome[l] = "preserved")
    BY DEF FailuresAreTold
  <2>1. At(l, "ended")
    BY DEF LaunchInv, RecordInv
  <2>2. QED
    BY <2>1 DEF AgentInv, At
<1>2. TypeOK /\ LaunchInv /\ AgentInv /\ [Next]_vars => AgentInv'
  BY StepAgentInv
<1>3. QED
  BY <1>1, <1>2, InitAgentInv, TypeCorrect, LaunchInvariant, PTL DEF Spec

-----------------------------------------------------------------------------
(***************************************************************************)
(* Which addresses a launch tries before it says that all are in use.      *)
(***************************************************************************)
LEMMA ModuloOnce ==
  ASSUME NEW n \in Nat \ {0}, NEW a \in Nat, a < 2 * n
  PROVE  a % n = IF a < n THEN a ELSE a - n
<1>1. CASE a < n
  BY <1>1, SMT
<1>2. CASE a >= n
  BY <1>2, SMT
<1>3. QED  BY <1>1, <1>2

\* The k-th address, in numbers that wrap at most once.
LEMMA CandidateIs ==
  ASSUME HostCount <= Width, Width <= 2 * HostCount,
         NEW l \in Launches, NEW k \in 0 .. HostCount - 1
  PROVE  LET number == IF First[l] + k < Width THEN First[l] + k
                                               ELSE First[l] + k - Width
         IN  Candidate(l, k) = IF number < HostCount THEN number ELSE number - HostCount
<1> DEFINE number == IF First[l] + k < Width THEN First[l] + k ELSE First[l] + k - Width
<1>0. /\ First[l] \in Nat /\ First[l] < HostCount /\ k \in Nat /\ k < HostCount
      /\ HostCount \in Nat \ {0} /\ Width \in Nat \ {0}
  BY ConstantsAssumption DEF Hosts
<1>1. (First[l] + k) % Width = number
  BY <1>0, ModuloOnce
<1>2. number \in Nat /\ number < 2 * HostCount
  BY <1>0
<1>3. number % HostCount = IF number < HostCount THEN number ELSE number - HostCount
  <2> HIDE DEF number
  <2> QED  BY <1>0, <1>2, ModuloOnce
<1>4. QED  BY <1>1, <1>3 DEF Candidate

\* The addresses the search passes over: right below the one it starts with, at most as
\* many as the arithmetic has numbers more than there are addresses.  In the code these
\* are the last 3 before the start, or those of them that are not among the first 3.
Untried(l) ==
  {h \in Hosts : /\ h < First[l]
                 /\ h >= Width - HostCount
                 /\ h >= First[l] - (Width - HostCount)}

LEMMA SearchTries ==
  ASSUME HostCount <= Width, Width <= 2 * HostCount, NEW l \in Launches, NEW h \in Hosts
  PROVE  (\E k \in 0 .. HostCount - 1 : Candidate(l, k) = h) <=> h \notin Untried(l)
<1>0. /\ First[l] \in Nat /\ First[l] < HostCount
      /\ h \in Nat /\ h < HostCount
      /\ HostCount \in Nat \ {0} /\ Width \in Nat \ {0}
  BY ConstantsAssumption DEF Hosts
<1>1. ASSUME NEW k \in 0 .. HostCount - 1, Candidate(l, k) = h
      PROVE  h \notin Untried(l)
  BY <1>0, <1>1, CandidateIs DEF Untried
<1>2. CASE h >= First[l]
  <2>1. h - First[l] \in 0 .. HostCount - 1
    BY <1>0, <1>2
  <2>2. Candidate(l, h - First[l]) = h
    BY <1>0, <1>2, <2>1, CandidateIs
  <2>3. \E k \in 0 .. HostCount - 1 : Candidate(l, k) = h
    BY <2>1, <2>2
  <2>4. h \notin Untried(l)
    BY <1>0, <1>2 DEF Untried
  <2>5. QED  BY <2>3, <2>4
<1>3. CASE h < First[l] /\ h < Width - HostCount
  <2>1. h + HostCount - First[l] \in 0 .. HostCount - 1
    BY <1>0, <1>3
  <2>2. Candidate(l, h + HostCount - First[l]) = h
    BY <1>0, <1>3, <2>1, CandidateIs
  <2>3. \E k \in 0 .. HostCount - 1 : Candidate(l, k) = h
    BY <2>1, <2>2
  <2>4. h \notin Untried(l)
    BY <1>0, <1>3 DEF Untried
  <2>5. QED  BY <2>3, <2>4
<1>4. CASE h < First[l] /\ h < First[l] - (Width - HostCount)
  <2>1. h + Width - First[l] \in 0 .. HostCount - 1
    BY <1>0, <1>4
  <2>2. Candidate(l, h + Width - First[l]) = h
    BY <1>0, <1>4, <2>1, CandidateIs
  <2>3. \E k \in 0 .. HostCount - 1 : Candidate(l, k) = h
    BY <2>1, <2>2
  <2>4. h \notin Untried(l)
    BY <1>0, <1>4 DEF Untried
  <2>5. QED  BY <2>3, <2>4
<1>5. QED  BY <1>0, <1>1, <1>2, <1>3, <1>4 DEF Untried

\* "all dedicated jbox loopback addresses are in use": a launch that says so is right
\* about every address but those its arithmetic passes over; where it starts low
\* enough not to wrap, it is right.
THEOREM RefusalMeansTaken ==
  ASSUME HostCount <= Width, Width <= 2 * HostCount
  PROVE  Spec => [][\A l \in Launches : NoHostFree(l) =>
                      /\ Hosts \ Untried(l) \subseteq UsedHosts
                      /\ First[l] <= Width - HostCount => Hosts \subseteq UsedHosts]_vars
<1>1. ASSUME NEW l \in Launches, NoHostFree(l)
      PROVE  Hosts \ Untried(l) \subseteq UsedHosts
  BY <1>1, SearchTries DEF NoHostFree
<1>2. ASSUME NEW l \in Launches, First[l] <= Width - HostCount
      PROVE  Untried(l) = {}
  <2>1. First[l] \in Int /\ Width \in Int /\ HostCount \in Int
    BY ConstantsAssumption DEF Hosts
  <2>2. ASSUME NEW h \in Hosts PROVE h \notin Untried(l)
    <3>1. h \in Int
      BY DEF Hosts
    <3>2. QED  BY <1>2, <2>1, <3>1 DEF Untried
  <2>3. QED  BY <2>2 DEF Untried
<1>3. \A l \in Launches : NoHostFree(l) =>
        /\ Hosts \ Untried(l) \subseteq UsedHosts
        /\ First[l] <= Width - HostCount => Hosts \subseteq UsedHosts
  BY <1>1, <1>2
<1>4. QED  BY <1>3, PTL

=============================================================================
