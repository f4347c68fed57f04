----------------------- MODULE WorktreeRebases_proofs -----------------------
(***************************************************************************)
(* Proofs about WorktreeRebases, for any number of worktrees, branches and *)
(* commits: types, and RebaseKeepsWork.                                    *)
(***************************************************************************)
EXTENDS WorktreeRebases, FiniteSetTheorems, TLAPS

\* A set of numbers up to a bound has a least one: else the bounds below it
\* would be a finite set that adding one maps into less than itself.
LEMMA LeastItem ==
  ASSUME NEW n \in Nat, NEW S \in SUBSET (1 .. n), S # {}
  PROVE  \E i \in S : \A j \in S : i <= j
<1> DEFINE Below == {k \in 0 .. n : \A j \in S : k < j}
<1> SUFFICES ASSUME \A i \in S : \E j \in S : j < i
             PROVE  FALSE
  OBVIOUS
<1>1. IsFiniteSet(Below)
  <2>1. IsFiniteSet(0 .. n) /\ Below \in SUBSET (0 .. n)
    BY FS_Interval
  <2> HIDE DEF Below
  <2>2. QED
    BY <2>1, FS_Subset
<1>2. 0 \in Below
  OBVIOUS
<1>3. ASSUME NEW k \in Below
      PROVE  k + 1 \in Below \ {0}
  <2>1. k \in Nat /\ \A j \in S : k + 1 <= j
    OBVIOUS
  <2>2. k + 1 \notin S
    BY <2>1
  <2>3. \A j \in S : k + 1 < j
    BY <2>1, <2>2
  <2>4. k + 1 \in 0 .. n
    <3>1. PICK j \in S : k + 1 <= j
      BY <2>1
    <3>2. j \in Nat /\ j <= n
      OBVIOUS
    <3>3. QED
      BY <2>1, <3>1, <3>2
  <2>5. QED
    BY <2>1, <2>3, <2>4
<1> DEFINE Up == [k \in Below |-> k + 1]
<1>4. Up \in [Below -> Below \ {0}]
  BY <1>3
<1>5. \A k, l \in Below : Up[k] = Up[l] => k = l
  OBVIOUS
<1>6. /\ IsFiniteSet(Below \ {0})
      /\ Cardinality(Below \ {0}) < Cardinality(Below)
  <2> HIDE DEF Below
  <2>1. /\ Cardinality(Below) \in Nat
        /\ Cardinality(Below \ {0}) = Cardinality(Below) - 1
    BY <1>1, <1>2, FS_RemoveElement, FS_CardinalityType
  <2>2. QED
    BY <1>1, <2>1, FS_RemoveElement
<1> HIDE DEF Below, Up
<1>7. \E k, l \in Below : k # l /\ Up[k] = Up[l]
  BY <1>1, <1>4, <1>6, FS_PigeonHole
<1>8. QED
  BY <1>5, <1>7

-----------------------------------------------------------------------------
(***************************************************************************)
(* Type correctness                                                        *)
(***************************************************************************)
SomeItems == SUBSET (1 .. Items)
Pause == {NoPause} \cup [stage : {"conflict", "stopped"}, todo : SomeItems]
Command ==
  [at : RebaseStages, tree : AllTrees, purpose : {"none", "rebase", "stop"},
   succeeded : BOOLEAN, targets : [AllTrees -> AllBranches \cup {"none"}],
   shown : [AllTrees -> SomeItems], running : BOOLEAN]

TipType ==
  /\ tip = [r \in AllTrees |-> tip[r]]
  /\ \A r \in AllTrees : tip[r] \in [HostBranches[r] -> SomeItems]

HostType ==
  /\ TipType
  /\ checkedOut \in [AllTrees -> AllBranches \cup {"none"}]

TreesType ==
  /\ session \in [AllTrees -> History]
  /\ head \in [AllTrees -> History]
  /\ files \in [AllTrees -> SomeItems]
  /\ paused \in [AllTrees -> Pause]
  /\ \A r \in AllTrees : paused[r].stage = "conflict" => paused[r].todo # {}

GuestType ==
  /\ isolated \subseteq AllTrees
  /\ working \in BOOLEAN
  /\ recorded \in {"Running", "Stopped"}

MadeType == made \in 0 .. Items /\ wrote \in [AllTrees -> SomeItems]

CommandType == rebase \in Command

RebaseTypes == HostType /\ TreesType /\ GuestType /\ MadeType /\ CommandType

LEMMA TypesAreOK == RebaseTypes => WorktreeRebasesTypeOK
<1> SUFFICES ASSUME RebaseTypes PROVE WorktreeRebasesTypeOK
  OBVIOUS
<1>1. \A r \in AllTrees : /\ paused[r].stage \in {"none", "conflict", "stopped"}
                         /\ paused[r].todo \subseteq 1 .. Items
  BY DEF RebaseTypes, TreesType, Pause, NoPause, SomeItems
<1>2. rebase.at \in RebaseStages /\ rebase.tree \in AllTrees
  BY DEF RebaseTypes, CommandType, Command
<1>3. QED
  BY <1>1, <1>2
  DEF RebaseTypes, HostType, TipType, TreesType, GuestType, MadeType,
      SomeItems, WorktreeRebasesTypeOK

LEMMA TreeFacts ==
  /\ Worktrees \in Nat /\ 1 <= Worktrees
  /\ 1 \in AllTrees /\ Worktrees \in AllTrees
  /\ \A r \in AllTrees : r \in Int /\ 1 <= r /\ r <= Worktrees
  /\ \A r \in AllTrees : r < Worktrees => r + 1 \in AllTrees
  /\ \A r \in AllTrees : r # Worktrees => r < Worktrees
BY RebaseAssumption DEF AllTrees

LEMMA StageNames ==
  {"idle", "asked", "stop", "import", "rebase", "restart"} = RebaseStages
BY DEF RebaseStages

LEMMA NoCommandType == NoCommand \in Command
BY TreeFacts, StageNames DEF NoCommand, Command, SomeItems

LEMMA BranchOfTree ==
  \A r \in AllTrees : HostBranches[r] \subseteq AllBranches
BY DEF AllBranches

\* How the command goes on.
LEMMA CommandMoves ==
  ASSUME CommandType
  PROVE  /\ CommandEnds => CommandType'
         /\ RebaseSucceeds => CommandType'
         /\ \A following \in RebaseStages :
              NextTree(following) => CommandType'
         /\ \A stage \in RebaseStages :
              rebase' = [rebase EXCEPT !.at = stage] => CommandType'
<1>1. CommandEnds => CommandType'
  BY NoCommandType DEF CommandEnds, CommandType
<1>2. RebaseSucceeds => CommandType'
  <2>1. /\ rebase.shown \in [AllTrees -> SomeItems]
        /\ rebase.running \in BOOLEAN
    BY DEF CommandType, Command
  <2>2. [NoCommand EXCEPT !.succeeded = TRUE, !.shown = rebase.shown]
          \in Command
    BY <2>1, NoCommandType DEF Command
  <2>3. QED
    BY <2>1, <2>2 DEF RebaseSucceeds, CommandType, Command
<1>3. ASSUME NEW following \in RebaseStages, NextTree(following)
      PROVE  CommandType'
  <2>1. rebase.tree \in AllTrees
    BY DEF CommandType, Command
  <2>2. CASE rebase.tree < Worktrees
    BY <1>3, <2>1, <2>2, TreeFacts DEF NextTree, CommandType, Command
  <2>3. CASE ~(rebase.tree < Worktrees)
    BY <1>3, <2>1, <2>3, TreeFacts DEF NextTree, CommandType, Command
  <2>4. QED
    BY <2>2, <2>3
<1>4. \A stage \in RebaseStages :
        rebase' = [rebase EXCEPT !.at = stage] => CommandType'
  BY DEF CommandType, Command
<1>5. QED
  BY <1>1, <1>2, <1>3, <1>4

LEMMA AskType ==
  ASSUME RebaseTypes, NEW onto \in AllBranches \cup {"none"},
         AskToRebase(onto)
  PROVE  CommandType'
<1> DEFINE targets == [r \in AllTrees |->
                         IF onto = "none" THEN checkedOut[r] ELSE onto]
           shown == [r \in AllTrees |-> tip[r][targets[r]]]
<1>1. targets \in [AllTrees -> AllBranches \cup {"none"}]
  BY DEF RebaseTypes, HostType
<1>2. \A r \in AllTrees : targets[r] \in HostBranches[r]
  BY DEF AskToRebase, CanEnter
<1>3. shown \in [AllTrees -> SomeItems]
  BY <1>2 DEF RebaseTypes, HostType, TipType
<1>4. rebase' = [NoCommand EXCEPT !.at = "asked", !.purpose = "rebase",
                   !.targets = targets, !.running = recorded = "Running",
                   !.shown = shown]
  BY DEF AskToRebase
<1> HIDE DEF targets, shown
<1>5. (recorded = "Running") \in BOOLEAN
  OBVIOUS
<1>6. QED
  BY <1>1, <1>3, <1>4, <1>5, NoCommandType, StageNames
  DEF CommandType, Command

LEMMA CommandTypeStep ==
  ASSUME RebaseTypes, RebaseCommand
  PROVE  CommandType'
<1> USE CommandMoves, StageNames DEF RebaseTypes
<1>1. CASE \E onto \in AllBranches \cup {"none"} : AskToRebase(onto)
  BY <1>1, AskType
<1>2. CASE AnswerRebase
  BY <1>2 DEF AnswerRebase
<1>3. CASE StopMachine
  BY <1>3, NoCommandType DEF StopMachine, CommandType, Command
<1>4. CASE StopContainer
  BY <1>4 DEF StopContainer
<1>5. CASE ImportAndRestore \/ ImportRewritten
  BY <1>5 DEF ImportAndRestore, ImportRewritten, Restored
<1>6. CASE RebaseWorktree \/ RebaseConflicts \/ RebaseRefused \/ RebaseDone
  BY <1>6
  DEF RebaseWorktree, RebaseConflicts, RebaseRefused, RebaseDone
<1>7. CASE RestartMachine \/ ResumeMachine \/ CommandDies
  BY <1>7 DEF RestartMachine, ResumeMachine, CommandDies
<1>8. QED
  BY <1>1, <1>2, <1>3, <1>4, <1>5, <1>6, <1>7 DEF RebaseCommand

\* The second half of what a command changes.
LEMMA GuestTypeStep ==
  ASSUME RebaseTypes, RebaseCommand
  PROVE  HostType' /\ GuestType' /\ MadeType'
<1>1. UNCHANGED <<rebaseHost, rebaseMade>>
  BY DEF RebaseCommand, AskToRebase, AnswerRebase, StopMachine,
         StopContainer, ImportAndRestore, ImportRewritten, RebaseWorktree,
         RebaseConflicts, RebaseRefused, RebaseDone, RestartMachine,
         ResumeMachine, Resumed, CommandDies
<1>2. HostType' /\ MadeType'
  BY <1>1
  DEF RebaseTypes, HostType, TipType, MadeType, rebaseHost, rebaseMade
<1>3. CASE UNCHANGED rebaseGuest
  BY <1>2, <1>3 DEF RebaseTypes, GuestType, rebaseGuest
<1>4. CASE StopContainer
  BY <1>2, <1>4 DEF StopContainer, RebaseTypes, GuestType
<1>5. CASE ImportAndRestore
  BY <1>2, <1>5 DEF ImportAndRestore, Restored, RebaseTypes, GuestType
<1>6. CASE \E starts \in BOOLEAN : Resumed(starts)
  BY <1>2, <1>6 DEF Resumed, RebaseTypes, GuestType
<1>7. QED
  BY <1>2, <1>3, <1>4, <1>5, <1>6
  DEF RebaseCommand, AskToRebase, AnswerRebase, StopMachine,
      ImportRewritten, RebaseWorktree, RebaseConflicts, RebaseRefused,
      RebaseDone, RestartMachine, ResumeMachine, CommandDies

LEMMA TreesTypeStep ==
  ASSUME RebaseTypes, RebaseCommand
  PROVE  TreesType'
<1> DEFINE r == rebase.tree
<1>1. r \in AllTrees /\ head[r] \in History /\ head[r].on \in SomeItems
      /\ head[r].own \in SomeItems
  BY DEF RebaseTypes, TreesType, CommandType, Command, History, SomeItems
<1>2. CASE UNCHANGED rebaseTrees
  BY <1>2 DEF rebaseTrees, RebaseTypes, TreesType
<1>3. CASE ImportAndRestore
  BY <1>1, <1>3 DEF ImportAndRestore, RebaseTypes, TreesType
<1>4. ASSUME CanEnter(r, rebase.targets[r])
      PROVE  Target(r) \in SomeItems
  BY <1>1, <1>4 DEF CanEnter, Target, RebaseTypes, HostType, TipType
<1>5. CASE RebaseWorktree
  <2> DEFINE onto == IF Target(r) \subseteq head[r].on THEN head[r]
                     ELSE [on |-> Target(r),
                           own |-> Replayed(head[r], Target(r))]
  <2>1. Target(r) \in SomeItems
    BY <1>4, <1>5 DEF RebaseWorktree
  <2>2. onto \in History
    BY <1>1, <2>1 DEF History, SomeItems, Replayed, Patches
  <2>3. /\ head' = [head EXCEPT ![r] = onto]
        /\ session' = [session EXCEPT ![r] = onto]
        /\ UNCHANGED <<files, paused>>
    BY <1>5 DEF RebaseWorktree, OnTarget
  <2> HIDE DEF onto
  <2>4. QED
    BY <1>1, <2>2, <2>3 DEF RebaseTypes, TreesType
<1>6. CASE RebaseConflicts
  <2> DEFINE replays == Replayed(head[r], Target(r))
  <2>1. PICK i \in replays : PausesAt(r, i, Target(r), replays)
    BY <1>6 DEF RebaseConflicts
  <2>2. Target(r) \in SomeItems
    BY <1>4, <1>6 DEF RebaseConflicts
  <2>3. replays \in SomeItems
    BY <1>1 DEF SomeItems, Replayed, Patches
  <2> HIDE DEF replays
  <2>4. [on |-> Target(r), own |-> {j \in replays : j < i}] \in History
    BY <2>2, <2>3 DEF History, SomeItems
  <2>5. /\ i \in {j \in replays : j >= i}
        /\ {j \in replays : j >= i} \in SomeItems
    <3>1. i \in Int
      BY <2>1, <2>3, RebaseAssumption DEF SomeItems
    <3>2. i \in {j \in replays : j >= i}
      BY <2>1, <3>1
    <3>3. {j \in replays : j >= i} \subseteq replays
      OBVIOUS
    <3>4. QED
      BY <2>3, <3>2, <3>3 DEF SomeItems
  <2>6. [stage |-> "conflict", todo |-> {j \in replays : j >= i}] \in Pause
    BY <2>5 DEF Pause
  <2>7. head' \in [AllTrees -> History] /\ paused' \in [AllTrees -> Pause]
    BY <1>1, <2>1, <2>4, <2>6 DEF PausesAt, RebaseTypes, TreesType
  <2>8. \A s \in AllTrees :
          paused'[s].stage = "conflict" => paused'[s].todo # {}
    BY <1>1, <2>1, <2>5 DEF PausesAt, RebaseTypes, TreesType
  <2>9. QED
    BY <1>6, <2>7, <2>8 DEF RebaseConflicts, RebaseTypes, TreesType
<1>7. ASSUME NEW starts \in BOOLEAN, Resumed(starts)
      PROVE  TreesType'
  <2>1. \A s \in AllTrees : Checkpointed(s) \in History
    BY DEF Checkpointed, RebaseTypes, TreesType, History, SomeItems
  <2>2. QED
    BY <1>7, <2>1 DEF Resumed, RebaseTypes, TreesType, SomeItems
<1>8. QED
  BY <1>2, <1>3, <1>5, <1>6, <1>7
  DEF RebaseCommand, AskToRebase, AnswerRebase, StopMachine, StopContainer,
      ImportRewritten, RebaseRefused, RebaseDone, RestartMachine,
      ResumeMachine, CommandDies

LEMMA MeanwhileTypes ==
  ASSUME RebaseTypes, NEW r \in AllTrees, Meanwhile(r)
  PROVE  HostType' /\ GuestType' /\ MadeType' /\ CommandType'
<1> USE DEF RebaseTypes
<1>1. GuestType' /\ CommandType'
  <2>1. UNCHANGED <<rebaseGuest, rebase>>
    BY DEF Meanwhile, TreeEdited, TreeCommitted, AgentAmendsCommit,
           HostMoves, HostSwitches, ConflictResolved, RebaseContinued,
           RebaseAborted
  <2>2. QED
    BY <2>1 DEF rebaseGuest, GuestType, CommandType
<1>2. MakesItem => made' \in 1 .. Items
  BY RebaseAssumption DEF MakesItem, MadeType
<1>3. MadeType'
  <2>1. CASE TreeEdited(r) \/ AgentAmendsCommit(r) \/ HostMoves(r)
    BY <1>2, <2>1
    DEF TreeEdited, AgentAmendsCommit, HostMoves, MadeType, SomeItems
  <2>2. CASE ConflictResolved(r) \/ RebaseAborted(r)
    BY <2>2 DEF ConflictResolved, RebaseAborted, MadeType, SomeItems
  <2>3. CASE UNCHANGED rebaseMade
    BY <2>3 DEF rebaseMade, MadeType
  <2>4. QED
    BY <2>1, <2>2, <2>3
    DEF Meanwhile, TreeCommitted, HostSwitches, RebaseContinued
<1>4. HostType'
  <2>1. CASE HostMoves(r)
    <3> DEFINE b == checkedOut[r]
    <3>1. tip' = [tip EXCEPT ![r][b] = @ \cup {made'}]
          /\ checkedOut' = checkedOut
      BY <2>1 DEF HostMoves
    <3>2. made' \in 1 .. Items
      BY <1>2, <2>1 DEF HostMoves
    <3> HIDE DEF b
    <3>3. tip'[r] \in [HostBranches[r] -> SomeItems]
      BY <3>1, <3>2 DEF HostType, TipType, SomeItems
    <3>4. tip' = [s \in AllTrees |-> tip'[s]]
      BY <3>1 DEF HostType, TipType
    <3>5. \A s \in AllTrees \ {r} : tip'[s] = tip[s]
      BY <3>1 DEF HostType, TipType
    <3>6. QED
      BY <3>1, <3>3, <3>4, <3>5 DEF HostType, TipType
  <2>2. ASSUME NEW b \in HostBranches[r] \cup {"none"}, HostSwitches(r, b)
        PROVE  HostType'
    BY <2>2, BranchOfTree DEF HostSwitches, HostType, TipType
  <2>3. CASE UNCHANGED rebaseHost
    BY <2>3 DEF rebaseHost, HostType, TipType
  <2>4. QED
    BY <2>1, <2>2, <2>3
    DEF Meanwhile, TreeEdited, TreeCommitted, AgentAmendsCommit,
        ConflictResolved, RebaseContinued, RebaseAborted
<1>5. QED
  BY <1>1, <1>3, <1>4

LEMMA MeanwhileTrees ==
  ASSUME RebaseTypes, NEW r \in AllTrees, Meanwhile(r)
  PROVE  TreesType'
<1> USE DEF RebaseTypes
<1>1. /\ head[r] \in History /\ session[r] \in History
      /\ head[r].on \in SomeItems /\ head[r].own \in SomeItems
      /\ files[r] \in SomeItems
      /\ paused[r] \in Pause /\ paused[r].todo \in SomeItems
  BY DEF TreesType, History, SomeItems, Pause, NoPause
<1>2. MakesItem => made' \in 1 .. Items
  BY RebaseAssumption DEF MakesItem, MadeType
<1>3. CASE TreeEdited(r)
  BY <1>1, <1>2, <1>3 DEF TreeEdited, TreesType, SomeItems
<1>4. [head[r] EXCEPT !.own = @ \cup files[r]] \in History
  BY <1>1 DEF History, SomeItems
<1>5. CASE TreeCommitted(r)
  BY <1>1, <1>4, <1>5 DEF TreeCommitted, TreesType, SomeItems
<1>6. CASE AgentAmendsCommit(r)
  <2>1. PICK i \in head[r].own :
          head' = [head EXCEPT ![r].own = (@ \ {i}) \cup {made'}]
    BY <1>6 DEF AgentAmendsCommit
  <2>2. head' \in [AllTrees -> History]
    BY <1>1, <1>2, <1>6, <2>1
    DEF AgentAmendsCommit, TreesType, History, SomeItems
  <2>3. QED
    BY <1>6, <2>2 DEF AgentAmendsCommit, TreesType
<1>7. CASE ConflictResolved(r)
  <2> DEFINE i == CHOOSE j \in paused[r].todo :
                    \A k \in paused[r].todo : j <= k
  <2>1. i \in paused[r].todo
    BY <1>1, <1>7, LeastItem, RebaseAssumption
    DEF ConflictResolved, TreesType, SomeItems
  <2>2. /\ paused' = [paused EXCEPT ![r] =
                        [stage |-> "stopped", todo |-> @.todo \ {i}]]
        /\ \/ files' = [files EXCEPT ![r] = @ \cup {i}]
           \/ UNCHANGED files
        /\ UNCHANGED <<session, head>>
    BY <1>7 DEF ConflictResolved
  <2> HIDE DEF i
  <2>3. i \in 1 .. Items
    BY <1>1, <2>1 DEF SomeItems
  <2>4. files' \in [AllTrees -> SomeItems]
    BY <2>2, <2>3 DEF TreesType, SomeItems
  <2>5. [stage |-> "stopped", todo |-> paused[r].todo \ {i}] \in Pause
    BY <1>1 DEF Pause, SomeItems
  <2>6. /\ paused' \in [AllTrees -> Pause]
        /\ \A s \in AllTrees :
             paused'[s].stage = "conflict" => paused'[s].todo # {}
    BY <2>2, <2>5 DEF TreesType
  <2>7. QED
    BY <2>2, <2>4, <2>6 DEF TreesType
<1>8. CASE RebaseContinued(r)
  <2> DEFINE new == [head[r] EXCEPT !.own = @ \cup files[r]]
             todo == paused[r].todo
  <2>1. files' \in [AllTrees -> SomeItems]
    BY <1>8 DEF RebaseContinued, TreesType, SomeItems
  <2>2. CASE OnTarget(r, [new EXCEPT !.own = @ \cup todo])
             /\ paused' = [paused EXCEPT ![r] = NoPause]
    <3>1. [new EXCEPT !.own = @ \cup todo] \in History
      BY <1>1, <1>4 DEF History, SomeItems
    <3>2. NoPause \in Pause /\ NoPause.stage # "conflict"
      BY DEF Pause, NoPause
    <3> HIDE DEF new
    <3>3. QED
      BY <2>1, <2>2, <3>1, <3>2 DEF OnTarget, TreesType
  <2>3. ASSUME NEW i \in todo,
               head' = [head EXCEPT ![r] =
                          [new EXCEPT !.own = @ \cup {j \in todo : j < i}]],
               paused' = [paused EXCEPT ![r] =
                            [stage |-> "conflict",
                             todo |-> {j \in @.todo : j >= i}]],
               UNCHANGED session
        PROVE  TreesType'
    <3>1. [new EXCEPT !.own = @ \cup {j \in todo : j < i}] \in History
      BY <1>1, <1>4 DEF History, SomeItems
    <3>2. i \in Int
      BY <1>1, RebaseAssumption DEF SomeItems
    <3>3. i \in {j \in todo : j >= i}
      BY <3>2
    <3>4. [stage |-> "conflict", todo |-> {j \in todo : j >= i}] \in Pause
      BY <1>1 DEF Pause, SomeItems
    <3>5. paused'[r].todo = {j \in todo : j >= i}
      BY <2>3 DEF TreesType
    <3> HIDE DEF new
    <3>6. head' \in [AllTrees -> History]
      BY <2>3, <3>1 DEF TreesType
    <3>7. paused' \in [AllTrees -> Pause]
      BY <2>3, <3>4 DEF TreesType
    <3>8. \A s \in AllTrees :
            paused'[s].stage = "conflict" => paused'[s].todo # {}
      BY <2>3, <3>3, <3>5 DEF TreesType
    <3>9. QED
      BY <2>1, <2>3, <3>6, <3>7, <3>8 DEF TreesType
  <2>4. QED
    BY <1>8, <2>2, <2>3 DEF RebaseContinued
<1>9. CASE RebaseAborted(r)
  BY <1>1, <1>9
  DEF RebaseAborted, TreesType, Pause, NoPause, SomeItems
<1>10. CASE UNCHANGED rebaseTrees
  BY <1>10 DEF rebaseTrees, TreesType
<1>11. QED
  BY <1>3, <1>5, <1>6, <1>7, <1>8, <1>9, <1>10
  DEF Meanwhile, HostMoves, HostSwitches

LEMMA RebaseTypesInit == RebasesInit => RebaseTypes
<1> SUFFICES ASSUME RebasesInit PROVE RebaseTypes
  OBVIOUS
<1> USE DEF RebasesInit
<1>1. \A r \in AllTrees : \E b \in HostBranches[r] : TRUE
  BY RebaseAssumption
<1>2. HostType
  BY <1>1, BranchOfTree DEF HostType, TipType, SomeItems
<1>3. 1 \in 1 .. Items
  BY RebaseAssumption
<1>4. session \in [AllTrees -> History]
  BY <1>3 DEF History
<1>5. TreesType
  BY <1>4 DEF TreesType, Pause, NoPause, SomeItems
<1>6. GuestType
  BY DEF GuestType
<1>7. MadeType
  BY <1>3, <1>4, RebaseAssumption DEF MadeType, History, SomeItems
<1>8. CommandType
  BY NoCommandType DEF CommandType
<1>9. QED
  BY <1>2, <1>5, <1>6, <1>7, <1>8 DEF RebaseTypes

LEMMA RebaseTypesStep == RebaseTypes /\ [RebasesNext]_rebaseVars => RebaseTypes'
<1> SUFFICES ASSUME RebaseTypes, [RebasesNext]_rebaseVars
             PROVE  RebaseTypes'
  OBVIOUS
<1>1. CASE RebaseCommand
  BY <1>1, CommandTypeStep, GuestTypeStep, TreesTypeStep DEF RebaseTypes
<1>2. CASE \E r \in AllTrees : Meanwhile(r)
  BY <1>2, MeanwhileTypes, MeanwhileTrees DEF RebaseTypes
<1>3. CASE UNCHANGED rebaseVars
  BY <1>3
  DEF rebaseVars, rebaseHost, rebaseTrees, rebaseGuest, rebaseMade,
      RebaseTypes, HostType, TipType, TreesType, GuestType, MadeType,
      CommandType
<1>4. QED
  BY <1>1, <1>2, <1>3 DEF RebasesNext

(* Every variable keeps its type: a conflict always has a commit it is     *)
(* about, a running rebase always a worktree and targets.                  *)
THEOREM RebaseTypesCorrect == RebasesSpec => []WorktreeRebasesTypeOK
<1>1. RebasesSpec => []RebaseTypes
  BY RebaseTypesInit, RebaseTypesStep, PTL DEF RebasesSpec
<1>2. QED
  BY <1>1, TypesAreOK, PTL

-----------------------------------------------------------------------------
(***************************************************************************)
(* The inductive invariant                                                 *)
(***************************************************************************)

\* Who has which metadata while a command stops the guest and rebases.
GuestsAside ==
  /\ working => isolated = AllTrees
  /\ rebase.at \in {"import", "rebase", "restart"} => ~working
  /\ recorded = "Stopped" => isolated = {} /\ ~working
  /\ RebaseAt("asked") /\ ~rebase.running => recorded = "Stopped"
  /\ rebase.at \in {"asked", "stop"} => rebase.tree = 1
  /\ RebaseAt("import") => \A r \in isolated : rebase.tree <= r
  /\ RebaseAt("rebase") => isolated = {}

\* A worktree that has its host link is on its branch, unless a rebase has
\* stopped in it; and none has in one of the guest's.
OnBranch ==
  \A r \in AllTrees :
    /\ r \in isolated => paused[r] = NoPause
    /\ r \notin isolated /\ paused[r] = NoPause => head[r] = session[r]

\* What was written is not on the branch alone while a rebase is stopped,
\* which is to replace the branch.
Kept ==
  \A r \in AllTrees :
    /\ wrote[r] \subseteq files[r] \cup Patches(head[r])
                            \cup Patches(session[r]) \cup paused[r].todo
    /\ paused[r] # NoPause =>
         wrote[r] \subseteq files[r] \cup Patches(head[r]) \cup paused[r].todo

\* The targets that were shown are there, and only grow.
TargetsStand ==
  /\ rebase.at \in {"asked", "rebase", "restart"} => rebase.purpose = "rebase"
  /\ rebase.at \in {"stop", "import"} => rebase.purpose \in {"rebase", "stop"}
  /\ rebase.at \in {"asked", "stop", "import", "rebase"}
       /\ rebase.purpose = "rebase" =>
         \A r \in AllTrees :
           /\ rebase.targets[r] \in HostBranches[r]
           /\ rebase.shown[r] \subseteq tip[r][rebase.targets[r]]

\* The worktrees that had their turn are on their targets.
HadTurn(r) ==
  \/ rebase.succeeded
  \/ RebaseAt("restart")
  \/ RebaseAt("rebase") /\ r < rebase.tree

DoneStays ==
  /\ rebase.succeeded => RebaseAt("idle") /\ (rebase.running => working)
  /\ \A r \in AllTrees :
       HadTurn(r) => /\ paused[r] = NoPause
                     /\ rebase.shown[r] \subseteq session[r].on

RebaseInv ==
  /\ RebaseTypes /\ GuestsAside /\ OnBranch /\ Kept /\ TargetsStand
  /\ DoneStays

\* What the ways in which a command goes on leave in its record.
LEMMA NextTreeIs ==
  ASSUME CommandType, NEW following \in RebaseStages, NextTree(following)
  PROVE  /\ rebase'.purpose = rebase.purpose
         /\ rebase'.succeeded = rebase.succeeded
         /\ rebase'.targets = rebase.targets
         /\ rebase'.shown = rebase.shown
         /\ rebase'.running = rebase.running
         /\ \/ /\ rebase.tree < Worktrees
               /\ rebase'.tree = rebase.tree + 1 /\ rebase'.at = rebase.at
            \/ /\ rebase.tree = Worktrees
               /\ rebase'.tree = 1 /\ rebase'.at = following
<1>1. rebase.tree \in AllTrees
  BY DEF CommandType, Command
<1>2. CASE rebase.tree < Worktrees
  BY <1>1, <1>2 DEF NextTree, CommandType, Command
<1>3. CASE ~(rebase.tree < Worktrees)
  <2>1. rebase.tree = Worktrees
    BY <1>1, <1>3, TreeFacts
  <2>2. rebase' = [rebase EXCEPT !.tree = 1, !.at = following]
    BY <1>3 DEF NextTree
  <2>3. QED
    BY <2>1, <2>2 DEF CommandType, Command
<1>4. QED
  BY <1>2, <1>3

LEMMA EndIs ==
  ASSUME CommandEnds
  PROVE  /\ rebase'.at = "idle" /\ rebase'.tree = 1
         /\ rebase'.purpose = "none"
         /\ rebase'.succeeded = FALSE /\ rebase'.running = FALSE
BY DEF CommandEnds, NoCommand

LEMMA SuccessIs ==
  ASSUME RebaseSucceeds
  PROVE  /\ rebase'.at = "idle" /\ rebase'.tree = 1
         /\ rebase'.purpose = "none" /\ rebase'.succeeded = TRUE
         /\ rebase'.shown = rebase.shown /\ rebase'.running = rebase.running
BY DEF RebaseSucceeds, NoCommand

LEMMA StopIs ==
  ASSUME StopMachine
  PROVE  /\ rebase'.at = "stop" /\ rebase'.tree = 1
         /\ rebase'.purpose = "stop" /\ rebase'.succeeded = FALSE
BY DEF StopMachine, NoCommand

LEMMA AskIs ==
  ASSUME RebaseTypes, NEW onto \in AllBranches \cup {"none"},
         AskToRebase(onto)
  PROVE  /\ rebase'.at = "asked" /\ rebase'.tree = 1
         /\ rebase'.purpose = "rebase" /\ rebase'.succeeded = FALSE
         /\ rebase'.running = (recorded = "Running")
         /\ \A r \in AllTrees :
              /\ rebase'.targets[r] \in HostBranches[r]
              /\ rebase'.shown[r] = tip[r][rebase'.targets[r]]
<1> DEFINE targets == [r \in AllTrees |->
                         IF onto = "none" THEN checkedOut[r] ELSE onto]
           shown == [r \in AllTrees |-> tip[r][targets[r]]]
<1>1. \A r \in AllTrees : targets[r] \in HostBranches[r]
  BY DEF AskToRebase, CanEnter
<1>2. \A r \in AllTrees : shown[r] = tip[r][targets[r]]
  OBVIOUS
<1>3. rebase' = [NoCommand EXCEPT !.at = "asked", !.purpose = "rebase",
                   !.targets = targets, !.running = recorded = "Running",
                   !.shown = shown]
  BY DEF AskToRebase
<1> HIDE DEF targets, shown
<1>4. rebase'.targets = targets /\ rebase'.shown = shown
  BY <1>3 DEF NoCommand
<1>5. QED
  BY <1>1, <1>2, <1>3, <1>4 DEF NoCommand

LEMMA AnswerIs ==
  ASSUME CommandType, AnswerRebase, ~CommandEnds
  PROVE  /\ rebase'.at = IF rebase.running THEN "stop" ELSE "rebase"
         /\ rebase'.tree = rebase.tree /\ rebase'.purpose = rebase.purpose
         /\ rebase'.succeeded = rebase.succeeded
         /\ rebase'.targets = rebase.targets
         /\ rebase'.shown = rebase.shown /\ rebase'.running = rebase.running
BY DEF AnswerRebase, CommandType, Command

LEMMA StoppedIs ==
  ASSUME CommandType, StopContainer
  PROVE  /\ rebase'.at = "import"
         /\ rebase'.tree = rebase.tree /\ rebase'.purpose = rebase.purpose
         /\ rebase'.succeeded = rebase.succeeded
         /\ rebase'.targets = rebase.targets
         /\ rebase'.shown = rebase.shown /\ rebase'.running = rebase.running
BY DEF StopContainer, CommandType, Command

-----------------------------------------------------------------------------
LEMMA RebaseInvInit == RebasesInit => RebaseInv
<1> SUFFICES ASSUME RebasesInit PROVE RebaseInv
  OBVIOUS
<1>1. RebaseTypes
  BY RebaseTypesInit
<1> USE DEF RebasesInit, NoCommand, NoPause, RebaseAt
<1>2. GuestsAside
  BY DEF GuestsAside
<1>3. OnBranch
  BY DEF OnBranch
<1>4. Kept
  BY DEF Kept, Patches
<1>5. TargetsStand
  BY DEF TargetsStand
<1>6. DoneStays
  BY DEF DoneStays, HadTurn
<1>7. QED
  BY <1>1, <1>2, <1>3, <1>4, <1>5, <1>6 DEF RebaseInv

\* The guest stops before its metadata goes, and starts when it has it again.
LEMMA GuestsAsideStep ==
  ASSUME RebaseInv, RebaseCommand
  PROVE  GuestsAside'
<1> USE DEF RebaseAt
<1>1. /\ RebaseTypes /\ GuestsAside /\ CommandType
      /\ rebase.tree \in AllTrees /\ rebase.running \in BOOLEAN
      /\ isolated \subseteq AllTrees
  BY DEF RebaseInv, RebaseTypes, CommandType, Command, GuestType
<1>2. ASSUME CommandEnds, UNCHANGED rebaseGuest
      PROVE  GuestsAside'
  BY <1>1, <1>2, EndIs DEF GuestsAside, rebaseGuest
<1>3. ASSUME NEW onto \in AllBranches \cup {"none"}, AskToRebase(onto)
      PROVE  GuestsAside'
  <2>1. UNCHANGED rebaseGuest
    BY <1>3 DEF AskToRebase
  <2>2. rebase'.running = FALSE => recorded = "Stopped"
    BY <1>1, <1>3, AskIs DEF RebaseTypes, GuestType
  <2>3. QED
    BY <1>1, <1>3, <2>1, <2>2, AskIs DEF GuestsAside, rebaseGuest
<1>4. CASE AnswerRebase /\ ~CommandEnds
  <2>1. UNCHANGED rebaseGuest /\ rebase.at = "asked"
    BY <1>4 DEF AnswerRebase
  <2>2. QED
    BY <1>1, <1>4, <2>1, AnswerIs DEF GuestsAside, rebaseGuest
<1>5. CASE StopMachine
  BY <1>1, <1>5, StopIs DEF StopMachine, GuestsAside, rebaseGuest
<1>6. CASE StopContainer
  <2>1. /\ rebase.at = "stop" /\ working' = FALSE
        /\ UNCHANGED <<isolated, recorded>>
    BY <1>6 DEF StopContainer
  <2>2. \A r \in isolated : 1 <= r
    BY <1>1, TreeFacts
  <2>3. QED
    BY <1>1, <1>6, <2>1, <2>2, StoppedIs DEF GuestsAside
<1>7. CASE ImportAndRestore
  <2> DEFINE tree == rebase.tree
  <2>1. /\ rebase.at = "import" /\ ~working /\ UNCHANGED working
        /\ isolated' = isolated \ {tree}
        /\ recorded' = IF tree = Worktrees THEN "Stopped" ELSE recorded
        /\ \A r \in isolated : tree <= r
    BY <1>1, <1>7 DEF ImportAndRestore, Restored, GuestsAside
  <2>2. ASSUME NEW r \in isolated'
        PROVE  tree + 1 <= r
    <3>1. r \in isolated /\ r # tree /\ tree <= r
      BY <2>1
    <3>2. r \in Int /\ tree \in Int
      BY <1>1, <3>1, TreeFacts
    <3> HIDE DEF tree
    <3>3. QED
      BY <3>1, <3>2
  <2>3. tree = Worktrees => isolated' = {}
    BY <1>1, <2>1, <2>2, TreeFacts
  <2>4. CASE tree = Worktrees /\ rebase.purpose = "stop"
    BY <1>1, <1>7, <2>1, <2>3, <2>4, EndIs
    DEF ImportAndRestore, Restored, GuestsAside
  <2>5. CASE NextTree("rebase")
    <3>1. CASE rebase'.tree = tree + 1 /\ rebase'.at = "import"
                /\ tree < Worktrees
      <4>1. tree # Worktrees
        BY <1>1, <3>1, TreeFacts
      <4>2. recorded' = recorded
        BY <2>1, <4>1
      <4>3. isolated' \subseteq isolated
        BY <2>1
      <4>4. QED
        BY <1>1, <2>1, <2>2, <3>1, <4>2, <4>3 DEF GuestsAside
    <3>2. CASE rebase'.tree = 1 /\ rebase'.at = "rebase" /\ tree = Worktrees
      BY <1>1, <2>1, <2>3, <3>2 DEF GuestsAside
    <3>3. QED
      BY <1>1, <2>1, <2>5, <3>1, <3>2, NextTreeIs, StageNames
  <2>6. QED
    BY <1>7, <2>4, <2>5 DEF ImportAndRestore, Restored
<1>8. CASE RebaseWorktree
  <2>1. /\ rebase.at = "rebase" /\ UNCHANGED rebaseGuest
        /\ rebase'.at \in {"rebase", "restart"}
    BY <1>1, <1>8, NextTreeIs, StageNames DEF RebaseWorktree
  <2>2. QED
    BY <1>1, <2>1 DEF GuestsAside, rebaseGuest
<1>9. ASSUME UNCHANGED rebaseGuest, RebaseSucceeds
      PROVE  GuestsAside'
  BY <1>1, <1>9, SuccessIs DEF GuestsAside, rebaseGuest
<1>10. ASSUME NEW starts \in BOOLEAN, Resumed(starts), rebase'.at = "idle"
       PROVE  GuestsAside'
  <2>1. CASE starts
    BY <1>1, <1>10, <2>1 DEF Resumed, CanResume, GuestsAside
  <2>2. CASE ~starts
    BY <1>1, <1>10, <2>2 DEF Resumed, CanResume, GuestsAside
  <2>3. QED
    BY <2>1, <2>2
<1>11. CASE RestartMachine
  BY <1>2, <1>10, <1>11, EndIs, SuccessIs
  DEF RestartMachine
<1>12. CASE ResumeMachine
  BY <1>10, <1>12, EndIs DEF ResumeMachine
<1>13. QED
  BY <1>2, <1>3, <1>4, <1>5, <1>6, <1>7, <1>8, <1>9, <1>11, <1>12
  DEF RebaseCommand, AnswerRebase, ImportRewritten, RebaseConflicts,
      RebaseRefused, RebaseDone, CommandDies

\* The targets of a command are those it showed, whose tips only grow.
LEMMA TargetsStandStep ==
  ASSUME RebaseInv, RebaseCommand
  PROVE  TargetsStand'
<1> USE DEF RebaseAt
<1>1. RebaseTypes /\ TargetsStand /\ CommandType /\ UNCHANGED tip
  <2>1. UNCHANGED rebaseHost
    BY DEF RebaseCommand, AskToRebase, AnswerRebase, StopMachine,
           StopContainer, ImportAndRestore, ImportRewritten, RebaseWorktree,
           RebaseConflicts, RebaseRefused, RebaseDone, RestartMachine,
           ResumeMachine, Resumed, CommandDies
  <2>2. QED
    BY <2>1 DEF RebaseInv, RebaseTypes, rebaseHost
<1>2. ASSUME rebase'.at = "idle"
      PROVE  TargetsStand'
  BY <1>2 DEF TargetsStand
<1>3. ASSUME NEW onto \in AllBranches \cup {"none"}, AskToRebase(onto)
      PROVE  TargetsStand'
  BY <1>1, <1>3, AskIs DEF TargetsStand
<1>4. ASSUME rebase.at \in {"asked", "stop", "import", "rebase"},
             rebase'.purpose = rebase.purpose,
             rebase'.targets = rebase.targets, rebase'.shown = rebase.shown,
             rebase'.at \in {"rebase", "restart"} => rebase.purpose = "rebase",
             rebase'.at # "asked"
      PROVE  TargetsStand'
  BY <1>1, <1>4 DEF TargetsStand
<1>5. CASE AnswerRebase /\ ~CommandEnds
  BY <1>1, <1>4, <1>5, AnswerIs DEF AnswerRebase, TargetsStand
<1>6. CASE StopMachine
  BY <1>6, StopIs DEF TargetsStand
<1>7. CASE StopContainer
  BY <1>1, <1>4, <1>7, StoppedIs DEF StopContainer
<1>8. CASE ImportAndRestore
  <2>1. CASE rebase.tree = Worktrees /\ rebase.purpose = "stop"
    BY <1>2, <1>8, <2>1, EndIs DEF ImportAndRestore, Restored
  <2>2. CASE NextTree("rebase")
             /\ ~(rebase.tree = Worktrees /\ rebase.purpose = "stop")
    <3>1. rebase.at = "import"
      BY <1>8 DEF ImportAndRestore
    <3>2. rebase.tree \in AllTrees
      BY <1>1 DEF CommandType, Command
    <3>3. CASE rebase'.at = "import"
      BY <1>1, <1>4, <2>2, <3>1, <3>3, NextTreeIs, StageNames
    <3>4. CASE rebase'.at = "rebase" /\ rebase.tree = Worktrees
      <4>1. rebase.purpose = "rebase"
        BY <1>1, <2>2, <3>1, <3>4 DEF TargetsStand
      <4>2. QED
        BY <1>1, <1>4, <2>2, <3>1, <3>4, <4>1, NextTreeIs, StageNames
    <3>5. QED
      BY <1>1, <2>2, <3>1, <3>3, <3>4, NextTreeIs, StageNames
  <2>3. QED
    BY <1>8, <2>1, <2>2 DEF ImportAndRestore, Restored
<1>9. CASE RebaseWorktree
  <2>1. rebase.at = "rebase" /\ NextTree("restart")
    BY <1>9 DEF RebaseWorktree
  <2>2. rebase.purpose = "rebase"
    BY <1>1, <2>1 DEF TargetsStand
  <2>3. rebase'.at \in {"rebase", "restart"}
    BY <1>1, <2>1, NextTreeIs, StageNames
  <2>4. QED
    BY <1>1, <1>4, <2>1, <2>2, <2>3, NextTreeIs, StageNames
<1>10. CASE RestartMachine \/ RebaseDone
  BY <1>2, <1>10, EndIs, SuccessIs DEF RestartMachine, RebaseDone
<1>11. QED
  BY <1>2, <1>3, <1>5, <1>6, <1>7, <1>8, <1>9, <1>10, EndIs
  DEF RebaseCommand, AnswerRebase, ImportRewritten, RebaseConflicts,
      RebaseRefused, ResumeMachine, CommandDies

\* A worktree that is given its host link back is put on its branch first.
LEMMA OnBranchStep ==
  ASSUME RebaseInv, RebaseCommand
  PROVE  OnBranch'
<1> DEFINE tree == rebase.tree
<1> USE DEF RebaseAt
<1>1. /\ RebaseTypes /\ TreesType /\ GuestsAside /\ OnBranch
      /\ tree \in AllTrees /\ isolated \subseteq AllTrees
  BY DEF RebaseInv, RebaseTypes, CommandType, Command, GuestType
<1>2. ASSUME UNCHANGED <<rebaseTrees, isolated>>
      PROVE  OnBranch'
  BY <1>1, <1>2 DEF OnBranch, rebaseTrees
<1>3. CASE ImportAndRestore
  <2>1. /\ session' = IF tree \in isolated
                      THEN [session EXCEPT ![tree] = head[tree]] ELSE session
        /\ isolated' = isolated \ {tree}
        /\ UNCHANGED <<head, paused>>
    BY <1>3 DEF ImportAndRestore, Restored
  <2> HIDE DEF tree
  <2>2. \A r \in AllTrees \ {tree} : session'[r] = session[r]
    BY <1>1, <2>1 DEF TreesType
  <2>3. tree \in isolated => session'[tree] = head[tree]
    BY <1>1, <2>1 DEF TreesType
  <2>4. tree \notin isolated => session'[tree] = session[tree]
    BY <2>1
  <2>5. QED
    BY <1>1, <2>1, <2>2, <2>3, <2>4 DEF OnBranch
<1>4. CASE RebaseWorktree
  <2>1. PICK h : OnTarget(tree, h)
    BY <1>4 DEF RebaseWorktree
  <2>2. UNCHANGED <<paused, isolated>>
    BY <1>4 DEF RebaseWorktree, rebaseGuest
  <2> HIDE DEF tree
  <2>3. \A r \in AllTrees : head[r] = session[r] => head'[r] = session'[r]
    BY <1>1, <2>1 DEF OnTarget, TreesType
  <2>4. QED
    BY <1>1, <2>2, <2>3 DEF OnBranch
<1>5. CASE RebaseConflicts
  <2>1. isolated = {} /\ isolated' = {} /\ session' = session
    BY <1>1, <1>5 DEF RebaseConflicts, GuestsAside, rebaseGuest
  <2>2. PICK i, onto, replays : PausesAt(tree, i, onto, replays)
    BY <1>5 DEF RebaseConflicts
  <2> HIDE DEF tree
  <2>3. /\ paused'[tree] # NoPause
        /\ \A r \in AllTrees \ {tree} : /\ paused'[r] = paused[r]
                                        /\ head'[r] = head[r]
    BY <1>1, <2>2 DEF PausesAt, TreesType, NoPause
  <2>4. QED
    BY <1>1, <2>1, <2>3 DEF OnBranch
<1>6. ASSUME NEW starts \in BOOLEAN, Resumed(starts)
      PROVE  OnBranch'
  BY <1>6 DEF Resumed, CanResume, OnBranch
<1>7. QED
  BY <1>2, <1>3, <1>4, <1>5, <1>6
  DEF RebaseCommand, AskToRebase, AnswerRebase, StopMachine, StopContainer,
      ImportRewritten, RebaseRefused, RebaseDone, RestartMachine,
      ResumeMachine, CommandDies, rebaseGuest

\* What a rebase has put on the target or has yet to replay is all there was.
LEMMA KeptStep ==
  ASSUME RebaseInv, RebaseCommand
  PROVE  Kept'
<1> DEFINE tree == rebase.tree
<1> USE DEF RebaseAt
<1>1. /\ RebaseTypes /\ TreesType /\ GuestsAside /\ OnBranch /\ Kept
      /\ tree \in AllTrees /\ UNCHANGED wrote
  <2>1. UNCHANGED rebaseMade
    BY DEF RebaseCommand, AskToRebase, AnswerRebase, StopMachine,
           StopContainer, ImportAndRestore, ImportRewritten, RebaseWorktree,
           RebaseConflicts, RebaseRefused, RebaseDone, RestartMachine,
           ResumeMachine, Resumed, CommandDies
  <2>2. QED
    BY <2>1 DEF RebaseInv, RebaseTypes, CommandType, Command, rebaseMade
<1>2. ASSUME UNCHANGED rebaseTrees
      PROVE  Kept'
  BY <1>1, <1>2 DEF Kept, rebaseTrees
<1>3. CASE ImportAndRestore
  <2>1. /\ session' = IF tree \in isolated
                      THEN [session EXCEPT ![tree] = head[tree]] ELSE session
        /\ tree \in isolated => Follows(session[tree], head[tree])
        /\ UNCHANGED <<head, files, paused>>
    BY <1>3 DEF ImportAndRestore
  <2> HIDE DEF tree
  <2>2. Follows(session[tree], head[tree]) =>
          Patches(session[tree]) \subseteq Patches(head[tree])
    BY DEF Follows, Patches
  <2>3. \A r \in AllTrees :
          Patches(head[r]) \cup Patches(session[r])
            \subseteq Patches(head[r]) \cup Patches(session'[r])
    <3>1. SUFFICES ASSUME NEW r \in AllTrees
                   PROVE  \/ session'[r] = session[r]
                          \/ Patches(session[r]) \subseteq Patches(head[r])
      BY <3>1
    <3>2. QED
      BY <1>1, <2>1, <2>2 DEF TreesType
  <2>4. QED
    BY <1>1, <2>1, <2>3 DEF Kept
<1>4. ASSUME CanEnter(tree, rebase.targets[tree]), RebaseAt("rebase"),
             paused[tree] = NoPause
      PROVE  wrote[tree] \subseteq Patches(head[tree])
  <2>1. head[tree] = session[tree]
    BY <1>1, <1>4 DEF GuestsAside, OnBranch
  <2>2. files[tree] = {}
    BY <1>4 DEF CanEnter, HasUncommitted
  <2>3. QED
    BY <1>1, <1>4, <2>1, <2>2 DEF Kept, NoPause
<1>5. CASE RebaseWorktree
  <2> DEFINE onto == IF Target(tree) \subseteq head[tree].on THEN head[tree]
                     ELSE [on |-> Target(tree),
                           own |-> Replayed(head[tree], Target(tree))]
  <2>1. wrote[tree] \subseteq Patches(head[tree])
    BY <1>4, <1>5 DEF RebaseWorktree
  <2>2. Patches(head[tree]) \subseteq Patches(onto)
    BY DEF Replayed, Patches
  <2>3. /\ head' = [head EXCEPT ![tree] = onto]
        /\ session' = [session EXCEPT ![tree] = onto]
        /\ UNCHANGED <<files, paused>> /\ paused[tree] = NoPause
    BY <1>5 DEF RebaseWorktree, OnTarget
  <2> HIDE DEF onto, tree
  <2>4. /\ head'[tree] = onto /\ session'[tree] = onto
        /\ \A r \in AllTrees \ {tree} : /\ head'[r] = head[r]
                                        /\ session'[r] = session[r]
    BY <1>1, <2>3 DEF TreesType
  <2>5. QED
    BY <1>1, <2>1, <2>2, <2>3, <2>4 DEF Kept
<1>6. CASE RebaseConflicts
  <2> DEFINE replays == Replayed(head[tree], Target(tree))
  <2>1. wrote[tree] \subseteq Patches(head[tree])
    BY <1>4, <1>6 DEF RebaseConflicts
  <2>2. PICK i \in replays : PausesAt(tree, i, Target(tree), replays)
    BY <1>6 DEF RebaseConflicts
  <2>3. Patches(head[tree]) \subseteq Target(tree) \cup replays
    BY DEF Replayed
  <2>4. replays \subseteq Int
    BY <1>1, RebaseAssumption
    DEF Replayed, Patches, TreesType, History
  <2>5. UNCHANGED <<session, files>>
    BY <1>6 DEF RebaseConflicts
  <2>6. \A j \in replays : j < i \/ j >= i
    BY <2>2, <2>4
  <2> DEFINE onto == Target(tree)
  <2> HIDE DEF replays, onto, tree
  <2>7. /\ head'[tree] = [on |-> onto, own |-> {j \in replays : j < i}]
        /\ paused'[tree].todo = {j \in replays : j >= i}
        /\ \A r \in AllTrees \ {tree} : /\ head'[r] = head[r]
                                        /\ paused'[r] = paused[r]
    BY <1>1, <2>2 DEF PausesAt, TreesType, onto
  <2>8. wrote[tree] \subseteq Patches(head'[tree]) \cup paused'[tree].todo
    BY <2>1, <2>3, <2>6, <2>7 DEF Patches, onto
  <2>9. QED
    BY <1>1, <2>5, <2>7, <2>8 DEF Kept
<1>7. ASSUME NEW starts \in BOOLEAN, Resumed(starts)
      PROVE  Kept'
  <2>1. \A r \in AllTrees :
          paused[r] = NoPause /\ paused'[r] = NoPause /\ NoPause.todo = {}
    BY <1>7 DEF Resumed, CanResume, NoPause
  <2>2. \A r \in AllTrees : head[r] = session[r]
    <3>1. isolated = {}
      BY <1>1, <1>7 DEF Resumed, CanResume, GuestsAside
    <3>2. QED
      BY <1>1, <2>1, <3>1 DEF OnBranch
  <2>3. \A r \in AllTrees :
          Patches(session'[r]) = Patches(session[r]) \cup files[r]
    <3>1. ASSUME NEW r \in AllTrees
          PROVE  Patches(Checkpointed(r)) = Patches(session[r]) \cup files[r]
      BY <1>1 DEF Checkpointed, Patches, TreesType, History
    <3>2. QED
      BY <1>7, <3>1 DEF Resumed
  <2>4. QED
    BY <1>1, <2>1, <2>2, <2>3 DEF Kept
<1>8. QED
  BY <1>2, <1>3, <1>5, <1>6, <1>7
  DEF RebaseCommand, AskToRebase, AnswerRebase, StopMachine, StopContainer,
      ImportRewritten, RebaseRefused, RebaseDone, RestartMachine,
      ResumeMachine, CommandDies

\* A worktree that had its turn stays on its target.
LEMMA DoneStaysStep ==
  ASSUME RebaseInv, RebaseCommand
  PROVE  DoneStays'
<1> DEFINE tree == rebase.tree
<1> USE DEF RebaseAt
<1>1. /\ RebaseTypes /\ TreesType /\ CommandType /\ GuestsAside
      /\ TargetsStand /\ DoneStays /\ tree \in AllTrees
  BY DEF RebaseInv, RebaseTypes, CommandType, Command
<1>2. ASSUME rebase'.succeeded = FALSE, rebase'.at \notin {"rebase", "restart"}
      PROVE  DoneStays'
  BY <1>2 DEF DoneStays, HadTurn
<1>3. ASSUME NEW onto \in AllBranches \cup {"none"}, AskToRebase(onto)
      PROVE  DoneStays'
  BY <1>1, <1>2, <1>3, AskIs
<1>4. rebase.at # "idle" => ~rebase.succeeded
  BY <1>1 DEF DoneStays
<1>5. rebase'.at = "rebase" /\ rebase'.tree = 1 /\ ~rebase'.succeeded
        => DoneStays'
  BY TreeFacts DEF DoneStays, HadTurn
<1>6. CASE AnswerRebase /\ ~CommandEnds
  BY <1>1, <1>2, <1>4, <1>5, <1>6, AnswerIs
  DEF AnswerRebase, GuestsAside, CommandType, Command
<1>7. CASE StopMachine
  BY <1>2, <1>7, StopIs
<1>8. CASE StopContainer
  BY <1>1, <1>2, <1>4, <1>8, StoppedIs DEF StopContainer, CommandType, Command
<1>9. CASE ImportAndRestore
  <2>1. rebase.at = "import" /\ ~rebase.succeeded
    BY <1>4, <1>9 DEF ImportAndRestore
  <2>2. CASE NextTree("rebase")
    <3>1. rebase'.succeeded = FALSE
      BY <1>1, <2>1, <2>2, NextTreeIs, StageNames DEF CommandType, Command
    <3>2. QED
      BY <1>1, <1>2, <1>5, <2>1, <2>2, <3>1, NextTreeIs, StageNames
  <2>3. QED
    BY <1>2, <1>9, <2>2, EndIs DEF ImportAndRestore, Restored
<1>10. CASE RebaseWorktree
  <2> DEFINE onto == IF Target(tree) \subseteq head[tree].on THEN head[tree]
                     ELSE [on |-> Target(tree),
                           own |-> Replayed(head[tree], Target(tree))]
  <2>1. /\ rebase.at = "rebase" /\ ~rebase.succeeded /\ NextTree("restart")
        /\ paused[tree] = NoPause /\ UNCHANGED paused
        /\ session' = [session EXCEPT ![tree] = onto]
    BY <1>4, <1>10 DEF RebaseWorktree, OnTarget
  <2>2. Target(tree) \subseteq onto.on
    OBVIOUS
  <2>3. rebase.shown[tree] \subseteq Target(tree)
    BY <1>1, <2>1 DEF TargetsStand, Target
  <2> HIDE DEF onto, tree
  <2>4. /\ session'[tree] = onto
        /\ \A r \in AllTrees \ {tree} : session'[r] = session[r]
    BY <1>1, <2>1 DEF TreesType
  <2>5. /\ rebase'.succeeded = rebase.succeeded
        /\ rebase'.shown = rebase.shown
        /\ \/ tree < Worktrees /\ rebase'.tree = tree + 1
                /\ rebase'.at = "rebase"
           \/ tree = Worktrees /\ rebase'.tree = 1 /\ rebase'.at = "restart"
    BY <1>1, <2>1, NextTreeIs, StageNames DEF tree
  <2>6. ASSUME NEW r \in AllTrees, HadTurn(r)'
        PROVE  /\ paused'[r] = NoPause
               /\ rebase'.shown[r] \subseteq session'[r].on
    <3>1. r \in Int /\ tree \in Int /\ Worktrees \in Int /\ r <= Worktrees
      BY <1>1, TreeFacts
    <3>2. r = tree \/ r < tree
      BY <2>1, <2>5, <2>6, <3>1 DEF HadTurn
    <3>3. CASE r = tree
      BY <2>1, <2>2, <2>3, <2>4, <2>5, <3>3
    <3>4. CASE r < tree
      <4>1. HadTurn(r)
        BY <2>1, <3>4 DEF HadTurn, tree
      <4>2. r # tree
        BY <3>1, <3>4
      <4>3. QED
        BY <1>1, <2>1, <2>4, <2>5, <4>1, <4>2 DEF DoneStays
    <3>5. QED
      BY <3>2, <3>3, <3>4
  <2>7. ~rebase'.succeeded
    BY <2>1, <2>5
  <2>8. QED
    BY <2>6, <2>7 DEF DoneStays
<1>11. ASSUME rebase.at = "restart", RebaseSucceeds,
              UNCHANGED paused,
              \A r \in AllTrees : session'[r].on = session[r].on,
              rebase.running => working'
       PROVE  DoneStays'
  BY <1>1, <1>11, SuccessIs DEF DoneStays, HadTurn
<1>12. ASSUME Resumed(TRUE), RebaseSucceeds, rebase.at = "restart"
       PROVE  DoneStays'
  <2>1. UNCHANGED paused /\ working'
    BY <1>12 DEF Resumed
  <2>2. \A r \in AllTrees : session'[r].on = session[r].on
    BY <1>1, <1>12 DEF Resumed, Checkpointed, TreesType, History
  <2>3. QED
    BY <1>11, <1>12, <2>1, <2>2
<1>13. CASE RestartMachine
  BY <1>2, <1>12, <1>13, EndIs DEF RestartMachine
<1>14. CASE RebaseDone
  BY <1>11, <1>14 DEF RebaseDone, rebaseTrees
<1>15. CASE CommandEnds
  BY <1>2, <1>15, EndIs
<1>16. QED
  BY <1>3, <1>6, <1>7, <1>8, <1>9, <1>10, <1>13, <1>14, <1>15
  DEF RebaseCommand, AnswerRebase, ImportRewritten, RebaseConflicts,
      RebaseRefused, ResumeMachine, CommandDies

-----------------------------------------------------------------------------
(***************************************************************************)
(* What goes on meanwhile                                                  *)
(***************************************************************************)

\* The guest works in its worktrees, and a user in those that are back.
LEMMA MeanwhileFrame ==
  ASSUME RebaseInv, NEW r \in AllTrees, Meanwhile(r)
  PROVE  /\ RebaseTypes /\ TreesType
         /\ UNCHANGED <<rebaseGuest, rebase>>
         /\ \A s \in AllTrees \ {r} :
              /\ head'[s] = head[s] /\ session'[s] = session[s]
              /\ files'[s] = files[s] /\ paused'[s] = paused[s]
              /\ wrote'[s] = wrote[s]
<1>1. RebaseTypes /\ TreesType /\ MadeType
  BY DEF RebaseInv, RebaseTypes
<1>2. UNCHANGED <<rebaseGuest, rebase>>
  BY DEF Meanwhile, TreeEdited, TreeCommitted, AgentAmendsCommit, HostMoves,
         HostSwitches, ConflictResolved, RebaseContinued, RebaseAborted
<1>3. ASSUME NEW s \in AllTrees \ {r}
      PROVE  /\ head'[s] = head[s] /\ session'[s] = session[s]
             /\ files'[s] = files[s] /\ paused'[s] = paused[s]
             /\ wrote'[s] = wrote[s]
  <2> USE DEF TreesType, MadeType
  <2>1. CASE TreeEdited(r)
    BY <1>1, <2>1 DEF TreeEdited
  <2>2. CASE TreeCommitted(r)
    BY <1>1, <2>2 DEF TreeCommitted, rebaseMade
  <2>3. CASE AgentAmendsCommit(r)
    BY <1>1, <2>3 DEF AgentAmendsCommit
  <2>4. CASE HostMoves(r)
    BY <1>1, <2>4 DEF HostMoves, rebaseTrees
  <2>5. CASE \E b \in HostBranches[r] \cup {"none"} : HostSwitches(r, b)
    BY <1>1, <2>5 DEF HostSwitches, rebaseTrees, rebaseMade
  <2>6. CASE ConflictResolved(r)
    BY <1>1, <2>6 DEF ConflictResolved
  <2>7. CASE RebaseContinued(r)
    BY <1>1, <2>7 DEF RebaseContinued, OnTarget, rebaseMade
  <2>8. CASE RebaseAborted(r)
    BY <1>1, <2>8 DEF RebaseAborted
  <2>9. QED
    BY <2>1, <2>2, <2>3, <2>4, <2>5, <2>6, <2>7, <2>8 DEF Meanwhile
<1>4. QED
  BY <1>1, <1>2, <1>3

LEMMA MeanwhileTargets ==
  ASSUME RebaseInv, NEW r \in AllTrees, Meanwhile(r)
  PROVE  GuestsAside' /\ TargetsStand'
<1>1. UNCHANGED <<rebaseGuest, rebase>> /\ GuestsAside /\ TargetsStand
  BY MeanwhileFrame DEF RebaseInv
<1>2. GuestsAside'
  BY <1>1 DEF GuestsAside, rebaseGuest, RebaseAt
<1>3. \A s \in AllTrees : \A b \in HostBranches[s] : tip[s][b] \subseteq tip'[s][b]
  <2>1. CASE HostMoves(r)
    BY <2>1 DEF HostMoves, RebaseInv, RebaseTypes, HostType, TipType
  <2>2. CASE UNCHANGED tip
    BY <2>2
  <2>3. QED
    BY <2>1, <2>2
    DEF Meanwhile, TreeEdited, TreeCommitted, AgentAmendsCommit,
        HostSwitches, ConflictResolved, RebaseContinued, RebaseAborted,
        rebaseHost
<1>4. TargetsStand'
  <2>1. ASSUME rebase.at \in {"asked", "stop", "import", "rebase"},
               rebase.purpose = "rebase", NEW s \in AllTrees
        PROVE  /\ rebase.targets[s] \in HostBranches[s]
               /\ rebase.shown[s] \subseteq tip'[s][rebase.targets[s]]
    <3>1. /\ rebase.targets[s] \in HostBranches[s]
          /\ rebase.shown[s] \subseteq tip[s][rebase.targets[s]]
      BY <1>1, <2>1 DEF TargetsStand
    <3>2. QED
      BY <1>3, <3>1
  <2>2. QED
    BY <1>1, <2>1 DEF TargetsStand
<1>5. QED
  BY <1>2, <1>4

\* For one worktree, what is claimed of it.
OnBranchIn(r) ==
  /\ r \in isolated => paused[r] = NoPause
  /\ r \notin isolated /\ paused[r] = NoPause => head[r] = session[r]

KeptIn(r) ==
  /\ wrote[r] \subseteq files[r] \cup Patches(head[r])
                          \cup Patches(session[r]) \cup paused[r].todo
  /\ paused[r] # NoPause =>
       wrote[r] \subseteq files[r] \cup Patches(head[r]) \cup paused[r].todo

\* What has been on a branch stays there, and a rebase does not stop in a
\* worktree where none did.
StaysIn(r) ==
  paused[r] = NoPause =>
    /\ paused'[r] = NoPause
    /\ session[r].on \subseteq session'[r].on

LEMMA MeanwhileHere ==
  ASSUME RebaseInv, NEW r \in AllTrees, Meanwhile(r)
  PROVE  OnBranchIn(r)' /\ KeptIn(r)' /\ StaysIn(r)
<1>1. /\ RebaseTypes /\ TreesType /\ MadeType /\ GuestsAside
      /\ OnBranchIn(r) /\ KeptIn(r) /\ UNCHANGED <<isolated, working>>
      /\ isolated \subseteq AllTrees
      /\ head[r] \in History /\ session[r] \in History
      /\ wrote[r] \in SUBSET (1 .. Items)
  BY MeanwhileFrame
  DEF RebaseInv, RebaseTypes, OnBranch, Kept, OnBranchIn, KeptIn, rebaseGuest,
      GuestType, TreesType, MadeType, SomeItems
<1> USE DEF OnBranchIn, KeptIn, StaysIn
<1>2. CASE TreeEdited(r)
  <2>1. /\ files'[r] = files[r] \cup {made'}
        /\ wrote'[r] = wrote[r] \cup {made'}
        /\ UNCHANGED <<session, head, paused>>
    BY <1>1, <1>2 DEF TreeEdited, TreesType, MadeType
  <2>2. QED
    BY <1>1, <2>1
<1>3. CASE TreeCommitted(r)
  <2> DEFINE new == [head[r] EXCEPT !.own = @ \cup files[r]]
  <2>1. /\ Patches(new) = Patches(head[r]) \cup files[r]
        /\ new.on = head[r].on
    BY <1>1 DEF Patches, History
  <2>2. /\ head' = [head EXCEPT ![r] = new]
        /\ session' = IF r \in isolated \/ paused[r] # NoPause THEN session
                      ELSE [session EXCEPT ![r] = new]
        /\ files' = [files EXCEPT ![r] = {}]
        /\ UNCHANGED <<paused, wrote>>
    BY <1>3 DEF TreeCommitted, rebaseMade
  <2> HIDE DEF new
  <2>3. head'[r] = new /\ files'[r] = {}
    BY <1>1, <2>2 DEF TreesType
  <2>4. CASE r \in isolated \/ paused[r] # NoPause
    BY <1>1, <2>1, <2>2, <2>3, <2>4
  <2>5. CASE r \notin isolated /\ paused[r] = NoPause
    <3>1. session'[r] = new /\ head[r] = session[r]
      BY <1>1, <2>2, <2>5 DEF TreesType
    <3>2. QED
      BY <1>1, <2>1, <2>2, <2>3, <2>5, <3>1
  <2>6. QED
    BY <2>4, <2>5
<1>4. CASE AgentAmendsCommit(r)
  <2>1. r \in isolated /\ paused[r] = NoPause
    BY <1>1, <1>4 DEF AgentAmendsCommit, GuestsAside
  <2>2. PICK i \in head[r].own :
          /\ head' = [head EXCEPT ![r].own = (@ \ {i}) \cup {made'}]
          /\ wrote' = [wrote EXCEPT ![r] = (@ \ {i}) \cup {made'}]
    BY <1>4 DEF AgentAmendsCommit
  <2>3. UNCHANGED <<session, files, paused>>
    BY <1>4 DEF AgentAmendsCommit
  <2>4. wrote'[r] = (wrote[r] \ {i}) \cup {made'}
    BY <1>1, <2>2 DEF MadeType
  <2>5. head'[r].on = head[r].on /\ head'[r].own = (head[r].own \ {i}) \cup {made'}
    BY <1>1, <2>2 DEF TreesType, History
  <2>6. QED
    BY <1>1, <2>1, <2>3, <2>4, <2>5 DEF Patches
<1>5. CASE ConflictResolved(r)
  <2> DEFINE i == CHOOSE j \in paused[r].todo :
                    \A k \in paused[r].todo : j <= k
  <2>1. /\ paused' = [paused EXCEPT ![r] =
                        [stage |-> "stopped", todo |-> @.todo \ {i}]]
        /\ \/ files' = [files EXCEPT ![r] = @ \cup {i}] /\ UNCHANGED wrote
           \/ wrote' = [wrote EXCEPT ![r] = @ \ {i}] /\ UNCHANGED files
        /\ UNCHANGED <<session, head>>
        /\ paused[r].stage = "conflict"
    BY <1>5 DEF ConflictResolved
  <2> HIDE DEF i
  <2>2. paused[r] # NoPause
    BY <2>1 DEF NoPause
  <2>3. /\ paused'[r].todo = paused[r].todo \ {i}
        /\ paused'[r] # NoPause
    BY <1>1, <2>1 DEF TreesType, NoPause
  <2>4. \/ files'[r] = files[r] \cup {i} /\ UNCHANGED wrote
        \/ wrote'[r] = wrote[r] \ {i} /\ UNCHANGED files
    BY <1>1, <2>1 DEF TreesType, MadeType
  <2>5. QED
    BY <1>1, <2>1, <2>2, <2>3, <2>4
<1>6. CASE RebaseContinued(r)
  <2> DEFINE new == [head[r] EXCEPT !.own = @ \cup files[r]]
             todo == paused[r].todo
  <2>1. paused[r] # NoPause /\ r \notin isolated
    <3>1. paused[r].stage # NoPause.stage
      BY <1>6 DEF RebaseContinued, NoPause
    <3>2. QED
      BY <1>1, <3>1
  <2>2. files'[r] = {} /\ UNCHANGED wrote
    BY <1>1, <1>6 DEF RebaseContinued, TreesType, rebaseMade
  <2>3. ASSUME NEW part \in SUBSET todo
        PROVE  Patches([new EXCEPT !.own = @ \cup part])
                 = Patches(head[r]) \cup files[r] \cup part
    BY <1>1 DEF Patches, History
  <2>4. CASE OnTarget(r, [new EXCEPT !.own = @ \cup todo])
             /\ paused' = [paused EXCEPT ![r] = NoPause]
    <3> DEFINE done == [new EXCEPT !.own = @ \cup todo]
    <3>1. Patches(done) = Patches(head[r]) \cup files[r] \cup todo
      BY <2>3
    <3>2. OnTarget(r, done)
      BY <2>4
    <3> HIDE DEF done
    <3>3. head'[r] = done /\ session'[r] = done /\ paused'[r] = NoPause
      BY <1>1, <2>4, <3>2 DEF OnTarget, TreesType
    <3>4. QED
      BY <1>1, <2>1, <2>2, <3>1, <3>3
  <2>5. ASSUME NEW i \in todo,
               head' = [head EXCEPT ![r] =
                          [new EXCEPT !.own = @ \cup {j \in todo : j < i}]],
               paused' = [paused EXCEPT ![r] =
                            [stage |-> "conflict",
                             todo |-> {j \in @.todo : j >= i}]],
               UNCHANGED session
        PROVE  OnBranchIn(r)' /\ KeptIn(r)' /\ StaysIn(r)
    <3> DEFINE some == [new EXCEPT !.own = @ \cup {j \in todo : j < i}]
    <3>1. todo \subseteq Int
      BY <1>1, RebaseAssumption DEF TreesType, Pause, NoPause, SomeItems
    <3>2. \A j \in todo : j < i \/ j >= i
      BY <3>1
    <3>3. Patches(some)
            = Patches(head[r]) \cup files[r] \cup {j \in todo : j < i}
      BY <2>3
    <3>4. head' = [head EXCEPT ![r] = some]
      BY <2>5
    <3> HIDE DEF some
    <3>5. /\ head'[r] = some /\ paused'[r] # NoPause
          /\ paused'[r].todo = {j \in todo : j >= i}
      BY <1>1, <2>5, <3>4 DEF TreesType, NoPause
    <3>6. wrote'[r] \subseteq Patches(head'[r]) \cup paused'[r].todo
      BY <1>1, <2>1, <2>2, <3>2, <3>3, <3>5
    <3>7. QED
      BY <1>1, <2>1, <2>5, <3>5, <3>6
  <2>6. QED
    BY <1>6, <2>4, <2>5 DEF RebaseContinued
<1>7. CASE RebaseAborted(r)
  <2>1. paused[r] # NoPause
    BY <1>7 DEF RebaseAborted
  <2>2. /\ head'[r] = session[r] /\ paused'[r] = NoPause
        /\ wrote'[r] = wrote[r] \cap Patches(session[r])
        /\ UNCHANGED session
    BY <1>1, <1>7 DEF RebaseAborted, TreesType, MadeType
  <2>3. QED
    BY <1>1, <2>1, <2>2
<1>8. CASE UNCHANGED <<rebaseTrees, wrote>>
  BY <1>1, <1>8 DEF rebaseTrees
<1>9. QED
  BY <1>2, <1>3, <1>4, <1>5, <1>6, <1>7, <1>8
  DEF Meanwhile, HostMoves, HostSwitches, rebaseMade

LEMMA MeanwhileInv ==
  ASSUME RebaseInv, NEW r \in AllTrees, Meanwhile(r)
  PROVE  RebaseInv'
<1>1. /\ OnBranch /\ Kept /\ DoneStays
      /\ UNCHANGED <<isolated, working, rebase>>
  BY MeanwhileFrame DEF RebaseInv, rebaseGuest
<1>2. \A s \in AllTrees : OnBranchIn(s)' /\ KeptIn(s)' /\ StaysIn(s)
  <2>1. ASSUME NEW s \in AllTrees \ {r}
        PROVE  OnBranchIn(s)' /\ KeptIn(s)' /\ StaysIn(s)
    <3>1. OnBranchIn(s) /\ KeptIn(s)
      BY <1>1 DEF OnBranch, Kept, OnBranchIn, KeptIn
    <3>2. QED
      BY <1>1, <3>1, MeanwhileFrame DEF OnBranchIn, KeptIn, StaysIn
  <2>2. QED
    BY <2>1, MeanwhileHere
<1>3. OnBranch' /\ Kept'
  BY <1>2 DEF OnBranch, Kept, OnBranchIn, KeptIn
<1>4. DoneStays'
  <2>1. ASSUME NEW s \in AllTrees, HadTurn(s)
        PROVE  /\ paused'[s] = NoPause
               /\ rebase.shown[s] \subseteq session'[s].on
    BY <1>1, <1>2, <2>1 DEF DoneStays, StaysIn
  <2>2. QED
    BY <1>1, <2>1 DEF DoneStays, HadTurn, RebaseAt
<1>5. RebaseTypes'
  BY MeanwhileTypes, MeanwhileTrees DEF RebaseInv, RebaseTypes
<1>6. QED
  BY <1>3, <1>4, <1>5, MeanwhileTargets DEF RebaseInv

LEMMA RebaseInvStep == RebaseInv /\ [RebasesNext]_rebaseVars => RebaseInv'
<1> SUFFICES ASSUME RebaseInv, [RebasesNext]_rebaseVars
             PROVE  RebaseInv'
  OBVIOUS
<1>1. CASE RebaseCommand
  BY <1>1, GuestsAsideStep, OnBranchStep, KeptStep, TargetsStandStep,
     DoneStaysStep, RebaseTypesStep
  DEF RebaseInv, RebasesNext
<1>2. CASE \E r \in AllTrees : Meanwhile(r)
  BY <1>2, MeanwhileInv
<1>3. CASE UNCHANGED rebaseVars
  <2>1. RebaseTypes'
    BY RebaseTypesStep DEF RebaseInv
  <2>2. QED
    BY <1>3, <2>1
    DEF RebaseInv, GuestsAside, OnBranch, Kept, TargetsStand, DoneStays,
        HadTurn, RebaseAt, rebaseVars, rebaseHost, rebaseTrees,
        rebaseGuest, rebaseMade
<1>4. QED
  BY <1>1, <1>2, <1>3 DEF RebasesNext

(* Wherever a rebase of a session's worktrees is interrupted, refused or   *)
(* paused, and whatever agent, user and hosts do meanwhile: nothing that   *)
(* was written is lost, no guest runs while its worktrees are rebased, and *)
(* success is only reported when all branches are on the tips that were    *)
(* shown.                                                                  *)
THEOREM RebaseLosesNothing == RebasesSpec => []RebaseKeepsWork
<1>1. RebaseInv => RebaseKeepsWork
  <2> SUFFICES ASSUME RebaseInv PROVE RebaseKeepsWork
    OBVIOUS
  <2>1. \A r \in AllTrees :
          wrote[r] \subseteq files[r] \cup Patches(head[r])
                               \cup Patches(session[r]) \cup paused[r].todo
    BY DEF RebaseInv, Kept
  <2>2. RebaseAt("rebase") => ~working /\ isolated = {}
    BY DEF RebaseInv, GuestsAside, RebaseAt
  <2>3. rebase.succeeded =>
          /\ \A r \in AllTrees : rebase.shown[r] \subseteq session[r].on
          /\ rebase.running => working
    BY DEF RebaseInv, DoneStays, HadTurn
  <2>4. QED
    BY <2>1, <2>2, <2>3 DEF RebaseKeepsWork
<1>2. RebasesSpec => []RebaseInv
  BY RebaseInvInit, RebaseInvStep, PTL DEF RebasesSpec
<1>3. QED
  BY <1>1, <1>2, PTL
=============================================================================
