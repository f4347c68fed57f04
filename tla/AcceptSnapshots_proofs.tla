----------------------- MODULE AcceptSnapshots_proofs -----------------------
(***************************************************************************)
(* Proofs about AcceptSnapshots, for any number of commands, repositories, *)
(* patches and stashes: types; host branches only move forward whatever    *)
(* interleaves; and for one invocation at a time, with a user who leaves   *)
(* the checkout alone where git gives nothing to protect it with: no work  *)
(* of the user is lost, no acceptance stops between two fast-forwards, and *)
(* a success is a complete one.                                            *)
(***************************************************************************)
EXTENDS AcceptSnapshots, FiniteSetTheorems, TLAPS

\* What one invocation does.
CommandWork(p) ==
  \/ \E c \in Invoked, r \in Repos, o \in Options : Begin(p, c, r, o)
  \/ Step(p)
  \/ Killed(p)

LEMMA NextIsWork ==
  Next => \/ \E p \in Commands : CommandWork(p)
          \/ \E r \in Repos : UserWork(r)
          \/ \E r \in Repos : AgentWork(r)
BY DEF Next, CommandWork

-----------------------------------------------------------------------------
(***************************************************************************)
(* Type correctness.  The loops stay between the first and the last        *)
(* repository of an invocation, else the next one would not be a           *)
(* repository.                                                             *)
(***************************************************************************)
InRange ==
  \A p \in Commands :
    proc[p].first <= proc[p].cur /\ proc[p].cur <= proc[p].last

ProcType == proc \in [Commands -> ProcessState] /\ InRange

CheckoutType ==
  /\ host \in [Repos -> SUBSET Patch]
  /\ dirty \in [Repos -> SUBSET Patch]
  /\ stash \in [Repos -> SUBSET Stash]
  /\ \A r \in Repos : IsFiniteSet(stash[r])
  /\ merging \in [Repos -> Merge]
  /\ onTarget \in [Repos -> BOOLEAN]

BoxType ==
  /\ session \in [Repos -> SUBSET Patch]
  /\ guest \in [Repos -> SUBSET Patch]
  /\ worktree \in [Repos -> SUBSET Patch]
  /\ blocked \in [Repos -> BOOLEAN]

CountType ==
  /\ written \in [Repos -> SUBSET Patch]
  /\ made \in Nat
  /\ stashed \in Nat
  /\ troubles \in Nat
  /\ faults \in Nat

TypeInv == ProcType /\ CheckoutType /\ BoxType /\ CountType

LEMMA TypeInvIsTypeOK == TypeInv => TypeOK
BY DEF TypeInv, ProcType, CheckoutType, BoxType, CountType, TypeOK

LEMMA PhaseNames ==
  {"idle", "offer", "ask", "confirm", "validate", "checkpoint", "import",
   "target", "stash", "note", "preflight", "move", "apply", "find", "drop",
   "touch", "select", "review", "conclude"} \subseteq Phases
BY DEF Phases

LEMMA RepoFacts ==
  /\ RepoCount \in Nat /\ RepoCount >= 1
  /\ 1 \in Repos /\ RepoCount \in Repos
  /\ \A r \in Repos : r \in Int /\ 1 <= r /\ r <= RepoCount
  /\ \A r, s \in Repos : r < s => r + 1 \in Repos
BY RepoCountAssumption DEF Repos

LEMMA NoStashIsStash == NoStash \in Stash
BY DEF NoStash, Stash, Patch

LEMMA IdleIsState ==
  /\ Idle \in ProcessState
  /\ Idle.first <= Idle.cur /\ Idle.cur <= Idle.last
  /\ Idle.pc = "idle" /\ Idle.options = {}
  /\ \A r \in Repos : Idle.saved[r] = NoStash
BY RepoFacts, NoStashIsStash, PhaseNames
DEF Idle, ProcessState, CommandNames, Phases

\* A turn of a loop keeps what is known of the repositories it goes over.
LEMMA TurnKeepsType ==
  ASSUME NEW procs \in [Commands -> ProcessState], NEW p \in Commands,
         \A q \in Commands : procs[q].first <= procs[q].cur
                              /\ procs[q].cur <= procs[q].last,
         NEW phase \in Phases, NEW following \in Phases,
         proc' = Turn(procs, p, phase, following)
  PROVE  ProcType'
<1> DEFINE x == procs[p]
<1>1. /\ x \in ProcessState /\ x.first \in Repos
      /\ x.cur \in Repos /\ x.last \in Repos
  BY DEF ProcessState
<1>2. /\ x.first \in Int /\ x.cur \in Int /\ x.last \in Int
      /\ x.first <= x.cur /\ x.cur <= x.last
  BY <1>1, RepoFacts
<1>3. CASE x.cur = x.last
  <2> DEFINE y == [x EXCEPT !.pc = following, !.cur = x.first]
  <2>1. proc' = [procs EXCEPT ![p] = y]
    BY <1>3 DEF Turn
  <2>2. y \in ProcessState
    BY <1>1 DEF ProcessState
  <2>3. y.first = x.first /\ y.cur = x.first /\ y.last = x.last
    BY <1>1 DEF ProcessState
  <2>4. y.first <= y.cur /\ y.cur <= y.last
    BY <1>2, <2>3
  <2> HIDE DEF y
  <2>5. QED
    BY <2>1, <2>2, <2>4 DEF ProcType, InRange
<1>4. CASE x.cur # x.last
  <2> DEFINE y == [x EXCEPT !.pc = phase, !.cur = @ + 1]
  <2>1. proc' = [procs EXCEPT ![p] = y]
    BY <1>4 DEF Turn
  <2>2. x.cur < x.last
    BY <1>2, <1>4
  <2>3. x.cur + 1 \in Repos
    BY <1>1, <2>2, RepoFacts
  <2>4. y \in ProcessState
    BY <1>1, <2>3 DEF ProcessState
  <2>5. y.first = x.first /\ y.cur = x.cur + 1 /\ y.last = x.last
    BY <1>1 DEF ProcessState
  <2>6. y.first <= y.cur /\ y.cur <= y.last
    BY <1>2, <2>2, <2>5
  <2> HIDE DEF y
  <2>7. QED
    BY <2>1, <2>4, <2>6 DEF ProcType, InRange
<1>5. QED
  BY <1>3, <1>4

LEMMA MovesKeepType ==
  ASSUME ProcType, NEW p \in Commands
  PROVE  /\ \A phase \in Phases : Goes(p, phase) => ProcType'
         /\ Ends(p) => ProcType'
         /\ \A phase, following \in Phases :
              NextRepo(p, phase, following) => ProcType'
<1> USE DEF ProcType, InRange
<1>1. \A phase \in Phases : Goes(p, phase) => ProcType'
  BY DEF Goes, ProcessState
<1>2. Ends(p) => ProcType'
  BY IdleIsState DEF Ends
<1>3. ASSUME NEW phase \in Phases, NEW following \in Phases,
             NextRepo(p, phase, following)
      PROVE  ProcType'
  BY <1>3, TurnKeepsType DEF NextRepo
<1>4. QED
  BY <1>1, <1>2, <1>3

LEMMA NamesAreOurs ==
  /\ \A c \in Invoked : c \in CommandNames
  /\ \A o \in Options : o \subseteq OptionNames
  /\ "merge" \in OptionNames /\ "all" \in CommandNames
BY BoundsAssumption DEF CommandNames, OptionNames

\* The place of a stash in a list is a number: the list is finite.
LEMMA PlaceIsNat ==
  ASSUME NEW r, NEW e, IsFiniteSet(stash[r])
  PROVE  Place(r, e) \in Nat
<1>1. IsFiniteSet({f \in stash[r] : f.id > e.id})
  BY FS_Subset
<1>2. QED
  BY <1>1, FS_CardinalityType DEF Place

LEMMA ProcTypeStep ==
  ASSUME TypeInv, NEW p \in Commands, CommandWork(p)
  PROVE  ProcType'
<1> USE PhaseNames, MovesKeepType
<1> USE DEF TypeInv
<1>1. ASSUME NEW c \in Invoked, NEW r \in Repos, NEW o \in Options,
             Begin(p, c, r, o)
      PROVE  ProcType'
  <2> DEFINE start == [Idle EXCEPT
                   !.cmd = c, !.options = o,
                   !.first = IF c = "all" THEN 1 ELSE r,
                   !.cur = IF c = "all" THEN 1 ELSE r,
                   !.last = IF c = "all" THEN RepoCount ELSE r,
                   !.pc = CASE c \in {"continue", "abort"} -> "select"
                            [] c = "one" /\ "merge" \notin o -> "offer"
                            [] OTHER -> "confirm"]
  <2>1. proc' = [proc EXCEPT ![p] = start]
    BY <1>1 DEF Begin
  <2>2. start \in ProcessState
    BY IdleIsState, RepoFacts, NamesAreOurs DEF ProcessState
  <2>3. start.first <= start.cur /\ start.cur <= start.last
    BY IdleIsState, RepoFacts DEF ProcessState
  <2> HIDE DEF start
  <2>4. QED
    BY <2>1, <2>2, <2>3 DEF ProcType, InRange
<1>2. CASE AskSteps(p)
  <2>1. ASSUME proc' = [proc EXCEPT ![p].options = @ \cup {"merge"},
                                    ![p].pc = "confirm"]
        PROVE  ProcType'
    BY <2>1, NamesAreOurs DEF ProcType, InRange, ProcessState
  <2>2. QED
    BY <1>2, <2>1 DEF AskSteps, OfferImport, AskMerge, Confirm
<1>3. CASE PrepareSteps(p)
  <2>1. CASE NoteStash(p)
    <3>1. PICK e \in stash[Cur(p)] :
            proc' = Turn([proc EXCEPT ![p].saved[Cur(p)] = e],
                         p, "stash", "preflight")
      BY <2>1 DEF NoteStash
    <3>2. Cur(p) \in Repos /\ e \in Stash
      BY <3>1 DEF Cur, ProcType, ProcessState, CheckoutType
    <3> DEFINE noted == [proc EXCEPT ![p].saved[Cur(p)] = e]
    <3>3. /\ noted \in [Commands -> ProcessState]
          /\ \A q \in Commands : /\ noted[q].first = proc[q].first
                                 /\ noted[q].cur = proc[q].cur
                                 /\ noted[q].last = proc[q].last
      BY <3>2 DEF ProcType, ProcessState
    <3>4. proc' = Turn(noted, p, "stash", "preflight")
      BY <3>1
    <3> HIDE DEF noted
    <3>5. QED
      BY <3>3, <3>4, TurnKeepsType DEF ProcType, InRange
  <2>2. CASE StashHost(p) \/ ImportSnapshot(p)
    BY <2>2 DEF StashHost, ImportSnapshot
  <2>3. QED
    BY <1>3, <2>1, <2>2
    DEF PrepareSteps, ValidateCheckpoint, CheckpointWorktree,
        CheckpointFails, ImportRefused, CheckTarget, StashRefused,
        NoteFails, Preflight
<1>4. CASE MoveSteps(p)
  <2>1. CASE FindStash(p)
    <3>1. CASE proc[p].saved[Cur(p)] \in stash[Cur(p)]
      <4> DEFINE e == proc[p].saved[Cur(p)]
      <4>1. Cur(p) \in Repos
        BY DEF Cur, ProcType, ProcessState
      <4>2. Place(Cur(p), e) \in Nat
        BY <4>1, PlaceIsNat DEF CheckoutType
      <4>3. proc' = [proc EXCEPT ![p].pc = "drop",
                                 ![p].place = Place(Cur(p), e)]
        BY <2>1, <3>1 DEF FindStash
      <4> HIDE DEF e
      <4>4. QED
        BY <4>2, <4>3 DEF ProcType, InRange, ProcessState
    <3>2. QED
      BY <3>1, <2>1 DEF FindStash
  <2>2. QED
    BY <1>4, <2>1
    DEF MoveSteps, MoveHost, MoveRefused, MergeConflicts, ApplyStash,
        ApplyConflicts, ApplyRefused, DropStash, Touch
<1>5. CASE RecoverySteps(p)
  BY <1>5
  DEF RecoverySteps, SelectPaused, ReviewMerge, ConcludeMerge,
      ConcludeCancelled
<1>6. CASE Killed(p)
  BY <1>6 DEF Killed
<1>7. QED
  BY <1>1, <1>2, <1>3, <1>4, <1>5, <1>6 DEF CommandWork, Step
LEMMA NewStash ==
  ASSUME CheckoutType, CountType, NEW r \in Repos, PushStash(r)
  PROVE  CheckoutType' /\ stashed' \in Nat
<1> DEFINE e == [id |-> stashed', patches |-> dirty[r]]
<1>1. stashed' \in Nat /\ e \in Stash
  BY DEF PushStash, CountType, CheckoutType, Stash
<1>2. stash' = [stash EXCEPT ![r] = @ \cup {e}]
  BY DEF PushStash
<1> HIDE DEF e
<1>3. \A s \in Repos : IsFiniteSet(stash'[s])
  BY <1>2, FS_AddElement DEF CheckoutType
<1>4. stash' \in [Repos -> SUBSET Stash]
  BY <1>1, <1>2 DEF CheckoutType
<1>5. QED
  BY <1>1, <1>3, <1>4
  DEF PushStash, CheckoutType, Merge, NoMerge

\* A list of stashes that only gets shorter.
LEMMA FewerStashes ==
  ASSUME CheckoutType, stash' \in [Repos -> SUBSET Stash],
         \A r \in Repos : stash'[r] \subseteq stash[r]
  PROVE  \A r \in Repos : IsFiniteSet(stash'[r])
BY FS_Subset DEF CheckoutType

LEMMA CheckoutTypeStep ==
  ASSUME TypeInv, NEW p \in Commands, CommandWork(p)
  PROVE  CheckoutType' /\ stashed' \in Nat
<1> USE DEF TypeInv
<1>1. Cur(p) \in Repos /\ proc[p].saved[Cur(p)] \in Stash
  BY DEF Cur, ProcType, ProcessState
<1>2. ASSUME NEW c \in Invoked, NEW r \in Repos, NEW o \in Options,
             Begin(p, c, r, o)
      PROVE  UNCHANGED <<checkout, stashed>>
  BY <1>2 DEF Begin
<1>3. CASE AskSteps(p)
  BY <1>3
  DEF AskSteps, OfferImport, AskMerge, Confirm, checkout, CheckoutType,
      CountType
<1>4. CASE PrepareSteps(p)
  <2>1. CASE StashHost(p)
    BY <2>1, <1>1, NewStash
    DEF StashHost, checkout, CheckoutType, CountType
  <2>2. QED
    BY <1>4, <2>1
    DEF PrepareSteps, ValidateCheckpoint, CheckpointWorktree,
        CheckpointFails, ImportSnapshot, ImportRefused, CheckTarget,
        StashRefused, NoteStash, NoteFails, Preflight, checkout,
        CheckoutType, CountType
<1>5. CASE MoveSteps(p)
  <2>1. CASE DropStash(p)
    <3>1. stash' \in [Repos -> SUBSET Stash]
      BY <2>1 DEF DropStash, CheckoutType
    <3>2. \A r \in Repos : stash'[r] \subseteq stash[r]
      BY <2>1 DEF DropStash, CheckoutType
    <3>3. QED
      BY <3>1, <3>2, <2>1, FewerStashes
      DEF DropStash, CheckoutType, CountType
  <2>2. CASE MergeConflicts(p)
    BY <2>2, <1>1
    DEF MergeConflicts, CheckoutType, BoxType, CountType, Merge
  <2>3. CASE MoveHost(p)
    BY <2>3, <1>1
    DEF MoveHost, Merged, CheckoutType, BoxType, CountType
  <2>4. CASE ApplyStash(p) \/ ApplyConflicts(p)
    BY <2>4, <1>1
    DEF ApplyStash, ApplyConflicts, CheckoutType, CountType, Stash
  <2>5. QED
    BY <1>5, <2>1, <2>2, <2>3, <2>4
    DEF MoveSteps, MoveRefused, ApplyRefused, FindStash, Touch, checkout,
        CheckoutType, CountType
<1>6. CASE RecoverySteps(p)
  <2>1. CASE ConcludeMerge(p)
    BY <2>1, <1>1
    DEF ConcludeMerge, CheckoutType, CountType, Merge, NoMerge
  <2>2. QED
    BY <1>6, <2>1
    DEF RecoverySteps, SelectPaused, ReviewMerge, ConcludeCancelled,
        checkout, CheckoutType, CountType
<1>7. CASE Killed(p)
  BY <1>7 DEF Killed, checkout, CheckoutType, CountType
<1>8. QED
  BY <1>2, <1>3, <1>4, <1>5, <1>6, <1>7
  DEF CommandWork, Step, checkout, CheckoutType, CountType

LEMMA BoxTypeStep ==
  ASSUME TypeInv, NEW p \in Commands, CommandWork(p)
  PROVE  BoxType'
<1> USE DEF TypeInv, BoxType
<1>1. Cur(p) \in Repos
  BY DEF Cur, ProcType, ProcessState
<1>2. CASE Import(p) \/ CheckpointWorktree(p)
  BY <1>1, <1>2 DEF Import, CheckpointWorktree
<1>3. CASE UNCHANGED box
  BY <1>3 DEF box
<1>4. QED
  BY <1>2, <1>3
  DEF CommandWork, Step, Begin, AskSteps, OfferImport, AskMerge, Confirm,
      PrepareSteps, ValidateCheckpoint, CheckpointFails, ImportSnapshot,
      ImportRefused, CheckTarget, StashHost, StashRefused, NoteStash,
      NoteFails, Preflight, MoveSteps, MoveHost, MoveRefused,
      MergeConflicts, ApplyStash, ApplyConflicts, ApplyRefused, FindStash,
      DropStash, Touch, RecoverySteps, SelectPaused, ReviewMerge,
      ConcludeMerge, ConcludeCancelled, Killed, box

LEMMA CountTypeStep ==
  ASSUME TypeInv, NEW p \in Commands, CommandWork(p), stashed' \in Nat
  PROVE  CountType'
<1> USE DEF TypeInv, CountType, bounds
<1>1. CASE MergeConflicts(p) \/ ApplyConflicts(p)
  BY <1>1 DEF MergeConflicts, ApplyConflicts, Trouble
<1>2. CASE Killed(p)
  BY <1>2 DEF Killed
<1>3. CASE UNCHANGED <<written, bounds>>
  BY <1>3
<1>4. QED
  BY <1>1, <1>2, <1>3
  DEF CommandWork, Step, Begin, AskSteps, OfferImport, AskMerge, Confirm,
      PrepareSteps, ValidateCheckpoint, CheckpointWorktree,
      CheckpointFails, ImportSnapshot, ImportRefused, CheckTarget,
      StashHost, StashRefused, NoteStash, NoteFails, Preflight, MoveSteps,
      MoveHost, MoveRefused, ApplyStash, ApplyRefused, FindStash,
      DropStash, Touch, RecoverySteps, SelectPaused, ReviewMerge,
      ConcludeMerge, ConcludeCancelled

LEMMA UserTypeStep ==
  ASSUME TypeInv, NEW r \in Repos, UserWork(r)
  PROVE  TypeInv'
<1> USE DEF TypeInv, bounds
<1>1. ProcType'
  BY DEF UserWork, UserEdits, UserCommits, UserStashes, UserPopsStash,
         UserMergesOther, UserResolves, UserConcludes, UserLeaves,
         UserReturns, ProcType, InRange
<1>2. BoxType'
  BY DEF UserWork, UserEdits, UserCommits, UserStashes, UserPopsStash,
         UserMergesOther, UserResolves, UserConcludes, UserLeaves,
         UserReturns, box, BoxType
<1>3. CASE UserEdits(r)
  BY <1>1, <1>2, <1>3
  DEF UserEdits, Writes, CheckoutType, CountType, Patch
<1>4. CASE UserStashes(r)
  BY <1>1, <1>2, <1>4, NewStash DEF UserStashes, CountType
<1>5. CASE UserPopsStash(r)
  <2>1. PICK e \in stash[r] :
          /\ stash' = [stash EXCEPT ![r] = @ \ {e}]
          /\ dirty' = [dirty EXCEPT ![r] = e.patches]
    BY <1>5 DEF UserPopsStash
  <2>2. e \in Stash
    BY <2>1 DEF CheckoutType
  <2>3. /\ stash' \in [Repos -> SUBSET Stash]
        /\ \A s \in Repos : stash'[s] \subseteq stash[s]
    BY <2>1 DEF CheckoutType
  <2>4. dirty' \in [Repos -> SUBSET Patch]
    BY <2>1, <2>2 DEF CheckoutType, Stash
  <2>5. QED
    BY <1>1, <1>2, <1>5, <2>3, <2>4, FewerStashes
    DEF UserPopsStash, CheckoutType, CountType
<1>6. CASE UserMergesOther(r)
  BY <1>1, <1>2, <1>6
  DEF UserMergesOther, CheckoutType, CountType, Merge, Patch
<1>7. CASE UserResolves(r) \/ UserConcludes(r) \/ UserCommits(r)
  <2>1. CASE UserResolves(r)
    BY <1>1, <1>2, <2>1 DEF UserResolves, CheckoutType, CountType, Merge
  <2>2. CASE UserConcludes(r)
    BY <1>1, <1>2, <2>2
    DEF UserConcludes, CheckoutType, CountType, Merge, NoMerge
  <2>3. CASE UserCommits(r)
    BY <1>1, <1>2, <2>3 DEF UserCommits, CheckoutType, CountType
  <2>4. QED
    BY <1>7, <2>1, <2>2, <2>3
<1>8. CASE UserLeaves(r) \/ UserReturns(r)
  <2>1. onTarget' \in [Repos -> BOOLEAN]
    BY <1>8 DEF UserLeaves, UserReturns, CheckoutType
  <2>2. UNCHANGED <<host, dirty, stash, merging, written, stashed, made,
                    faults>>
    BY <1>8 DEF UserLeaves, UserReturns, Trouble
  <2>3. troubles' \in Nat
    BY <1>8 DEF UserLeaves, UserReturns, Trouble, CountType
  <2>4. QED
    BY <1>1, <1>2, <2>1, <2>2, <2>3 DEF CheckoutType, CountType
<1>9. QED
  BY <1>3, <1>4, <1>5, <1>6, <1>7, <1>8 DEF UserWork

LEMMA AgentTypeStep ==
  ASSUME TypeInv, NEW r \in Repos, AgentWork(r)
  PROVE  TypeInv'
<1>1. UNCHANGED <<checkout, proc, written, stashed>>
  BY DEF AgentWork, AgentEdits, AgentCommits, AgentAmends, AgentRebases,
         AgentFinishesRebase
<1>2. ProcType' /\ CheckoutType'
  BY <1>1 DEF TypeInv, ProcType, InRange, CheckoutType, checkout
<1>3. CountType'
  BY <1>1
  DEF AgentWork, AgentEdits, AgentCommits, AgentAmends, AgentRebases,
      AgentFinishesRebase, Writes, Trouble, bounds, TypeInv, CountType
<1>4. BoxType'
  <2> USE DEF TypeInv, BoxType
  <2>1. CASE AgentEdits(r) \/ AgentAmends(r)
    BY <2>1
    DEF AgentEdits, AgentAmends, Writes, CountType, Patch
  <2>2. CASE AgentCommits(r)
    BY <2>2 DEF AgentCommits
  <2>3. CASE AgentRebases(r) \/ AgentFinishesRebase(r)
    BY <2>3 DEF AgentRebases, AgentFinishesRebase
  <2>4. QED
    BY <2>1, <2>2, <2>3 DEF AgentWork
<1>5. QED
  BY <1>2, <1>3, <1>4 DEF TypeInv

LEMMA TypeInit == Init => TypeInv
<1> SUFFICES ASSUME Init PROVE TypeInv
  OBVIOUS
<1>1. ProcType
  BY IdleIsState DEF Init, ProcType, InRange
<1>2. CheckoutType
  BY FS_EmptySet DEF Init, CheckoutType, Nothing, Merge, NoMerge
<1>3. BoxType /\ CountType
  BY DEF Init, BoxType, CountType, Nothing
<1>4. QED
  BY <1>1, <1>2, <1>3 DEF TypeInv

LEMMA TypeStep == TypeInv /\ [Next]_vars => TypeInv'
<1> SUFFICES ASSUME TypeInv, [Next]_vars PROVE TypeInv'
  OBVIOUS
<1>1. CASE UNCHANGED vars
  BY <1>1
  DEF vars, checkout, box, bounds, TypeInv, ProcType, InRange,
      CheckoutType, BoxType, CountType
<1>2. ASSUME NEW p \in Commands, CommandWork(p)
      PROVE  TypeInv'
  BY <1>2, ProcTypeStep, CheckoutTypeStep, BoxTypeStep, CountTypeStep
  DEF TypeInv
<1>3. QED
  BY <1>1, <1>2, NextIsWork, UserTypeStep, AgentTypeStep

(* Every variable keeps its type and every loop its range, whatever        *)
(* number of invocations, users' and agents' steps interleave.             *)
THEOREM TypeCorrect == Spec => []TypeOK
<1>1. Spec => []TypeInv
  BY TypeInit, TypeStep, PTL DEF Spec
<1>2. QED
  BY <1>1, TypeInvIsTypeOK, PTL

-----------------------------------------------------------------------------
(***************************************************************************)
(* Host branches only move forward                                         *)
(***************************************************************************)
LEMMA CommandKeepsHosts ==
  ASSUME TypeInv, NEW p \in Commands, CommandWork(p)
  PROVE  \A r \in Repos : host[r] \subseteq host'[r]
<1>1. Cur(p) \in Repos
  BY DEF TypeInv, ProcType, Cur, ProcessState
<1>2. CASE MoveHost(p)
  BY <1>1, <1>2 DEF MoveHost, Merged, TypeInv, CheckoutType
<1>3. CASE ConcludeMerge(p)
  BY <1>1, <1>3 DEF ConcludeMerge, TypeInv, CheckoutType
<1>4. CASE UNCHANGED host
  BY <1>4
<1>5. QED
  BY <1>2, <1>3, <1>4
  DEF CommandWork, Step, Begin, AskSteps, OfferImport, AskMerge, Confirm,
      PrepareSteps, ValidateCheckpoint, CheckpointWorktree,
      CheckpointFails, ImportSnapshot, ImportRefused, CheckTarget,
      StashHost, PushStash, StashRefused, NoteStash, NoteFails, Preflight,
      MoveSteps, MoveRefused, MergeConflicts, ApplyStash, ApplyConflicts,
      ApplyRefused, FindStash, DropStash, Touch, RecoverySteps,
      SelectPaused, ReviewMerge, ConcludeCancelled, Killed, checkout

LEMMA UserKeepsHosts ==
  ASSUME TypeInv, NEW s \in Repos, UserWork(s)
  PROVE  \A r \in Repos : host[r] \subseteq host'[r]
<1>1. CASE UserCommits(s) \/ UserConcludes(s)
  BY <1>1 DEF UserCommits, UserConcludes, TypeInv, CheckoutType
<1>2. CASE UNCHANGED host
  BY <1>2
<1>3. QED
  BY <1>1, <1>2
  DEF UserWork, UserEdits, UserStashes, PushStash, UserPopsStash,
      UserMergesOther, UserResolves, UserLeaves, UserReturns

LEMMA AgentIsElsewhere ==
  ASSUME NEW r \in Repos, AgentWork(r)
  PROVE  UNCHANGED <<checkout, session, proc, written, stashed>>
BY DEF AgentWork, AgentEdits, AgentCommits, AgentAmends, AgentRebases,
       AgentFinishesRebase

LEMMA HostsStep ==
  TypeInv /\ [Next]_vars => \A r \in Repos : host[r] \subseteq host'[r]
BY NextIsWork, CommandKeepsHosts, UserKeepsHosts, AgentIsElsewhere
DEF vars, checkout

(* No commit of a host branch is ever taken off it, by no interleaving of  *)
(* acceptances, recoveries and the user's own work.                        *)
THEOREM HostsOnlyMoveForward == Spec => HostsMoveForward
<1>1. TypeInv /\ [Next]_vars
        => [\A r \in Repos : host[r] \subseteq host'[r]]_vars
  BY HostsStep
<1>2. QED
  BY <1>1, TypeInit, TypeStep, PTL DEF Spec, HostsMoveForward

-----------------------------------------------------------------------------
(***************************************************************************)
(* How an invocation moves, field by field                                 *)
(***************************************************************************)
SameRun(p) ==
  /\ proc'[p].cmd = proc[p].cmd
  /\ proc'[p].options = proc[p].options
  /\ proc'[p].first = proc[p].first
  /\ proc'[p].last = proc[p].last

Turned(p, phase, following) ==
  \/ /\ proc[p].cur = proc[p].last
     /\ proc'[p].pc = following
     /\ proc'[p].cur = proc[p].first
  \/ /\ proc[p].cur < proc[p].last
     /\ proc'[p].pc = phase
     /\ proc'[p].cur = proc[p].cur + 1

LEMMA Fields ==
  ASSUME ProcType, NEW p \in Commands
  PROVE  /\ proc[p].cur \in Repos /\ proc[p].cur \in Int
         /\ proc[p].first \in Repos /\ proc[p].first \in Int
         /\ proc[p].last \in Repos /\ proc[p].last \in Int
         /\ proc[p].first <= proc[p].cur /\ proc[p].cur <= proc[p].last
         /\ proc[p].pc \in Phases /\ proc[p].cmd \in CommandNames
         /\ proc[p].saved \in [Repos -> Stash]
         /\ proc[p].place \in Nat
BY RepoFacts DEF ProcType, InRange, ProcessState

LEMMA Moving ==
  ASSUME ProcType, NEW p \in Commands
  PROVE  /\ Ends(p) => proc'[p] = Idle
         /\ \A phase : Goes(p, phase) =>
              /\ SameRun(p)
              /\ proc'[p].pc = phase
              /\ proc'[p].cur = proc[p].cur
              /\ proc'[p].saved = proc[p].saved
              /\ proc'[p].place = proc[p].place
         /\ \A phase, following : NextRepo(p, phase, following) =>
              /\ SameRun(p)
              /\ Turned(p, phase, following)
              /\ proc'[p].saved = proc[p].saved
<1>1. Ends(p) => proc'[p] = Idle
  BY DEF Ends, ProcType
<1>2. ASSUME NEW phase, Goes(p, phase)
      PROVE  /\ SameRun(p)
             /\ proc'[p].pc = phase
             /\ proc'[p].cur = proc[p].cur
             /\ proc'[p].saved = proc[p].saved
             /\ proc'[p].place = proc[p].place
  BY <1>2 DEF Goes, ProcType, ProcessState, SameRun
<1>3. ASSUME NEW phase, NEW following, NextRepo(p, phase, following)
      PROVE  /\ SameRun(p)
             /\ Turned(p, phase, following)
             /\ proc'[p].saved = proc[p].saved
  <2>1. CASE proc[p].cur = proc[p].last
    <3>1. proc' = [proc EXCEPT ![p].pc = following,
                               ![p].cur = proc[p].first]
      BY <1>3, <2>1 DEF NextRepo, Turn
    <3>2. QED
      BY <2>1, <3>1 DEF ProcType, ProcessState, SameRun, Turned
  <2>2. CASE proc[p].cur # proc[p].last
    <3>1. proc' = [proc EXCEPT ![p].pc = phase, ![p].cur = @ + 1]
      BY <1>3, <2>2 DEF NextRepo, Turn
    <3>2. proc[p].cur < proc[p].last
      BY <2>2, Fields
    <3>3. QED
      BY <3>1, <3>2 DEF ProcType, ProcessState, SameRun, Turned
  <2>3. QED
    BY <2>1, <2>2
<1>4. QED
  BY <1>1, <1>2, <1>3

\* The stash that was just made is noted, and the loop goes on.
LEMMA Noting ==
  ASSUME TypeInv, NEW p \in Commands, NoteStash(p)
  PROVE  /\ SameRun(p)
         /\ Turned(p, "stash", "preflight")
         /\ \E e \in stash[proc[p].cur] :
              proc'[p].saved = [proc[p].saved EXCEPT ![proc[p].cur] = e]
<1>1. PICK e \in stash[Cur(p)] :
        proc' = Turn([proc EXCEPT ![p].saved[Cur(p)] = e],
                     p, "stash", "preflight")
  BY DEF NoteStash
<1> DEFINE noted == [proc EXCEPT ![p].saved[Cur(p)] = e]
<1>2. ProcType
  BY DEF TypeInv
<1>3. /\ Cur(p) = proc[p].cur /\ Cur(p) \in Repos
      /\ e \in Stash
  BY <1>1, <1>2, Fields DEF Cur, TypeInv, CheckoutType
<1>4. /\ noted \in [Commands -> ProcessState]
      /\ noted[p].cur = proc[p].cur
      /\ noted[p].first = proc[p].first
      /\ noted[p].last = proc[p].last
      /\ noted[p].cmd = proc[p].cmd
      /\ noted[p].options = proc[p].options
      /\ noted[p].saved = [proc[p].saved EXCEPT ![proc[p].cur] = e]
  BY <1>2, <1>3 DEF ProcType, ProcessState
<1>5. proc' = Turn(noted, p, "stash", "preflight")
  BY <1>1
<1> HIDE DEF noted
<1>6. CASE noted[p].cur = noted[p].last
  <2>1. proc' = [noted EXCEPT ![p].pc = "preflight",
                              ![p].cur = noted[p].first]
    BY <1>5, <1>6 DEF Turn
  <2>2. /\ SameRun(p)
        /\ proc'[p].pc = "preflight"
        /\ proc'[p].cur = noted[p].first
        /\ proc'[p].saved = noted[p].saved
    BY <2>1, <1>4 DEF ProcessState, SameRun
  <2>3. QED
    BY <2>2, <1>1, <1>3, <1>4, <1>6 DEF Turned
<1>7. CASE noted[p].cur # noted[p].last
  <2>1. proc' = [noted EXCEPT ![p].pc = "stash", ![p].cur = @ + 1]
    BY <1>5, <1>7 DEF Turn
  <2>2. /\ SameRun(p)
        /\ proc'[p].pc = "stash"
        /\ proc'[p].cur = noted[p].cur + 1
        /\ proc'[p].saved = noted[p].saved
    BY <2>1, <1>4 DEF ProcessState, SameRun
  <2>3. proc[p].cur < proc[p].last
    <3>1. proc[p].cur # proc[p].last
      BY <1>4, <1>7
    <3>2. QED
      BY <1>2, <3>1, Fields
  <2>4. QED
    BY <2>2, <2>3, <1>1, <1>3, <1>4 DEF Turned
<1>8. QED
  BY <1>6, <1>7

\* An invocation starts with nothing noted.
LEMMA Beginning ==
  ASSUME TypeInv, NEW p \in Commands,
         NEW c \in Invoked, NEW r \in Repos, NEW o \in Options,
         Begin(p, c, r, o)
  PROVE  /\ proc[p].pc = "idle"
         /\ proc'[p].cmd = c
         /\ proc'[p].saved = Idle.saved
         /\ \/ c \in {"continue", "abort"} /\ proc'[p].pc = "select"
            \/ c \in {"one", "all"} /\ proc'[p].pc \in {"offer", "confirm"}
<1> DEFINE start == [Idle EXCEPT
                   !.cmd = c, !.options = o,
                   !.first = IF c = "all" THEN 1 ELSE r,
                   !.cur = IF c = "all" THEN 1 ELSE r,
                   !.last = IF c = "all" THEN RepoCount ELSE r,
                   !.pc = CASE c \in {"continue", "abort"} -> "select"
                            [] c = "one" /\ "merge" \notin o -> "offer"
                            [] OTHER -> "confirm"]
<1>1. proc' = [proc EXCEPT ![p] = start] /\ proc[p].pc = "idle"
  BY DEF Begin, At
<1>2. start.cmd = c /\ start.saved = Idle.saved
  BY IdleIsState DEF ProcessState
<1>3. start.pc = CASE c \in {"continue", "abort"} -> "select"
                   [] c = "one" /\ "merge" \notin o -> "offer"
                   [] OTHER -> "confirm"
  BY IdleIsState DEF ProcessState
<1>4. c \in {"one", "all", "continue", "abort"}
  BY NamesAreOurs DEF CommandNames
<1>5. proc'[p] = start
  BY <1>1 DEF TypeInv, ProcType
<1> HIDE DEF start
<1>6. \/ c \in {"continue", "abort"} /\ start.pc = "select"
      \/ c \in {"one", "all"} /\ start.pc \in {"offer", "confirm"}
  BY <1>3, <1>4
<1>7. QED
  BY <1>1, <1>2, <1>5, <1>6

\* One invocation does not touch what another one knows.
LEMMA OthersStay ==
  ASSUME TypeInv, NEW p \in Commands, CommandWork(p),
         NEW q \in Commands \ {p}
  PROVE  proc'[q] = proc[q]
<1>1. \A phase : Goes(p, phase) => proc'[q] = proc[q]
  BY DEF Goes, TypeInv, ProcType
<1>2. Ends(p) => proc'[q] = proc[q]
  BY DEF Ends, TypeInv, ProcType
<1>3. \A phase, following :
        NextRepo(p, phase, following) => proc'[q] = proc[q]
  BY DEF NextRepo, Turn, TypeInv, ProcType
<1>4. NoteStash(p) => proc'[q] = proc[q]
  BY DEF NoteStash, Turn, TypeInv, ProcType
<1>5. FindStash(p) => proc'[q] = proc[q]
  BY <1>2 DEF FindStash, TypeInv, ProcType
<1>6. AskMerge(p) => proc'[q] = proc[q]
  BY <1>1, <1>2 DEF AskMerge, TypeInv, ProcType
<1>7. \A c \in Invoked, r \in Repos, o \in Options :
        Begin(p, c, r, o) => proc'[q] = proc[q]
  BY DEF Begin, TypeInv, ProcType
<1>8. QED
  BY <1>1, <1>2, <1>3, <1>4, <1>5, <1>6, <1>7
  DEF CommandWork, Step, AskSteps, OfferImport, Confirm, PrepareSteps,
      ValidateCheckpoint, CheckpointWorktree, CheckpointFails,
      ImportSnapshot, ImportRefused, CheckTarget, StashHost, StashRefused,
      NoteFails, Preflight, MoveSteps, MoveHost, MoveRefused,
      MergeConflicts, ApplyStash, ApplyConflicts, ApplyRefused, DropStash,
      Touch, RecoverySteps, SelectPaused, ReviewMerge, ConcludeMerge,
      ConcludeCancelled, Killed

-----------------------------------------------------------------------------
(***************************************************************************)
(* What holds of every invocation, whatever runs beside it: the phases     *)
(* that belong to its command and options, and stashes that are told apart *)
(* by their numbers.                                                       *)
(***************************************************************************)
AcceptPhases ==
  {"offer", "ask", "confirm", "validate", "checkpoint", "import", "target",
   "stash", "note", "preflight", "move", "apply", "find", "drop"}
RecoveryPhases == {"select", "review", "conclude"}
StashPhases == {"target", "stash", "note", "apply", "find", "drop"}

Accepts(p) == proc[p].cmd \in {"one", "all"}

InRole(p) ==
  /\ proc[p].pc \in AcceptPhases => Accepts(p)
  /\ proc[p].pc \in RecoveryPhases => ~Accepts(p)
  /\ proc[p].pc \in StashPhases => With(p, "stash-host")
  /\ With(p, "stash-host") \/ \A r \in Repos : proc[p].saved[r] = NoStash

Roles == \A p \in Commands : InRole(p)

Numbered ==
  /\ \A r \in Repos : \A e \in stash[r] : 1 <= e.id /\ e.id <= stashed
  /\ \A r \in Repos : \A e, f \in stash[r] : e.id = f.id => e = f
  /\ \A p \in Commands, r \in Repos : proc[p].saved[r].id <= stashed

Books == TypeInv /\ Roles /\ Numbered

LEMMA RoleOfCommand ==
  ASSUME TypeInv, NEW p \in Commands, CommandWork(p), InRole(p)
  PROVE  InRole(p)'
<1> USE DEF InRole, AcceptPhases, RecoveryPhases, StashPhases, Accepts,
            With, At
<1>1. ProcType
  BY DEF TypeInv
<1>2. ASSUME NEW c \in Invoked, NEW r \in Repos, NEW o \in Options,
             Begin(p, c, r, o)
      PROVE  InRole(p)'
  BY <1>2, Beginning, IdleIsState
<1>3. Ends(p) => InRole(p)'
  BY <1>1, Moving, IdleIsState
<1>4. ASSUME NEW phase, Goes(p, phase),
             phase \in AcceptPhases => proc[p].pc \in AcceptPhases,
             phase \in RecoveryPhases => proc[p].pc \in RecoveryPhases,
             phase \in StashPhases => With(p, "stash-host")
      PROVE  InRole(p)'
  BY <1>1, <1>4, Moving DEF SameRun
<1>5. ASSUME NEW phase, NEW following, NextRepo(p, phase, following),
             phase \notin RecoveryPhases, following \notin RecoveryPhases,
             proc[p].pc \in AcceptPhases,
             phase \in StashPhases => With(p, "stash-host"),
             following \in StashPhases => With(p, "stash-host")
      PROVE  InRole(p)'
  BY <1>1, <1>5, Moving DEF SameRun, Turned
<1>6. CASE AskSteps(p)
  <2>1. CASE OfferImport(p) \/ Confirm(p)
    BY <2>1, <1>3, <1>4 DEF OfferImport, Confirm
  <2>2. CASE AskMerge(p)
    <3>1. ASSUME proc' = [proc EXCEPT ![p].options = @ \cup {"merge"},
                                      ![p].pc = "confirm"]
          PROVE  InRole(p)'
      <4>1. /\ proc'[p].pc = "confirm"
            /\ proc'[p].options = proc[p].options \cup {"merge"}
            /\ proc'[p].cmd = proc[p].cmd
            /\ proc'[p].saved = proc[p].saved
        BY <3>1, <1>1 DEF ProcType, ProcessState
      <4>2. QED
        BY <4>1, <2>2 DEF AskMerge
    <3>2. QED
      BY <3>1, <2>2, <1>3, <1>4 DEF AskMerge
  <2>3. QED
    BY <1>6, <2>1, <2>2 DEF AskSteps
<1>7. CASE PrepareSteps(p)
  <2>1. CASE NoteStash(p)
    BY <2>1, Noting DEF NoteStash, SameRun, Turned
  <2>2. CASE ImportSnapshot(p)
    BY <2>2, <1>5 DEF ImportSnapshot
  <2>3. CASE StashHost(p) \/ CheckTarget(p)
    BY <2>3, <1>3, <1>4, <1>5 DEF StashHost, CheckTarget
  <2>4. CASE ValidateCheckpoint(p) \/ CheckpointWorktree(p)
    BY <2>4, <1>3, <1>5 DEF ValidateCheckpoint, CheckpointWorktree
  <2>5. CASE Preflight(p)
    BY <2>5, <1>3, <1>5 DEF Preflight
  <2>6. CASE CheckpointFails(p) \/ ImportRefused(p) \/ StashRefused(p)
             \/ NoteFails(p)
    BY <2>6, <1>3
    DEF CheckpointFails, ImportRefused, StashRefused, NoteFails
  <2>7. QED
    BY <1>7, <2>1, <2>2, <2>3, <2>4, <2>5, <2>6 DEF PrepareSteps
<1>8. CASE MoveSteps(p)
  <2>1. CASE MoveHost(p)
    BY <2>1, <1>5 DEF MoveHost
  <2>2. CASE ApplyStash(p)
    BY <2>2, <1>4, <1>5 DEF ApplyStash
  <2>3. CASE FindStash(p)
    <3>1. ASSUME proc' = [proc EXCEPT
                     ![p].pc = "drop",
                     ![p].place = Place(Cur(p), proc[p].saved[Cur(p)])]
          PROVE  InRole(p)'
      <4>1. /\ proc'[p].pc = "drop"
            /\ proc'[p].options = proc[p].options
            /\ proc'[p].cmd = proc[p].cmd
            /\ proc'[p].saved = proc[p].saved
        BY <3>1, <1>1 DEF ProcType, ProcessState
      <4>2. QED
        BY <4>1, <2>3 DEF FindStash
    <3>2. QED
      BY <2>3, <3>1, <1>3 DEF FindStash
  <2>4. CASE DropStash(p)
    BY <2>4, <1>3, <1>5 DEF DropStash
  <2>5. CASE MoveRefused(p) \/ MergeConflicts(p) \/ ApplyConflicts(p)
             \/ ApplyRefused(p) \/ Touch(p)
    BY <2>5, <1>3
    DEF MoveRefused, MergeConflicts, ApplyConflicts, ApplyRefused, Touch
  <2>6. QED
    BY <1>8, <2>1, <2>2, <2>3, <2>4, <2>5 DEF MoveSteps
<1>9. CASE RecoverySteps(p)
  BY <1>9, <1>3, <1>4
  DEF RecoverySteps, SelectPaused, ReviewMerge, ConcludeMerge,
      ConcludeCancelled
<1>10. CASE Killed(p)
  BY <1>10, <1>3 DEF Killed
<1>11. QED
  BY <1>2, <1>6, <1>7, <1>8, <1>9, <1>10 DEF CommandWork, Step

\* The steps of an invocation that touch a host checkout.
CheckoutWork(p) ==
  \/ StashHost(p) /\ PushStash(Cur(p))
  \/ MoveHost(p) \/ MergeConflicts(p) \/ ConcludeMerge(p)
  \/ ApplyStash(p) \/ ApplyConflicts(p) \/ DropStash(p)

LEMMA WhatACommandTouches ==
  ASSUME NEW p \in Commands, CommandWork(p)
  PROVE  /\ UNCHANGED written
         /\ UNCHANGED checkout \/ CheckoutWork(p)
         /\ UNCHANGED stashed \/ (StashHost(p) /\ PushStash(Cur(p)))
         /\ UNCHANGED session \/ OfferImport(p) \/ ImportSnapshot(p)
<1> USE DEF CheckoutWork, checkout, box
<1>1. CASE AskSteps(p)
  BY <1>1 DEF AskSteps, OfferImport, AskMerge, Confirm
<1>2. CASE PrepareSteps(p)
  BY <1>2
  DEF PrepareSteps, ValidateCheckpoint, CheckpointWorktree,
      CheckpointFails, ImportSnapshot, ImportRefused, CheckTarget,
      StashHost, StashRefused, NoteStash, NoteFails, Preflight
<1>3. CASE MoveSteps(p)
  BY <1>3
  DEF MoveSteps, MoveHost, MoveRefused, MergeConflicts, ApplyStash,
      ApplyConflicts, ApplyRefused, FindStash, DropStash, Touch
<1>4. CASE RecoverySteps(p)
  BY <1>4
  DEF RecoverySteps, SelectPaused, ReviewMerge, ConcludeMerge,
      ConcludeCancelled
<1>5. CASE Killed(p)
  BY <1>5 DEF Killed
<1>6. CASE \E c \in Invoked, r \in Repos, o \in Options : Begin(p, c, r, o)
  BY <1>6 DEF Begin
<1>7. QED
  BY <1>1, <1>2, <1>3, <1>4, <1>5, <1>6 DEF CommandWork, Step

Listed ==
  /\ \A r \in Repos : \A e \in stash[r] : 1 <= e.id /\ e.id <= stashed
  /\ \A r \in Repos : \A e, f \in stash[r] : e.id = f.id => e = f

\* The new entry has a number of its own.
LEMMA PushIsListed ==
  ASSUME CheckoutType, CountType, Listed, NEW r \in Repos, PushStash(r)
  PROVE  /\ Listed' /\ stashed' = stashed + 1
         /\ stash'[r] = stash[r] \cup {[id |-> stashed + 1,
                                        patches |-> dirty[r]]}
         /\ \A s \in Repos \ {r} : stash'[s] = stash[s]
<1> DEFINE e == [id |-> stashed + 1, patches |-> dirty[r]]
<1>1. stashed \in Nat /\ stashed' = stashed + 1
  BY DEF PushStash, CountType
<1>2. /\ stash'[r] = stash[r] \cup {e}
      /\ \A s \in Repos \ {r} : stash'[s] = stash[s]
  BY <1>1 DEF PushStash, CheckoutType
<1>3. e.id = stashed + 1
  OBVIOUS
<1> HIDE DEF e
<1>4. \A s \in Repos : \A f \in stash[s] : f.id \in Nat
  BY DEF CheckoutType, Stash
<1>5. \A s \in Repos : \A f \in stash'[s] :
        1 <= f.id /\ f.id <= stashed'
  BY <1>1, <1>2, <1>3, <1>4 DEF Listed
<1>6. \A s \in Repos : \A f, g \in stash'[s] : f.id = g.id => f = g
  <2> SUFFICES ASSUME NEW s \in Repos, NEW f \in stash'[s],
                      NEW g \in stash'[s], f.id = g.id
               PROVE  f = g
    OBVIOUS
  <2>1. CASE f \in stash[s] /\ g \in stash[s]
    BY <2>1 DEF Listed
  <2>2. CASE s = r /\ f = e /\ g \in stash[r]
    BY <2>2, <1>1, <1>3, <1>4 DEF Listed
  <2>3. CASE s = r /\ g = e /\ f \in stash[r]
    BY <2>3, <1>1, <1>3, <1>4 DEF Listed
  <2>4. CASE f = e /\ g = e
    BY <2>4
  <2>5. QED
    BY <2>1, <2>2, <2>3, <2>4, <1>2
<1>7. QED
  BY <1>1, <1>2, <1>5, <1>6 DEF Listed, e

LEMMA FewerAreListed ==
  ASSUME Listed, stashed' = stashed,
         \A r \in Repos : stash'[r] \subseteq stash[r]
  PROVE  Listed'
BY DEF Listed

LEMMA CommandLists ==
  ASSUME TypeInv, Listed, NEW p \in Commands, CommandWork(p)
  PROVE  Listed' /\ stashed <= stashed'
<1>1. stashed \in Nat /\ Cur(p) \in Repos
  BY Fields DEF TypeInv, CountType, Cur
<1>2. CASE StashHost(p) /\ PushStash(Cur(p))
  BY <1>1, <1>2, PushIsListed DEF TypeInv
<1>3. CASE DropStash(p)
  <2>1. \A r \in Repos : stash'[r] \subseteq stash[r]
    BY <1>3 DEF DropStash, TypeInv, CheckoutType
  <2>2. stashed' = stashed
    BY <1>3 DEF DropStash
  <2>3. QED
    BY <1>1, <2>1, <2>2, FewerAreListed
<1>4. CASE UNCHANGED <<stash, stashed>>
  BY <1>1, <1>4, FewerAreListed
<1>5. QED
  BY <1>2, <1>3, <1>4, WhatACommandTouches
  DEF CheckoutWork, MoveHost, MergeConflicts, ConcludeMerge, ApplyStash,
      ApplyConflicts, DropStash, checkout

LEMMA UserLists ==
  ASSUME TypeInv, Listed, NEW r \in Repos, UserWork(r)
  PROVE  Listed' /\ stashed <= stashed'
<1>1. stashed \in Nat
  BY DEF TypeInv, CountType
<1>2. CASE UserStashes(r)
  BY <1>1, <1>2, PushIsListed DEF TypeInv, UserStashes
<1>3. CASE UserPopsStash(r)
  <2>1. \A s \in Repos : stash'[s] \subseteq stash[s]
    BY <1>3 DEF UserPopsStash, TypeInv, CheckoutType
  <2>2. stashed' = stashed
    BY <1>3 DEF UserPopsStash
  <2>3. QED
    BY <1>1, <2>1, <2>2, FewerAreListed
<1>4. CASE UNCHANGED <<stash, stashed>>
  BY <1>1, <1>4, FewerAreListed
<1>5. QED
  BY <1>2, <1>3, <1>4
  DEF UserWork, UserEdits, UserCommits, UserMergesOther, UserResolves,
      UserConcludes, UserLeaves, UserReturns

\* Only one step notes a stash.
LEMMA WhatACommandNotes ==
  ASSUME TypeInv, NEW p \in Commands, CommandWork(p)
  PROVE  \/ proc'[p].saved = proc[p].saved
         \/ proc'[p].saved = Idle.saved
         \/ NoteStash(p)
<1>1. ProcType
  BY DEF TypeInv
<1>2. CASE AskMerge(p)
  <2>1. ASSUME proc' = [proc EXCEPT ![p].options = @ \cup {"merge"},
                                    ![p].pc = "confirm"]
        PROVE  proc'[p].saved = proc[p].saved
    BY <1>1, <2>1 DEF ProcType, ProcessState
  <2>2. QED
    BY <1>1, <1>2, <2>1, Moving DEF AskMerge
<1>3. CASE FindStash(p)
  <2>1. ASSUME proc' = [proc EXCEPT
                   ![p].pc = "drop",
                   ![p].place = Place(Cur(p), proc[p].saved[Cur(p)])]
        PROVE  proc'[p].saved = proc[p].saved
    BY <1>1, <2>1 DEF ProcType, ProcessState
  <2>2. QED
    BY <1>1, <1>3, <2>1, Moving DEF FindStash
<1>4. CASE \E c \in Invoked, r \in Repos, o \in Options : Begin(p, c, r, o)
  BY <1>4, Beginning
<1>5. QED
  BY <1>1, <1>2, <1>3, <1>4, Moving
  DEF CommandWork, Step, AskSteps, OfferImport, Confirm, PrepareSteps,
      ValidateCheckpoint, CheckpointWorktree, CheckpointFails,
      ImportSnapshot, ImportRefused, CheckTarget, StashHost, StashRefused,
      NoteFails, Preflight, MoveSteps, MoveHost, MoveRefused,
      MergeConflicts, ApplyStash, ApplyConflicts, ApplyRefused, DropStash,
      Touch, RecoverySteps, SelectPaused, ReviewMerge, ConcludeMerge,
      ConcludeCancelled, Killed

LEMMA CommandNotes ==
  ASSUME TypeInv, Numbered, NEW p \in Commands, CommandWork(p),
         stashed <= stashed', stashed' \in Nat
  PROVE  \A r \in Repos : proc'[p].saved[r].id <= stashed'
<1>1. ProcType /\ stashed \in Nat
  BY DEF TypeInv, CountType
<1>2. \A r \in Repos : /\ proc[p].saved[r].id \in Nat
                       /\ proc[p].saved[r].id <= stashed
  BY <1>1, Fields DEF Stash, Numbered
<1>3. CASE proc'[p].saved = proc[p].saved
  BY <1>1, <1>2, <1>3
<1>4. CASE proc'[p].saved = Idle.saved
  BY <1>1, <1>4, IdleIsState DEF NoStash
<1>5. CASE NoteStash(p)
  <2>1. PICK e \in stash[proc[p].cur] :
          proc'[p].saved = [proc[p].saved EXCEPT ![proc[p].cur] = e]
    BY <1>5, Noting
  <2>2. proc[p].cur \in Repos /\ proc[p].saved \in [Repos -> Stash]
    BY <1>1, Fields
  <2>3. e.id \in Nat /\ e.id <= stashed
    BY <2>1, <2>2 DEF Numbered, TypeInv, CheckoutType, Stash
  <2>4. ASSUME NEW r \in Repos
        PROVE  proc'[p].saved[r] \in {e, proc[p].saved[r]}
    BY <2>1, <2>2
  <2>5. QED
    BY <1>1, <1>2, <2>3, <2>4
<1>6. QED
  BY <1>3, <1>4, <1>5, WhatACommandNotes

LEMMA BooksInit == Init => Books
<1> SUFFICES ASSUME Init PROVE Roles /\ Numbered
  BY TypeInit DEF Books
<1>1. \A p \in Commands : proc[p] = Idle
  BY DEF Init
<1>2. Roles
  BY <1>1, IdleIsState
  DEF Roles, InRole, AcceptPhases, RecoveryPhases, StashPhases, With
<1>3. Numbered
  BY <1>1, IdleIsState DEF Numbered, Init, Nothing, NoStash
<1>4. QED
  BY <1>2, <1>3

LEMMA BooksStep == Books /\ [Next]_vars => Books'
<1> SUFFICES ASSUME Books, [Next]_vars PROVE Roles' /\ Numbered'
  BY TypeStep DEF Books
<1>1. TypeInv /\ Listed /\ TypeInv' /\ stashed \in Nat /\ stashed' \in Nat
  BY TypeStep DEF Books, Numbered, Listed, TypeInv, CountType
<1>2. CASE UNCHANGED vars
  BY <1>2
  DEF vars, checkout, Books, Roles, InRole, Accepts, With, Numbered
<1>3. ASSUME NEW p \in Commands, CommandWork(p)
      PROVE  Roles' /\ Numbered'
  <2>1. \A q \in Commands \ {p} : proc'[q] = proc[q]
    BY <1>1, <1>3, OthersStay
  <2>2. Roles'
    <3>1. InRole(p)'
      BY <1>1, <1>3, RoleOfCommand DEF Books, Roles
    <3>2. \A q \in Commands \ {p} : InRole(q)'
      BY <2>1 DEF Books, Roles, InRole, Accepts, With
    <3>3. QED
      BY <3>1, <3>2 DEF Roles
  <2>3. Listed' /\ stashed <= stashed'
    BY <1>1, <1>3, CommandLists
  <2>4. \A r \in Repos : proc'[p].saved[r].id <= stashed'
    BY <1>1, <1>3, <2>3, CommandNotes DEF Books
  <2>5. \A q \in Commands \ {p}, r \in Repos :
          proc'[q].saved[r].id <= stashed'
    <3> SUFFICES ASSUME NEW q \in Commands \ {p}, NEW r \in Repos
                 PROVE  proc[q].saved[r].id <= stashed'
      BY <2>1
    <3>1. proc[q].saved[r].id \in Nat
      BY <1>1, Fields DEF TypeInv, Stash
    <3>2. QED
      BY <1>1, <2>3, <3>1 DEF Books, Numbered
  <2>6. QED
    BY <2>2, <2>3, <2>4, <2>5 DEF Numbered, Listed
<1>4. ASSUME Listed', stashed <= stashed', UNCHANGED proc
      PROVE  Roles' /\ Numbered'
  <2>1. Roles'
    BY <1>4 DEF Books, Roles, InRole, Accepts, With
  <2>2. \A p \in Commands, r \in Repos : proc[p].saved[r].id \in Nat
    BY <1>1, Fields DEF TypeInv, Stash
  <2>3. QED
    BY <1>1, <1>4, <2>1, <2>2 DEF Books, Numbered, Listed
<1>5. ASSUME NEW r \in Repos, UserWork(r)
      PROVE  Roles' /\ Numbered'
  <2>1. UNCHANGED proc
    BY <1>5
    DEF UserWork, UserEdits, UserCommits, UserStashes, UserPopsStash,
        UserMergesOther, UserResolves, UserConcludes, UserLeaves,
        UserReturns
  <2>2. QED
    BY <1>1, <1>4, <1>5, <2>1, UserLists
<1>6. ASSUME NEW r \in Repos, AgentWork(r)
      PROVE  Roles' /\ Numbered'
  <2>1. UNCHANGED <<proc, stash, stashed>>
    BY <1>6, AgentIsElsewhere DEF checkout
  <2>2. QED
    BY <1>1, <1>4, <2>1, FewerAreListed
<1>7. QED
  BY <1>2, <1>3, <1>5, <1>6, NextIsWork

-----------------------------------------------------------------------------
(***************************************************************************)
(* One invocation at a time                                                *)
(*                                                                         *)
(* What an invocation knows when it goes from one repository, and from one *)
(* loop, to the next.  Others would change it under the invocation's feet, *)
(* and so would the user where an answer of git is used by the next git    *)
(* command: the preflight and the moves it allows, a place in the list of  *)
(* stashes and the drop of what is there.                                  *)
(***************************************************************************)
UserWaits == UserActsAt \cap {"preflight", "move", "drop"} = {}

\* The hosts that were looked at, and all that are still to move, are ready.
Looked(p) ==
  /\ At(p, "preflight") =>
       \A r \in Repos : proc[p].first <= r /\ r < Cur(p) => Ready(p, r)
  /\ At(p, "move") =>
       \A r \in Repos : Cur(p) <= r /\ r <= proc[p].last => Ready(p, r)

\* The files of a temporary stash are back before it is looked for.
Back(p) ==
  proc[p].pc \in {"find", "drop"} =>
    proc[p].saved[Cur(p)].patches \subseteq
      dirty[Cur(p)] \cup host[Cur(p)]
        \cup UNION {e.patches : e \in stash[Cur(p)]
                                       \ {proc[p].saved[Cur(p)]}}

\* What is dropped is the stash that was looked for.
Counted(p) ==
  At(p, "drop") =>
    /\ proc[p].saved[Cur(p)] \in stash[Cur(p)]
    /\ proc[p].place = Place(Cur(p), proc[p].saved[Cur(p)])

Accepted(p) == At(p, "touch") /\ Accepts(p)

\* The hosts that had their turn have the commits of the session.
Moved(p) ==
  /\ At(p, "move") =>
       \A r \in Repos :
         proc[p].first <= r /\ r < Cur(p) => session[r] \subseteq host[r]
  /\ proc[p].pc \in {"apply", "find", "drop"} \/ Accepted(p) =>
       \A r \in Repos : proc[p].first <= r /\ r <= proc[p].last
                          => session[r] \subseteq host[r]

\* The stashes that had their turn are gone.
Dropped(p) ==
  /\ proc[p].pc \in {"apply", "find", "drop"} =>
       \A r \in Repos :
         proc[p].first <= r /\ r < Cur(p) => proc[p].saved[r] \notin stash[r]
  /\ Accepted(p) =>
       \A r \in Repos : proc[p].first <= r /\ r <= proc[p].last
                          => proc[p].saved[r] \notin stash[r]

Knows(p) == Looked(p) /\ Back(p) /\ Counted(p) /\ Moved(p) /\ Dropped(p)

AloneInv == HostWorkKept /\ \A p \in Commands : Knows(p)

-----------------------------------------------------------------------------
(***************************************************************************)
(* Stashes and what they hold                                              *)
(***************************************************************************)
Held(r) == dirty[r] \cup host[r] \cup UNION {e.patches : e \in stash[r]}

\* Entries of a list are told apart by their places.
LEMMA PlacesDiffer ==
  ASSUME CheckoutType, Listed, NEW r \in Repos,
         NEW e \in stash[r], NEW f \in stash[r], Place(r, e) = Place(r, f)
  PROVE  e = f
<1>1. \A g \in stash[r] : g.id \in Nat
  BY DEF CheckoutType, Stash
<1>2. ASSUME NEW a \in stash[r], NEW b \in stash[r], a.id < b.id
      PROVE  Place(r, a) # Place(r, b)
  <2> DEFINE A == {g \in stash[r] : g.id > a.id}
             B == {g \in stash[r] : g.id > b.id}
  <2>1. IsFiniteSet(A)
    BY FS_Subset DEF CheckoutType
  <2>2. B \subseteq A /\ b \in A /\ b \notin B
    BY <1>1, <1>2
  <2>3. Cardinality(A) # Cardinality(B)
    BY <2>1, <2>2, FS_Subset
  <2>4. QED
    BY <2>3 DEF Place
<1>3. e.id = f.id
  BY <1>1, <1>2
<1>4. QED
  BY <1>3 DEF Listed

\* A drop by the place that was counted removes the stash that was meant.
LEMMA DropIsRight ==
  ASSUME Books, NEW p \in Commands, DropStash(p), Counted(p)
  PROVE  /\ stash'[Cur(p)] = stash[Cur(p)] \ {proc[p].saved[Cur(p)]}
         /\ \A r \in Repos \ {Cur(p)} : stash'[r] = stash[r]
         /\ NextRepo(p, "apply", "touch")
         /\ UNCHANGED <<host, dirty, session, written>>
<1> DEFINE e == proc[p].saved[Cur(p)]
<1>1. /\ CheckoutType /\ Listed
      /\ Cur(p) \in Repos
  BY Fields DEF Books, Numbered, Listed, TypeInv, Cur
<1>2. e \in stash[Cur(p)] /\ proc[p].place = Place(Cur(p), e)
  BY DEF DropStash, Counted, At
<1>3. stash' = [stash EXCEPT ![Cur(p)] =
                 {f \in @ : Place(Cur(p), f) # proc[p].place}]
  BY DEF DropStash
<1> HIDE DEF e
<1>4. \A f \in stash[Cur(p)] : Place(Cur(p), f) # proc[p].place <=> f # e
  BY <1>1, <1>2, PlacesDiffer
<1>5. /\ stash'[Cur(p)] = stash[Cur(p)] \ {e}
      /\ \A r \in Repos \ {Cur(p)} : stash'[r] = stash[r]
  BY <1>1, <1>3, <1>4 DEF CheckoutType
<1>6. stash' # stash
  BY <1>2, <1>5
<1>7. QED
  BY <1>5, <1>6 DEF DropStash, box, e

LEMMA HeldGrows ==
  ASSUME NEW r, dirty[r] \subseteq dirty'[r], host[r] \subseteq host'[r],
         stash[r] \subseteq stash'[r]
  PROVE  Held(r) \subseteq Held(r)'
BY DEF Held

LEMMA PushKeepsHeld ==
  ASSUME CheckoutType, CountType, Listed, NEW r \in Repos, PushStash(r),
         NEW s \in Repos
  PROVE  Held(s) \subseteq Held(s)'
<1>1. CASE s = r
  <2> DEFINE e == [id |-> stashed + 1, patches |-> dirty[r]]
  <2>1. stash'[r] = stash[r] \cup {e}
    BY PushIsListed
  <2>2. e.patches = dirty[r] /\ host' = host
    BY DEF PushStash
  <2> HIDE DEF e
  <2>3. dirty[r] \subseteq UNION {f.patches : f \in stash'[r]}
    BY <2>1, <2>2
  <2>4. QED
    BY <1>1, <2>1, <2>2, <2>3 DEF Held
<1>2. CASE s # r
  <2>1. stash'[s] = stash[s] /\ dirty'[s] = dirty[s] /\ host' = host
    BY <1>2, PushIsListed DEF PushStash, CheckoutType
  <2>2. QED
    BY <2>1, HeldGrows
<1>3. QED
  BY <1>1, <1>2

LEMMA CommandKeepsWork ==
  ASSUME Books, HostWorkKept, NEW p \in Commands, CommandWork(p),
         Back(p), Counted(p)
  PROVE  HostWorkKept'
<1>1. /\ TypeInv /\ CheckoutType /\ CountType /\ Listed
      /\ Cur(p) \in Repos
  BY Fields DEF Books, Numbered, Listed, TypeInv, Cur
<1>2. UNCHANGED written
  BY WhatACommandTouches
<1>3. ASSUME NEW r \in Repos
      PROVE  Held(r) \subseteq Held(r)'
  <2>1. host[r] \subseteq host'[r]
    BY <1>1, CommandKeepsHosts
  <2>2. CASE UNCHANGED checkout
    BY <2>2, HeldGrows DEF checkout
  <2>3. CASE PushStash(Cur(p))
    BY <1>1, <2>3, PushKeepsHeld
  <2>4. CASE MoveHost(p) \/ MergeConflicts(p) \/ ConcludeMerge(p)
    BY <2>1, <2>4, HeldGrows DEF MoveHost, MergeConflicts, ConcludeMerge
  <2>5. CASE ApplyStash(p) \/ ApplyConflicts(p)
    <3>1. stash' = stash /\ dirty[r] \subseteq dirty'[r]
      BY <1>1, <2>5 DEF ApplyStash, ApplyConflicts, CheckoutType
    <3>2. QED
      BY <2>1, <3>1, HeldGrows
  <2>6. CASE DropStash(p)
    <3>1. CASE r = Cur(p)
      BY <2>6, <3>1, DropIsRight DEF Back, Held, DropStash, At
    <3>2. CASE r # Cur(p)
      BY <2>6, <3>2, DropIsRight, HeldGrows
    <3>3. QED
      BY <3>1, <3>2
  <2>7. QED
    BY <2>2, <2>3, <2>4, <2>5, <2>6, WhatACommandTouches DEF CheckoutWork
<1>4. QED
  BY <1>2, <1>3 DEF HostWorkKept, Held

LEMMA UserKeepsWork ==
  ASSUME Books, HostWorkKept, NEW s \in Repos, UserWork(s)
  PROVE  HostWorkKept'
<1>1. TypeInv /\ CheckoutType /\ CountType /\ Listed
  BY DEF Books, Numbered, Listed, TypeInv
<1>2. CASE UserEdits(s)
  <2>1. \A r \in Repos : /\ dirty[r] \subseteq dirty'[r]
                         /\ written'[r] \ written[r] \subseteq dirty'[r]
    BY <1>1, <1>2 DEF UserEdits, CheckoutType, CountType
  <2>2. UNCHANGED <<host, stash>>
    BY <1>2 DEF UserEdits
  <2>3. QED
    BY <2>1, <2>2 DEF HostWorkKept
<1>3. ASSUME UNCHANGED written,
             \A r \in Repos : Held(r) \subseteq Held(r)'
      PROVE  HostWorkKept'
  BY <1>3 DEF HostWorkKept, Held
<1>4. CASE UserCommits(s)
  BY <1>1, <1>3, <1>4 DEF UserCommits, CheckoutType, Held
<1>5. CASE UserStashes(s)
  BY <1>1, <1>3, <1>5, PushKeepsHeld DEF UserStashes
<1>6. CASE UserPopsStash(s)
  <2>1. PICK e \in stash[s] :
          /\ stash' = [stash EXCEPT ![s] = @ \ {e}]
          /\ dirty' = [dirty EXCEPT ![s] = e.patches]
    BY <1>6 DEF UserPopsStash
  <2>2. dirty[s] = {} /\ UNCHANGED <<host, written>>
    BY <1>6 DEF UserPopsStash, Clean
  <2>3. stash'[s] = stash[s] \ {e} /\ dirty'[s] = e.patches
    BY <1>1, <2>1 DEF CheckoutType
  <2>4. Held(s) \subseteq Held(s)'
    BY <2>2, <2>3 DEF Held
  <2>5. \A r \in Repos \ {s} : Held(r) \subseteq Held(r)'
    BY <1>1, <2>1, <2>2 DEF CheckoutType, Held
  <2>6. QED
    BY <1>3, <2>2, <2>4, <2>5
<1>7. CASE UserConcludes(s)
  <2>1. \A r \in Repos : host[r] \subseteq host'[r]
    BY <1>1, UserKeepsHosts
  <2>2. UNCHANGED <<dirty, stash, written>>
    BY <1>7 DEF UserConcludes
  <2>3. QED
    BY <1>3, <2>1, <2>2, HeldGrows
<1>8. CASE UNCHANGED <<host, dirty, stash, written>>
  BY <1>8 DEF HostWorkKept
<1>9. QED
  BY <1>2, <1>4, <1>5, <1>6, <1>7, <1>8
  DEF UserWork, UserMergesOther, UserResolves, UserLeaves, UserReturns

-----------------------------------------------------------------------------
(***************************************************************************)
(* What an invocation knows                                                *)
(***************************************************************************)
\* Which steps lead to the phases the invariant is about.
LEMMA Destinations ==
  ASSUME TypeInv, NEW p \in Commands, CommandWork(p)
  PROVE  /\ proc'[p].pc = "preflight" =>
              Preflight(p) \/ proc'[p].cur = proc'[p].first
         /\ proc'[p].pc = "move" => Preflight(p) \/ MoveHost(p)
         /\ proc'[p].pc = "apply" =>
              MoveHost(p) \/ ApplyStash(p) \/ DropStash(p)
         /\ proc'[p].pc = "find" => ApplyStash(p)
         /\ proc'[p].pc = "drop" => FindStash(p)
         /\ proc'[p].pc = "touch" =>
              MoveHost(p) \/ ApplyStash(p) \/ DropStash(p)
                          \/ ConcludeMerge(p)
<1> DEFINE Known == {"preflight", "move", "apply", "find", "drop", "touch"}
<1>1. ProcType
  BY DEF TypeInv
<1>2. Ends(p) => proc'[p].pc = "idle"
  BY <1>1, Moving, IdleIsState
<1>3. \A phase : Goes(p, phase) => proc'[p].pc = phase
  BY <1>1, Moving
<1>4. \A phase, following : NextRepo(p, phase, following) =>
        \/ proc'[p].pc = phase
        \/ proc'[p].pc = following /\ proc'[p].cur = proc'[p].first
  BY <1>1, Moving DEF Turned, SameRun
<1>5. CASE \E c \in Invoked, r \in Repos, o \in Options : Begin(p, c, r, o)
  BY <1>5, Beginning
<1>6. CASE AskSteps(p)
  <2>1. ASSUME proc' = [proc EXCEPT ![p].options = @ \cup {"merge"},
                                    ![p].pc = "confirm"]
        PROVE  proc'[p].pc = "confirm"
    BY <2>1, <1>1 DEF ProcType, ProcessState
  <2>2. proc'[p].pc \notin Known
    BY <1>6, <2>1, <1>2, <1>3
    DEF AskSteps, OfferImport, AskMerge, Confirm
  <2>3. QED
    BY <2>2
<1>7. CASE PrepareSteps(p)
  <2>1. CASE NoteStash(p)
    BY <2>1, Noting DEF Turned, SameRun
  <2>2. CASE ImportSnapshot(p) \/ CheckTarget(p)
    BY <2>2, <1>2, <1>4 DEF ImportSnapshot, CheckTarget
  <2>3. CASE StashHost(p)
    BY <2>3, <1>3, <1>4 DEF StashHost
  <2>4. CASE ValidateCheckpoint(p) \/ CheckpointWorktree(p)
    BY <2>4, <1>2, <1>4 DEF ValidateCheckpoint, CheckpointWorktree
  <2>5. CASE Preflight(p)
    BY <2>5, <1>2, <1>4 DEF Preflight
  <2>6. CASE CheckpointFails(p) \/ ImportRefused(p) \/ StashRefused(p)
             \/ NoteFails(p)
    BY <2>6, <1>2
    DEF CheckpointFails, ImportRefused, StashRefused, NoteFails
  <2>7. QED
    BY <1>7, <2>1, <2>2, <2>3, <2>4, <2>5, <2>6 DEF PrepareSteps
<1>8. CASE MoveSteps(p)
  <2>1. CASE MoveHost(p)
    BY <2>1, <1>4 DEF MoveHost
  <2>2. CASE ApplyStash(p)
    BY <2>2, <1>3, <1>4 DEF ApplyStash
  <2>3. CASE FindStash(p)
    <3>1. ASSUME proc' = [proc EXCEPT
                     ![p].pc = "drop",
                     ![p].place = Place(Cur(p), proc[p].saved[Cur(p)])]
          PROVE  proc'[p].pc = "drop"
      BY <3>1, <1>1 DEF ProcType, ProcessState
    <3>2. QED
      BY <2>3, <3>1, <1>2 DEF FindStash
  <2>4. CASE DropStash(p)
    BY <2>4, <1>2, <1>4 DEF DropStash
  <2>5. CASE MoveRefused(p) \/ MergeConflicts(p) \/ ApplyConflicts(p)
             \/ ApplyRefused(p) \/ Touch(p)
    BY <2>5, <1>2
    DEF MoveRefused, MergeConflicts, ApplyConflicts, ApplyRefused, Touch
  <2>6. QED
    BY <1>8, <2>1, <2>2, <2>3, <2>4, <2>5 DEF MoveSteps
<1>9. CASE RecoverySteps(p)
  BY <1>9, <1>2, <1>3
  DEF RecoverySteps, SelectPaused, ReviewMerge, ConcludeMerge,
      ConcludeCancelled
<1>10. CASE Killed(p)
  BY <1>10, <1>2 DEF Killed
<1>11. QED
  BY <1>5, <1>6, <1>7, <1>8, <1>9, <1>10 DEF CommandWork, Step

\* Looking at a host changes none, and its options are those it started with.
LEMMA PreflightIsRead ==
  ASSUME TypeInv, NEW p \in Commands, Preflight(p), proc'[p].pc # "idle"
  PROVE  /\ At(p, "preflight") /\ Ready(p, Cur(p))
         /\ UNCHANGED <<checkout, session>>
         /\ SameRun(p) /\ Turned(p, "preflight", "move")
BY Moving, IdleIsState DEF Preflight, TypeInv, box

LEMMA MoveIsForward ==
  ASSUME TypeInv, NEW p \in Commands, MoveHost(p)
  PROVE  /\ At(p, "move")
         /\ host' = [host EXCEPT ![Cur(p)] = @ \cup session[Cur(p)]]
         /\ UNCHANGED <<dirty, stash, merging, onTarget, session>>
         /\ SameRun(p) /\ proc'[p].saved = proc[p].saved
         /\ Turned(p, "move",
                   IF With(p, "stash-host") THEN "apply" ELSE "touch")
BY Moving DEF MoveHost, Merged, TypeInv, box

LEMMA FindIsRead ==
  ASSUME TypeInv, NEW p \in Commands, FindStash(p), proc'[p].pc # "idle"
  PROVE  /\ At(p, "find")
         /\ UNCHANGED <<checkout, session>>
         /\ SameRun(p) /\ proc'[p].saved = proc[p].saved
         /\ proc'[p].cur = proc[p].cur
         /\ proc[p].saved[Cur(p)] \in stash[Cur(p)]
         /\ proc'[p].place = Place(Cur(p), proc[p].saved[Cur(p)])
<1>1. proc[p].saved[Cur(p)] \in stash[Cur(p)]
  BY Moving, IdleIsState DEF FindStash, TypeInv
<1>2. proc' = [proc EXCEPT
                 ![p].pc = "drop",
                 ![p].place = Place(Cur(p), proc[p].saved[Cur(p)])]
  BY <1>1 DEF FindStash
<1>3. QED
  BY <1>1, <1>2
  DEF FindStash, TypeInv, ProcType, ProcessState, SameRun, box

LEMMA ApplyIsBack ==
  ASSUME TypeInv, NEW p \in Commands, ApplyStash(p)
  PROVE  /\ At(p, "apply")
         /\ UNCHANGED <<host, stash, merging, onTarget, session>>
         /\ SameRun(p) /\ proc'[p].saved = proc[p].saved
         /\ \/ /\ proc[p].saved[Cur(p)] = NoStash
               /\ Turned(p, "apply", "touch")
            \/ /\ proc'[p].pc = "find" /\ proc'[p].cur = proc[p].cur
               /\ proc[p].saved[Cur(p)].patches \subseteq dirty'[Cur(p)]
<1>1. ProcType /\ Cur(p) \in Repos
  BY Fields DEF TypeInv, Cur
<1>2. CASE proc[p].saved[Cur(p)] = NoStash
  BY <1>1, <1>2, Moving DEF ApplyStash, box
<1>3. CASE proc[p].saved[Cur(p)] # NoStash
  <2>1. /\ Goes(p, "find")
        /\ dirty' = [dirty EXCEPT ![Cur(p)] =
                       @ \cup proc[p].saved[Cur(p)].patches]
    BY <1>3 DEF ApplyStash
  <2>2. proc[p].saved[Cur(p)].patches \subseteq dirty'[Cur(p)]
    BY <1>1, <2>1 DEF TypeInv, CheckoutType
  <2>3. QED
    BY <1>1, <2>1, <2>2, Moving DEF ApplyStash, box
<1>4. QED
  BY <1>2, <1>3

LEMMA LookedStep ==
  ASSUME TypeInv, NEW p \in Commands, CommandWork(p), Looked(p)
  PROVE  Looked(p)'
<1> USE DEF Looked, At, Cur
<1>1. \A r \in Repos : r \in Int
  BY RepoFacts
<1>2. /\ proc[p].cur \in Repos /\ proc[p].cur \in Int
      /\ proc[p].first \in Int /\ proc[p].last \in Int
  BY Fields DEF TypeInv
<1>3. proc'[p].cur \in Int /\ proc'[p].first \in Int
  BY ProcTypeStep, RepoFacts DEF ProcType, ProcessState
<1>4. CASE Preflight(p) /\ proc'[p].pc # "idle"
  <2>1. \A r \in Repos : Ready(p, r) => Ready(p, r)'
    BY <1>4, PreflightIsRead
    DEF Ready, Clean, CanFastForward, With, SameRun, checkout
  <2>2. QED
    BY <1>1, <1>2, <1>4, <2>1, PreflightIsRead DEF Turned, SameRun
<1>5. CASE MoveHost(p)
  <2>1. \A r \in Repos \ {proc[p].cur} : Ready(p, r) => Ready(p, r)'
    BY <1>5, MoveIsForward
    DEF Ready, Clean, CanFastForward, With, SameRun, TypeInv, CheckoutType
  <2>2. QED
    BY <1>1, <1>2, <1>5, <2>1, MoveIsForward DEF Turned, SameRun
<1>6. CASE proc'[p].pc = "preflight" /\ proc'[p].cur = proc'[p].first
  BY <1>1, <1>6, <1>3
<1>7. CASE proc'[p].pc \notin {"preflight", "move"}
  BY <1>7
<1>8. QED
  BY <1>4, <1>5, <1>6, <1>7, Destinations

LEMMA BackStep ==
  ASSUME TypeInv, NEW p \in Commands, CommandWork(p), Back(p)
  PROVE  Back(p)'
<1> USE DEF Back, Cur
<1>1. CASE proc'[p].pc = "find"
  <2>1. ApplyStash(p)
    BY <1>1, Destinations
  <2>2. /\ proc'[p].cur = proc[p].cur /\ proc'[p].saved = proc[p].saved
        /\ proc[p].saved[Cur(p)].patches \subseteq dirty'[Cur(p)]
    <3>1. proc[p].cur <= proc[p].last /\ proc[p].cur \in Int
      BY Fields DEF TypeInv
    <3>2. QED
      BY <1>1, <2>1, ApplyIsBack DEF Turned
  <2>3. QED
    BY <2>2
<1>2. CASE proc'[p].pc = "drop"
  <2>1. FindStash(p)
    BY <1>2, Destinations
  <2>2. QED
    BY <1>2, <2>1, FindIsRead DEF At, checkout
<1>3. QED
  BY <1>1, <1>2

LEMMA CountedStep ==
  ASSUME TypeInv, NEW p \in Commands, CommandWork(p)
  PROVE  Counted(p)'
<1> SUFFICES ASSUME proc'[p].pc = "drop"
             PROVE  Counted(p)'
  BY DEF Counted, At
<1>1. FindStash(p)
  BY Destinations
<1>2. QED
  BY <1>1, FindIsRead DEF Counted, At, Cur, Place, checkout

LEMMA MovedStep ==
  ASSUME Books, NEW p \in Commands, CommandWork(p), Moved(p)
  PROVE  Moved(p)'
<1> USE DEF Moved, At, Cur, Accepted, Accepts
<1>1. TypeInv
  BY DEF Books
<1>2. \A r \in Repos : r \in Int
  BY RepoFacts
<1>3. /\ proc[p].cur \in Repos /\ proc[p].cur \in Int
      /\ proc[p].first \in Int /\ proc[p].last \in Int
      /\ proc'[p].cur \in Int /\ proc'[p].first \in Int
  BY <1>1, Fields, ProcTypeStep, RepoFacts
  DEF TypeInv, ProcType, ProcessState
<1>4. CASE Preflight(p) /\ proc'[p].pc = "move"
  BY <1>1, <1>2, <1>3, <1>4, PreflightIsRead DEF Turned, SameRun
<1>5. CASE MoveHost(p)
  <2>1. session[proc[p].cur] \subseteq host'[proc[p].cur]
    BY <1>1, <1>3, <1>5, MoveIsForward DEF TypeInv, CheckoutType
  <2>2. \A r \in Repos : session[r] \subseteq host[r]
                           => session'[r] \subseteq host'[r]
    BY <1>1, <1>5, MoveIsForward DEF TypeInv, CheckoutType
  <2>3. session' = session
    BY <1>1, <1>5, MoveIsForward
  <2>4. CASE proc[p].cur = proc[p].last
    BY <1>1, <1>2, <1>3, <1>5, <2>1, <2>2, <2>3, <2>4, MoveIsForward
    DEF Turned, SameRun
  <2>5. CASE proc[p].cur < proc[p].last
    BY <1>1, <1>2, <1>3, <1>5, <2>1, <2>2, <2>3, <2>5, MoveIsForward
    DEF Turned, SameRun
  <2>6. QED
    BY <1>1, <1>5, <2>4, <2>5, MoveIsForward DEF Turned
<1>6. ASSUME proc[p].pc \in {"apply", "find", "drop"}, SameRun(p),
             UNCHANGED <<host, session>>, proc'[p].pc # "move"
      PROVE  Moved(p)'
  BY <1>6 DEF SameRun
<1>7. CASE ApplyStash(p)
  <2>1. proc'[p].pc \in {"apply", "touch", "find"}
    BY <1>1, <1>7, ApplyIsBack DEF Turned
  <2>2. QED
    BY <1>1, <1>6, <1>7, <2>1, ApplyIsBack
<1>8. CASE FindStash(p) /\ proc'[p].pc = "drop"
  BY <1>1, <1>6, <1>8, FindIsRead DEF checkout
<1>9. CASE DropStash(p) /\ proc'[p].pc # "idle"
  <2>1. NextRepo(p, "apply", "touch")
    BY <1>1, <1>9, Moving, IdleIsState DEF DropStash, TypeInv
  <2>2. SameRun(p) /\ proc'[p].pc \in {"apply", "touch"}
    BY <1>1, <2>1, Moving DEF TypeInv, Turned
  <2>3. QED
    BY <1>6, <1>9, <2>2 DEF DropStash, box
<1>10. CASE ConcludeMerge(p)
  <2>1. proc'[p].pc = "touch" /\ SameRun(p) /\ proc[p].pc = "conclude"
    BY <1>1, <1>10, Moving DEF ConcludeMerge, TypeInv
  <2>2. proc[p].cmd \notin {"one", "all"}
    BY <2>1 DEF Books, Roles, InRole, RecoveryPhases
  <2>3. QED
    BY <2>1, <2>2 DEF SameRun
<1>11. CASE proc'[p].pc \notin {"move", "apply", "find", "drop", "touch"}
  BY <1>11
<1>12. QED
  BY <1>1, <1>4, <1>5, <1>7, <1>8, <1>9, <1>10, <1>11, Destinations

LEMMA DroppedStep ==
  ASSUME Books, NEW p \in Commands, CommandWork(p), Dropped(p), Counted(p)
  PROVE  Dropped(p)'
<1> USE DEF Dropped, At, Cur, Accepted, Accepts
<1>1. TypeInv
  BY DEF Books
<1>2. \A r \in Repos : r \in Int
  BY RepoFacts
<1>3. /\ proc[p].cur \in Repos /\ proc[p].cur \in Int
      /\ proc[p].first \in Int /\ proc[p].last \in Int
      /\ proc'[p].cur \in Int /\ proc'[p].first \in Int
  BY <1>1, Fields, ProcTypeStep, RepoFacts
  DEF TypeInv, ProcType, ProcessState
<1>4. \A r \in Repos : NoStash \notin stash[r]
  BY DEF Books, Numbered, NoStash
<1>5. CASE MoveHost(p)
  <2>1. CASE With(p, "stash-host")
    BY <1>1, <1>2, <1>3, <1>5, <2>1, MoveIsForward DEF Turned, SameRun
  <2>2. CASE ~With(p, "stash-host")
    <3>1. \A r \in Repos : proc[p].saved[r] = NoStash
      BY <2>2 DEF Books, Roles, InRole
    <3>2. QED
      BY <1>1, <1>4, <1>5, <2>2, <3>1, MoveIsForward DEF Turned
  <2>3. QED
    BY <2>1, <2>2
<1>6. CASE ApplyStash(p)
  <2>1. CASE proc'[p].pc = "find"
    BY <1>1, <1>6, <2>1, ApplyIsBack DEF Turned, SameRun
  <2>2. CASE proc'[p].pc # "find"
    <3>1. /\ proc[p].saved[proc[p].cur] \notin stash[proc[p].cur]
          /\ Turned(p, "apply", "touch")
      BY <1>1, <1>3, <1>4, <1>6, <2>2, ApplyIsBack
    <3>2. QED
      BY <1>1, <1>2, <1>3, <1>6, <3>1, ApplyIsBack DEF Turned, SameRun
  <2>3. QED
    BY <2>1, <2>2
<1>7. CASE FindStash(p) /\ proc'[p].pc = "drop"
  BY <1>1, <1>7, FindIsRead DEF checkout, SameRun
<1>8. CASE DropStash(p)
  <2>1. /\ SameRun(p) /\ proc'[p].saved = proc[p].saved
        /\ Turned(p, "apply", "touch")
    BY <1>1, <1>8, DropIsRight, Moving DEF TypeInv
  <2>2. proc[p].saved[proc[p].cur] \notin stash'[proc[p].cur]
    BY <1>8, DropIsRight
  <2>3. \A r \in Repos : stash'[r] \subseteq stash[r]
    BY <1>8, DropIsRight
  <2>4. QED
    BY <1>2, <1>3, <1>8, <2>1, <2>2, <2>3 DEF DropStash, Turned, SameRun
<1>9. CASE ConcludeMerge(p)
  <2>1. proc'[p].pc = "touch" /\ SameRun(p) /\ proc[p].pc = "conclude"
    BY <1>1, <1>9, Moving DEF ConcludeMerge, TypeInv
  <2>2. proc[p].cmd \notin {"one", "all"}
    BY <2>1 DEF Books, Roles, InRole, RecoveryPhases
  <2>3. QED
    BY <2>1, <2>2 DEF SameRun
<1>10. CASE proc'[p].pc \notin {"apply", "find", "drop", "touch"}
  BY <1>10
<1>11. QED
  BY <1>1, <1>5, <1>6, <1>7, <1>8, <1>9, <1>10, Destinations

LEMMA UserLeavesKnown ==
  ASSUME Books, UserWaits, NEW s \in Repos, UserWork(s),
         NEW p \in Commands, Knows(p)
  PROVE  Knows(p)'
<1> USE DEF At, Cur
<1>1. /\ TypeInv /\ CheckoutType /\ CountType /\ Listed
      /\ proc[p].cur \in Repos /\ proc[p].saved \in [Repos -> Stash]
  BY Fields DEF Books, Numbered, Listed, TypeInv
<1>2. UNCHANGED <<proc, session>> /\ UserMayAct
  BY DEF UserWork, UserEdits, UserCommits, UserStashes, UserPopsStash,
         UserMergesOther, UserResolves, UserConcludes, UserLeaves,
         UserReturns, box
<1>3. proc[p].pc \notin {"preflight", "move", "drop"}
  BY <1>2 DEF UserMayAct, UserWaits
<1>4. Looked(p)' /\ Counted(p)'
  BY <1>2, <1>3 DEF Looked, Counted
<1>5. \A r \in Repos : host[r] \subseteq host'[r]
  BY <1>1, UserKeepsHosts
<1>6. Moved(p)'
  <2>1. \A r \in Repos : session[r] \subseteq host[r]
                           => session[r] \subseteq host'[r]
    BY <1>5
  <2>2. QED
    BY <1>2, <1>3, <2>1 DEF Knows, Moved, Accepted, Accepts
<1>7. Dropped(p)'
  <2>1. ASSUME NEW r \in Repos, proc[p].saved[r] \notin stash[r]
        PROVE  proc[p].saved[r] \notin stash'[r]
    <3>1. proc[p].saved[r].id \in Nat /\ proc[p].saved[r].id <= stashed
          /\ stashed \in Nat
      BY <1>1 DEF Books, Numbered, Stash, CountType
    <3>2. CASE UserStashes(s)
      <4>1. stash'[r] \subseteq stash[r] \cup {[id |-> stashed + 1,
                                                patches |-> dirty[s]]}
        BY <1>1, <3>2, PushIsListed DEF UserStashes
      <4>2. QED
        BY <2>1, <3>1, <4>1
    <3>3. CASE UserPopsStash(s)
      BY <1>1, <2>1, <3>3 DEF UserPopsStash, CheckoutType
    <3>4. CASE UNCHANGED stash
      BY <2>1, <3>4
    <3>5. QED
      BY <3>2, <3>3, <3>4
      DEF UserWork, UserEdits, UserCommits, UserMergesOther, UserResolves,
          UserConcludes, UserLeaves, UserReturns
  <2>2. QED
    BY <1>2, <2>1 DEF Knows, Dropped, Accepted, Accepts
<1>8. Back(p)'
  <2> DEFINE c == proc[p].cur
             e == proc[p].saved[c]
             Rest == UNION {f.patches : f \in stash[c] \ {e}}
             Rest2 == UNION {f.patches : f \in stash'[c] \ {e}}
  <2> SUFFICES ASSUME proc[p].pc = "find"
               PROVE  e.patches \subseteq dirty'[c] \cup host'[c] \cup Rest2
    BY <1>2, <1>3 DEF Back
  <2>1. e.patches \subseteq dirty[c] \cup host[c] \cup Rest
    BY DEF Knows, Back
  <2>2. host[c] \subseteq host'[c] /\ c \in Repos /\ e \in Stash
    BY <1>1, <1>5
  <2>3. CASE UserStashes(s)
    <3>1. CASE c = s
      <4> DEFINE new == [id |-> stashed + 1, patches |-> dirty[s]]
      <4>1. stash'[c] = stash[c] \cup {new}
        BY <1>1, <2>3, <3>1, PushIsListed DEF UserStashes
      <4>2. new # e
        BY <1>1, <2>2 DEF Books, Numbered, Stash, CountType
      <4>3. new.patches = dirty[c]
        BY <3>1
      <4> HIDE DEF new, e, c
      <4>4. dirty[c] \subseteq Rest2
        BY <4>1, <4>2, <4>3
      <4>5. Rest \subseteq Rest2
        BY <4>1
      <4>6. QED
        BY <2>1, <2>2, <4>4, <4>5
    <3>2. CASE c # s
      <4>1. stash'[c] = stash[c]
        BY <1>1, <2>2, <2>3, <3>2, PushIsListed DEF UserStashes
      <4>2. dirty'[c] = dirty[c]
        BY <1>1, <2>2, <2>3, <3>2 DEF UserStashes, PushStash, CheckoutType
      <4>3. QED
        BY <2>1, <2>2, <4>1, <4>2
    <3>3. QED
      BY <3>1, <3>2
  <2>4. CASE UserPopsStash(s)
    <3>1. PICK f \in stash[s] :
            /\ stash' = [stash EXCEPT ![s] = @ \ {f}]
            /\ dirty' = [dirty EXCEPT ![s] = f.patches]
      BY <2>4 DEF UserPopsStash
    <3>2. dirty[s] = {}
      BY <2>4 DEF UserPopsStash, Clean
    <3>3. CASE c = s
      <4>1. stash'[c] = stash[c] \ {f} /\ dirty'[c] = f.patches
        BY <1>1, <2>2, <3>1, <3>3 DEF CheckoutType
      <4> HIDE DEF e, c
      <4>2. Rest \subseteq dirty'[c] \cup Rest2
        BY <4>1
      <4>3. QED
        BY <2>1, <2>2, <3>2, <3>3, <4>2
    <3>4. CASE c # s
      <4>1. stash'[c] = stash[c] /\ dirty'[c] = dirty[c]
        BY <1>1, <2>2, <3>1, <3>4 DEF CheckoutType
      <4>2. QED
        BY <2>1, <2>2, <4>1
    <3>5. QED
      BY <3>3, <3>4
  <2>5. CASE UserCommits(s)
    BY <1>1, <2>1, <2>2, <2>5 DEF UserCommits, CheckoutType
  <2>6. CASE dirty[c] \subseteq dirty'[c] /\ UNCHANGED stash
    BY <2>1, <2>2, <2>6
  <2>7. QED
    BY <1>1, <2>2, <2>3, <2>4, <2>5, <2>6
    DEF UserWork, UserEdits, UserMergesOther, UserResolves, UserConcludes,
        UserLeaves, UserReturns, CheckoutType
<1>9. QED
  BY <1>4, <1>6, <1>7, <1>8 DEF Knows

\* An invocation that is not running knows nothing.
LEMMA IdleKnows ==
  ASSUME NEW p, proc[p].pc = "idle"
  PROVE  Knows(p)
BY DEF Knows, Looked, Back, Counted, Moved, Dropped, At, Accepted

LEMMA AloneInit == Init => AloneInv
<1> SUFFICES ASSUME Init PROVE AloneInv
  OBVIOUS
<1>1. \A p \in Commands : Knows(p)
  BY IdleIsState, IdleKnows DEF Init
<1>2. HostWorkKept
  BY DEF Init, Nothing, HostWorkKept
<1>3. QED
  BY <1>1, <1>2 DEF AloneInv

\* What does not touch a host checkout leaves what is known of it.
LEMMA SameCheckouts ==
  ASSUME AloneInv, UNCHANGED <<host, dirty, stash, merging, onTarget,
                               session, proc, written>>
  PROVE  AloneInv'
<1>1. HostWorkKept'
  BY DEF AloneInv, HostWorkKept
<1>2. ASSUME NEW p \in Commands
      PROVE  Knows(p)'
  <2> USE DEF AloneInv, Knows, At, Cur
  <2>1. \A r : Ready(p, r)' <=> Ready(p, r)
    BY DEF Ready, Clean, CanFastForward, With
  <2>2. Looked(p)'
    BY <2>1 DEF Looked
  <2>3. Back(p)'
    BY DEF Back
  <2>4. Counted(p)'
    BY DEF Counted, Place
  <2>5. Moved(p)' /\ Dropped(p)'
    BY DEF Moved, Dropped, Accepted, Accepts
  <2>6. QED
    BY <2>2, <2>3, <2>4, <2>5
<1>3. QED
  BY <1>1, <1>2 DEF AloneInv

LEMMA AloneStep ==
  ASSUME UserWaits, Books, OneAtATime, OneAtATime', AloneInv, [Next]_vars
  PROVE  AloneInv'
<1>1. TypeInv
  BY DEF Books
<1>2. CASE UNCHANGED vars
  BY <1>2, SameCheckouts DEF vars, checkout, box
<1>3. ASSUME NEW p \in Commands, CommandWork(p)
      PROVE  AloneInv'
  <2>1. Knows(p)
    BY DEF AloneInv
  <2>2. HostWorkKept'
    BY <1>3, <2>1, CommandKeepsWork DEF AloneInv, Knows
  <2>3. Knows(p)'
    BY <1>1, <1>3, <2>1, LookedStep, BackStep, CountedStep, MovedStep,
       DroppedStep
    DEF Knows
  <2>4. ASSUME NEW q \in Commands \ {p}
        PROVE  Knows(q)'
    <3>1. proc'[q] = proc[q]
      BY <1>1, <1>3, OthersStay
    <3>2. CASE proc[p].pc # "idle"
      <4>1. proc[q].pc = "idle"
        BY <3>2 DEF OneAtATime, At
      <4>2. QED
        BY <3>1, <4>1
        DEF Knows, Looked, Back, Counted, Moved, Dropped, At, Accepted
    <3>3. CASE proc'[p].pc # "idle"
      <4>1. proc'[q].pc = "idle"
        BY <3>3 DEF OneAtATime, At
      <4>2. QED
        BY <4>1
        DEF Knows, Looked, Back, Counted, Moved, Dropped, At, Accepted
    <3>4. CASE proc[p].pc = "idle" /\ proc'[p].pc = "idle"
      <4>1. \A c \in Invoked, r \in Repos, o \in Options : ~Begin(p, c, r, o)
        BY <1>1, <3>4, Beginning
      <4>2. ~Step(p) /\ ~Killed(p)
        BY <3>4
        DEF Step, AskSteps, PrepareSteps, MoveSteps, RecoverySteps,
            OfferImport, AskMerge, Confirm, ValidateCheckpoint,
            CheckpointWorktree, CheckpointFails, ImportSnapshot,
            ImportRefused, CheckTarget, StashHost, StashRefused, NoteStash,
            NoteFails, Preflight, MoveHost, MoveRefused, MergeConflicts,
            ApplyStash, ApplyConflicts, ApplyRefused, FindStash, DropStash,
            Touch, SelectPaused, ReviewMerge, ConcludeMerge,
            ConcludeCancelled, Killed, At
      <4>3. QED
        BY <1>3, <4>1, <4>2 DEF CommandWork
    <3>5. QED
      BY <3>2, <3>3, <3>4
  <2>5. QED
    BY <2>2, <2>3, <2>4 DEF AloneInv
<1>4. ASSUME NEW r \in Repos, UserWork(r)
      PROVE  AloneInv'
  BY <1>4, UserKeepsWork, UserLeavesKnown DEF AloneInv
<1>5. ASSUME NEW r \in Repos, AgentWork(r)
      PROVE  AloneInv'
  <2>1. UNCHANGED <<host, dirty, stash, merging, onTarget, session, proc,
                    written>>
    BY <1>5, AgentIsElsewhere DEF checkout
  <2>2. QED
    BY <2>1, SameCheckouts
<1>6. QED
  BY <1>2, <1>3, <1>4, <1>5, NextIsWork

-----------------------------------------------------------------------------
LEMMA BooksHold == Spec => []Books
BY BooksInit, BooksStep, PTL DEF Spec

LEMMA AloneHolds ==
  ASSUME UserWaits
  PROVE  Spec /\ []OneAtATime => []AloneInv
<1>1. UserWaits
  OBVIOUS
<1>2. Books /\ OneAtATime /\ OneAtATime' /\ AloneInv /\ [Next]_vars
        => AloneInv'
  BY <1>1, AloneStep
<1>3. QED
  BY <1>2, AloneInit, BooksHold, PTL DEF Spec

(* What the user wrote in a host checkout is in its files, in a stash or   *)
(* on the branch, when no two invocations overlap and the user does not    *)
(* touch the list of stashes while an invocation drops its own from it:    *)
(* the entry that is dropped is the one whose files have come back.        *)
THEOREM WorkIsKept ==
  ASSUME UserWaits
  PROVE  Spec /\ []OneAtATime => []HostWorkKept
<1>1. AloneInv => HostWorkKept
  BY DEF AloneInv
<1>2. QED
  BY <1>1, AloneHolds, PTL

(* When the first host branch is about to move, every host that is still   *)
(* to move is ready: a fast-forward of several repositories is not refused *)
(* half-way, when the user leaves the checkouts alone from the preflight   *)
(* to the last move.                                                       *)
THEOREM NoneIsRefusedHalfWay ==
  ASSUME UserWaits
  PROVE  Spec /\ []OneAtATime => []NoPartialFastForward
<1>1. Books /\ AloneInv => NoPartialFastForward
  <2> SUFFICES ASSUME Books, AloneInv, NEW p \in Commands, At(p, "move"),
                      NEW r \in Cur(p)..proc[p].last
               PROVE  Ready(p, r)
    BY DEF NoPartialFastForward
  <2>1. /\ proc[p].cur \in Repos /\ proc[p].last \in Repos
        /\ Cur(p) = proc[p].cur
    BY Fields DEF Books, TypeInv, Cur
  <2>2. r \in Repos /\ Cur(p) <= r /\ r <= proc[p].last
    BY <2>1, RepoFacts DEF Repos
  <2>3. QED
    BY <2>2 DEF AloneInv, Knows, Looked
<1>2. QED
  BY <1>1, AloneHolds, BooksHold, PTL

(* An acceptance that reports success has brought the imported session     *)
(* branch of every repository it was asked for into the host branch, and   *)
(* none of its temporary stashes is left in a list.                        *)
THEOREM SuccessMeansAll ==
  ASSUME UserWaits
  PROVE  Spec /\ []OneAtATime => []SuccessIsComplete
<1>1. Books /\ AloneInv => SuccessIsComplete
  <2> SUFFICES ASSUME Books, AloneInv, NEW p \in Commands, At(p, "touch"),
                      proc[p].cmd \in {"one", "all"},
                      NEW r \in proc[p].first..proc[p].last
               PROVE  /\ session[r] \subseteq host[r]
                      /\ proc[p].saved[r] \notin stash[r]
    BY DEF SuccessIsComplete
  <2>1. proc[p].first \in Repos /\ proc[p].last \in Repos
    BY Fields DEF Books, TypeInv
  <2>2. r \in Repos /\ proc[p].first <= r /\ r <= proc[p].last
    BY <2>1, RepoFacts DEF Repos
  <2>3. QED
    BY <2>2 DEF AloneInv, Knows, Moved, Dropped, Accepted, Accepts
<1>2. QED
  BY <1>1, AloneHolds, BooksHold, PTL
=============================================================================
