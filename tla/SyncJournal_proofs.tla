------------------------- MODULE SyncJournal_proofs -------------------------
(***************************************************************************)
(* Proofs about SyncJournal, for any number of repositories, patches,      *)
(* conflicts, faults and aborts: types, the journal, its barriers and      *)
(* pushes, the freeze of the guest, the alignment after acceptance, and    *)
(* what its hard reset discards.                                           *)
(***************************************************************************)
EXTENDS SyncJournal, TLAPS

-----------------------------------------------------------------------------
(***************************************************************************)
(* Branches and rebases.                                                   *)
(***************************************************************************)

\* A longer history has at least the same patches.
LEMMA PatchesMonotone ==
  ASSUME NEW a, NEW b, a \subseteq b
  PROVE  Patches(a) \subseteq Patches(b)
BY DEF Patches

\* A rebase keeps the patches of the branch and takes those of its target.
LEMMA RebasedKeepsPatches ==
  ASSUME NEW branch, NEW onto, NEW id
  PROVE  /\ Patches(branch) \subseteq Patches(Rebased(branch, onto, id))
         /\ Patches(onto) \subseteq Patches(Rebased(branch, onto, id))
<1>1. CASE IsAncestor(onto, branch)
  BY <1>1, PatchesMonotone DEF Rebased, IsAncestor
<1>2. CASE ~IsAncestor(onto, branch)
  <2>1. Rebased(branch, onto, id)
          = onto \cup [patch : Unreplayed(branch, onto), id : {id}]
    BY <1>2 DEF Rebased
  <2>2. Patches(onto) \subseteq Patches(Rebased(branch, onto, id))
    BY <2>1, PatchesMonotone
  <2>3. ASSUME NEW p \in Unreplayed(branch, onto)
        PROVE  p \in Patches(Rebased(branch, onto, id))
    <3>1. [patch |-> p, id |-> id] \in Rebased(branch, onto, id)
      BY <2>1, <2>3
    <3>2. QED  BY <3>1 DEF Patches
  <2>4. Patches(branch) \subseteq Patches(onto) \cup Unreplayed(branch, onto)
    BY DEF Unreplayed
  <2>5. QED  BY <2>2, <2>3, <2>4
<1>3. QED  BY <1>1, <1>2

\* A rebase of one branch onto another makes a branch.
LEMMA RebasedIsBranch ==
  ASSUME NEW branch \in SUBSET Commit, NEW onto \in SUBSET Commit,
         NEW id \in Nat
  PROVE  Rebased(branch, onto, id) \in SUBSET Commit
<1>1. Unreplayed(branch, onto) \subseteq Nat
  BY DEF Unreplayed, Patches, Commit
<1>2. [patch : Unreplayed(branch, onto), id : {id}] \subseteq Commit
  BY <1>1 DEF Commit
<1>3. QED  BY <1>2 DEF Rebased

-----------------------------------------------------------------------------
(***************************************************************************)
(* Type correctness, one action at a time.                                 *)
(***************************************************************************)
LEMMA NumbersAreRepos ==
  /\ Repos \subseteq Nat
  /\ 1 \in Repos
  /\ \A r \in Repos : r # RepoCount => r + 1 \in Repos
BY RepoCountAssumption DEF Repos

LEMMA BaseCommitIsCommit == BaseCommit \in Commit
BY DEF BaseCommit, Commit

\* The empty values the journal and the process fall back to.
LEMMA EmptyTypes ==
  /\ NoPause \in [Repos -> SUBSET Commit]
  /\ [r \in Repos |-> Planned] \in [Repos -> SyncStages]
  /\ [r \in Repos |-> {}] \in [Repos -> SUBSET Nat]
  /\ NoView \in [running : BOOLEAN, checkpoint : BOOLEAN,
                 original : [Repos -> SUBSET Commit]]
<1>1. NoPause \in [Repos -> SUBSET Commit]
  BY DEF NoPause
<1>2. [r \in Repos |-> Planned] \in [Repos -> SyncStages]
  BY DEF SyncStages, Planned, Pushed
<1>3. [r \in Repos |-> {}] \in [Repos -> SUBSET Nat]
  OBVIOUS
<1>4. NoView = [running |-> FALSE, checkpoint |-> FALSE, original |-> NoPause]
  BY DEF NoView, NoPause
<1>5. QED  BY <1>1, <1>2, <1>3, <1>4

LEMMA InitType == Init => TypeOK
<1> SUFFICES ASSUME Init PROVE TypeOK
  OBVIOUS
<1>1. [r \in Repos |-> {BaseCommit}] \in [Repos -> SUBSET Commit]
  BY BaseCommitIsCommit
<1>2. original \in [Repos -> SUBSET Commit]
  BY EmptyTypes DEF Init, NoPause
<1>3. pc \in Phases
  BY DEF Init, Phases
<1>4. QED
  BY <1>1, <1>2, <1>3, EmptyTypes, NumbersAreRepos DEF Init, TypeOK

\* What a step of the process may do to its own position.
LEMMA MovesType ==
  ASSUME TypeOK, NEW p \in Phases, NEW f \in Phases, Moves(p, f) \/ Ends
  PROVE  /\ pc' \in Phases
         /\ cur' \in Repos
         /\ view' \in [running : BOOLEAN, checkpoint : BOOLEAN,
                       original : [Repos -> SUBSET Commit]]
<1>1. CASE Moves(p, f)
  BY <1>1, NumbersAreRepos DEF TypeOK, Moves
<1>2. CASE Ends
  <2>1. pc' \in Phases
    BY <1>2 DEF Ends, Phases
  <2>2. QED  BY <1>2, <2>1, NumbersAreRepos, EmptyTypes DEF Ends
<1>3. QED  BY <1>1, <1>2

\* Dropping the journal.
LEMMA ClearsJournalType ==
  ASSUME ClearsJournal
  PROVE  /\ retained' \in BOOLEAN
         /\ checkpoint' \in BOOLEAN
         /\ restart' \in BOOLEAN
         /\ stage' \in [Repos -> SyncStages]
         /\ original' \in [Repos -> SUBSET Commit]
BY EmptyTypes DEF ClearsJournal, NoPause

\* Starting the guest commits what is left in the worktrees.
LEMMA StartsGuestType ==
  ASSUME TypeOK, StartsGuest
  PROVE  /\ guest' \in [Repos -> SUBSET Commit]
         /\ made' \in Nat
         /\ dirty' \in [Repos -> BOOLEAN]
         /\ guestUp' \in BOOLEAN
         /\ running' \in BOOLEAN
BY NumbersAreRepos, RepoCountAssumption DEF TypeOK, StartsGuest, Commit

LEMMA StepType == TypeOK /\ [Next]_vars => TypeOK'
<1> SUFFICES ASSUME TypeOK, [Next]_vars PROVE TypeOK'
  OBVIOUS
<1> USE DEF branches, paused, journal, session, process, history, bounds
<1>1. CASE SaveJournal
  BY <1>1, NumbersAreRepos
     DEF SaveJournal, AfterStop, Phases, SyncStages, Planned, Pushed, TypeOK
<1>2. CASE StopGuest
  BY <1>2 DEF StopGuest, AfterStop, Phases, TypeOK
<1>3. CASE CheckpointWorktree
  <2>0. "checkpoint" \in Phases /\ "host" \in Phases
    BY DEF Phases
  <2>1. CASE dirty[cur]
    <3>1. NewCommit \in Commit /\ made' \in Nat
      BY <1>3, <2>1
         DEF CheckpointWorktree, CommitsOnSession, NewCommit, Commit, TypeOK
    <3>2. guest' \in [Repos -> SUBSET Commit]
      BY <1>3, <2>1, <3>1 DEF CheckpointWorktree, CommitsOnSession, TypeOK
    <3>3. dirty' \in [Repos -> BOOLEAN]
      BY <1>3, <2>1 DEF CheckpointWorktree, TypeOK
    <3>4. QED
      BY <1>3, <2>0, <2>1, <3>1, <3>2, <3>3, MovesType
         DEF CheckpointWorktree, TypeOK
  <2>2. CASE ~dirty[cur]
    BY <1>3, <2>0, <2>2, MovesType DEF CheckpointWorktree, TypeOK
  <2>3. QED  BY <2>1, <2>2
<1>4. CASE SkipHost
  BY <1>4, MovesType DEF SkipHost, Phases, TypeOK
<1>5. CASE PullHost
  BY <1>5, RebasedIsBranch DEF PullHost, ReplayId, CountReplay, Phases, TypeOK
<1>6. CASE PullHostConflicts
  BY <1>6, MovesType DEF PullHostConflicts, TypeOK
<1>7. CASE SaveHostStage
  BY <1>7, MovesType
     DEF SaveHostStage, Phases, SavesStage, SyncStages, HostSynchronized,
         Planned, Pushed, TypeOK
<1>8. CASE AlignAccepted
  BY <1>8, MovesType DEF AlignAccepted, Phases, TypeOK
<1>9. CASE SkipGuest
  BY <1>9, MovesType DEF SkipGuest, Phases, TypeOK
<1>10. CASE RebaseGuest
  BY <1>10, RebasedIsBranch
     DEF RebaseGuest, ReplayId, CountReplay, Phases, TypeOK
<1>11. CASE RebaseGuestConflicts
  BY <1>11, MovesType DEF RebaseGuestConflicts, TypeOK
<1>12. CASE SaveGuestStage
  BY <1>12, MovesType
     DEF SaveGuestStage, Phases, SavesStage, SyncStages, GuestRebased,
         Planned, Pushed, TypeOK
<1>13. CASE SkipAccept
  BY <1>13, MovesType DEF SkipAccept, Phases, TypeOK
<1>14. CASE AcceptSnapshot
  BY <1>14 DEF AcceptSnapshot, Phases, TypeOK
<1>15. CASE SaveAcceptStage
  BY <1>15, MovesType
     DEF SaveAcceptStage, Phases, SavesStage, SyncStages, Accepted, Planned,
         Pushed, TypeOK
<1>16. CASE ConfirmPush
  BY <1>16 DEF ConfirmPush, Phases, TypeOK
<1>17. CASE DeclinePush
  BY <1>17, MovesType DEF DeclinePush, TypeOK
<1>18. CASE SkipPush
  BY <1>18, MovesType DEF SkipPush, Phases, TypeOK
<1>19. CASE PushUpstream
  BY <1>19 DEF PushUpstream, Phases, TypeOK
<1>20. CASE SavePushStage
  BY <1>20, MovesType
     DEF SavePushStage, Phases, SavesStage, SyncStages, Planned, Pushed,
         TypeOK
<1>21. CASE FinishSync
  BY <1>21, MovesType, ClearsJournalType DEF FinishSync, Phases, TypeOK
<1>22. CASE RestartGuest
  BY <1>22, MovesType, StartsGuestType
     DEF RestartGuest, StartsGuest, Phases, TypeOK
<1>23. CASE FailSync
  BY <1>23, MovesType DEF FailSync, TypeOK
<1>24. CASE Fault
  BY <1>24, MovesType DEF Fault, TypeOK
<1>25. CASE PlanSync
  BY <1>25 DEF PlanSync, PlansWith, Phases, TypeOK
<1>26. CASE ContinueSync
  BY <1>26 DEF ContinueSync, PlansWith, Phases, TypeOK
<1>27. CASE AbortSync
  BY <1>27, ClearsJournalType, EmptyTypes DEF AbortSync, TypeOK
<1>28. CASE ResumeCommand
  BY <1>28, StartsGuestType DEF ResumeCommand, StartsGuest, TypeOK
<1>29. CASE StopCommand
  BY <1>29 DEF StopCommand, TypeOK
<1>30. ASSUME NEW r \in Repos, Surroundings(r)
      PROVE  TypeOK'
  <2>1. CASE AgentEdits(r)
    BY <2>1 DEF AgentEdits, TypeOK
  <2>2. CASE AgentCommits(r)
    BY <2>2 DEF AgentCommits, CommitsOnSession, NewCommit, Commit, TypeOK
  <2>3. CASE UserEditsWorktree(r)
    BY <2>3 DEF UserEditsWorktree, TypeOK
  <2>4. CASE UserCommitsInWorktree(r)
    BY <2>4
       DEF UserCommitsInWorktree, CommitsOnSession, NewCommit, Commit, TypeOK
  <2>5. CASE WorktreeCleaned(r)
    BY <2>5 DEF WorktreeCleaned, TypeOK
  <2>6. CASE UserRebasesWorktree(r)
    BY <2>6, RebasedIsBranch
       DEF UserRebasesWorktree, ReplayId, CountReplay, TypeOK
  <2>7. CASE UserCommitsOnHost(r)
    BY <2>7 DEF UserCommitsOnHost, NewCommit, Commit, TypeOK
  <2>8. CASE OthersPush(r)
    BY <2>8 DEF OthersPush, NewCommit, Commit, TypeOK
  <2>9. CASE FinishHostRebase(r)
    BY <2>9, RebasedIsBranch
       DEF FinishHostRebase, ReplayId, CountReplay, TypeOK
  <2>10. CASE AbortHostRebase(r)
    BY <2>10 DEF AbortHostRebase, TypeOK
  <2>11. CASE FinishGuestRebase(r)
    BY <2>11, RebasedIsBranch
       DEF FinishGuestRebase, ReplayId, CountReplay, TypeOK
  <2>12. CASE AbortGuestRebase(r)
    BY <2>12 DEF AbortGuestRebase, TypeOK
  <2>13. CASE AcceptCommand(r)
    BY <2>13 DEF AcceptCommand, TypeOK
  <2> QED
    BY <1>30, <2>1, <2>2, <2>3, <2>4, <2>5, <2>6, <2>7, <2>8, <2>9, <2>10,
       <2>11, <2>12, <2>13
       DEF Surroundings
<1>31. CASE UNCHANGED vars
  BY <1>31 DEF vars, TypeOK
<1> QED
  BY <1>1, <1>2, <1>3, <1>4, <1>5, <1>6, <1>7, <1>8, <1>9, <1>10, <1>11,
     <1>12, <1>13, <1>14, <1>15, <1>16, <1>17, <1>18, <1>19, <1>20, <1>21,
     <1>22, <1>23, <1>24, <1>25, <1>26, <1>27, <1>28, <1>29, <1>30, <1>31
     DEF Next, SyncStep, Command

-----------------------------------------------------------------------------
(***************************************************************************)
(* What a step can do to the branches.  Only a few actions write each of   *)
(* them; every other step leaves it alone.                                 *)
(***************************************************************************)

\* No step takes a patch off a host branch.
LEMMA HostGrows ==
  ASSUME TypeOK, [Next]_vars, NEW r \in Repos
  PROVE  Patches(host[r]) \subseteq Patches(host'[r])
<1> USE DEF branches, paused, journal, session, process, history, bounds
<1>1. CASE PullHost
  BY <1>1, RebasedKeepsPatches DEF PullHost, TypeOK
<1>2. CASE AcceptSnapshot
  BY <1>2, PatchesMonotone DEF AcceptSnapshot, CanAccept, IsAncestor, TypeOK
<1>3. ASSUME NEW q \in Repos, Surroundings(q)
      PROVE  Patches(host[r]) \subseteq Patches(host'[r])
  <2>1. CASE FinishHostRebase(q)
    BY <2>1, RebasedKeepsPatches DEF FinishHostRebase, TypeOK
  <2>2. CASE AcceptCommand(q)
    BY <2>2, PatchesMonotone DEF AcceptCommand, CanAccept, IsAncestor, TypeOK
  <2>3. CASE UserCommitsOnHost(q)
    BY <2>3, PatchesMonotone DEF UserCommitsOnHost, TypeOK
  <2>4. CASE host' = host
    BY <2>4
  <2>5. QED
    BY <1>3, <2>1, <2>2, <2>3, <2>4
       DEF Surroundings, AgentEdits, AgentCommits, UserEditsWorktree,
           UserCommitsInWorktree, WorktreeCleaned, UserRebasesWorktree,
           OthersPush, AbortHostRebase, FinishGuestRebase, AbortGuestRebase
<1>4. CASE host' = host
  BY <1>4
<1>5. QED
  BY <1>1, <1>2, <1>3, <1>4
     DEF Next, SyncStep, Command, vars, SaveJournal, StopGuest,
         CheckpointWorktree, SkipHost, PullHostConflicts, SaveHostStage,
         AlignAccepted, SkipGuest, RebaseGuest, RebaseGuestConflicts,
         SaveGuestStage, SkipAccept, SaveAcceptStage, ConfirmPush,
         DeclinePush, SkipPush, PushUpstream, SavePushStage, FinishSync,
         RestartGuest, FailSync, Fault, PlanSync, ContinueSync, AbortSync,
         ResumeCommand, StopCommand, PlansWith, StartsGuest

\* A remote branch only moves forward.
LEMMA RemoteGrows ==
  ASSUME TypeOK, [Next]_vars, NEW r \in Repos
  PROVE  /\ remote[r] \subseteq remote'[r]
         /\ Patches(remote[r]) \subseteq Patches(remote'[r])
<1> SUFFICES remote[r] \subseteq remote'[r]
  BY PatchesMonotone
<1> USE DEF branches, paused, journal, session, process, history, bounds
<1>1. CASE PushUpstream
  BY <1>1 DEF PushUpstream, CanPush, IsAncestor, TypeOK
<1>2. ASSUME NEW q \in Repos, Surroundings(q)
      PROVE  remote[r] \subseteq remote'[r]
  <2>1. CASE OthersPush(q)
    BY <2>1 DEF OthersPush, TypeOK
  <2>2. CASE remote' = remote
    BY <2>2
  <2>3. QED
    BY <1>2, <2>1, <2>2
       DEF Surroundings, AgentEdits, AgentCommits, UserEditsWorktree,
           UserCommitsInWorktree, WorktreeCleaned, UserRebasesWorktree,
           UserCommitsOnHost, FinishHostRebase, AbortHostRebase,
           FinishGuestRebase, AbortGuestRebase, AcceptCommand
<1>3. CASE remote' = remote
  BY <1>3
<1>4. QED
  BY <1>1, <1>2, <1>3
     DEF Next, SyncStep, Command, vars, SaveJournal, StopGuest,
         CheckpointWorktree, SkipHost, PullHost, PullHostConflicts,
         SaveHostStage, AlignAccepted, SkipGuest, RebaseGuest,
         RebaseGuestConflicts, SaveGuestStage, SkipAccept, AcceptSnapshot,
         SaveAcceptStage, ConfirmPush, DeclinePush, SkipPush, SavePushStage,
         FinishSync, RestartGuest, FailSync, Fault, PlanSync, ContinueSync,
         AbortSync, ResumeCommand, StopCommand, PlansWith, StartsGuest

\* Only the alignment of an accepted worktree can take a patch off a session
\* branch.
LEMMA GuestGrows ==
  ASSUME TypeOK, [Next]_vars, ~AlignAccepted, NEW r \in Repos
  PROVE  Patches(guest[r]) \subseteq Patches(guest'[r])
<1> USE DEF branches, paused, journal, session, process, history, bounds
<1>1. CASE CheckpointWorktree
  BY <1>1, PatchesMonotone DEF CheckpointWorktree, CommitsOnSession, TypeOK
<1>2. CASE RebaseGuest
  BY <1>2, RebasedKeepsPatches DEF RebaseGuest, TypeOK
<1>3. CASE RestartGuest
  BY <1>3, PatchesMonotone DEF RestartGuest, StartsGuest
<1>4. CASE ResumeCommand
  BY <1>4, PatchesMonotone DEF ResumeCommand, StartsGuest
<1>5. ASSUME NEW q \in Repos, Surroundings(q)
      PROVE  Patches(guest[r]) \subseteq Patches(guest'[r])
  <2>1. CASE AgentCommits(q)
    BY <2>1, PatchesMonotone DEF AgentCommits, CommitsOnSession, TypeOK
  <2>2. CASE UserCommitsInWorktree(q)
    BY <2>2, PatchesMonotone
       DEF UserCommitsInWorktree, CommitsOnSession, TypeOK
  <2>3. CASE UserRebasesWorktree(q)
    BY <2>3, RebasedKeepsPatches DEF UserRebasesWorktree, TypeOK
  <2>4. CASE FinishGuestRebase(q)
    BY <2>4, RebasedKeepsPatches DEF FinishGuestRebase, TypeOK
  <2>5. CASE guest' = guest
    BY <2>5
  <2>6. QED
    BY <1>5, <2>1, <2>2, <2>3, <2>4, <2>5
       DEF Surroundings, AgentEdits, UserEditsWorktree, WorktreeCleaned,
           UserCommitsOnHost, OthersPush, FinishHostRebase, AbortHostRebase,
           AbortGuestRebase, AcceptCommand
<1>6. CASE guest' = guest
  BY <1>6
<1>7. QED
  BY <1>1, <1>2, <1>3, <1>4, <1>5, <1>6
     DEF Next, SyncStep, Command, vars, SaveJournal, StopGuest, SkipHost,
         PullHost, PullHostConflicts, SaveHostStage, SkipGuest,
         RebaseGuestConflicts, SaveGuestStage, SkipAccept, AcceptSnapshot,
         SaveAcceptStage, ConfirmPush, DeclinePush, SkipPush, PushUpstream,
         SavePushStage, FinishSync, FailSync, Fault, PlanSync, ContinueSync,
         AbortSync, StopCommand, PlansWith

-----------------------------------------------------------------------------
(***************************************************************************)
(* The inductive invariant: every conjunct, one kind of step at a time.    *)
(***************************************************************************)
\* A phase visits the repositories in order: when everything before the
\* current one is in S, and it is too, so is everything before the next one.
LEMMA VisitsNext ==
  ASSUME NEW c \in Repos, NEW S, c \in S, \A r \in Repos : r < c => r \in S
  PROVE  /\ c = RepoCount => \A r \in Repos : r \in S
         /\ c # RepoCount => /\ c + 1 \in Repos
                             /\ \A r \in Repos : r < c + 1 => r \in S
BY RepoCountAssumption DEF Repos

LEMMA MovesTo ==
  ASSUME TypeOK, NEW p, NEW f, Moves(p, f),
         NEW S, cur \in S, \A r \in Repos : r < cur => r \in S
  PROVE  \/ /\ pc' = f
            /\ cur' = 1
            /\ \A r \in Repos : r \in S
         \/ /\ pc' = p
            /\ \A r \in Repos : r < cur' => r \in S
<1>1. CASE cur = RepoCount
  BY <1>1, VisitsNext DEF TypeOK, Moves
<1>2. CASE cur # RepoCount
  BY <1>2, VisitsNext DEF TypeOK, Moves
<1>3. QED  BY <1>1, <1>2

LEMMA NothingBefore == \A r \in Repos : ~(r < 1)
BY RepoCountAssumption DEF Repos

\* The host phase synchronizes the hosts in order.
LEMMA HostMoves ==
  ASSUME TypeOK, VisitedInv, Moves("host", "guest"),
         pc \in {"host", "hostSave", "align"},
         stage'[cur] \in SyncStages, stage'[cur] >= HostSynchronized,
         \A r \in Repos : stage'[r] = stage[r] \/ r = cur
  PROVE  VisitedInv'
<1> USE
        DEF Planned, HostSynchronized, GuestRebased, Accepted, Pushed,
            SyncStages
<1> DEFINE S == {r \in Repos : stage'[r] >= HostSynchronized}
<1>1. cur \in S /\ (\A r \in Repos : r < cur => r \in S)
  BY NumbersAreRepos DEF VisitedInv, AtLeast, TypeOK
<1> HIDE DEF S
<1>2. \/ /\ pc' = "guest"
         /\ cur' = 1
         /\ \A r \in Repos : r \in S
      \/ /\ pc' = "host"
         /\ \A r \in Repos : r < cur' => r \in S
  BY <1>1, MovesTo
<1> USE DEF S
<1>3. \A r \in Repos : stage'[r] >= Planned
  BY DEF VisitedInv, AtLeast, TypeOK
<1>4. QED
  BY <1>2, <1>3, NothingBefore DEF VisitedInv, AtLeast

\* The guest phase rebases the session branches in order.
LEMMA GuestMoves ==
  ASSUME TypeOK, VisitedInv, Moves("guest", "accept"),
         pc \in {"guest", "guestSave"},
         stage'[cur] \in SyncStages, stage'[cur] >= GuestRebased,
         \A r \in Repos : stage'[r] = stage[r] \/ r = cur
  PROVE  VisitedInv'
<1> USE
        DEF Planned, HostSynchronized, GuestRebased, Accepted, Pushed,
            SyncStages
<1> DEFINE S == {r \in Repos : stage'[r] >= GuestRebased}
<1>1. cur \in S /\ (\A r \in Repos : r < cur => r \in S)
  BY NumbersAreRepos DEF VisitedInv, AtLeast, TypeOK
<1> HIDE DEF S
<1>2. \/ /\ pc' = "accept"
         /\ cur' = 1
         /\ \A r \in Repos : r \in S
      \/ /\ pc' = "guest"
         /\ \A r \in Repos : r < cur' => r \in S
  BY <1>1, MovesTo
<1> USE DEF S
<1>3. \A r \in Repos : stage'[r] >= HostSynchronized
  BY DEF VisitedInv, AtLeast, TypeOK
<1>4. QED
  BY <1>2, <1>3, NothingBefore DEF VisitedInv, AtLeast

\* The accept phase fast-forwards the hosts in order.
LEMMA AcceptMoves ==
  ASSUME TypeOK, VisitedInv, Moves("accept", "confirmPush"),
         pc \in {"accept", "acceptSave"},
         stage'[cur] \in SyncStages, stage'[cur] >= Accepted,
         \A r \in Repos : stage'[r] = stage[r] \/ r = cur
  PROVE  VisitedInv'
<1> USE
        DEF Planned, HostSynchronized, GuestRebased, Accepted, Pushed,
            SyncStages
<1> DEFINE S == {r \in Repos : stage'[r] >= Accepted}
<1>1. cur \in S /\ (\A r \in Repos : r < cur => r \in S)
  BY NumbersAreRepos DEF VisitedInv, AtLeast, TypeOK
<1> HIDE DEF S
<1>2. \/ /\ pc' = "confirmPush"
         /\ cur' = 1
         /\ \A r \in Repos : r \in S
      \/ /\ pc' = "accept"
         /\ \A r \in Repos : r < cur' => r \in S
  BY <1>1, MovesTo
<1> USE DEF S
<1>3. \A r \in Repos : stage'[r] >= GuestRebased
  BY DEF VisitedInv, AtLeast, TypeOK
<1>4. QED
  BY <1>2, <1>3, NothingBefore DEF VisitedInv, AtLeast

\* A recorded stage respects the barriers when the repository is one stage
\* behind it and no repository is further behind.
LEMMA RecordedBarrier ==
  ASSUME TypeOK, PhaseBarrier,
         NEW s \in {HostSynchronized, GuestRebased, Accepted},
         stage' = [stage EXCEPT ![cur] = s],
         stage[cur] <= s,
         \A r \in Repos : stage[r] >= s - 1
  PROVE  PhaseBarrier'
<1>1. \A r \in Repos : stage'[r] = IF r = cur THEN s ELSE stage[r]
  BY DEF TypeOK
<1>2. QED
  BY <1>1
     DEF TypeOK, PhaseBarrier, AtLeast, SyncStages, Planned, HostSynchronized,
         GuestRebased, Accepted, Pushed

LEMMA JournalStep ==
  ASSUME TypeOK, JournalInv, [Next]_vars
  PROVE  JournalInv'
<1> DEFINE Kept(before, after) ==
             \A r \in Repos : Patches(before[r]) \subseteq Patches(after[r])
<1>a. Kept(host, host') /\ Kept(remote, remote')
  BY HostGrows, RemoteGrows
<1>b. pc # "align" => Kept(guest, guest')
  BY GuestGrows DEF AlignAccepted
<1> USE NumbersAreRepos, NothingBefore
        DEF branches, paused, journal, session, process, history, bounds,
            SyncStages, Planned, HostSynchronized, GuestRebased, Accepted,
            Pushed
<1>1. CASE SaveJournal
  <2>1. VisitedInv'
    BY <1>1
       DEF SaveJournal, AfterStop, JournalInv, TypeOK, VisitedInv, AtLeast,
           RetainedInv
  <2>2. RetainedInv' /\ PendingInv' /\ PlanInv'
    BY <1>1
       DEF SaveJournal, AfterStop, JournalInv, TypeOK, RetainedInv,
           PendingInv, PlanInv
  <2>3. PhaseBarrier'
    BY <1>1
       DEF SaveJournal, AfterStop, JournalInv, TypeOK, PhaseBarrier, AtLeast
  <2>4. JournalledWorkKept' /\ PushedMeansPublished'
    BY <1>1, <1>a, <1>b
       DEF SaveJournal, AfterStop, JournalInv, TypeOK, PlanInv,
           JournalledWorkKept, PushedMeansPublished, AtLeast
  <2>5. QED  BY <2>1, <2>2, <2>3, <2>4 DEF JournalInv
<1>2. CASE StopGuest
  <2>1. VisitedInv'
    BY <1>2
       DEF StopGuest, AfterStop, JournalInv, TypeOK, VisitedInv, AtLeast,
           RetainedInv
  <2>2. RetainedInv' /\ PendingInv' /\ PlanInv'
    BY <1>2
       DEF StopGuest, AfterStop, JournalInv, TypeOK, RetainedInv, PendingInv,
           PlanInv
  <2>3. PhaseBarrier'
    BY <1>2
       DEF StopGuest, AfterStop, JournalInv, TypeOK, PhaseBarrier, AtLeast
  <2>4. JournalledWorkKept' /\ PushedMeansPublished'
    BY <1>2, <1>a, <1>b
       DEF StopGuest, AfterStop, JournalInv, TypeOK, PlanInv,
           JournalledWorkKept, PushedMeansPublished, AtLeast
  <2>5. QED  BY <2>1, <2>2, <2>3, <2>4 DEF JournalInv
<1>3. CASE CheckpointWorktree
  <2>1. VisitedInv'
    BY <1>3
       DEF CheckpointWorktree, Moves, JournalInv, TypeOK, VisitedInv, AtLeast,
           RetainedInv
  <2>2. RetainedInv' /\ PendingInv' /\ PlanInv'
    BY <1>3
       DEF CheckpointWorktree, Moves, JournalInv, TypeOK, RetainedInv,
           PendingInv, PlanInv
  <2>3. PhaseBarrier'
    BY <1>3
       DEF CheckpointWorktree, Moves, JournalInv, TypeOK, PhaseBarrier,
           AtLeast
  <2>4. JournalledWorkKept' /\ PushedMeansPublished'
    BY <1>3, <1>a, <1>b
       DEF CheckpointWorktree, Moves, JournalInv, TypeOK, PlanInv,
           JournalledWorkKept, PushedMeansPublished, AtLeast
  <2>5. QED  BY <2>1, <2>2, <2>3, <2>4 DEF JournalInv
<1>4. CASE SkipHost
  <2>1. VisitedInv'
    BY <1>4, HostMoves
       DEF SkipHost, Moves, HostDone, JournalInv, TypeOK, PendingInv, AtLeast
  <2>2. QED
    BY <1>4, <1>a, <1>b, <2>1
       DEF SkipHost, Moves, HostDone, JournalInv, TypeOK, RetainedInv,
           PendingInv, PlanInv, PhaseBarrier, JournalledWorkKept,
           PushedMeansPublished, AtLeast
<1>5. CASE PullHost
  BY <1>5, <1>a, <1>b
     DEF PullHost, HostDone, RetainedInv, VisitedInv, PendingInv, PlanInv,
         PhaseBarrier, JournalledWorkKept, PushedMeansPublished, AtLeast,
         JournalInv, TypeOK
<1>6. CASE SaveHostStage
  <2>1. VisitedInv'
    BY <1>6, HostMoves
       DEF SaveHostStage, SavesStage, Moves, JournalInv, TypeOK, PendingInv,
           AtLeast
  <2>2. PhaseBarrier'
    BY <1>6, RecordedBarrier
       DEF SaveHostStage, SavesStage, Moves, JournalInv, TypeOK, PendingInv,
           VisitedInv, AtLeast
  <2>3. QED
    BY <1>6, <1>a, <1>b, <2>1, <2>2
       DEF SaveHostStage, SavesStage, Moves, JournalInv, TypeOK, RetainedInv,
           PendingInv, PlanInv, JournalledWorkKept, PushedMeansPublished,
           AtLeast
<1>7. CASE AlignAccepted
  <2>1. VisitedInv'
    BY <1>7, HostMoves
       DEF AlignAccepted, Moves, JournalInv, TypeOK, PendingInv, AtLeast
  <2>2. QED
    BY <1>7, <1>a, <1>b, <2>1
       DEF AlignAccepted, Moves, JournalInv, TypeOK, RetainedInv, PendingInv,
           PlanInv, PhaseBarrier, JournalledWorkKept, PushedMeansPublished,
           AtLeast
<1>8. CASE SkipGuest
  <2>1. VisitedInv'
    BY <1>8, GuestMoves
       DEF SkipGuest, Moves, JournalInv, TypeOK, PendingInv, AtLeast
  <2>2. QED
    BY <1>8, <1>a, <1>b, <2>1
       DEF SkipGuest, Moves, JournalInv, TypeOK, RetainedInv, PendingInv,
           PlanInv, PhaseBarrier, JournalledWorkKept, PushedMeansPublished,
           AtLeast
<1>9. CASE RebaseGuest
  BY <1>9, <1>a, <1>b
     DEF RebaseGuest, RetainedInv, VisitedInv, PendingInv, PlanInv,
         PhaseBarrier, JournalledWorkKept, PushedMeansPublished, AtLeast,
         JournalInv, TypeOK
<1>10. CASE SaveGuestStage
  <2>1. VisitedInv'
    BY <1>10, GuestMoves
       DEF SaveGuestStage, SavesStage, Moves, JournalInv, TypeOK, PendingInv,
           AtLeast
  <2>2. PhaseBarrier'
    BY <1>10, RecordedBarrier
       DEF SaveGuestStage, SavesStage, Moves, JournalInv, TypeOK, PendingInv,
           VisitedInv, AtLeast
  <2>3. QED
    BY <1>10, <1>a, <1>b, <2>1, <2>2
       DEF SaveGuestStage, SavesStage, Moves, JournalInv, TypeOK, RetainedInv,
           PendingInv, PlanInv, JournalledWorkKept, PushedMeansPublished,
           AtLeast
<1>11. CASE SkipAccept
  <2>1. VisitedInv'
    BY <1>11, AcceptMoves
       DEF SkipAccept, Moves, JournalInv, TypeOK, PendingInv, AtLeast
  <2>2. QED
    BY <1>11, <1>a, <1>b, <2>1
       DEF SkipAccept, Moves, JournalInv, TypeOK, RetainedInv, PendingInv,
           PlanInv, PhaseBarrier, JournalledWorkKept, PushedMeansPublished,
           AtLeast
<1>12. CASE AcceptSnapshot
  BY <1>12, <1>a, <1>b
     DEF AcceptSnapshot, CanAccept, IsAncestor, RetainedInv, VisitedInv,
         PendingInv, PlanInv, PhaseBarrier, JournalledWorkKept,
         PushedMeansPublished, AtLeast, JournalInv, TypeOK
<1>13. CASE SaveAcceptStage
  <2>1. VisitedInv'
    BY <1>13, AcceptMoves
       DEF SaveAcceptStage, SavesStage, Moves, JournalInv, TypeOK, PendingInv,
           AtLeast
  <2>2. PhaseBarrier'
    BY <1>13, RecordedBarrier
       DEF SaveAcceptStage, SavesStage, Moves, JournalInv, TypeOK, PendingInv,
           VisitedInv, AtLeast
  <2>3. QED
    BY <1>13, <1>a, <1>b, <2>1, <2>2
       DEF SaveAcceptStage, SavesStage, Moves, JournalInv, TypeOK,
           RetainedInv, PendingInv, PlanInv, JournalledWorkKept,
           PushedMeansPublished, AtLeast
<1>14. CASE ConfirmPush
  BY <1>14, <1>a, <1>b
     DEF ConfirmPush, RetainedInv, VisitedInv, PendingInv, PlanInv,
         PhaseBarrier, JournalledWorkKept, PushedMeansPublished, AtLeast,
         JournalInv, TypeOK
<1>15. CASE SkipPush
  BY <1>15, <1>a, <1>b
     DEF SkipPush, Moves, RetainedInv, VisitedInv, PendingInv, PlanInv,
         PhaseBarrier, JournalledWorkKept, PushedMeansPublished, AtLeast,
         JournalInv, TypeOK
<1>16. CASE PushUpstream
  BY <1>16, <1>a, <1>b
     DEF PushUpstream, CanPush, RetainedInv, VisitedInv, PendingInv, PlanInv,
         PhaseBarrier, JournalledWorkKept, PushedMeansPublished, AtLeast,
         JournalInv, TypeOK
<1>17. CASE SavePushStage
  BY <1>17, <1>a, <1>b
     DEF SavePushStage, SavesStage, Moves, RetainedInv, VisitedInv,
         PendingInv, PlanInv, PhaseBarrier, JournalledWorkKept,
         PushedMeansPublished, AtLeast, JournalInv, TypeOK
<1>18. CASE FinishSync
  BY <1>18, <1>a, <1>b
     DEF FinishSync, ClearsJournal, Ends, RetainedInv, VisitedInv, PendingInv,
         PlanInv, PhaseBarrier, JournalledWorkKept, PushedMeansPublished,
         AtLeast, JournalInv, TypeOK
<1>19. CASE RestartGuest
  BY <1>19, <1>a, <1>b
     DEF RestartGuest, StartsGuest, Ends, RetainedInv, VisitedInv, PendingInv,
         PlanInv, PhaseBarrier, JournalledWorkKept, PushedMeansPublished,
         AtLeast, JournalInv, TypeOK
<1>20. CASE PlanSync
  BY <1>20, <1>a, <1>b
     DEF PlanSync, PlansWith, RetainedInv, VisitedInv, PendingInv, PlanInv,
         PhaseBarrier, JournalledWorkKept, PushedMeansPublished, AtLeast,
         JournalInv, TypeOK
<1>21. CASE ContinueSync
  BY <1>21, <1>a, <1>b
     DEF ContinueSync, PlansWith, RetainedInv, VisitedInv, PendingInv,
         PlanInv, PhaseBarrier, JournalledWorkKept, PushedMeansPublished,
         AtLeast, JournalInv, TypeOK
<1>22. CASE AbortSync
  BY <1>22, <1>a, <1>b
     DEF AbortSync, ClearsJournal, RetainedInv, VisitedInv, PendingInv,
         PlanInv, PhaseBarrier, JournalledWorkKept, PushedMeansPublished,
         AtLeast, JournalInv, TypeOK
<1>23. CASE ResumeCommand
  <2>1. ~retained /\ UNCHANGED <<journal, process>> /\ pc # "align"
    BY <1>23 DEF ResumeCommand, StartsGuest, JournalInv, RetainedInv
  <2>2. QED
    BY <2>1, <1>a, <1>b
       DEF RetainedInv, VisitedInv, PendingInv, PlanInv, PhaseBarrier,
           JournalledWorkKept, PushedMeansPublished, AtLeast, JournalInv,
           TypeOK
<1>24. CASE StopCommand
  BY <1>24, <1>a, <1>b
     DEF StopCommand, RetainedInv, VisitedInv, PendingInv, PlanInv,
         PhaseBarrier, JournalledWorkKept, PushedMeansPublished, AtLeast,
         JournalInv, TypeOK
<1>25. CASE \/ PullHostConflicts \/ RebaseGuestConflicts
         \/ DeclinePush \/ FailSync \/ Fault
  <2>1. UNCHANGED journal /\ Ends
    BY <1>25
       DEF PullHostConflicts, RebaseGuestConflicts, DeclinePush, FailSync,
           Fault
  <2>2. Kept(guest, guest')
    BY <1>25
       DEF PullHostConflicts, RebaseGuestConflicts, DeclinePush, FailSync,
           Fault
  <2>3. QED
    BY <2>1, <2>2, <1>a
       DEF Ends, RetainedInv, VisitedInv, PendingInv, PlanInv, PhaseBarrier,
           JournalledWorkKept, PushedMeansPublished, AtLeast, JournalInv,
           TypeOK
<1>26. ASSUME NEW r \in Repos, Surroundings(r)
      PROVE  JournalInv'
  <2>1. UNCHANGED <<journal, process>>
    BY <1>26
       DEF Surroundings, AgentEdits, AgentCommits, UserEditsWorktree,
           UserCommitsInWorktree, WorktreeCleaned, UserRebasesWorktree,
           UserCommitsOnHost, OthersPush, FinishHostRebase, AbortHostRebase,
           FinishGuestRebase, AbortGuestRebase, AcceptCommand
  <2>2. pc = "align" => Kept(guest, guest')
    BY <2>1, GuestGrows DEF AlignAccepted, Moves
  <2>3. QED
    BY <2>1, <2>2, <1>a, <1>b
       DEF RetainedInv, VisitedInv, PendingInv, PlanInv, PhaseBarrier,
           JournalledWorkKept, PushedMeansPublished, AtLeast, JournalInv,
           TypeOK
<1>27. CASE UNCHANGED vars
  BY <1>27
     DEF vars, RetainedInv, VisitedInv, PendingInv, PlanInv, PhaseBarrier,
         JournalledWorkKept, PushedMeansPublished, AtLeast, JournalInv, TypeOK
<1>28. QED
  BY <1>1, <1>2, <1>3, <1>4, <1>5, <1>6, <1>7, <1>8, <1>9, <1>10, <1>11,
     <1>12, <1>13, <1>14, <1>15, <1>16, <1>17, <1>18, <1>19, <1>20, <1>21,
     <1>22, <1>23, <1>24, <1>25, <1>26, <1>27
     DEF Next, SyncStep, Command

-----------------------------------------------------------------------------
(***************************************************************************)
(* The guest stays frozen when no other command runs inside a sync.        *)
(***************************************************************************)
LEMMA FreezeStep ==
  ASSUME ~Overlap, TypeOK, RetainedInv, PendingInv, FreezeInv, [Next]_vars
  PROVE  FreezeInv'
<1> USE DEF branches, paused, journal, session, process, history, bounds
<1>1. CASE SaveJournal
  <2>1. running' = running /\ view' = view /\ guestUp' = guestUp
    BY <1>1 DEF SaveJournal, FreezeInv
  <2>2. pc' \notin {"idle", "save", "stop", "restart"} => ~running'
    <3>1. CASE view.running
      BY <1>1, <3>1 DEF SaveJournal
    <3>2. CASE ~view.running
      BY <1>1, <3>2 DEF SaveJournal
    <3>3. QED  BY <3>1, <3>2
  <2>3. (\E r \in Repos : AtLeast(r, HostSynchronized))' => ~running'
    <3>1. CASE retained
      BY <1>1, <2>1, <3>1 DEF SaveJournal, FreezeInv, AtLeast
    <3>2. CASE ~retained
      BY <1>1, <3>2 DEF SaveJournal, AtLeast, Planned, HostSynchronized
    <3>3. QED  BY <3>1, <3>2
  <2>4. view.running = running /\ guestUp = running
    BY <1>1 DEF SaveJournal, FreezeInv
  <2>5. QED  BY <2>1, <2>2, <2>3, <2>4 DEF FreezeInv
<1>2. CASE StopGuest
  BY <1>2
     DEF StopGuest, AfterStop, FreezeInv, TypeOK, RetainedInv, AtLeast,
         Planned, HostSynchronized
<1>3. CASE CheckpointWorktree
  BY <1>3
     DEF CheckpointWorktree, Moves, FreezeInv, TypeOK, RetainedInv, AtLeast,
         Planned, HostSynchronized
<1>4. CASE SkipHost
  BY <1>4
     DEF SkipHost, Moves, HostDone, FreezeInv, TypeOK, RetainedInv, AtLeast,
         Planned, HostSynchronized
<1>5. CASE PullHost
  BY <1>5
     DEF PullHost, HostDone, FreezeInv, TypeOK, RetainedInv, AtLeast, Planned,
         HostSynchronized
<1>6. CASE PullHostConflicts
  BY <1>6
     DEF PullHostConflicts, Ends, FreezeInv, TypeOK, RetainedInv, AtLeast,
         Planned, HostSynchronized
<1>7. CASE SaveHostStage
  BY <1>7
     DEF SaveHostStage, SavesStage, Moves, FreezeInv, TypeOK, RetainedInv,
         AtLeast, Planned, HostSynchronized
<1>8. CASE AlignAccepted
  BY <1>8
     DEF AlignAccepted, Moves, FreezeInv, TypeOK, RetainedInv, AtLeast,
         Planned, HostSynchronized
<1>9. CASE SkipGuest
  BY <1>9
     DEF SkipGuest, Moves, FreezeInv, TypeOK, RetainedInv, AtLeast, Planned,
         HostSynchronized
<1>10. CASE RebaseGuest
  BY <1>10
     DEF RebaseGuest, FreezeInv, TypeOK, RetainedInv, AtLeast, Planned,
         HostSynchronized
<1>11. CASE RebaseGuestConflicts
  BY <1>11
     DEF RebaseGuestConflicts, Ends, FreezeInv, TypeOK, RetainedInv, AtLeast,
         Planned, HostSynchronized
<1>12. CASE SaveGuestStage
  BY <1>12
     DEF SaveGuestStage, SavesStage, Moves, FreezeInv, TypeOK, RetainedInv,
         AtLeast, Planned, HostSynchronized
<1>13. CASE SkipAccept
  BY <1>13
     DEF SkipAccept, Moves, FreezeInv, TypeOK, RetainedInv, AtLeast, Planned,
         HostSynchronized
<1>14. CASE AcceptSnapshot
  BY <1>14
     DEF AcceptSnapshot, CanAccept, IsAncestor, FreezeInv, TypeOK,
         RetainedInv, AtLeast, Planned, HostSynchronized
<1>15. CASE SaveAcceptStage
  BY <1>15
     DEF SaveAcceptStage, SavesStage, Moves, FreezeInv, TypeOK, RetainedInv,
         AtLeast, Planned, HostSynchronized
<1>16. CASE ConfirmPush
  BY <1>16
     DEF ConfirmPush, FreezeInv, TypeOK, RetainedInv, AtLeast, Planned,
         HostSynchronized
<1>17. CASE DeclinePush
  BY <1>17
     DEF DeclinePush, Ends, FreezeInv, TypeOK, RetainedInv, AtLeast, Planned,
         HostSynchronized
<1>18. CASE SkipPush
  BY <1>18
     DEF SkipPush, Moves, FreezeInv, TypeOK, RetainedInv, AtLeast, Planned,
         HostSynchronized
<1>19. CASE PushUpstream
  BY <1>19
     DEF PushUpstream, CanPush, FreezeInv, TypeOK, RetainedInv, AtLeast,
         Planned, HostSynchronized
<1>20. CASE SavePushStage
  BY <1>20
     DEF SavePushStage, SavesStage, Moves, FreezeInv, TypeOK, RetainedInv,
         AtLeast, Planned, HostSynchronized
<1>21. CASE FinishSync
  BY <1>21
     DEF FinishSync, ClearsJournal, Ends, FreezeInv, TypeOK, RetainedInv,
         AtLeast, Planned, HostSynchronized
<1>22. CASE RestartGuest
  BY <1>22
     DEF RestartGuest, StartsGuest, Ends, FreezeInv, TypeOK, RetainedInv,
         AtLeast, Planned, HostSynchronized
<1>23. CASE FailSync
  BY <1>23
     DEF FailSync, Ends, FreezeInv, TypeOK, RetainedInv, AtLeast, Planned,
         HostSynchronized
<1>24. CASE Fault
  BY <1>24
     DEF Fault, Ends, FreezeInv, TypeOK, RetainedInv, AtLeast, Planned,
         HostSynchronized
<1>25. CASE PlanSync
  BY <1>25
     DEF PlanSync, PlansWith, FreezeInv, TypeOK, RetainedInv, AtLeast,
         Planned, HostSynchronized
<1>26. CASE ContinueSync
  BY <1>26
     DEF ContinueSync, PlansWith, FreezeInv, TypeOK, RetainedInv, AtLeast,
         Planned, HostSynchronized
<1>27. CASE AbortSync
  BY <1>27
     DEF AbortSync, ClearsJournal, FreezeInv, TypeOK, RetainedInv, AtLeast,
         Planned, HostSynchronized
<1>28. CASE ResumeCommand
  BY <1>28
     DEF ResumeCommand, StartsGuest, OtherCommand, RetainedInv, FreezeInv,
         TypeOK, RetainedInv, AtLeast, Planned, HostSynchronized
<1>29. CASE StopCommand
  BY <1>29
     DEF StopCommand, OtherCommand, FreezeInv, TypeOK, RetainedInv, AtLeast,
         Planned, HostSynchronized
<1>30. ASSUME NEW r \in Repos, Surroundings(r)
      PROVE  FreezeInv'
  <2>1. UNCHANGED <<guestUp, session, process>>
    BY <1>30
       DEF Surroundings, AgentEdits, AgentCommits, UserEditsWorktree,
           UserCommitsInWorktree, WorktreeCleaned, UserRebasesWorktree,
           UserCommitsOnHost, OthersPush, FinishHostRebase, AbortHostRebase,
           FinishGuestRebase, AbortGuestRebase, AcceptCommand
  <2>2. QED  BY <2>1 DEF FreezeInv, AtLeast
<1>31. CASE UNCHANGED vars
  BY <1>31 DEF vars, FreezeInv, AtLeast
<1>32. QED
  BY <1>1, <1>2, <1>3, <1>4, <1>5, <1>6, <1>7, <1>8, <1>9, <1>10, <1>11,
     <1>12, <1>13, <1>14, <1>15, <1>16, <1>17, <1>18, <1>19, <1>20, <1>21,
     <1>22, <1>23, <1>24, <1>25, <1>26, <1>27, <1>28, <1>29, <1>30, <1>31
     DEF Next, SyncStep, Command

-----------------------------------------------------------------------------
(***************************************************************************)
(* The theorems.                                                           *)
(***************************************************************************)

\* Every variable has its type in every reachable state, for any number of
\* repositories and any bounds.
THEOREM TypeCorrect == Spec => []TypeOK
<1>1. Init => TypeOK
  BY InitType
<1>2. TypeOK /\ [Next]_vars => TypeOK'
  BY StepType
<1>3. QED  BY <1>1, <1>2, PTL DEF Spec

\* The strengthened invariant holds initially and every step preserves it.
THEOREM JournalInvariant == Spec => []IInv
<1>1. Init => JournalInv
  <2> SUFFICES ASSUME Init PROVE JournalInv
    OBVIOUS
  <2>1. \A r \in Repos : stage[r] = 0
    BY DEF Init, Planned
  <2>2. QED
    BY <2>1
       DEF Init, JournalInv, RetainedInv, VisitedInv, PendingInv, PlanInv,
           PhaseBarrier, JournalledWorkKept, PushedMeansPublished, AtLeast,
           HostSynchronized, GuestRebased, Accepted, Pushed
<1>2. TypeOK /\ JournalInv /\ [Next]_vars => JournalInv'
  BY JournalStep
<1>3. TypeOK /\ JournalInv <=> IInv
  BY DEF IInv, JournalInv
<1>4. QED  BY <1>1, <1>2, <1>3, TypeCorrect, PTL DEF Spec

\* The stages are barriers across repositories, in every journal that any
\* sequence of conflicts, crashes, continuations and aborts can produce.
THEOREM StagesAreBarriers == Spec => []PhaseBarrier
<1>1. IInv => PhaseBarrier
  BY DEF IInv, JournalInv
<1>2. QED  BY <1>1, JournalInvariant, PTL

\* Guest work the confirmed plan recorded is never lost from the session
\* branch, and is on the host branch from acceptance on.
THEOREM PlannedWorkIsKept == Spec => []JournalledWorkKept
<1>1. IInv => JournalledWorkKept
  BY DEF IInv, JournalInv
<1>2. QED  BY <1>1, JournalInvariant, PTL

\* A repository recorded as pushed has its planned guest work on the remote.
THEOREM PushedIsPublished == Spec => []PushedMeansPublished
<1>1. IInv => PushedMeansPublished
  BY DEF IInv, JournalInv
<1>2. QED  BY <1>1, JournalInvariant, PTL

\* No patch leaves a host branch.
THEOREM HostsKeepPatches == Spec => HostKeepsPatches
<1>1. TypeOK /\ [Next]_vars
        => [\A r \in Repos : Patches(host[r]) \subseteq Patches(host'[r])]_vars
  BY HostGrows
<1>2. QED  BY <1>1, TypeCorrect, PTL DEF Spec, HostKeepsPatches

\* Remotes only move forward, and sync moves one only once every repository is
\* accepted.
THEOREM PushesAreOrdered == Spec => PushesOnlyAcceptedForward
<1> DEFINE Ordered ==
             \A r \in Repos :
               /\ IsAncestor(remote[r], remote'[r])
               /\ remote[r] # remote'[r] /\ made = made'
                    => retained /\ \A q \in Repos : AtLeast(q, Accepted)
<1>1. IInv /\ [Next]_vars => [Ordered]_vars
  <2> SUFFICES ASSUME IInv, [Next]_vars PROVE Ordered
    OBVIOUS
  <2> USE DEF branches, paused, journal, session, process, history, bounds
  <2>1. \A r \in Repos : IsAncestor(remote[r], remote'[r])
    BY RemoteGrows DEF IInv, IsAncestor
  <2>2. CASE PushUpstream
    BY <2>1, <2>2 DEF PushUpstream, IInv, JournalInv, RetainedInv, VisitedInv
  <2>3. ASSUME NEW q \in Repos, Surroundings(q)
        PROVE  remote' = remote \/ made' # made
    <3>1. CASE OthersPush(q)
      BY <3>1 DEF OthersPush, IInv, TypeOK
    <3>2. CASE ~OthersPush(q)
      BY <2>3, <3>2
         DEF Surroundings, AgentEdits, AgentCommits, UserEditsWorktree,
             UserCommitsInWorktree, WorktreeCleaned, UserRebasesWorktree,
             UserCommitsOnHost, FinishHostRebase, AbortHostRebase,
             FinishGuestRebase, AbortGuestRebase, AcceptCommand
    <3>3. QED  BY <3>1, <3>2
  <2>4. CASE remote' = remote
    BY <2>1, <2>4
  <2>5. QED
    BY <2>1, <2>2, <2>3, <2>4
       DEF Next, SyncStep, Command, vars, SaveJournal, StopGuest,
           CheckpointWorktree, SkipHost, PullHost, PullHostConflicts,
           SaveHostStage, AlignAccepted, SkipGuest, RebaseGuest,
           RebaseGuestConflicts, SaveGuestStage, SkipAccept, AcceptSnapshot,
           SaveAcceptStage, ConfirmPush, DeclinePush, SkipPush, SavePushStage,
           FinishSync, RestartGuest, FailSync, Fault, PlanSync, ContinueSync,
           AbortSync, ResumeCommand, StopCommand, PlansWith, StartsGuest
<1>2. QED  BY <1>1, JournalInvariant, PTL DEF Spec, PushesOnlyAcceptedForward

\* No guest runs between the first recorded stage and the end of the journal,
\* when no other jbox command runs inside the synchronization.
THEOREM GuestStaysFrozen == ~Overlap => (Spec => []GuestFrozen)
<1> SUFFICES ASSUME ~Overlap PROVE Spec => []GuestFrozen
  OBVIOUS
<1>1. Init => FreezeInv
  BY DEF Init, FreezeInv
<1>2. IInv /\ FreezeInv /\ [Next]_vars => FreezeInv'
  BY FreezeStep DEF IInv, JournalInv
<1>3. FreezeInv => GuestFrozen
  BY DEF FreezeInv, GuestFrozen
<1>4. QED  BY <1>1, <1>2, <1>3, JournalInvariant, PTL DEF Spec

-----------------------------------------------------------------------------
(***************************************************************************)
(* Session branches and host branches, from acceptance on.                 *)
(***************************************************************************)
\* The session branch is contained in the host branch.
Aligned(r) == IsAncestor(guest[r], host[r])

\* The user writes into no worktree that was rebased, while its journal is there.
LeavesRebased ==
  \A r \in Repos : UserEditsWorktree(r) \/ UserCommitsInWorktree(r) =>
    stage[r] < GuestRebased /\ pc # "guestSave"

\* What was rebased has no files, and no process runs beside a paused rebase.
QuietInv ==
  /\ ~retained => \A r \in Repos : stage[r] = Planned
  /\ \A r \in Repos :
       /\ AtLeast(r, GuestRebased) => ~dirty[r]
       /\ hostOnto[r] # {} => pc = "idle" /\ stage[r] # Pushed
       /\ guestOnto[r] # {} => pc = "idle" /\ stage[r] < GuestRebased
  /\ pc = "guestSave" => ~dirty[cur]

\* Where the process is tells which accepted repositories are aligned (again).
AlignedInv ==
  /\ \A r \in Repos : stage[r] = Pushed => Aligned(r)
  /\ pc \in {"host", "hostSave", "align"} =>
       \A r \in Repos : r < cur /\ AtLeast(r, Accepted) => Aligned(r)
  /\ pc \in {"guest", "guestSave", "accept", "acceptSave", "confirmPush", "push",
             "pushSave", "clear"} =>
       \A r \in Repos : AtLeast(r, Accepted) => Aligned(r)
  /\ pc = "acceptSave" => Aligned(cur)

\* No guest runs once a stage is recorded, and while repositories are visited.
LEMMA GuestRunsEarly ==
  ASSUME TypeOK, FreezeInv, QuietInv, guestUp
  PROVE  /\ \A r \in Repos : stage[r] = Planned
         /\ pc \in {"idle", "save", "stop", "restart"}
<1>1. running /\ pc \in {"idle", "save", "stop", "restart"}
  BY DEF FreezeInv
<1>2. CASE retained
  <2>1. \A r \in Repos : stage[r] \in SyncStages /\ ~(stage[r] >= HostSynchronized)
    BY <1>1, <1>2 DEF FreezeInv, AtLeast, TypeOK
  <2>2. QED  BY <1>1, <2>1 DEF SyncStages, Planned, HostSynchronized, Pushed
<1>3. CASE ~retained
  BY <1>1, <1>3 DEF QuietInv
<1>4. QED  BY <1>2, <1>3

LEMMA QuietStep ==
  ASSUME ~Overlap, IInv, FreezeInv, QuietInv, [Next /\ LeavesRebased]_vars
  PROVE  QuietInv'
<1> USE DEF branches, paused, journal, session, process, history, bounds
<1>a. /\ TypeOK /\ RetainedInv /\ PendingInv
      /\ \A r \in Repos : stage[r] \in SyncStages
      /\ cur \in Repos
  BY DEF IInv, JournalInv, TypeOK
<1> USE DEF Planned, HostSynchronized, GuestRebased, Accepted, Pushed, SyncStages
\* Steps that touch neither the journal, nor files, nor a paused rebase.
<1>1. ASSUME UNCHANGED <<retained, stage, dirty, paused>>,
             pc' = pc \/ (pc # "idle" /\ pc' # "guestSave"),
             cur' = cur \/ pc' # "guestSave"
      PROVE  QuietInv'
  BY <1>1 DEF QuietInv, AtLeast
<1>2. CASE SaveJournal
  <2>1. pc = "save" /\ pc' \notin {"idle", "guestSave"}
    BY <1>2 DEF SaveJournal, AfterStop
  <2>2. \A r \in Repos : stage'[r] = stage[r]
    BY <1>2 DEF SaveJournal, QuietInv
  <2>3. QED  BY <1>2, <2>1, <2>2 DEF SaveJournal, QuietInv, AtLeast
<1>3. CASE StopGuest
  BY <1>1, <1>3 DEF StopGuest, AfterStop
<1>4. CASE CheckpointWorktree
  <2>1. pc = "checkpoint" /\ pc' # "guestSave" /\ pc' # "idle"
        /\ UNCHANGED <<retained, stage, paused>>
        /\ \A r \in Repos : dirty'[r] => dirty[r]
    BY <1>a, <1>4 DEF CheckpointWorktree, Moves, TypeOK
  <2>2. QED  BY <2>1 DEF QuietInv, AtLeast
<1>5. CASE SkipHost \/ PullHost \/ AlignAccepted \/ SkipGuest \/ SkipAccept
           \/ AcceptSnapshot \/ ConfirmPush \/ DeclinePush \/ SkipPush \/ PushUpstream
  BY <1>1, <1>5
     DEF SkipHost, PullHost, AlignAccepted, SkipGuest, SkipAccept, AcceptSnapshot,
         ConfirmPush, DeclinePush, SkipPush, PushUpstream, Moves, Ends
<1>6. CASE PullHostConflicts
  <2>1. stage[cur] # Pushed /\ pc' = "idle"
    BY <1>a, <1>6 DEF PullHostConflicts, HostDone, Ends
  <2>2. \A r \in Repos : hostOnto'[r] # {} => r = cur \/ hostOnto[r] # {}
    BY <1>a, <1>6 DEF PullHostConflicts, TypeOK
  <2>3. QED  BY <1>6, <2>1, <2>2 DEF PullHostConflicts, QuietInv, AtLeast
<1>7. CASE RebaseGuestConflicts
  <2>1. stage[cur] < GuestRebased /\ pc' = "idle"
    BY <1>7 DEF RebaseGuestConflicts, Ends
  <2>2. \A r \in Repos : guestOnto'[r] # {} => r = cur \/ guestOnto[r] # {}
    BY <1>a, <1>7 DEF RebaseGuestConflicts, TypeOK
  <2>3. QED  BY <1>7, <2>1, <2>2 DEF RebaseGuestConflicts, QuietInv, AtLeast
<1>8. CASE RebaseGuest
  BY <1>8 DEF RebaseGuest, QuietInv, AtLeast
\* A recorded stage.
<1>9. ASSUME NEW s \in SyncStages, SavesStage(s), UNCHANGED <<dirty, paused>>,
             pc \notin {"idle", "save", "restart"}, pc' # "guestSave",
             s >= GuestRebased => ~dirty[cur]
      PROVE  QuietInv'
  <2>1. \A r \in Repos : stage'[r] = IF r = cur THEN s ELSE stage[r]
    BY <1>a, <1>9 DEF SavesStage, TypeOK
  <2>2. retained /\ retained'
    BY <1>a, <1>9 DEF SavesStage, RetainedInv
  <2>3. QED  BY <1>9, <2>1, <2>2 DEF QuietInv, AtLeast
<1>10. CASE SaveHostStage
  BY <1>9, <1>10 DEF SaveHostStage, Moves
<1>11. CASE SaveGuestStage
  <2>1. ~dirty[cur]
    BY <1>11 DEF SaveGuestStage, QuietInv
  <2>2. QED  BY <1>9, <1>11, <2>1 DEF SaveGuestStage, Moves
<1>12. CASE SaveAcceptStage
  <2>1. AtLeast(cur, GuestRebased)
    BY <1>a, <1>12 DEF SaveAcceptStage, IInv, JournalInv, VisitedInv
  <2>2. QED  BY <1>a, <1>9, <1>12, <2>1 DEF SaveAcceptStage, Moves, QuietInv
<1>13. CASE SavePushStage
  <2>1. AtLeast(cur, GuestRebased)
    BY <1>a, <1>13 DEF SavePushStage, IInv, JournalInv, VisitedInv, AtLeast
  <2>2. QED  BY <1>a, <1>9, <1>13, <2>1 DEF SavePushStage, Moves, QuietInv
\* The journal ends.
<1>14. CASE FinishSync
  BY <1>14 DEF FinishSync, ClearsJournal, Ends, QuietInv, AtLeast
<1>15. CASE AbortSync
  BY <1>15 DEF AbortSync, ClearsJournal, NoPause, QuietInv, AtLeast
<1>16. CASE RestartGuest \/ ResumeCommand
  <2>1. UNCHANGED <<retained, stage, paused>> /\ ~retained /\ \A r \in Repos : ~dirty'[r]
    BY <1>16 DEF RestartGuest, ResumeCommand, StartsGuest
  <2>2. (pc' = pc /\ cur' = cur) \/ pc' = "idle"
    BY <1>16 DEF RestartGuest, ResumeCommand, Ends
  <2>3. QED  BY <1>a, <2>1, <2>2 DEF QuietInv, AtLeast
<1>17. CASE StopCommand \/ FailSync \/ Fault
  BY <1>1, <1>17 DEF StopCommand, FailSync, Fault, Ends, Blocked
<1>18. CASE PlanSync \/ ContinueSync
  <2>1. PICK withCheckpoint \in BOOLEAN \cup {checkpoint} : PlansWith(withCheckpoint)
    BY <1>18 DEF PlanSync, ContinueSync
  <2>2. QED  BY <2>1 DEF PlansWith, PlanIsClean, QuietInv, AtLeast
<1>19. ASSUME NEW r \in Repos, Surroundings(r), LeavesRebased
       PROVE  QuietInv'
  <2>1. UNCHANGED <<retained, stage, pc, cur>>
    BY <1>19
       DEF Surroundings, AgentEdits, AgentCommits, UserEditsWorktree,
           UserCommitsInWorktree, WorktreeCleaned, UserRebasesWorktree,
           UserCommitsOnHost, OthersPush, FinishHostRebase, AbortHostRebase,
           FinishGuestRebase, AbortGuestRebase, AcceptCommand
  <2>2. \A q \in Repos : /\ hostOnto'[q] # {} => hostOnto[q] # {}
                         /\ guestOnto'[q] # {} => guestOnto[q] # {}
    BY <1>a, <1>19
       DEF Surroundings, AgentEdits, AgentCommits, UserEditsWorktree,
           UserCommitsInWorktree, WorktreeCleaned, UserRebasesWorktree,
           UserCommitsOnHost, OthersPush, FinishHostRebase, AbortHostRebase,
           FinishGuestRebase, AbortGuestRebase, AcceptCommand, TypeOK
  <2>3. \A q \in Repos : dirty'[q] =>
          \/ dirty[q]
          \/ stage[q] < GuestRebased /\ pc # "guestSave"
    <3>1. CASE AgentEdits(r)
      BY <1>a, <3>1, GuestRunsEarly DEF AgentEdits, TypeOK
    <3>2. CASE UserEditsWorktree(r)
      BY <1>a, <1>19, <3>2 DEF UserEditsWorktree, LeavesRebased, TypeOK
    <3>3. CASE ~AgentEdits(r) /\ ~UserEditsWorktree(r)
      BY <1>a, <1>19, <3>3
         DEF Surroundings, AgentCommits, UserCommitsInWorktree, WorktreeCleaned,
             UserRebasesWorktree, UserCommitsOnHost, OthersPush, FinishHostRebase,
             AbortHostRebase, FinishGuestRebase, AbortGuestRebase, AcceptCommand, TypeOK
    <3>4. QED  BY <3>1, <3>2, <3>3
  <2>4. QED  BY <1>a, <2>1, <2>2, <2>3 DEF QuietInv, AtLeast
<1>20. CASE UNCHANGED vars
  BY <1>20 DEF vars, QuietInv, AtLeast
<1>21. QED
  BY <1>2, <1>3, <1>4, <1>5, <1>6, <1>7, <1>8, <1>10, <1>11, <1>12, <1>13, <1>14, <1>15,
     <1>16, <1>17, <1>18, <1>19, <1>20
     DEF Next, SyncStep, Command

\* A step in the host phase that goes to the next repository, with this one aligned
\* if it was accepted.
LEMMA HostsAlign ==
  ASSUME TypeOK, AlignedInv, Moves("host", "guest"),
         pc \in {"host", "hostSave", "align"},
         \A r \in Repos \ {cur} : stage'[r] = stage[r] /\ (Aligned(r) => (Aligned(r))'),
         stage'[cur] \in SyncStages,
         stage'[cur] >= Accepted => IsAncestor(guest'[cur], host'[cur])
  PROVE  AlignedInv'
<1> USE DEF Planned, HostSynchronized, GuestRebased, Accepted, Pushed, SyncStages
<1> DEFINE S == {r \in Repos : stage'[r] >= Accepted => (Aligned(r))'}
<1>1. cur \in S /\ (\A r \in Repos : r < cur => r \in S)
  <2>1. cur \in Repos /\ cur \in S
    BY DEF TypeOK, Aligned
  <2>2. ASSUME NEW r \in Repos, r < cur PROVE r \in S
    <3>1. r # cur
      BY <2>1, <2>2, NumbersAreRepos
    <3>2. QED  BY <2>2, <3>1 DEF AlignedInv, AtLeast
  <2>3. QED  BY <2>1, <2>2
<1>2. \A r \in Repos : stage'[r] = Pushed => r \in S /\ (Aligned(r))'
  <2>1. ASSUME stage'[cur] = Pushed PROVE cur \in S /\ IsAncestor(guest'[cur], host'[cur])
    BY <1>1, <2>1
  <2>2. ASSUME NEW r \in Repos \ {cur}, stage'[r] = Pushed PROVE r \in S /\ (Aligned(r))'
    BY <2>2 DEF AlignedInv
  <2>3. QED  BY <2>1, <2>2 DEF Aligned
<1>3. \/ /\ pc' = "guest" /\ \A r \in Repos : r \in S
      \/ /\ pc' = "host" /\ \A r \in Repos : r < cur' => r \in S
  <2> HIDE DEF S
  <2>1. QED  BY <1>1, MovesTo
<1>4. QED
  BY <1>2, <1>3 DEF AlignedInv, AtLeast

\* A step in the later phases leaves all accepted repositories aligned.
LEMMA LaterAligns ==
  ASSUME TypeOK, AlignedInv, \A r \in Repos : stage'[r] \in SyncStages,
         \A r \in Repos : stage'[r] >= Accepted => (Aligned(r))',
         pc' = "acceptSave" => IsAncestor(guest'[cur'], host'[cur'])
  PROVE  AlignedInv'
BY DEF AlignedInv, AtLeast, Aligned, Accepted, Pushed, SyncStages, Planned

\* Rebasing a session branch that its host branch contains only forwards it.
LEMMA RebaseOfAligned ==
  ASSUME NEW branch, NEW onto, IsAncestor(branch, onto), NEW id
  PROVE  IsAncestor(Rebased(branch, onto, id), onto)
<1>1. Unreplayed(branch, onto) = {}
  BY PatchesMonotone DEF Unreplayed, IsAncestor
<1>2. [patch : Unreplayed(branch, onto), id : {id}] = {}
  BY <1>1
<1>3. QED  BY <1>2 DEF Rebased, IsAncestor

LEMMA AlignedStep ==
  ASSUME ~Overlap, IInv, FreezeInv, QuietInv, AlignedInv, [Next /\ LeavesRebased]_vars
  PROVE  AlignedInv'
<1> USE DEF branches, paused, journal, session, process, history, bounds
<1>a. /\ TypeOK /\ RetainedInv /\ PendingInv /\ VisitedInv
      /\ \A r \in Repos : stage[r] \in SyncStages
      /\ cur \in Repos
  BY DEF IInv, JournalInv, TypeOK
<1> USE DEF Planned, HostSynchronized, GuestRebased, Accepted, Pushed, SyncStages
<1> DEFINE Late == {"guest", "guestSave", "accept", "acceptSave", "confirmPush", "push",
                    "pushSave", "clear"}
\* Steps that leave the branches and the stages alone.
<1>1. ASSUME UNCHANGED <<host, guest, stage>>,
             \/ pc' \notin Late \cup {"host", "hostSave", "align"}
             \/ pc \in Late /\ pc' \in Late \ {"acceptSave"}
             \/ pc' = "host" /\ cur' = 1
             \/ pc' = pc /\ cur' = cur
      PROVE  AlignedInv'
  BY <1>1, NothingBefore DEF AlignedInv, AtLeast, Aligned
<1>2. CASE SaveJournal
  <2>1. cur' = 1 /\ pc' \in {"stop", "checkpoint", "host"} /\ UNCHANGED <<host, guest>>
    BY <1>a, <1>2 DEF SaveJournal, AfterStop, VisitedInv
  <2>2. \A r \in Repos : stage'[r] = stage[r] \/ stage'[r] = Planned
    BY <1>2 DEF SaveJournal
  <2>3. QED  BY <2>1, <2>2, NothingBefore DEF AlignedInv, AtLeast, Aligned
<1>3. CASE StopGuest
  BY <1>a, <1>1, <1>3 DEF StopGuest, AfterStop, VisitedInv
<1>4. CASE CheckpointWorktree
  <2>1. pc' = "checkpoint" \/ (pc' = "host" /\ cur' = 1)
    BY <1>4 DEF CheckpointWorktree, Moves
  <2>2. stage' = stage /\ host' = host
    BY <1>4 DEF CheckpointWorktree
  <2>3. \A r \in Repos : stage[r] = Pushed => guest'[r] = guest[r]
    BY <1>a, <1>4 DEF CheckpointWorktree, CommitsOnSession, QuietInv, AtLeast, TypeOK
  <2>4. QED  BY <2>1, <2>2, <2>3, NothingBefore DEF AlignedInv, AtLeast, Aligned
<1>5. CASE SkipHost
  <2>1. stage[cur] >= Accepted => IsAncestor(guest[cur], host[cur])
    BY <1>a, <1>5 DEF SkipHost, HostDone, AlignedInv, Aligned
  <2>2. QED  BY <1>a, <1>5, <2>1, HostsAlign DEF SkipHost, Aligned
<1>6. CASE PullHost
  <2>1. /\ pc = "host" /\ pc' \in {"hostSave", "align"} /\ cur' = cur
        /\ stage' = stage /\ guest' = guest /\ stage[cur] # Pushed
    BY <1>a, <1>6 DEF PullHost, HostDone
  <2>2. \A r \in Repos : r # cur => host'[r] = host[r]
    BY <1>a, <1>6 DEF PullHost, TypeOK
  <2>3. \A r \in Repos : r < cur => r # cur
    BY <1>a, NumbersAreRepos
  <2>4. QED  BY <2>1, <2>2, <2>3 DEF AlignedInv, AtLeast, Aligned
<1>7. CASE PullHostConflicts \/ RebaseGuestConflicts \/ DeclinePush \/ FailSync \/ Fault
  BY <1>1, <1>7 DEF PullHostConflicts, RebaseGuestConflicts, DeclinePush, FailSync, Fault, Ends
<1>8. CASE SaveHostStage
  <2>1. \A r \in Repos : stage'[r] = IF r = cur THEN HostSynchronized ELSE stage[r]
    BY <1>a, <1>8 DEF SaveHostStage, SavesStage, TypeOK
  <2>2. QED  BY <1>a, <1>8, <2>1, HostsAlign DEF SaveHostStage, Aligned
<1>9. CASE AlignAccepted
  <2>1. /\ guest'[cur] = host[cur] /\ host' = host /\ stage' = stage
        /\ \A r \in Repos \ {cur} : guest'[r] = guest[r]
    BY <1>a, <1>9 DEF AlignAccepted, TypeOK
  <2>2. QED  BY <1>a, <1>9, <2>1, HostsAlign DEF AlignAccepted, Aligned, IsAncestor
<1>10. CASE SkipGuest \/ SkipAccept \/ ConfirmPush \/ SkipPush \/ PushUpstream
  BY <1>1, <1>10 DEF SkipGuest, SkipAccept, ConfirmPush, SkipPush, PushUpstream, Moves
<1>11. CASE RebaseGuest
  <2>1. pc = "guest" /\ pc' = "guestSave" /\ stage[cur] < GuestRebased
        /\ UNCHANGED <<host, stage>> /\ \A r \in Repos \ {cur} : guest'[r] = guest[r]
    BY <1>a, <1>11 DEF RebaseGuest, TypeOK
  <2>2. \A r \in Repos : stage'[r] >= Accepted => (Aligned(r))'
    BY <1>a, <2>1 DEF AlignedInv, AtLeast, Aligned
  <2>3. QED  BY <1>a, <2>1, <2>2, LaterAligns
<1>12. CASE SaveGuestStage
  <2>1. \A r \in Repos : stage'[r] = IF r = cur THEN GuestRebased ELSE stage[r]
    BY <1>a, <1>12 DEF SaveGuestStage, SavesStage, TypeOK
  <2>2. pc = "guestSave" /\ pc' # "acceptSave" /\ UNCHANGED <<host, guest>>
    BY <1>12 DEF SaveGuestStage, Moves
  <2>3. \A r \in Repos : stage'[r] >= Accepted => (Aligned(r))'
    BY <1>a, <2>1, <2>2 DEF AlignedInv, AtLeast, Aligned
  <2>4. QED  BY <1>a, <2>1, <2>2, <2>3, LaterAligns
<1>13. CASE AcceptSnapshot
  <2>1. /\ pc = "accept" /\ cur' = cur /\ UNCHANGED <<guest, stage>> /\ host'[cur] = guest[cur]
        /\ \A r \in Repos \ {cur} : host'[r] = host[r]
    BY <1>a, <1>13 DEF AcceptSnapshot, TypeOK
  <2>2. \A r \in Repos : stage'[r] >= Accepted => (Aligned(r))'
    BY <1>a, <2>1 DEF AlignedInv, AtLeast, Aligned, IsAncestor
  <2>3. QED  BY <1>a, <2>1, <2>2, LaterAligns DEF IsAncestor
<1>14. CASE SaveAcceptStage
  <2>1. \A r \in Repos : stage'[r] = IF r = cur THEN Accepted ELSE stage[r]
    BY <1>a, <1>14 DEF SaveAcceptStage, SavesStage, TypeOK
  <2>2. pc = "acceptSave" /\ pc' # "acceptSave" /\ UNCHANGED <<host, guest>>
    BY <1>14 DEF SaveAcceptStage, Moves
  <2>3. \A r \in Repos : stage'[r] >= Accepted => (Aligned(r))'
    BY <1>a, <2>1, <2>2 DEF AlignedInv, AtLeast, Aligned
  <2>4. QED  BY <1>a, <2>1, <2>2, <2>3, LaterAligns
<1>15. CASE SavePushStage
  <2>1. \A r \in Repos : stage'[r] = IF r = cur THEN Pushed ELSE stage[r]
    BY <1>a, <1>15 DEF SavePushStage, SavesStage, TypeOK
  <2>2. pc = "pushSave" /\ pc' # "acceptSave" /\ UNCHANGED <<host, guest>>
    BY <1>15 DEF SavePushStage, Moves
  <2>3. \A r \in Repos : Aligned(r)
    BY <1>a, <2>2 DEF AlignedInv, VisitedInv
  <2>4. QED  BY <1>a, <2>1, <2>2, <2>3, LaterAligns DEF Aligned
<1>16. CASE FinishSync \/ AbortSync
  <2>1. (\A r \in Repos : stage'[r] = Planned) /\ pc' # "acceptSave"
    BY <1>16 DEF FinishSync, AbortSync, ClearsJournal, Ends
  <2>2. QED  BY <1>a, <2>1, LaterAligns
<1>17. CASE RestartGuest \/ ResumeCommand
  <2>1. (\A r \in Repos : stage'[r] = Planned) /\ pc' # "acceptSave"
    BY <1>17
       DEF RestartGuest, ResumeCommand, StartsGuest, OtherCommand, Ends, QuietInv
  <2>2. QED  BY <1>a, <2>1, LaterAligns
<1>18. CASE StopCommand \/ PlanSync \/ ContinueSync
  BY <1>1, <1>18 DEF StopCommand, PlanSync, ContinueSync, PlansWith
<1>19. ASSUME NEW r \in Repos, Surroundings(r), LeavesRebased
       PROVE  AlignedInv'
  <2>1. UNCHANGED <<stage, pc, cur>>
    BY <1>19
       DEF Surroundings, AgentEdits, AgentCommits, UserEditsWorktree,
           UserCommitsInWorktree, WorktreeCleaned, UserRebasesWorktree,
           UserCommitsOnHost, OthersPush, FinishHostRebase, AbortHostRebase,
           FinishGuestRebase, AbortGuestRebase, AcceptCommand
  <2>2. ASSUME NEW q \in Repos, Aligned(q),
               stage[q] = Pushed \/ (pc # "idle" /\ AtLeast(q, Accepted)) \/ pc = "acceptSave"
        PROVE  (Aligned(q))'
    <3>1. AtLeast(q, GuestRebased) /\ (pc = "idle" => stage[q] = Pushed)
      BY <1>a, <2>2 DEF VisitedInv, AtLeast
    <3>2. CASE AgentCommits(r)
      BY <1>a, <3>1, <3>2, GuestRunsEarly DEF AgentCommits, AtLeast
    <3>3. CASE UserCommitsInWorktree(r)
      <4>1. r # q /\ host' = host
        <5>1. stage[r] < GuestRebased
          BY <1>19, <3>3 DEF LeavesRebased
        <5>2. r # q
          BY <1>a, <3>1, <5>1 DEF AtLeast
        <5>3. QED  BY <3>3, <5>2 DEF UserCommitsInWorktree
      <4>2. QED
        BY <1>a, <2>2, <3>3, <4>1
           DEF UserCommitsInWorktree, CommitsOnSession, Aligned, TypeOK
    <3>4. CASE UserRebasesWorktree(r)
      <4>1. host' = host
            /\ guest' = [guest EXCEPT ![r] = Rebased(@, host[r], ReplayId(r))]
        BY <3>4 DEF UserRebasesWorktree
      <4>2. q = r => guest'[q] = Rebased(guest[q], host[q], ReplayId(r))
        BY <1>a, <4>1 DEF TypeOK
      <4>3. q # r => guest'[q] = guest[q]
        BY <1>a, <4>1 DEF TypeOK
      <4>4. QED  BY <2>2, <4>1, <4>2, <4>3, RebaseOfAligned DEF Aligned
    <3>5. CASE FinishHostRebase(r)
      <4>1. r # q /\ guest' = guest
        BY <3>1, <3>5 DEF FinishHostRebase, QuietInv
      <4>2. QED  BY <1>a, <2>2, <3>5, <4>1 DEF FinishHostRebase, Aligned, TypeOK
    <3>6. CASE FinishGuestRebase(r)
      <4>1. r # q /\ host' = host
        BY <1>a, <3>1, <3>6 DEF FinishGuestRebase, QuietInv, AtLeast
      <4>2. QED  BY <1>a, <2>2, <3>6, <4>1 DEF FinishGuestRebase, Aligned, TypeOK
    <3>7. CASE UserCommitsOnHost(r)
      BY <1>a, <2>2, <3>7 DEF UserCommitsOnHost, Aligned, IsAncestor, TypeOK
    <3>8. CASE AcceptCommand(r)
      BY <1>a, <2>2, <3>8 DEF AcceptCommand, Aligned, IsAncestor, TypeOK
    <3>9. CASE UNCHANGED <<host, guest>>
      BY <2>2, <3>9 DEF Aligned
    <3>10. \/ AgentCommits(r) \/ UserCommitsInWorktree(r) \/ UserRebasesWorktree(r)
           \/ FinishHostRebase(r) \/ FinishGuestRebase(r) \/ UserCommitsOnHost(r)
           \/ AcceptCommand(r) \/ UNCHANGED <<host, guest>>
      BY <1>19
         DEF Surroundings, AgentEdits, UserEditsWorktree, WorktreeCleaned, OthersPush,
             AbortHostRebase, AbortGuestRebase
    <3>11. QED
      BY <3>2, <3>3, <3>4, <3>5, <3>6, <3>7, <3>8, <3>9, <3>10
  <2>3. QED  BY <1>a, <2>1, <2>2 DEF AlignedInv, AtLeast
<1>20. CASE UNCHANGED vars
  BY <1>20 DEF vars, AlignedInv, AtLeast, Aligned
<1>21. QED
  BY <1>2, <1>3, <1>4, <1>5, <1>6, <1>7, <1>8, <1>9, <1>10, <1>11, <1>12, <1>13, <1>14,
     <1>15, <1>16, <1>17, <1>18, <1>19, <1>20
     DEF Next, SyncStep, Command

\* When local branches are pushed, every session branch is contained in its host
\* branch, for any conflicts, rejections, deaths and continuations: if no other jbox
\* command runs inside the synchronization, and the user writes into no worktree
\* that it has rebased.
THEOREM SessionsAlign ==
  ~Overlap => (Spec /\ [][LeavesRebased]_vars => []SessionBranchAligned)
<1> SUFFICES ASSUME ~Overlap
             PROVE  Spec /\ [][LeavesRebased]_vars => []SessionBranchAligned
  OBVIOUS
<1>1. Init => FreezeInv /\ QuietInv /\ AlignedInv
  <2> SUFFICES ASSUME Init PROVE FreezeInv /\ QuietInv /\ AlignedInv
    OBVIOUS
  <2>1. \A r \in Repos : stage[r] = Planned /\ ~dirty[r] /\ hostOnto[r] = {}
                         /\ guestOnto[r] = {}
    BY DEF Init, NoPause
  <2>2. QED
    BY <2>1
       DEF Init, FreezeInv, QuietInv, AlignedInv, AtLeast, Planned, HostSynchronized,
           GuestRebased, Accepted, Pushed
<1>2. IInv /\ FreezeInv /\ [Next]_vars => FreezeInv'
  BY FreezeStep DEF IInv, JournalInv
<1>3. IInv /\ FreezeInv /\ QuietInv /\ AlignedInv /\ [Next /\ LeavesRebased]_vars
        => QuietInv' /\ AlignedInv'
  BY QuietStep, AlignedStep
<1>4. [Next]_vars /\ [LeavesRebased]_vars => [Next /\ LeavesRebased]_vars
  OBVIOUS
<1>5. IInv /\ AlignedInv => SessionBranchAligned
  BY DEF IInv, JournalInv, VisitedInv, AlignedInv, SessionBranchAligned, Aligned
<1>6. QED  BY <1>1, <1>2, <1>3, <1>4, <1>5, JournalInvariant, PTL DEF Spec

-----------------------------------------------------------------------------
(***************************************************************************)
(* What `git reset --hard` of an accepted worktree can lose (finding 1).   *)
(***************************************************************************)
\* A host branch has the patches of its session branch from acceptance on, also
\* while a host that is rebased again carries them under other object ids.
AcceptedInv ==
  \A r \in Repos : AtLeast(r, Accepted) \/ (pc = "acceptSave" /\ r = cur) =>
    Patches(guest[r]) \subseteq Patches(host[r])

\* A rebase adds nothing but what is on the branch it goes onto.
LEMMA RebasedAddsNothing ==
  ASSUME NEW branch, NEW onto, NEW id
  PROVE  Patches(Rebased(branch, onto, id)) \subseteq Patches(branch) \cup Patches(onto)
<1>1. CASE IsAncestor(onto, branch)
  BY <1>1 DEF Rebased
<1>2. CASE ~IsAncestor(onto, branch)
  <2>1. Rebased(branch, onto, id) = onto \cup [patch : Unreplayed(branch, onto), id : {id}]
    BY <1>2 DEF Rebased
  <2>2. ASSUME NEW p \in Patches(Rebased(branch, onto, id))
        PROVE  p \in Patches(branch) \cup Patches(onto)
    <3>1. PICK c \in Rebased(branch, onto, id) : p = c.patch
      BY DEF Patches
    <3>2. c \in onto \/ c.patch \in Unreplayed(branch, onto)
      BY <2>1, <3>1
    <3>3. QED  BY <3>1, <3>2 DEF Unreplayed, Patches
  <2>3. QED  BY <2>2
<1>3. QED  BY <1>1, <1>2

\* Once a repository counts as rebased, its session branch only takes on what its
\* host branch has: the guest is frozen, there are no files to checkpoint, no rebase
\* is paused, and the user keeps out.
LEMMA RebasedGuestSettled ==
  ASSUME ~Overlap, IInv, FreezeInv, QuietInv, [Next /\ LeavesRebased]_vars,
         NEW q \in Repos, AtLeast(q, GuestRebased), AtLeast(q, GuestRebased)'
  PROVE  Patches(guest'[q]) \subseteq Patches(guest[q]) \cup Patches(host[q])
<1> USE DEF branches, paused, journal, session, process, history, bounds
<1>a. TypeOK /\ RetainedInv /\ cur \in Repos /\ stage[q] \in SyncStages
  BY DEF IInv, JournalInv, TypeOK
<1> USE DEF Planned, HostSynchronized, GuestRebased, Accepted, Pushed, SyncStages
<1>b. stage[q] >= GuestRebased /\ ~(stage[q] < GuestRebased) /\ stage[q] # Planned
  BY <1>a DEF AtLeast
<1>1. CASE CheckpointWorktree
  <2>1. q = cur => ~dirty[cur]
    BY <1>b DEF QuietInv, AtLeast
  <2>2. guest'[q] = guest[q]
    BY <1>a, <1>1, <2>1 DEF CheckpointWorktree, CommitsOnSession, TypeOK
  <2>3. QED  BY <2>2
<1>2. CASE AlignAccepted
  <2>1. guest'[q] = IF q = cur THEN host[q] ELSE guest[q]
    BY <1>a, <1>2 DEF AlignAccepted, TypeOK
  <2>2. QED  BY <2>1
<1>3. CASE RebaseGuest
  <2>1. q # cur
    BY <1>b, <1>3 DEF RebaseGuest
  <2>2. guest'[q] = guest[q]
    BY <1>a, <1>3, <2>1 DEF RebaseGuest, TypeOK
  <2>3. QED  BY <2>2
<1>4. CASE RestartGuest \/ ResumeCommand
  <2>1. stage[q] = Planned
    BY <1>4 DEF RestartGuest, ResumeCommand, StartsGuest, QuietInv
  <2>2. QED  BY <1>b, <2>1
<1>5. ASSUME NEW r \in Repos, Surroundings(r), LeavesRebased
      PROVE  Patches(guest'[q]) \subseteq Patches(guest[q]) \cup Patches(host[q])
  <2>1. CASE AgentCommits(r)
    <3>1. guestUp
      BY <2>1 DEF AgentCommits
    <3>2. QED  BY <1>a, <1>b, <3>1, GuestRunsEarly
  <2>2. CASE UserCommitsInWorktree(r)
    <3>1. stage[r] < GuestRebased
      BY <1>5, <2>2 DEF LeavesRebased
    <3>2. q # r
      BY <1>b, <3>1
    <3>3. guest'[q] = guest[q]
      BY <1>a, <2>2, <3>2 DEF UserCommitsInWorktree, CommitsOnSession, TypeOK
    <3>4. QED  BY <3>3
  <2>3. CASE UserRebasesWorktree(r)
    <3>1. guest' = [guest EXCEPT ![r] = Rebased(@, host[r], ReplayId(r))]
      BY <2>3 DEF UserRebasesWorktree
    <3>2. guest'[q] = guest[q] \/ guest'[q] = Rebased(guest[q], host[q], ReplayId(q))
      BY <1>a, <3>1 DEF TypeOK
    <3>3. QED  BY <3>2, RebasedAddsNothing
  <2>4. CASE FinishGuestRebase(r)
    <3>1. q # r
      BY <1>b, <2>4 DEF FinishGuestRebase, QuietInv
    <3>2. guest'[q] = guest[q]
      BY <1>a, <2>4, <3>1 DEF FinishGuestRebase, TypeOK
    <3>3. QED  BY <3>2
  <2>5. CASE guest' = guest
    BY <2>5
  <2>6. QED
    BY <1>5, <2>1, <2>2, <2>3, <2>4, <2>5
       DEF Surroundings, AgentEdits, UserEditsWorktree, WorktreeCleaned,
           UserCommitsOnHost, OthersPush, FinishHostRebase, AbortHostRebase,
           AbortGuestRebase, AcceptCommand
<1>6. CASE guest' = guest
  BY <1>6
<1>7. QED
  BY <1>1, <1>2, <1>3, <1>4, <1>5, <1>6
     DEF Next, SyncStep, Command, vars, SaveJournal, StopGuest, SkipHost, PullHost,
         PullHostConflicts, SaveHostStage, SkipGuest, RebaseGuestConflicts, SaveGuestStage,
         SkipAccept, AcceptSnapshot, SaveAcceptStage, ConfirmPush, DeclinePush, SkipPush,
         PushUpstream, SavePushStage, FinishSync, FailSync, Fault, PlanSync, ContinueSync,
         AbortSync, StopCommand, PlansWith

\* A repository becomes an accepted one by the fast-forward and its record.
LEMMA BecomesAccepted ==
  ASSUME IInv, [Next]_vars, NEW q \in Repos,
         AtLeast(q, Accepted)', ~AtLeast(q, Accepted)
  PROVE  pc = "acceptSave" /\ q = cur /\ UNCHANGED <<host, guest>>
<1> USE DEF branches, paused, journal, session, process, history, bounds
<1>a. /\ TypeOK /\ RetainedInv /\ PendingInv /\ VisitedInv
      /\ cur \in Repos /\ stage[q] \in SyncStages
  BY DEF IInv, JournalInv, TypeOK
<1> USE DEF Planned, HostSynchronized, GuestRebased, Accepted, Pushed, SyncStages, AtLeast
<1>1. stage'[q] # stage[q] /\ stage'[q] # Planned
  BY <1>a
<1>2. CASE SaveJournal
  <2>1. stage'[q] = stage[q] \/ stage'[q] = Planned
    BY <1>2 DEF SaveJournal
  <2>2. QED  BY <1>1, <2>1
<1>3. CASE SaveHostStage \/ SaveGuestStage
  <2>1. stage'[q] \in {stage[q], HostSynchronized, GuestRebased}
    BY <1>a, <1>3 DEF SaveHostStage, SaveGuestStage, SavesStage, TypeOK
  <2>2. QED  BY <1>a, <2>1
<1>4. CASE SaveAcceptStage
  <2>1. q # cur => stage'[q] = stage[q]
    BY <1>a, <1>4 DEF SaveAcceptStage, SavesStage, TypeOK
  <2>2. QED  BY <1>1, <1>4, <2>1 DEF SaveAcceptStage
<1>5. CASE SavePushStage
  <2>1. stage[q] >= Accepted
    BY <1>a, <1>5 DEF SavePushStage, VisitedInv
  <2>2. QED  BY <2>1
<1>6. CASE FinishSync \/ AbortSync
  <2>1. stage'[q] = Planned
    BY <1>6 DEF FinishSync, AbortSync, ClearsJournal
  <2>2. QED  BY <1>1, <2>1
<1>7. CASE stage' = stage
  BY <1>1, <1>7
<1>8. QED
  BY <1>2, <1>3, <1>4, <1>5, <1>6, <1>7
     DEF Next, SyncStep, Command, vars, StopGuest, CheckpointWorktree, SkipHost, PullHost,
         PullHostConflicts, AlignAccepted, SkipGuest, RebaseGuest, RebaseGuestConflicts,
         SkipAccept, AcceptSnapshot, ConfirmPush, DeclinePush, SkipPush, PushUpstream,
         RestartGuest, FailSync, Fault, PlanSync, ContinueSync, ResumeCommand, StopCommand,
         PlansWith, StartsGuest, Surroundings, AgentEdits, AgentCommits, UserEditsWorktree,
         UserCommitsInWorktree, WorktreeCleaned, UserRebasesWorktree, UserCommitsOnHost,
         OthersPush, FinishHostRebase, AbortHostRebase, FinishGuestRebase,
         AbortGuestRebase, AcceptCommand

\* Only the fast-forward leads to its record, and only other people move beside it.
LEMMA AboutToRecord ==
  ASSUME TypeOK, [Next]_vars, pc' = "acceptSave"
  PROVE  \/ pc = "accept" /\ cur' = cur /\ host' = [host EXCEPT ![cur] = guest[cur]]
            /\ guest' = guest
         \/ pc = "acceptSave" /\ cur' = cur /\ stage' = stage
<1> USE DEF branches, paused, journal, session, process, history, bounds
<1>1. CASE AcceptSnapshot
  BY <1>1 DEF AcceptSnapshot
<1>2. ASSUME NEW r \in Repos, Surroundings(r)
      PROVE  UNCHANGED <<pc, cur, stage>>
  BY <1>2
     DEF Surroundings, AgentEdits, AgentCommits, UserEditsWorktree, UserCommitsInWorktree,
         WorktreeCleaned, UserRebasesWorktree, UserCommitsOnHost, OthersPush,
         FinishHostRebase, AbortHostRebase, FinishGuestRebase, AbortGuestRebase,
         AcceptCommand
<1>3. CASE SyncStep /\ ~AcceptSnapshot
  BY <1>3
     DEF SyncStep, SaveJournal, StopGuest, CheckpointWorktree, SkipHost, PullHost,
         PullHostConflicts, SaveHostStage, AlignAccepted, SkipGuest, RebaseGuest,
         RebaseGuestConflicts, SaveGuestStage, SkipAccept, SaveAcceptStage, ConfirmPush,
         DeclinePush, SkipPush, PushUpstream, SavePushStage, FinishSync, RestartGuest,
         FailSync, Moves, Ends, AfterStop
<1>4. CASE Fault \/ Command
  BY <1>4
     DEF Fault, Command, PlanSync, ContinueSync, AbortSync, ResumeCommand, StopCommand,
         PlansWith, StartsGuest, Ends
<1>5. CASE UNCHANGED vars
  BY <1>5 DEF vars
<1>6. QED  BY <1>1, <1>2, <1>3, <1>4, <1>5 DEF Next

LEMMA AcceptedStep ==
  ASSUME ~Overlap, IInv, FreezeInv, QuietInv, AcceptedInv, [Next /\ LeavesRebased]_vars
  PROVE  AcceptedInv'
<1>a. /\ TypeOK /\ VisitedInv /\ PendingInv /\ cur \in Repos
      /\ \A r \in Repos : stage[r] \in SyncStages
  BY DEF IInv, JournalInv, TypeOK
<1>b. [Next]_vars
  OBVIOUS
<1>c. \A r \in Repos : stage'[r] \in SyncStages
  BY <1>a, <1>b, StepType DEF TypeOK
<1> USE DEF Planned, HostSynchronized, GuestRebased, Accepted, Pushed, SyncStages
<1> SUFFICES ASSUME NEW q \in Repos,
                    AtLeast(q, Accepted)' \/ (pc' = "acceptSave" /\ q = cur')
             PROVE  Patches(guest'[q]) \subseteq Patches(host'[q])
  BY DEF AcceptedInv
<1>1. ASSUME Patches(guest[q]) \subseteq Patches(host[q]),
             AtLeast(q, GuestRebased), AtLeast(q, GuestRebased)'
      PROVE  Patches(guest'[q]) \subseteq Patches(host'[q])
  <2>1. Patches(guest'[q]) \subseteq Patches(guest[q]) \cup Patches(host[q])
    BY <1>1, RebasedGuestSettled
  <2>2. Patches(host[q]) \subseteq Patches(host'[q])
    BY <1>a, <1>b, HostGrows
  <2>3. QED  BY <1>1, <2>1, <2>2
<1>2. CASE AtLeast(q, Accepted)' /\ AtLeast(q, Accepted)
  <2>1. AtLeast(q, GuestRebased) /\ AtLeast(q, GuestRebased)'
    BY <1>a, <1>c, <1>2 DEF AtLeast
  <2>2. QED  BY <1>1, <1>2, <2>1 DEF AcceptedInv
<1>3. CASE AtLeast(q, Accepted)' /\ ~AtLeast(q, Accepted)
  <2>1. pc = "acceptSave" /\ q = cur /\ UNCHANGED <<host, guest>>
    BY <1>b, <1>3, BecomesAccepted
  <2>2. QED  BY <2>1 DEF AcceptedInv
<1>4. CASE pc' = "acceptSave" /\ q = cur'
  <2>1. CASE pc = "accept" /\ cur' = cur /\ host' = [host EXCEPT ![cur] = guest[cur]]
             /\ guest' = guest
    <3>1. host'[q] = guest[q]
      BY <1>a, <1>4, <2>1 DEF TypeOK
    <3>2. QED  BY <2>1, <3>1
  <2>2. CASE pc = "acceptSave" /\ cur' = cur /\ stage' = stage
    <3>1. AtLeast(q, GuestRebased) /\ AtLeast(q, GuestRebased)'
      BY <1>a, <2>2 DEF VisitedInv, AtLeast
    <3>2. QED  BY <1>1, <1>4, <2>2, <3>1 DEF AcceptedInv
  <2>3. QED  BY <1>a, <1>b, <1>4, <2>1, <2>2, AboutToRecord
<1>5. QED  BY <1>2, <1>3, <1>4

\* Where the invariant holds, the reset discards nothing that the host branch lacks.
LEMMA ResetKeepsPatches ==
  ASSUME IInv, AcceptedInv, [Next]_vars, NEW r \in Repos
  PROVE  Patches(guest[r]) \subseteq Patches(guest'[r]) \cup Patches(host'[r])
<1>a. TypeOK /\ PendingInv /\ cur \in Repos
  BY DEF IInv, JournalInv, TypeOK
<1>1. CASE AlignAccepted
  <2>1. pc = "align" /\ host' = host
    BY <1>1 DEF AlignAccepted
  <2>2. CASE r = cur
    <3>1. AtLeast(r, Accepted)
      BY <1>a, <2>1, <2>2 DEF PendingInv, AtLeast, Accepted
    <3>2. QED  BY <2>1, <3>1 DEF AcceptedInv
  <2>3. CASE r # cur
    <3>1. guest'[r] = guest[r]
      BY <1>a, <1>1, <2>3 DEF AlignAccepted, TypeOK
    <3>2. QED  BY <3>1
  <2>4. QED  BY <2>2, <2>3
<1>2. CASE ~AlignAccepted
  BY <1>a, <1>2, GuestGrows
<1>3. QED  BY <1>1, <1>2

\* What git.rs says of align_accepted_worktree, "no guest-only commits or files may
\* be discarded", and the reason it is not so (finding 1): it holds for any conflicts,
\* rejected pushes, deaths, continuations and aborts as long as no other jbox command
\* runs inside the synchronization, and the user writes into no worktree that it has
\* rebased.
THEOREM ResetDiscardsNothing ==
  ~Overlap => (Spec /\ [][LeavesRebased]_vars => NoGuestOnlyCommitDiscarded)
<1> SUFFICES ASSUME ~Overlap
             PROVE  Spec /\ [][LeavesRebased]_vars => NoGuestOnlyCommitDiscarded
  OBVIOUS
<1>1. Init => FreezeInv /\ QuietInv /\ AcceptedInv
  <2> SUFFICES ASSUME Init PROVE FreezeInv /\ QuietInv /\ AcceptedInv
    OBVIOUS
  <2>1. \A r \in Repos : stage[r] = Planned /\ ~dirty[r] /\ hostOnto[r] = {}
                         /\ guestOnto[r] = {}
    BY DEF Init, NoPause
  <2>2. QED
    BY <2>1
       DEF Init, FreezeInv, QuietInv, AcceptedInv, AtLeast, Planned, HostSynchronized,
           GuestRebased, Accepted, Pushed
<1>2. IInv /\ FreezeInv /\ [Next]_vars => FreezeInv'
  BY FreezeStep DEF IInv, JournalInv
<1>3. IInv /\ FreezeInv /\ QuietInv /\ AcceptedInv /\ [Next /\ LeavesRebased]_vars
        => QuietInv' /\ AcceptedInv'
  BY QuietStep, AcceptedStep
<1>4. [Next]_vars /\ [LeavesRebased]_vars => [Next /\ LeavesRebased]_vars
  OBVIOUS
<1>5. IInv /\ AcceptedInv /\ [Next]_vars =>
        [\A r \in Repos :
           Patches(guest[r]) \subseteq Patches(guest'[r]) \cup Patches(host'[r])]_vars
  BY ResetKeepsPatches
<1>6. QED
  BY <1>1, <1>2, <1>3, <1>4, <1>5, JournalInvariant, PTL
     DEF Spec, NoGuestOnlyCommitDiscarded

=============================================================================
