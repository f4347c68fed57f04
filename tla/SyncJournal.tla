---------------------------- MODULE SyncJournal ----------------------------
(***************************************************************************)
(* `jbox sync`: one command that, for every repository of a session,       *)
(* rebases the host branch onto its upstream, rebases the session branch   *)
(* onto the host branch, fast-forwards the host branch to the session      *)
(* branch, and pushes.  Its progress is a journal in the session record    *)
(* (session.sync), so that a conflict, a rejected push or a crash leaves   *)
(* something `sync --continue` can finish and `sync --abort` can drop.     *)
(*                                                                         *)
(* A branch is the set of its commits.  A commit is a patch (a change      *)
(* someone wrote) under an object id: every replay gives it a new id, so   *)
(* "is an ancestor of" is set inclusion, and two branches with the same    *)
(* patches need not be ancestors of each other.                            *)
(*                                                                         *)
(* A git conflict is a choice of the environment; it is counted.  The      *)
(* process is one `jbox sync`; around it move the agent in the guest, the  *)
(* user in the host checkout and in the retained worktree, and whoever     *)
(* else pushes to the remotes.                                             *)
(***************************************************************************)
EXTENDS Naturals, FiniteSets

CONSTANTS
  RepoCount,     \* number of repositories of the session, in session order
  MaxPatches,    \* bound: patches written in all repositories
  MaxConflicts,  \* bound: rebases that stop on a conflict
  MaxFaults,     \* bound: crashes, failed fetches and failed pushes
  MaxAborts,     \* bound: uses of `jbox sync --abort`
  EditsAt,       \* bound: phases during which the user edits the worktrees
  Overlap        \* whether other jbox commands run between the steps of sync

VARIABLES
  host,         \* repo -> branch checked out in the host repository
  guest,        \* repo -> session branch, as the retained worktree has it
  remote,       \* repo -> the configured upstream branch
  hostOnto,     \* repo -> target of a paused host rebase, {} when none
  guestOnto,    \* repo -> target of a paused worktree rebase, {} when none
  dirty,        \* repo -> the worktree has visible uncommitted files
  running,      \* session.state is Running in session.json
  guestUp,      \* the runtime container is up
  retained,     \* session.sync is present in session.json
  checkpoint,   \* session.sync.checkpoint
  restart,      \* session.sync.restart_guest
  stage,        \* repo -> session.sync stage of the repository
  original,     \* repo -> session.sync original_guest_head
  pc,           \* where the sync process is
  cur,          \* the repository it works on
  view,         \* what the process read before its plan was confirmed
  made,         \* patches written so far (names the next one)
  replays,      \* repo -> replays so far (names the next object id)
  conflicts, faults, aborts   \* how much of each bound is used

branches  == <<host, guest, remote>>
paused    == <<hostOnto, guestOnto>>
journal   == <<retained, checkpoint, restart, stage, original>>
session   == <<running, journal>>
process   == <<pc, cur, view>>
history   == <<made, replays>>
bounds    == <<conflicts, faults, aborts>>
vars == <<branches, paused, dirty, guestUp, session, process, history, bounds>>

Repos == 1..RepoCount

(***************************************************************************)
(* SyncStage derives Ord: the stages are compared by their position.       *)
(***************************************************************************)
Planned          == 0
HostSynchronized == 1
GuestRebased     == 2
Accepted         == 3
Pushed           == 4
SyncStages       == Planned..Pushed

Phases == {"idle", "save", "stop", "checkpoint", "host", "hostSave", "align",
           "guest", "guestSave", "accept", "acceptSave", "confirmPush",
           "push", "pushSave", "clear", "restart"}

ASSUME RepoCountAssumption == RepoCount \in Nat \ {0}
ASSUME BoundsAssumption ==
  /\ {MaxPatches, MaxConflicts, MaxFaults, MaxAborts} \subseteq Nat
  /\ EditsAt \subseteq Phases
  /\ Overlap \in BOOLEAN

Commit == [patch : Nat, id : Nat]

Patches(branch) == {c.patch : c \in branch}

BaseCommit == [patch |-> 0, id |-> 0]

NoPause == [r \in Repos |-> {}]

NoView == [running |-> FALSE, checkpoint |-> FALSE,
           original |-> [r \in Repos |-> {}]]

TypeOK ==
  /\ host \in [Repos -> SUBSET Commit]
  /\ guest \in [Repos -> SUBSET Commit]
  /\ remote \in [Repos -> SUBSET Commit]
  /\ hostOnto \in [Repos -> SUBSET Commit]
  /\ guestOnto \in [Repos -> SUBSET Commit]
  /\ dirty \in [Repos -> BOOLEAN]
  /\ running \in BOOLEAN
  /\ guestUp \in BOOLEAN
  /\ retained \in BOOLEAN
  /\ checkpoint \in BOOLEAN
  /\ restart \in BOOLEAN
  /\ stage \in [Repos -> SyncStages]
  /\ original \in [Repos -> SUBSET Commit]
  /\ pc \in Phases
  /\ cur \in Repos
  /\ view \in [running : BOOLEAN, checkpoint : BOOLEAN,
               original : [Repos -> SUBSET Commit]]
  /\ made \in Nat
  /\ replays \in [Repos -> Nat]
  /\ conflicts \in Nat
  /\ faults \in Nat
  /\ aborts \in Nat

Init ==
  /\ host = [r \in Repos |-> {BaseCommit}]
  /\ guest = [r \in Repos |-> {BaseCommit}]
  /\ remote = [r \in Repos |-> {BaseCommit}]
  /\ hostOnto = NoPause
  /\ guestOnto = NoPause
  /\ dirty = [r \in Repos |-> FALSE]
  /\ running = TRUE
  /\ guestUp = TRUE
  /\ retained = FALSE
  /\ checkpoint = FALSE
  /\ restart = FALSE
  /\ stage = [r \in Repos |-> Planned]
  /\ original = [r \in Repos |-> {}]
  /\ pc = "idle"
  /\ cur = 1
  /\ view = NoView
  /\ made = 0
  /\ replays = [r \in Repos |-> 0]
  /\ conflicts = 0
  /\ faults = 0
  /\ aborts = 0

-----------------------------------------------------------------------------
(***************************************************************************)
(* What git does to a branch.                                              *)
(***************************************************************************)

\* `git merge-base --is-ancestor old new`
IsAncestor(old, new) == old \subseteq new

\* The patches a rebase of branch still has to replay: git, or whoever
\* resolves a conflict, drops those that are on `onto` already.
Unreplayed(branch, onto) == Patches(branch) \ Patches(onto)

\* The branch after a rebase onto `onto`.
Rebased(branch, onto, id) ==
  IF IsAncestor(onto, branch)
  THEN branch
  ELSE onto \cup [patch : Unreplayed(branch, onto), id : {id}]

\* A rebase can only stop when it has something to replay.
MayConflict(branch, onto) ==
  /\ ~IsAncestor(onto, branch)
  /\ Unreplayed(branch, onto) # {}
  /\ conflicts < MaxConflicts

NewCommit == [patch |-> made + 1, id |-> 0]

CommitsOnSession(r) ==
  /\ made' = made + 1
  /\ guest' = [guest EXCEPT ![r] = @ \cup {NewCommit}]

ReplayId(r) == replays[r] + 1

\* A rebase that has nothing to do makes no commits.
CountReplay(r, branch, onto) ==
  replays' = IF IsAncestor(onto, branch)
             THEN replays ELSE [replays EXCEPT ![r] = @ + 1]

-----------------------------------------------------------------------------
(***************************************************************************)
(* Planning: sync_from_repository up to the confirmation.  A plan with     *)
(* problems, a dry run and a refused confirmation change nothing.          *)
(***************************************************************************)

\* sync_plan finds no problem: every host checkout and worktree is on its
\* branch, and visible files only remain where they will be checkpointed.
PlanIsClean(withCheckpoint) ==
  \A r \in Repos : /\ hostOnto[r] = {}
                   /\ guestOnto[r] = {}
                   /\ dirty[r] => withCheckpoint

PlansWith(withCheckpoint) ==
  /\ pc = "idle"
  /\ PlanIsClean(withCheckpoint)
  /\ view' = [running |-> running, checkpoint |-> withCheckpoint,
              original |-> IF retained THEN original ELSE guest]
  /\ pc' = "save"
  /\ UNCHANGED <<branches, paused, dirty, guestUp, session, cur, history,
                 bounds>>

\* `jbox sync` and `jbox sync --checkpoint`
PlanSync == \E withCheckpoint \in BOOLEAN : ~retained /\ PlansWith(withCheckpoint)

\* `jbox sync --continue`: the journal decides about checkpoints.
ContinueSync == retained /\ PlansWith(checkpoint)

\* The phase that follows the stop of the guest.
AfterStop(withCheckpoint) == IF withCheckpoint THEN "checkpoint" ELSE "host"

\* The confirmed plan becomes the journal.  The whole record is written, so
\* the session state goes back to what the process had read.
SaveJournal ==
  /\ pc = "save"
  /\ retained' = TRUE
  /\ checkpoint' = view.checkpoint
  /\ restart' = (view.running \/ (retained /\ restart))
  /\ stage' = IF retained THEN stage ELSE [r \in Repos |-> Planned]
  /\ original' = view.original
  /\ running' = view.running
  /\ pc' = IF restart' THEN "stop" ELSE AfterStop(view.checkpoint)
  /\ UNCHANGED <<branches, paused, dirty, guestUp, cur, view, history, bounds>>

-----------------------------------------------------------------------------
(***************************************************************************)
(* The phases.  Each one visits the repositories in order.                 *)
(***************************************************************************)
Ends == pc' = "idle" /\ cur' = 1 /\ view' = NoView

\* mutant: the last repository is not noticed
MovesPastEnd(phase, following) ==
  /\ UNCHANGED view
  /\ IF cur > RepoCount
     THEN pc' = following /\ cur' = 1
     ELSE pc' = phase /\ cur' = cur + 1

Moves(phase, following) ==
  /\ UNCHANGED view
  /\ IF cur = RepoCount
     THEN pc' = following /\ cur' = 1
     ELSE pc' = phase /\ cur' = cur + 1

SavesStage(value) ==
  /\ stage' = [stage EXCEPT ![cur] = value]
  /\ running' = view.running
  /\ UNCHANGED <<retained, checkpoint, restart, original>>

\* mutant: the session is recorded as stopped, its container stays up
StopRecordOnly ==
  /\ pc = "stop"
  /\ running' = (running /\ ~view.running)
  /\ view' = [view EXCEPT !.running = FALSE]
  /\ pc' = AfterStop(checkpoint)
  /\ UNCHANGED <<branches, paused, dirty, guestUp, journal, cur, history,
                 bounds>>

\* stop_running_session: nothing to do unless the record says Running.
StopGuest ==
  /\ pc = "stop"
  /\ guestUp' = (guestUp /\ ~view.running)
  /\ running' = (running /\ ~view.running)
  /\ view' = [view EXCEPT !.running = FALSE]
  /\ pc' = AfterStop(checkpoint)
  /\ UNCHANGED <<branches, paused, dirty, journal, cur, history, bounds>>

\* checkpoint_sync_worktrees for one repository
CheckpointWorktree ==
  /\ pc = "checkpoint"
  /\ guestOnto[cur] = {}
  /\ IF dirty[cur]
     THEN /\ CommitsOnSession(cur)
          /\ dirty' = [dirty EXCEPT ![cur] = FALSE]
     ELSE UNCHANGED <<guest, made, dirty>>
  /\ Moves("checkpoint", "host")
  /\ UNCHANGED <<host, remote, paused, guestUp, session, replays, bounds>>

\* mutant: a planned repository passes for a synchronized one
HostDoneWhenPlanned(r) == stage[r] >= Planned /\ stage[r] # Accepted

\* mutant: the host of a rejected push is not rebased again
HostDoneForGood(r) == stage[r] >= HostSynchronized

\* The repositories sync_host_branches leaves alone.
HostDone(r) == stage[r] >= HostSynchronized /\ stage[r] # Accepted

SkipHost ==
  /\ pc = "host"
  /\ HostDone(cur)
  /\ Moves("host", "guest")
  /\ UNCHANGED <<branches, paused, dirty, guestUp, session, history, bounds>>

\* rebase_host_onto_upstream: `git pull --rebase=merges`
PullHost ==
  /\ pc = "host"
  /\ ~HostDone(cur)
  /\ hostOnto[cur] = {}
  /\ host' = [host EXCEPT
                ![cur] = Rebased(@, remote[cur], ReplayId(cur))]
  /\ CountReplay(cur, host[cur], remote[cur])
  /\ pc' = IF stage[cur] = Accepted THEN "align" ELSE "hostSave"
  /\ UNCHANGED <<guest, remote, paused, dirty, guestUp, session, cur, view,
                 made, bounds>>

PullHostConflicts ==
  /\ pc = "host"
  /\ ~HostDone(cur)
  /\ hostOnto[cur] = {}
  /\ MayConflict(host[cur], remote[cur])
  /\ hostOnto' = [hostOnto EXCEPT ![cur] = remote[cur]]
  /\ conflicts' = conflicts + 1
  /\ Ends
  /\ UNCHANGED <<branches, guestOnto, dirty, guestUp, session, history, faults,
                 aborts>>

SaveHostStage ==
  /\ pc = "hostSave"
  /\ SavesStage(HostSynchronized)
  /\ Moves("host", "guest")
  /\ UNCHANGED <<branches, paused, dirty, guestUp, history, bounds>>

\* mutant: the accepted worktree stays behind its rebased host
AlignNothing ==
  /\ pc = "align"
  /\ ~dirty[cur]
  /\ Moves("host", "guest")
  /\ UNCHANGED <<branches, paused, dirty, guestUp, session, history, bounds>>

\* align_accepted_worktree: `git reset --hard <host branch>`
AlignAccepted ==
  /\ pc = "align"
  /\ ~dirty[cur]
  /\ guest' = [guest EXCEPT ![cur] = host[cur]]
  /\ Moves("host", "guest")
  /\ UNCHANGED <<host, remote, paused, dirty, guestUp, session, history,
                 bounds>>

SkipGuest ==
  /\ pc = "guest"
  /\ stage[cur] >= GuestRebased
  /\ Moves("guest", "accept")
  /\ UNCHANGED <<branches, paused, dirty, guestUp, session, history, bounds>>

\* rebase_worktree
RebaseGuest ==
  /\ pc = "guest"
  /\ stage[cur] < GuestRebased
  /\ ~dirty[cur]
  /\ guestOnto[cur] = {}
  /\ guest' = [guest EXCEPT
                 ![cur] = Rebased(@, host[cur], ReplayId(cur))]
  /\ CountReplay(cur, guest[cur], host[cur])
  /\ pc' = "guestSave"
  /\ UNCHANGED <<host, remote, paused, dirty, guestUp, session, cur, view,
                 made, bounds>>

RebaseGuestConflicts ==
  /\ pc = "guest"
  /\ stage[cur] < GuestRebased
  /\ ~dirty[cur]
  /\ guestOnto[cur] = {}
  /\ MayConflict(guest[cur], host[cur])
  /\ guestOnto' = [guestOnto EXCEPT ![cur] = host[cur]]
  /\ conflicts' = conflicts + 1
  /\ Ends
  /\ UNCHANGED <<branches, hostOnto, dirty, guestUp, session, history, faults,
                 aborts>>

SaveGuestStage ==
  /\ pc = "guestSave"
  /\ SavesStage(GuestRebased)
  /\ Moves("guest", "accept")
  /\ UNCHANGED <<branches, paused, dirty, guestUp, history, bounds>>

SkipAccept ==
  /\ pc = "accept"
  /\ stage[cur] >= Accepted
  /\ Moves("accept", "confirmPush")
  /\ UNCHANGED <<branches, paused, dirty, guestUp, session, history, bounds>>

\* mutant: a diverged host branch is moved as well
CanAcceptDiverged(r) == hostOnto[r] = {}

\* preflight_accept_snapshot and fast_forward_snapshot
CanAccept(r) == hostOnto[r] = {} /\ IsAncestor(host[r], guest[r])

\* mutant: acceptance is recorded, the host branch does not move
AcceptRecordOnly ==
  /\ pc = "accept"
  /\ stage[cur] < Accepted
  /\ CanAccept(cur)
  /\ pc' = "acceptSave"
  /\ UNCHANGED <<branches, paused, dirty, guestUp, session, cur, view, history,
                 bounds>>

AcceptSnapshot ==
  /\ pc = "accept"
  /\ stage[cur] < Accepted
  /\ CanAccept(cur)
  /\ host' = [host EXCEPT ![cur] = guest[cur]]
  /\ pc' = "acceptSave"
  /\ UNCHANGED <<guest, remote, paused, dirty, guestUp, session, cur, view,
                 history, bounds>>

SaveAcceptStage ==
  /\ pc = "acceptSave"
  /\ SavesStage(Accepted)
  /\ Moves("accept", "confirmPush")
  /\ UNCHANGED <<branches, paused, dirty, guestUp, history, bounds>>

\* The second confirmation; a refusal keeps the journal.
ConfirmPush ==
  /\ pc = "confirmPush"
  /\ pc' = "push"
  /\ UNCHANGED <<branches, paused, dirty, guestUp, session, cur, view, history,
                 bounds>>

DeclinePush ==
  /\ pc = "confirmPush"
  /\ Ends
  /\ UNCHANGED <<branches, paused, dirty, guestUp, session, history, bounds>>

SkipPush ==
  /\ pc = "push"
  /\ stage[cur] = Pushed
  /\ Moves("push", "clear")
  /\ UNCHANGED <<branches, paused, dirty, guestUp, session, history, bounds>>

\* mutant: `git push --force`
CanPushForced(r) == hostOnto[r] = {}

\* push_upstream: never forced, so the remote only moves forward.
CanPush(r) == hostOnto[r] = {} /\ IsAncestor(remote[r], host[r])

\* mutant: a rejected push passes for a push
PushRejected ==
  /\ pc = "push"
  /\ stage[cur] # Pushed
  /\ hostOnto[cur] = {}
  /\ remote' = IF CanPush(cur) THEN [remote EXCEPT ![cur] = host[cur]] ELSE remote
  /\ pc' = "pushSave"
  /\ UNCHANGED <<host, guest, paused, dirty, guestUp, session, cur, view,
                 history, bounds>>

PushUpstream ==
  /\ pc = "push"
  /\ stage[cur] # Pushed
  /\ CanPush(cur)
  /\ remote' = [remote EXCEPT ![cur] = host[cur]]
  /\ pc' = "pushSave"
  /\ UNCHANGED <<host, guest, paused, dirty, guestUp, session, cur, view,
                 history, bounds>>

SavePushStage ==
  /\ pc = "pushSave"
  /\ SavesStage(Pushed)
  /\ Moves("push", "clear")
  /\ UNCHANGED <<branches, paused, dirty, guestUp, history, bounds>>

\* session.sync as it is written when no synchronization is retained
ClearsJournal ==
  /\ retained' = FALSE
  /\ checkpoint' = FALSE
  /\ restart' = FALSE
  /\ stage' = [r \in Repos |-> Planned]
  /\ original' = [r \in Repos |-> {}]

FinishSync ==
  /\ pc = "clear"
  /\ ClearsJournal
  /\ running' = view.running
  /\ IF restart THEN pc' = "restart" /\ UNCHANGED <<cur, view>> ELSE Ends
  /\ UNCHANGED <<branches, paused, dirty, guestUp, history, bounds>>

-----------------------------------------------------------------------------
(***************************************************************************)
(* The guest is restarted by sync itself and by `jbox resume`.  Visible    *)
(* files are checkpointed before guest metadata is recreated.              *)
(***************************************************************************)
StartsGuest ==
  /\ ~retained
  /\ ~running
  /\ ~guestUp
  /\ guestOnto = NoPause
  /\ LET Checkpoint(r) == IF dirty[r] THEN {[patch |-> made + r, id |-> 0]} ELSE {}
     IN guest' = [r \in Repos |-> guest[r] \cup Checkpoint(r)]
  /\ made' = IF \E r \in Repos : dirty[r] THEN made + RepoCount ELSE made
  /\ dirty' = [r \in Repos |-> FALSE]
  /\ guestUp' = TRUE
  /\ running' = TRUE
  /\ UNCHANGED <<host, remote, paused, journal, replays, bounds>>

RestartGuest == pc = "restart" /\ StartsGuest /\ Ends

\* Other commands run while no sync does, or between its steps if they may.
OtherCommand == pc = "idle" \/ Overlap

ResumeCommand == OtherCommand /\ StartsGuest /\ UNCHANGED process

StopCommand ==
  /\ OtherCommand
  /\ running
  /\ guestUp' = FALSE
  /\ running' = FALSE
  /\ UNCHANGED <<branches, paused, dirty, journal, process, history, bounds>>

\* abort_sync: ends every paused rebase and drops the journal.
AbortSync ==
  /\ pc = "idle"
  /\ retained
  /\ aborts < MaxAborts
  /\ hostOnto' = NoPause
  /\ guestOnto' = NoPause
  /\ ClearsJournal
  /\ aborts' = aborts + 1
  /\ UNCHANGED <<branches, dirty, guestUp, running, process, history,
                 conflicts, faults>>

-----------------------------------------------------------------------------
(***************************************************************************)
(* How a sync process ends early.  The journal stays as it was last saved. *)
(***************************************************************************)

\* The step the process is at reports an error.
Blocked ==
  \/ pc = "checkpoint" /\ guestOnto[cur] # {}
  \/ pc = "host" /\ ~HostDone(cur) /\ hostOnto[cur] # {}
  \/ pc = "align" /\ dirty[cur]
  \/ pc = "guest" /\ stage[cur] < GuestRebased /\ (dirty[cur] \/ guestOnto[cur] # {})
  \/ pc = "accept" /\ stage[cur] < Accepted /\ ~CanAccept(cur)
  \/ pc = "push" /\ stage[cur] # Pushed /\ ~CanPush(cur)
  \/ pc = "restart" /\ (retained \/ running \/ guestUp \/ guestOnto # NoPause)

FailSync ==
  /\ Blocked
  /\ Ends
  /\ UNCHANGED <<branches, paused, dirty, guestUp, session, history, bounds>>

\* The process dies, or a fetch or a push fails for reasons of its own.
Fault ==
  /\ pc # "idle"
  /\ faults < MaxFaults
  /\ faults' = faults + 1
  /\ Ends
  /\ UNCHANGED <<branches, paused, dirty, guestUp, session, history, conflicts,
                 aborts>>

-----------------------------------------------------------------------------
(***************************************************************************)
(* Everyone else.                                                          *)
(***************************************************************************)
MayWrite == made < MaxPatches

\* The agent in the guest edits files and commits them.
AgentEdits(r) ==
  /\ guestUp
  /\ ~dirty[r]
  /\ MayWrite
  /\ dirty' = [dirty EXCEPT ![r] = TRUE]
  /\ UNCHANGED <<branches, paused, guestUp, session, process, history, bounds>>

AgentCommits(r) ==
  /\ guestUp
  /\ MayWrite
  /\ CommitsOnSession(r)
  /\ dirty' = [dirty EXCEPT ![r] = FALSE]
  /\ UNCHANGED <<host, remote, paused, guestUp, session, process, replays,
                 bounds>>

\* The user works in the retained worktree (`jbox resolve`).
UserEditsWorktree(r) ==
  /\ pc \in EditsAt
  /\ ~guestUp
  /\ guestOnto[r] = {}
  /\ ~dirty[r]
  /\ MayWrite
  /\ dirty' = [dirty EXCEPT ![r] = TRUE]
  /\ UNCHANGED <<branches, paused, guestUp, session, process, history, bounds>>

UserCommitsInWorktree(r) ==
  /\ pc \in EditsAt
  /\ ~guestUp
  /\ guestOnto[r] = {}
  /\ MayWrite
  /\ CommitsOnSession(r)
  /\ dirty' = [dirty EXCEPT ![r] = FALSE]
  /\ UNCHANGED <<host, remote, paused, guestUp, session, process, replays,
                 bounds>>

\* Uncommitted files are stashed away.
WorktreeCleaned(r) ==
  /\ dirty[r]
  /\ dirty' = [dirty EXCEPT ![r] = FALSE]
  /\ UNCHANGED <<branches, paused, guestUp, session, process, history, bounds>>

\* `git rebase <host branch>` in the retained worktree, which is what a
\* refused fast-forward asks for.
UserRebasesWorktree(r) ==
  /\ pc = "idle"
  /\ retained
  /\ ~guestUp
  /\ guestOnto[r] = {}
  /\ hostOnto[r] = {}
  /\ ~dirty[r]
  /\ ~IsAncestor(host[r], guest[r])
  /\ guest' = [guest EXCEPT ![r] = Rebased(@, host[r], ReplayId(r))]
  /\ CountReplay(r, guest[r], host[r])
  /\ UNCHANGED <<host, remote, paused, dirty, guestUp, session, process, made,
                 bounds>>

\* Paused rebases are resolved and continued, or aborted, by hand.
FinishHostRebase(r) ==
  /\ hostOnto[r] # {}
  /\ host' = [host EXCEPT ![r] = Rebased(@, hostOnto[r], ReplayId(r))]
  /\ hostOnto' = [hostOnto EXCEPT ![r] = {}]
  /\ CountReplay(r, host[r], hostOnto[r])
  /\ UNCHANGED <<guest, remote, guestOnto, dirty, guestUp, session, process,
                 made, bounds>>

AbortHostRebase(r) ==
  /\ hostOnto[r] # {}
  /\ hostOnto' = [hostOnto EXCEPT ![r] = {}]
  /\ UNCHANGED <<branches, guestOnto, dirty, guestUp, session, process,
                 history, bounds>>

FinishGuestRebase(r) ==
  /\ guestOnto[r] # {}
  /\ guest' = [guest EXCEPT ![r] = Rebased(@, guestOnto[r], ReplayId(r))]
  /\ guestOnto' = [guestOnto EXCEPT ![r] = {}]
  /\ CountReplay(r, guest[r], guestOnto[r])
  /\ UNCHANGED <<host, remote, hostOnto, dirty, guestUp, session, process,
                 made, bounds>>

AbortGuestRebase(r) ==
  /\ guestOnto[r] # {}
  /\ guestOnto' = [guestOnto EXCEPT ![r] = {}]
  /\ UNCHANGED <<branches, hostOnto, dirty, guestUp, session, process, history,
                 bounds>>

\* The user commits in the host checkout.
UserCommitsOnHost(r) ==
  /\ MayWrite
  /\ hostOnto[r] = {}
  /\ host' = [host EXCEPT ![r] = @ \cup {NewCommit}]
  /\ made' = made + 1
  /\ UNCHANGED <<guest, remote, paused, dirty, guestUp, session, process,
                 replays, bounds>>

\* Someone else pushes to the upstream branch.
OthersPush(r) ==
  /\ MayWrite
  /\ remote' = [remote EXCEPT ![r] = @ \cup {NewCommit}]
  /\ made' = made + 1
  /\ UNCHANGED <<host, guest, paused, dirty, guestUp, session, process,
                 replays, bounds>>

\* `jbox accept` does not look at the journal.
AcceptCommand(r) ==
  /\ OtherCommand
  /\ CanAccept(r)
  /\ host[r] # guest[r]
  /\ host' = [host EXCEPT ![r] = guest[r]]
  /\ UNCHANGED <<guest, remote, paused, dirty, guestUp, session, process,
                 history, bounds>>

-----------------------------------------------------------------------------
SyncStep ==
  \/ SaveJournal \/ StopGuest \/ CheckpointWorktree
  \/ SkipHost \/ PullHost \/ PullHostConflicts \/ SaveHostStage \/ AlignAccepted
  \/ SkipGuest \/ RebaseGuest \/ RebaseGuestConflicts \/ SaveGuestStage
  \/ SkipAccept \/ AcceptSnapshot \/ SaveAcceptStage
  \/ ConfirmPush \/ DeclinePush
  \/ SkipPush \/ PushUpstream \/ SavePushStage
  \/ FinishSync \/ RestartGuest \/ FailSync

Command == PlanSync \/ ContinueSync \/ AbortSync \/ ResumeCommand \/ StopCommand

Surroundings(r) ==
  \/ AgentEdits(r) \/ AgentCommits(r)
  \/ UserEditsWorktree(r) \/ UserCommitsInWorktree(r) \/ WorktreeCleaned(r)
  \/ UserRebasesWorktree(r) \/ UserCommitsOnHost(r) \/ OthersPush(r)
  \/ FinishHostRebase(r) \/ AbortHostRebase(r)
  \/ FinishGuestRebase(r) \/ AbortGuestRebase(r)
  \/ AcceptCommand(r)

Next == SyncStep \/ Fault \/ Command \/ \E r \in Repos : Surroundings(r)

Spec == Init /\ [][Next]_vars

(***************************************************************************)
(* A started sync runs until it ends.  The user who sees it end early      *)
(* resolves what it reported and runs `sync --continue` again: paused      *)
(* rebases are finished, files are moved out of the way, a worktree whose  *)
(* host branch moved is rebased, and the push is agreed to.  The repeated  *)
(* commands can be disabled in between, hence strong fairness.             *)
(***************************************************************************)
Fairness ==
  /\ WF_vars(SyncStep)
  /\ SF_vars(ContinueSync)
  /\ SF_vars(ConfirmPush)
  /\ \A r \in Repos :
       /\ WF_vars(WorktreeCleaned(r))
       /\ WF_vars(FinishHostRebase(r))
       /\ WF_vars(FinishGuestRebase(r))
       /\ SF_vars(UserRebasesWorktree(r))

FairSpec == Spec /\ Fairness

-----------------------------------------------------------------------------
(***************************************************************************)
(* What a synchronization promises.                                        *)
(***************************************************************************)

AtLeast(r, s) == stage[r] >= s

(***************************************************************************)
(* The phases are barriers across repositories, whatever order of failures *)
(* and continuations produced the journal: no worktree is rebased before   *)
(* every host is synchronized, nothing is accepted before every worktree   *)
(* is rebased, and nothing counts as pushed before all is accepted.        *)
(***************************************************************************)
PhaseBarrier ==
  \A r, q \in Repos :
    /\ AtLeast(r, GuestRebased) => AtLeast(q, HostSynchronized)
    /\ AtLeast(r, Accepted) => AtLeast(q, GuestRebased)
    /\ AtLeast(r, Pushed) => AtLeast(q, Accepted)

(***************************************************************************)
(* "Jbox freezes a running guest": from the first recorded stage until the *)
(* journal is gone no guest writes to the worktrees that are rebased.      *)
(***************************************************************************)
GuestFrozen ==
  retained /\ (\E r \in Repos : AtLeast(r, HostSynchronized)) => ~guestUp

(***************************************************************************)
(* What the session branch held when the plan was made is never dropped by *)
(* rebasing, resetting, aborting or dying half-way: it stays on the        *)
(* session branch, and from acceptance on it is on the host branch too.    *)
(***************************************************************************)
JournalledWorkKept ==
  retained => \A r \in Repos :
    /\ Patches(original[r]) \subseteq Patches(guest[r])
    /\ AtLeast(r, Accepted) => Patches(original[r]) \subseteq Patches(host[r])

(***************************************************************************)
(* A repository the journal calls pushed really has its planned guest work *)
(* on the remote, however often pushes failed or the process died between  *)
(* a push and its record.                                                  *)
(***************************************************************************)
PushedMeansPublished ==
  \A r \in Repos :
    AtLeast(r, Pushed) => Patches(original[r]) \subseteq Patches(remote[r])

(***************************************************************************)
(* When local branches are about to be pushed, each session branch is      *)
(* contained in its host branch, also where the host was rebased again     *)
(* after a rejected push: no stale copy of accepted commits is left on a   *)
(* session branch for the next rebase to replay a second time.             *)
(***************************************************************************)
SessionBranchAligned ==
  pc \in {"confirmPush", "push", "pushSave", "clear"} =>
    \A r \in Repos : IsAncestor(guest[r], host[r])

(***************************************************************************)
(* Nothing is pushed to any remote before every repository is accepted     *)
(* locally, and a push never rewrites what a remote already has.           *)
(***************************************************************************)
PushesOnlyAcceptedForward ==
  [][\A r \in Repos :
       /\ IsAncestor(remote[r], remote'[r])
       /\ remote[r] # remote'[r] /\ made = made'
            => retained /\ \A q \in Repos : AtLeast(q, Accepted)]_vars

(***************************************************************************)
(* No patch ever leaves a host branch: not by a host rebase, a paused one  *)
(* that is finished or aborted, nor by `sync --abort`.                     *)
(***************************************************************************)
HostKeepsPatches ==
  [][\A r \in Repos : Patches(host[r]) \subseteq Patches(host'[r])]_vars

(***************************************************************************)
(* A retained synchronization can always be brought to its end with        *)
(* `sync --continue` once the reported problems are dealt with.            *)
(***************************************************************************)
SyncFinishes == retained ~> ~retained

-----------------------------------------------------------------------------
(***************************************************************************)
(* The inductive invariants behind PhaseBarrier, JournalledWorkKept and    *)
(* PushedMeansPublished (IInv), and behind GuestFrozen (FreezeInv).        *)
(***************************************************************************)

\* Where the process is tells how far every repository has come.
VisitedInv ==
  /\ pc \in {"idle", "save", "stop", "confirmPush", "clear", "restart"} => cur = 1
  /\ pc \in {"host", "hostSave", "align"} =>
       \A r \in Repos : r < cur => AtLeast(r, HostSynchronized)
  /\ pc \in {"guest", "guestSave"} =>
       \A r \in Repos : /\ AtLeast(r, HostSynchronized)
                        /\ r < cur => AtLeast(r, GuestRebased)
  /\ pc \in {"accept", "acceptSave"} =>
       \A r \in Repos : /\ AtLeast(r, GuestRebased)
                        /\ r < cur => AtLeast(r, Accepted)
  /\ pc \in {"confirmPush", "push", "pushSave", "clear"} =>
       \A r \in Repos : AtLeast(r, Accepted)

\* Between doing a stage and recording it, the record is still behind.
PendingInv ==
  /\ pc = "hostSave" => stage[cur] = Planned
  /\ pc = "align" => stage[cur] = Accepted
  /\ pc = "guestSave" => stage[cur] < GuestRebased
  /\ pc = "acceptSave" => /\ stage[cur] < Accepted
                          /\ Patches(original[cur]) \subseteq Patches(host[cur])
  /\ pc = "pushSave" => Patches(original[cur]) \subseteq Patches(remote[cur])

\* A confirmed plan that is not saved yet.
PlanInv ==
  pc = "save" =>
    /\ retained => view.original = original
    /\ \A r \in Repos : Patches(view.original[r]) \subseteq Patches(guest[r])

\* A process past its confirmation has its journal on disk.
RetainedInv == pc \notin {"idle", "save", "restart"} => retained

JournalInv ==
  /\ RetainedInv
  /\ VisitedInv
  /\ PendingInv
  /\ PlanInv
  /\ PhaseBarrier
  /\ JournalledWorkKept
  /\ PushedMeansPublished

IInv == TypeOK /\ JournalInv

FreezeInv ==
  /\ guestUp = running
  /\ pc # "idle" => view.running = running
  /\ pc \notin {"idle", "save", "stop", "restart"} => ~running
  /\ retained /\ (\E r \in Repos : AtLeast(r, HostSynchronized)) => ~running

-----------------------------------------------------------------------------
(***************************************************************************)
(* Claims of the documentation that the code does not keep.                *)
(***************************************************************************)

\* git.rs on align_accepted_worktree: "no guest-only commits or files may be
\* discarded."  No step takes a patch off a session branch unless it is on the
\* host branch.
NoGuestOnlyCommitDiscarded ==
  [][\A r \in Repos :
       Patches(guest[r]) \subseteq Patches(guest'[r]) \cup Patches(host'[r])]_vars

=============================================================================
