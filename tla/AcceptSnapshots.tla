-------------------------- MODULE AcceptSnapshots --------------------------
(***************************************************************************)
(* `jbox accept`: the commits of a session are taken into the branches     *)
(* that are checked out in the host repositories, while the guest goes on. *)
(*                                                                         *)
(* One command imports the session branch of every repository, puts the    *)
(* uncommitted host files into a stash when asked to (--stash-host), looks *)
(* at every host checkout before it moves the first, then fast-forwards or *)
(* merges (--merge) them one by one, and brings the stashed files back.  A *)
(* merge that conflicts stays in the host checkout, paused, until          *)
(* `accept --continue` or `accept --abort`.                                *)
(*                                                                         *)
(* The user works in the same checkouts, the agent in the worktrees, and   *)
(* several accepts may run: every git command is a step, and the steps of  *)
(* all of them interleave.  A branch, a worktree and a stash are sets of   *)
(* patches; a branch that contains another one is its descendant.          *)
(*                                                                         *)
(* The session is a running one, as its guest has isolated metadata; a     *)
(* stopped one is the case of an agent that does nothing.  Adopting a host *)
(* preview before an acceptance and the saved activity time are not state  *)
(* here; SessionLifecycle has the two halves of an import and the record.  *)
(***************************************************************************)
EXTENDS Naturals, FiniteSets

CONSTANTS
  Commands,      \* jbox invocations that may run at the same time
  RepoCount,     \* number of repositories of the session, in session order
  Invoked,       \* bound: the commands the user invokes
  Options,       \* bound: the sets of options the user invokes them with
  UserActsAt,    \* bound: phases during which the user works in a checkout
  MaxPatches,    \* bound: patches written by the user and the agent
  MaxStashes,    \* bound: stashes after which none is asked for
  MaxTroubles,   \* bound: merges, stashes and rebases that conflict, and
                 \*   host checkouts that leave the target branch
  MaxFaults      \* bound: invocations that are killed

VARIABLES
  host,      \* repo -> commits of the target branch in the host repository
  dirty,     \* repo -> uncommitted patches in the host checkout
  stash,     \* repo -> entries of `git stash list`
  merging,   \* repo -> the host merge in progress (MERGE_HEAD)
  onTarget,  \* repo -> the target branch is the one checked out
  session,   \* repo -> session branch in the host repository
  guest,     \* repo -> session branch in the isolated guest metadata
  worktree,  \* repo -> uncommitted patches in the session's worktree
  blocked,   \* repo -> the worktree has a rebase or a merge in progress
  proc,      \* process -> what the invocation is doing
  written,   \* repo -> patches the user wrote in the host checkout
  made,      \* patches written so far (names the next one)
  stashed,   \* stashes made so far (identifies the next one)
  troubles,  \* how much of MaxTroubles is used
  faults     \* how much of MaxFaults is used

checkout == <<host, dirty, stash, merging, onTarget>>
box == <<session, guest, worktree, blocked>>
bounds == <<made, troubles, faults>>
vars == <<checkout, box, proc, written, stashed, bounds>>

Repos == 1..RepoCount
CommandNames == {"one", "all", "continue", "abort"}
OptionNames == {"checkpoint", "stash-host", "merge"}
Phases == {"idle", "offer", "ask", "confirm", "validate", "checkpoint",
           "import", "target", "stash", "note", "preflight", "move", "apply", "find",
           "drop", "touch", "select", "review", "conclude"}

ASSUME RepoCountAssumption == RepoCount \in Nat \ {0}
ASSUME BoundsAssumption ==
  /\ Invoked \subseteq CommandNames
  /\ Options \subseteq SUBSET OptionNames
  /\ UserActsAt \subseteq Phases
  /\ {MaxPatches, MaxStashes, MaxTroubles, MaxFaults} \subseteq Nat

Patch == Nat
Merge == [on : BOOLEAN, head : SUBSET Patch, unresolved : BOOLEAN]
NoMerge == [on |-> FALSE, head |-> {}, unresolved |-> FALSE]
Stash == [id : Nat, patches : SUBSET Patch]
NoStash == [id |-> 0, patches |-> {}]

Idle == [pc |-> "idle", cmd |-> "all", options |-> {}, first |-> 1,
         last |-> 1, cur |-> 1, saved |-> [r \in Repos |-> NoStash], place |-> 0]

ProcessState == [pc : Phases, cmd : CommandNames,
                 options : SUBSET OptionNames, first : Repos, last : Repos,
                 cur : Repos, saved : [Repos -> Stash], place : Nat]

TypeOK ==
  /\ host \in [Repos -> SUBSET Patch]
  /\ dirty \in [Repos -> SUBSET Patch]
  /\ stash \in [Repos -> SUBSET Stash]
  /\ merging \in [Repos -> Merge]
  /\ onTarget \in [Repos -> BOOLEAN]
  /\ session \in [Repos -> SUBSET Patch]
  /\ guest \in [Repos -> SUBSET Patch]
  /\ worktree \in [Repos -> SUBSET Patch]
  /\ blocked \in [Repos -> BOOLEAN]
  /\ proc \in [Commands -> ProcessState]
  /\ written \in [Repos -> SUBSET Patch]
  /\ made \in Nat
  /\ stashed \in Nat
  /\ troubles \in Nat
  /\ faults \in Nat

Nothing == [r \in Repos |-> {}]

\* A session that was just launched, from clean checkouts.
Init ==
  /\ host = Nothing
  /\ dirty = Nothing
  /\ stash = Nothing
  /\ merging = [r \in Repos |-> NoMerge]
  /\ onTarget = [r \in Repos |-> TRUE]
  /\ session = Nothing
  /\ guest = Nothing
  /\ worktree = Nothing
  /\ blocked = [r \in Repos |-> FALSE]
  /\ proc = [p \in Commands |-> Idle]
  /\ written = Nothing
  /\ made = 0
  /\ stashed = 0
  /\ troubles = 0
  /\ faults = 0

-----------------------------------------------------------------------------
(***************************************************************************)
(* How an invocation moves.                                                *)
(***************************************************************************)
At(p, phase) == proc[p].pc = phase
Cur(p) == proc[p].cur
With(p, option) == option \in proc[p].options
Goes(p, phase) == proc' = [proc EXCEPT ![p].pc = phase]

\* An error, or an answer other than yes, ends an invocation.
Ends(p) == proc' = [proc EXCEPT ![p] = Idle]

\* mutant: the last repository is not noticed
TurnPastEnd(procs, p, phase, following) ==
  IF procs[p].cur > procs[p].last
  THEN [procs EXCEPT ![p].pc = following, ![p].cur = procs[p].first]
  ELSE [procs EXCEPT ![p].pc = phase, ![p].cur = @ + 1]

\* One loop over the accepted repositories, then the next.
Turn(procs, p, phase, following) ==
  IF procs[p].cur = procs[p].last
  THEN [procs EXCEPT ![p].pc = following, ![p].cur = procs[p].first]
  ELSE [procs EXCEPT ![p].pc = phase, ![p].cur = @ + 1]

NextRepo(p, phase, following) == proc' = Turn(proc, p, phase, following)

\* "one" and the recovery commands act on the repository they are run in.
Begin(p, c, r, o) ==
  /\ At(p, "idle")
  /\ c \in Invoked
  /\ o \in Options
  /\ "stash-host" \in o => stashed < MaxStashes
  /\ proc' = [proc EXCEPT ![p] =
                [Idle EXCEPT
                   !.cmd = c, !.options = o,
                   !.first = IF c = "all" THEN 1 ELSE r,
                   !.cur = IF c = "all" THEN 1 ELSE r,
                   !.last = IF c = "all" THEN RepoCount ELSE r,
                   !.pc = CASE c \in {"continue", "abort"} -> "select"
                            [] c = "one" /\ "merge" \notin o -> "offer"
                            [] OTHER -> "confirm"]]
  /\ UNCHANGED <<checkout, box, written, stashed, bounds>>

-----------------------------------------------------------------------------
(***************************************************************************)
(* prompt_merge_if_diverged: the ancestry question needs an import first.  *)
(***************************************************************************)
CanImport(r) == session[r] \subseteq guest[r]
Clean(r) == dirty[r] = {} /\ ~merging[r].on
CanFastForward(r) == host[r] \subseteq session[r]

Import(p) ==
  /\ CanImport(Cur(p))
  /\ session' = [session EXCEPT ![Cur(p)] = guest[Cur(p)]]
  /\ UNCHANGED <<guest, worktree, blocked>>

OfferImport(p) ==
  /\ At(p, "offer")
  /\ Import(p)
  /\ Goes(p, "ask")
  /\ UNCHANGED <<checkout, written, stashed, bounds>>

\* A diverged host is offered the merge, and the user may decline it.
AskMerge(p) ==
  /\ At(p, "ask")
  /\ IF ~onTarget[Cur(p)] THEN Ends(p)
     ELSE IF \/ ~With(p, "stash-host") /\ ~Clean(Cur(p))
             \/ CanFastForward(Cur(p))
          THEN Goes(p, "confirm")
          ELSE \/ proc' = [proc EXCEPT ![p].options = @ \cup {"merge"},
                                       ![p].pc = "confirm"]
               \/ Ends(p)
  /\ UNCHANGED <<checkout, box, written, stashed, bounds>>

Confirm(p) ==
  /\ At(p, "confirm")
  /\ \/ Goes(p, IF With(p, "checkpoint") THEN "validate" ELSE "import")
     \/ Ends(p)
  /\ UNCHANGED <<checkout, box, written, stashed, bounds>>

-----------------------------------------------------------------------------
(***************************************************************************)
(* accept_snapshots                                                        *)
(***************************************************************************)
ValidateCheckpoint(p) ==
  /\ At(p, "validate")
  /\ IF blocked[Cur(p)] THEN Ends(p)
     ELSE NextRepo(p, "validate", "checkpoint")
  /\ UNCHANGED <<checkout, box, written, stashed, bounds>>

CheckpointWorktree(p) ==
  /\ At(p, "checkpoint")
  /\ ~blocked[Cur(p)]
  /\ guest' = [guest EXCEPT ![Cur(p)] = @ \cup worktree[Cur(p)]]
  /\ worktree' = [worktree EXCEPT ![Cur(p)] = {}]
  /\ NextRepo(p, "checkpoint", "import")
  /\ UNCHANGED <<checkout, session, blocked, written, stashed, bounds>>

\* The agent began a rebase after the worktree was validated.
CheckpointFails(p) ==
  /\ At(p, "checkpoint")
  /\ blocked[Cur(p)]
  /\ Ends(p)
  /\ UNCHANGED <<checkout, box, written, stashed, bounds>>

ImportSnapshot(p) ==
  /\ At(p, "import")
  /\ Import(p)
  /\ NextRepo(p, "import",
              IF With(p, "stash-host") THEN "target" ELSE "preflight")
  /\ UNCHANGED <<checkout, written, stashed, bounds>>

\* The guest rewrote commits that were imported before.
ImportRefused(p) ==
  /\ proc[p].pc \in {"offer", "import"}
  /\ ~CanImport(Cur(p))
  /\ Ends(p)
  /\ UNCHANGED <<checkout, box, written, stashed, bounds>>

CheckTarget(p) ==
  /\ At(p, "target")
  /\ IF onTarget[Cur(p)] THEN NextRepo(p, "target", "stash") ELSE Ends(p)
  /\ UNCHANGED <<checkout, box, written, stashed, bounds>>

\* `git stash push` leaves no merge in progress: git forgets MERGE_HEAD.
PushStash(r) ==
  /\ stashed' = stashed + 1
  /\ stash' = [stash EXCEPT ![r] =
                 @ \cup {[id |-> stashed', patches |-> dirty[r]]}]
  /\ dirty' = [dirty EXCEPT ![r] = {}]
  /\ merging' = [merging EXCEPT ![r] = NoMerge]
  /\ UNCHANGED <<host, onTarget>>

StashHost(p) ==
  /\ At(p, "stash")
  /\ ~merging[Cur(p)].unresolved
  /\ IF Clean(Cur(p))
     THEN NextRepo(p, "stash", "preflight") /\ UNCHANGED <<checkout, stashed>>
     ELSE PushStash(Cur(p)) /\ Goes(p, "note")
  /\ UNCHANGED <<box, written, bounds>>

\* `git stash push` over unmerged files
StashRefused(p) ==
  /\ At(p, "stash")
  /\ merging[Cur(p)].unresolved
  /\ Ends(p)
  /\ UNCHANGED <<checkout, box, written, stashed, bounds>>

\* `git rev-parse refs/stash` is the newest entry by then.
Newest(r, e) == e \in stash[r] /\ \A f \in stash[r] : f.id <= e.id

NoteStash(p) ==
  /\ At(p, "note")
  /\ \E e \in stash[Cur(p)] :
       /\ Newest(Cur(p), e)
       /\ proc' = Turn([proc EXCEPT ![p].saved[Cur(p)] = e],
                       p, "stash", "preflight")
  /\ UNCHANGED <<checkout, box, written, stashed, bounds>>

NoteFails(p) ==
  /\ At(p, "note")
  /\ stash[Cur(p)] = {}
  /\ Ends(p)
  /\ UNCHANGED <<checkout, box, written, stashed, bounds>>

Ready(p, r) ==
  /\ onTarget[r]
  /\ Clean(r)
  /\ With(p, "merge") \/ CanFastForward(r)

\* mutant: a host is looked at only when its turn to move has come
PreflightFirst(p) ==
  /\ At(p, "preflight")
  /\ IF Ready(p, Cur(p)) THEN Goes(p, "move") ELSE Ends(p)
  /\ UNCHANGED <<checkout, box, written, stashed, bounds>>

Preflight(p) ==
  /\ At(p, "preflight")
  /\ IF Ready(p, Cur(p)) THEN NextRepo(p, "preflight", "move") ELSE Ends(p)
  /\ UNCHANGED <<checkout, box, written, stashed, bounds>>

\* `git merge` only touches a branch that needs it.  Files the user edited
\* since the preflight may be in its way.
CanMove(p) ==
  /\ onTarget[Cur(p)]
  /\ ~merging[Cur(p)].on
  /\ \/ With(p, "merge")
     \/ CanFastForward(Cur(p))
     \/ session[Cur(p)] \subseteq host[Cur(p)]

Diverged(r) ==
  /\ ~(host[r] \subseteq session[r])
  /\ ~(session[r] \subseteq host[r])

\* mutant: the host branch is reset to the session branch
ResetTo(r) == session[r]

\* `git merge`, a fast-forward where that is possible
Merged(r) == host[r] \cup session[r]

\* mutant: the first repository of a session stands for all
MoveFirstHost(p) ==
  /\ At(p, "move")
  /\ CanMove(p)
  /\ host' = [host EXCEPT ![Cur(p)] = Merged(Cur(p))]
  /\ Goes(p, IF With(p, "stash-host") THEN "apply" ELSE "touch")
  /\ UNCHANGED <<dirty, stash, merging, onTarget, box, written, stashed,
                 bounds>>

MoveHost(p) ==
  /\ At(p, "move")
  /\ CanMove(p)
  /\ host' = [host EXCEPT ![Cur(p)] = Merged(Cur(p))]
  /\ NextRepo(p, "move", IF With(p, "stash-host") THEN "apply" ELSE "touch")
  /\ UNCHANGED <<dirty, stash, merging, onTarget, box, written, stashed,
                 bounds>>

MoveRefused(p) ==
  /\ At(p, "move")
  /\ ~CanMove(p) \/ dirty[Cur(p)] # {}
  /\ Ends(p)
  /\ UNCHANGED <<checkout, box, written, stashed, bounds>>

Trouble ==
  /\ troubles < MaxTroubles
  /\ troubles' = troubles + 1
  /\ UNCHANGED <<made, faults>>

\* The acceptance is paused; repositories before this one are accepted.
MergeConflicts(p) ==
  /\ At(p, "move")
  /\ CanMove(p)
  /\ Diverged(Cur(p))
  /\ merging' = [merging EXCEPT ![Cur(p)] =
                   [on |-> TRUE, head |-> session[Cur(p)],
                    unresolved |-> TRUE]]
  /\ Ends(p)
  /\ Trouble
  /\ UNCHANGED <<host, dirty, stash, onTarget, box, written, stashed>>

\* restore_host_stash: apply the object, find its place in the list, drop
\* what is in that place.
ApplyStash(p) ==
  /\ At(p, "apply")
  /\ IF proc[p].saved[Cur(p)] = NoStash
     THEN NextRepo(p, "apply", "touch") /\ UNCHANGED dirty
     ELSE /\ ~merging[Cur(p)].unresolved
          /\ dirty' = [dirty EXCEPT ![Cur(p)] =
                         @ \cup proc[p].saved[Cur(p)].patches]
          /\ Goes(p, "find")
  /\ UNCHANGED <<host, stash, merging, onTarget, box, written, stashed,
                 bounds>>

\* mutant: the stash is dropped although its files did not all come back
ApplyConflictsAndDrops(p) ==
  /\ At(p, "apply")
  /\ proc[p].saved[Cur(p)] # NoStash
  /\ Trouble
  /\ \E left \in SUBSET proc[p].saved[Cur(p)].patches :
       dirty' = [dirty EXCEPT ![Cur(p)] = @ \cup left]
  /\ stash' = [stash EXCEPT ![Cur(p)] = @ \ {proc[p].saved[Cur(p)]}]
  /\ Ends(p)
  /\ UNCHANGED <<host, merging, onTarget, box, written, stashed>>

\* The files conflict with what was accepted, all or some are left there.
ApplyConflicts(p) ==
  /\ At(p, "apply")
  /\ proc[p].saved[Cur(p)] # NoStash
  /\ Trouble
  /\ \E left \in SUBSET proc[p].saved[Cur(p)].patches :
       dirty' = [dirty EXCEPT ![Cur(p)] = @ \cup left]
  /\ Ends(p)
  /\ UNCHANGED <<host, stash, merging, onTarget, box, written, stashed>>

ApplyRefused(p) ==
  /\ At(p, "apply")
  /\ proc[p].saved[Cur(p)] # NoStash
  /\ merging[Cur(p)].unresolved
  /\ Ends(p)
  /\ UNCHANGED <<checkout, box, written, stashed, bounds>>

\* stash@{n} has n newer entries.
Place(r, e) == Cardinality({f \in stash[r] : f.id > e.id})

FindStash(p) ==
  /\ At(p, "find")
  /\ IF proc[p].saved[Cur(p)] \in stash[Cur(p)]
     THEN proc' = [proc EXCEPT
                     ![p].pc = "drop",
                     ![p].place = Place(Cur(p), proc[p].saved[Cur(p)])]
     ELSE Ends(p)
  /\ UNCHANGED <<checkout, box, written, stashed, bounds>>

\* The list may have changed since its places were counted.
DropStash(p) ==
  /\ At(p, "drop")
  /\ stash' = [stash EXCEPT ![Cur(p)] =
                 {e \in @ : Place(Cur(p), e) # proc[p].place}]
  /\ IF stash' = stash THEN Ends(p) ELSE NextRepo(p, "apply", "touch")
  /\ UNCHANGED <<host, dirty, merging, onTarget, box, written, stashed,
                 bounds>>

\* The command reported success; what it touches is the session's record.
Touch(p) ==
  /\ At(p, "touch")
  /\ Ends(p)
  /\ UNCHANGED <<checkout, box, written, stashed, bounds>>

-----------------------------------------------------------------------------
(***************************************************************************)
(* accept --continue and accept --abort                                    *)
(***************************************************************************)
\* mutant: the paused merge must be of the newest imported commit
OriginatesAtTip(r) == merging[r].on /\ merging[r].head = session[r]

\* The guest may have newer commits than the ones being merged.
Originates(r) == merging[r].on /\ merging[r].head \subseteq session[r]

SelectPaused(p) ==
  /\ At(p, "select")
  /\ IF Originates(Cur(p)) THEN Goes(p, "review") ELSE Ends(p)
  /\ UNCHANGED <<checkout, box, written, stashed, bounds>>

\* What is checked before the confirmation, and again after it.
CanConclude(p) ==
  /\ merging[Cur(p)].on
  /\ proc[p].cmd = "continue" => ~merging[Cur(p)].unresolved

ReviewMerge(p) ==
  /\ At(p, "review")
  /\ IF CanConclude(p) THEN Goes(p, "conclude") ELSE Ends(p)
  /\ UNCHANGED <<checkout, box, written, stashed, bounds>>

ConcludeMerge(p) ==
  /\ At(p, "conclude")
  /\ CanConclude(p)
  /\ IF proc[p].cmd = "continue"
     THEN host' = [host EXCEPT ![Cur(p)] = @ \cup merging[Cur(p)].head]
     ELSE UNCHANGED host
  /\ merging' = [merging EXCEPT ![Cur(p)] = NoMerge]
  /\ Goes(p, "touch")
  /\ UNCHANGED <<dirty, stash, onTarget, box, written, stashed, bounds>>

\* The user declines, or the merge is not what it was.
ConcludeCancelled(p) ==
  /\ At(p, "conclude")
  /\ Ends(p)
  /\ UNCHANGED <<checkout, box, written, stashed, bounds>>

-----------------------------------------------------------------------------
(***************************************************************************)
(* The user in the host checkouts.                                         *)
(***************************************************************************)
Writes ==
  /\ made < MaxPatches
  /\ made' = made + 1
  /\ UNCHANGED <<troubles, faults>>

UserMayAct == \A p \in Commands : proc[p].pc \in UserActsAt

UserEdits(r) ==
  /\ UserMayAct
  /\ ~merging[r].on
  /\ Writes
  /\ dirty' = [dirty EXCEPT ![r] = @ \cup {made'}]
  /\ written' = [written EXCEPT ![r] = @ \cup {made'}]
  /\ UNCHANGED <<host, stash, merging, onTarget, box, proc, stashed>>

UserCommits(r) ==
  /\ UserMayAct
  /\ onTarget[r]
  /\ ~merging[r].on
  /\ dirty[r] # {}
  /\ host' = [host EXCEPT ![r] = @ \cup dirty[r]]
  /\ dirty' = [dirty EXCEPT ![r] = {}]
  /\ UNCHANGED <<stash, merging, onTarget, box, proc, written, stashed,
                 bounds>>

UserStashes(r) ==
  /\ UserMayAct
  /\ ~merging[r].on
  /\ dirty[r] # {}
  /\ stashed < MaxStashes
  /\ PushStash(r)
  /\ UNCHANGED <<box, proc, written, bounds>>

\* `git stash pop`
UserPopsStash(r) ==
  /\ UserMayAct
  /\ Clean(r)
  /\ \E e \in stash[r] :
       /\ Newest(r, e)
       /\ stash' = [stash EXCEPT ![r] = @ \ {e}]
       /\ dirty' = [dirty EXCEPT ![r] = e.patches]
  /\ UNCHANGED <<host, merging, onTarget, box, proc, written, stashed,
                 bounds>>

\* A branch that is not the session's conflicts with the target branch.
UserMergesOther(r) ==
  /\ UserMayAct
  /\ onTarget[r]
  /\ Clean(r)
  /\ made < MaxPatches
  /\ troubles < MaxTroubles
  /\ made' = made + 1
  /\ troubles' = troubles + 1
  /\ merging' = [merging EXCEPT ![r] =
                   [on |-> TRUE, head |-> {made'}, unresolved |-> TRUE]]
  /\ UNCHANGED <<host, dirty, stash, onTarget, box, proc, written, stashed,
                 faults>>

\* The files are resolved and staged; they differ from those of the branch.
UserResolves(r) ==
  /\ UserMayAct
  /\ merging[r].unresolved
  /\ merging' = [merging EXCEPT ![r].unresolved = FALSE]
  /\ UNCHANGED <<host, dirty, stash, onTarget, box, proc, written, stashed,
                 bounds>>

UserConcludes(r) ==
  /\ UserMayAct
  /\ merging[r].on
  /\ ~merging[r].unresolved
  /\ host' = [host EXCEPT ![r] = @ \cup merging[r].head]
  /\ merging' = [merging EXCEPT ![r] = NoMerge]
  /\ UNCHANGED <<dirty, stash, onTarget, box, proc, written, stashed, bounds>>

\* Another branch is checked out, until the user is back.
UserLeaves(r) ==
  /\ UserMayAct
  /\ onTarget[r]
  /\ ~merging[r].on
  /\ Trouble
  /\ onTarget' = [onTarget EXCEPT ![r] = FALSE]
  /\ UNCHANGED <<host, dirty, stash, merging, box, proc, written, stashed>>

UserReturns(r) ==
  /\ UserMayAct
  /\ ~onTarget[r]
  /\ ~merging[r].on
  /\ onTarget' = [onTarget EXCEPT ![r] = TRUE]
  /\ UNCHANGED <<host, dirty, stash, merging, box, proc, written, stashed,
                 bounds>>

-----------------------------------------------------------------------------
(***************************************************************************)
(* The agent in the guest, and the ways an invocation ends early.          *)
(***************************************************************************)
AgentEdits(r) ==
  /\ Writes
  /\ worktree' = [worktree EXCEPT ![r] = @ \cup {made'}]
  /\ UNCHANGED <<checkout, session, guest, blocked, proc, written, stashed>>

AgentCommits(r) ==
  /\ ~blocked[r]
  /\ worktree[r] # {}
  /\ guest' = [guest EXCEPT ![r] = @ \cup worktree[r]]
  /\ worktree' = [worktree EXCEPT ![r] = {}]
  /\ UNCHANGED <<checkout, session, blocked, proc, written, stashed, bounds>>

AgentAmends(r) ==
  /\ Writes
  /\ \E c \in guest[r] : guest' = [guest EXCEPT ![r] = (@ \ {c}) \cup {made'}]
  /\ UNCHANGED <<checkout, session, worktree, blocked, proc, written, stashed>>

\* A rebase in the worktree stops on a conflict.
AgentRebases(r) ==
  /\ ~blocked[r]
  /\ Trouble
  /\ blocked' = [blocked EXCEPT ![r] = TRUE]
  /\ UNCHANGED <<checkout, session, guest, worktree, proc, written, stashed>>

AgentFinishesRebase(r) ==
  /\ blocked[r]
  /\ blocked' = [blocked EXCEPT ![r] = FALSE]
  /\ UNCHANGED <<checkout, session, guest, worktree, proc, written, stashed,
                 bounds>>

Killed(p) ==
  /\ ~At(p, "idle")
  /\ faults < MaxFaults
  /\ faults' = faults + 1
  /\ Ends(p)
  /\ UNCHANGED <<checkout, box, written, stashed, made, troubles>>

-----------------------------------------------------------------------------
AskSteps(p) == OfferImport(p) \/ AskMerge(p) \/ Confirm(p)

PrepareSteps(p) ==
  \/ ValidateCheckpoint(p) \/ CheckpointWorktree(p) \/ CheckpointFails(p)
  \/ ImportSnapshot(p) \/ ImportRefused(p) \/ CheckTarget(p)
  \/ StashHost(p) \/ StashRefused(p) \/ NoteStash(p) \/ NoteFails(p)
  \/ Preflight(p)

MoveSteps(p) ==
  \/ MoveHost(p) \/ MoveRefused(p) \/ MergeConflicts(p) \/ ApplyStash(p)
  \/ ApplyConflicts(p) \/ ApplyRefused(p) \/ FindStash(p) \/ DropStash(p)
  \/ Touch(p)

RecoverySteps(p) ==
  \/ SelectPaused(p) \/ ReviewMerge(p) \/ ConcludeMerge(p)
  \/ ConcludeCancelled(p)

Step(p) == \/ AskSteps(p) \/ PrepareSteps(p) \/ MoveSteps(p)
           \/ RecoverySteps(p)

UserWork(r) ==
  \/ UserEdits(r) \/ UserCommits(r) \/ UserStashes(r) \/ UserPopsStash(r)
  \/ UserMergesOther(r) \/ UserResolves(r) \/ UserConcludes(r)
  \/ UserLeaves(r) \/ UserReturns(r)

AgentWork(r) ==
  \/ AgentEdits(r) \/ AgentCommits(r) \/ AgentAmends(r) \/ AgentRebases(r)
  \/ AgentFinishesRebase(r)

Next ==
  \/ \E p \in Commands :
       \/ \E c \in Invoked, r \in Repos, o \in Options : Begin(p, c, r, o)
       \/ Step(p)
       \/ Killed(p)
  \/ \E r \in Repos : UserWork(r) \/ AgentWork(r)

Spec == Init /\ [][Next]_vars

(***************************************************************************)
(* An invocation goes on.  The user of a paused acceptance resolves its    *)
(* files, comes back to `jbox accept --continue` until it gets so far as   *)
(* to ask, and says yes in the end.                                        *)
(***************************************************************************)
PatientSpec ==
  /\ Spec
  /\ \A p \in Commands :
       /\ WF_vars(Step(p))
       /\ SF_vars(ConcludeMerge(p))
       /\ \A r \in Repos :
            SF_vars(\E o \in Options : Begin(p, "continue", r, o))
  /\ \A r \in Repos : SF_vars(UserResolves(r))

-----------------------------------------------------------------------------
(* No two invocations run at the same time.                                *)
OneAtATime ==
  \A p, q \in Commands : ~At(p, "idle") /\ ~At(q, "idle") => p = q

(***************************************************************************)
(* Properties                                                              *)
(***************************************************************************)

(* What the user wrote in a host checkout is in its files, in a stash or   *)
(* on the branch: neither a refused, conflicting or killed acceptance nor  *)
(* the removal of its temporary stash loses it.                            *)
HostWorkKept ==
  \A r \in Repos :
    written[r] \subseteq dirty[r] \cup host[r]
                          \cup UNION {e.patches : e \in stash[r]}

(* When the first host branch is fast-forwarded no later one can refuse:   *)
(* an acceptance without --merge takes all repositories or none.           *)
NoPartialFastForward ==
  \A p \in Commands :
    At(p, "move") => \A r \in Cur(p)..proc[p].last : Ready(p, r)

(* A successful acceptance has brought every imported session branch into  *)
(* its host branch, and its temporary stashes are gone.                    *)
SuccessIsComplete ==
  \A p \in Commands :
    At(p, "touch") /\ proc[p].cmd \in {"one", "all"} =>
      \A r \in proc[p].first..proc[p].last :
        /\ session[r] \subseteq host[r]
        /\ proc[p].saved[r] \notin stash[r]

(* A host branch only moves forward, whatever interleaves.                 *)
HostsMoveForward == [][\A r \in Repos : host[r] \subseteq host'[r]]_vars

(* A paused acceptance comes to an end however many newer commits of the   *)
(* guest are imported meanwhile.                                           *)
PausedAcceptancesEnd ==
  \A r \in Repos :
    merging[r].on /\ merging[r].head \subseteq session[r] ~> ~merging[r].on
=============================================================================
