--------------------------- MODULE WorktreeRebases ---------------------------
(***************************************************************************)
(* `jbox rebase`: all worktrees of a session onto branches of their host   *)
(* repositories.                                                           *)
(*                                                                         *)
(* The command looks at every worktree, shows its plan and asks.  Until    *)
(* the answer the guest works on and hosts move.  Then it stops the guest, *)
(* which imports its commits, rebases one worktree after the other and     *)
(* starts the guest again.  A conflict ends it with that rebase paused:    *)
(* the user resolves it in the worktree and runs the command once more.    *)
(*                                                                         *)
(* A commit or an edited file is a number, in the order they were made.  A *)
(* history is the host commits it has as they are (`on`) and what was      *)
(* committed or replayed on top of them (`own`).                           *)
(***************************************************************************)
EXTENDS Naturals

CONSTANTS
  Worktrees,      \* how many worktrees the session has
  HostBranches,   \* of each: the branches of its host repository
  Detachable,     \* bound: whose host checkouts are detached at times
  Items           \* bound: commits and files that are made

VARIABLES
  tip,            \* of each host repository and branch: its commits
  checkedOut,     \* of each host repository: its branch, "none" if detached
  session,        \* of each host repository: the session's branch
  head,           \* of each worktree: what it has checked out
  files,          \* of each worktree: what is not committed
  paused,         \* of each worktree: the rebase that stopped in it
  isolated,       \* worktrees that have the guest's git metadata
  working,        \* does the guest run
  recorded,       \* the state in the session's record
  rebase,         \* the command that is running, or how the last one ended
  made,           \* how many commits and files were made
  wrote           \* of each worktree: those that nobody gave up

rebaseHost == <<tip, checkedOut>>
rebaseTrees == <<session, head, files, paused>>
rebaseGuest == <<isolated, working, recorded>>
rebaseMade == <<made, wrote>>
rebaseVars == <<rebaseHost, rebaseTrees, rebaseGuest, rebase, rebaseMade>>

AllTrees == 1 .. Worktrees
AllBranches == UNION {HostBranches[r] : r \in AllTrees}

ASSUME RebaseAssumption ==
  /\ Worktrees \in Nat \ {0}
  /\ Items \in Nat \ {0}
  /\ "none" \notin AllBranches
  /\ \A r \in AllTrees : HostBranches[r] # {}

History == [on : SUBSET (1 .. Items), own : SUBSET (1 .. Items)]
NoPause == [stage |-> "none", todo |-> {}]
RebaseStages == {"idle", "asked", "stop", "import", "rebase", "restart"}

WorktreeRebasesTypeOK ==
  /\ \A r \in AllTrees : tip[r] \in [HostBranches[r] -> SUBSET (1 .. Items)]
  /\ checkedOut \in [AllTrees -> AllBranches \cup {"none"}]
  /\ session \in [AllTrees -> History] /\ head \in [AllTrees -> History]
  /\ files \in [AllTrees -> SUBSET (1 .. Items)]
  /\ \A r \in AllTrees : /\ paused[r].stage \in {"none", "conflict", "stopped"}
                         /\ paused[r].todo \subseteq 1 .. Items
  /\ isolated \subseteq AllTrees
  /\ working \in BOOLEAN /\ recorded \in {"Running", "Stopped"}
  /\ rebase.at \in RebaseStages /\ rebase.tree \in AllTrees
  /\ made \in 0 .. Items /\ wrote \in [AllTrees -> SUBSET (1 .. Items)]

\* Of a rebase: its targets, the tips of them when its plan was shown, and
\* whether the session was running then.
NoCommand ==
  [at |-> "idle", tree |-> 1, purpose |-> "none", succeeded |-> FALSE,
   targets |-> [r \in AllTrees |-> "none"], shown |-> [r \in AllTrees |-> {}],
   running |-> FALSE]

\* A session that runs, with a commit on its first branch from before.
RebasesInit ==
  /\ tip = [r \in AllTrees |-> [b \in HostBranches[r] |-> {}]]
  /\ checkedOut = [r \in AllTrees |-> CHOOSE b \in HostBranches[r] : TRUE]
  /\ session = [r \in AllTrees |-> [on |-> {}, own |-> IF r = 1 THEN {1} ELSE {}]]
  /\ head = session
  /\ files = [r \in AllTrees |-> {}]
  /\ paused = [r \in AllTrees |-> NoPause]
  /\ isolated = AllTrees
  /\ working = TRUE
  /\ recorded = "Running"
  /\ rebase = NoCommand
  /\ made = 1
  /\ wrote = [r \in AllTrees |-> session[r].own]

Patches(h) == h.on \cup h.own

\* merge-base --is-ancestor
Follows(old, new) ==
  \/ old.on = new.on /\ old.own \subseteq new.own
  \/ old.own = {} /\ old.on \subseteq new.on

\* What a rebase of h onto the commits of a branch replays.
Replayed(h, onto) == Patches(h) \ onto

\* has_uncommitted_changes: unmerged files are such changes.
HasUncommitted(r) == files[r] # {} \/ paused[r].stage = "conflict"

RebaseAt(stage) == rebase.at = stage
CommandEnds == rebase' = NoCommand
RebaseSucceeds ==
  rebase' = [NoCommand EXCEPT !.succeeded = TRUE, !.shown = rebase.shown,
                                !.running = rebase.running]

\* The next worktree in the same stage, or the first of the next stage.
NextTree(following) ==
  rebase' = IF rebase.tree < Worktrees THEN [rebase EXCEPT !.tree = @ + 1]
            ELSE [rebase EXCEPT !.tree = 1, !.at = following]

-----------------------------------------------------------------------------
(***************************************************************************)
(* The command up to its answer                                            *)
(***************************************************************************)

\* preflight_rebase_worktree, but for what the target is at
CanEnter(r, target) == ~HasUncommitted(r) /\ target \in HostBranches[r]

AskToRebase(onto) ==
  LET targets == [r \in AllTrees |-> IF onto = "none" THEN checkedOut[r] ELSE onto]
  IN  /\ RebaseAt("idle")
      /\ \A r \in AllTrees : CanEnter(r, targets[r])
      /\ rebase' = [NoCommand EXCEPT !.at = "asked", !.purpose = "rebase",
                       !.targets = targets, !.running = recorded = "Running",
                       !.shown = [r \in AllTrees |-> tip[r][targets[r]]]]
      /\ UNCHANGED <<rebaseHost, rebaseTrees, rebaseGuest, rebaseMade>>

AnswerRebase ==
  /\ RebaseAt("asked")
  /\ \/ rebase' = [rebase EXCEPT !.at = IF rebase.running THEN "stop" ELSE "rebase"]
     \/ CommandEnds
  /\ UNCHANGED <<rebaseHost, rebaseTrees, rebaseGuest, rebaseMade>>

-----------------------------------------------------------------------------
(***************************************************************************)
(* stop_running_session, for `jbox rebase` and for `jbox stop`             *)
(***************************************************************************)
StopMachine ==
  /\ RebaseAt("idle") /\ recorded = "Running"
  /\ rebase' = [NoCommand EXCEPT !.at = "stop", !.purpose = "stop"]
  /\ UNCHANGED <<rebaseHost, rebaseTrees, rebaseGuest, rebaseMade>>

StopContainer ==
  /\ RebaseAt("stop")
  /\ working' = FALSE
  /\ rebase' = [rebase EXCEPT !.at = "import"]
  /\ UNCHANGED <<rebaseHost, rebaseTrees, isolated, recorded, rebaseMade>>

\* The record is saved when all worktrees are back.
Restored ==
  /\ isolated' = isolated \ {rebase.tree}
  /\ recorded' = IF rebase.tree = Worktrees THEN "Stopped" ELSE recorded
  /\ IF rebase.tree = Worktrees /\ rebase.purpose = "stop" THEN CommandEnds
     ELSE NextTree("rebase")
  /\ UNCHANGED working

\* mutant: what the guest committed since the plan was made is not imported
RestoreOnly ==
  LET r == rebase.tree
  IN  /\ RebaseAt("import")
      /\ head' = [head EXCEPT ![r] = session[r]]
      /\ Restored
      /\ UNCHANGED <<rebaseHost, session, files, paused, rebaseMade>>

\* restore_and_import_guest_metadata: nothing to do for a host link
ImportAndRestore ==
  LET r == rebase.tree
  IN  /\ RebaseAt("import")
      /\ r \in isolated => Follows(session[r], head[r])
      /\ session' = IF r \in isolated THEN [session EXCEPT ![r] = head[r]] ELSE session
      /\ Restored
      /\ UNCHANGED <<rebaseHost, head, files, paused, rebaseMade>>

\* "rewrote history": the worktrees before this one are back, the record
\* says that the guest runs.
ImportRewritten ==
  LET r == rebase.tree
  IN  /\ RebaseAt("import")
      /\ r \in isolated /\ ~Follows(session[r], head[r])
      /\ CommandEnds
      /\ UNCHANGED <<rebaseHost, rebaseTrees, rebaseGuest, rebaseMade>>

-----------------------------------------------------------------------------
(***************************************************************************)
(* rebase_worktree: looks again, then runs git.  No other command resumes  *)
(* the guest while this one runs: it would rebase under the guest.         *)
(***************************************************************************)

Target(r) == tip[r][rebase.targets[r]]

\* The branch, and the worktree with it, is on the target.  What the target
\* has already is not replayed.
OnTarget(r, history) ==
  /\ head' = [head EXCEPT ![r] = history]
  /\ session' = [session EXCEPT ![r] = history]

RebaseWorktree ==
  LET r == rebase.tree
  IN  /\ RebaseAt("rebase")
      /\ CanEnter(r, rebase.targets[r]) /\ paused[r] = NoPause
      /\ OnTarget(r, IF Target(r) \subseteq head[r].on THEN head[r]
                     ELSE [on |-> Target(r), own |-> Replayed(head[r], Target(r))])
      /\ NextTree("restart")
      /\ UNCHANGED <<rebaseHost, files, paused, rebaseGuest, rebaseMade>>

\* Commit i of what is to be replayed conflicts; those before it were replayed.
PausesAt(r, i, onto, replays) ==
  /\ head' = [head EXCEPT ![r] = [on |-> onto, own |-> {j \in replays : j < i}]]
  /\ paused' = [paused EXCEPT ![r] = [stage |-> "conflict",
                                      todo |-> {j \in replays : j >= i}]]

RebaseConflicts ==
  LET r == rebase.tree
  IN  /\ RebaseAt("rebase")
      /\ CanEnter(r, rebase.targets[r]) /\ paused[r] = NoPause
      /\ ~(Target(r) \subseteq head[r].on)
      /\ \E i \in Replayed(head[r], Target(r)) :
           PausesAt(r, i, Target(r), Replayed(head[r], Target(r)))
      /\ CommandEnds
      /\ UNCHANGED <<rebaseHost, session, files, rebaseGuest, rebaseMade>>

\* The second look finds changes, or git a rebase that was left paused.
RebaseRefused ==
  LET r == rebase.tree
  IN  /\ RebaseAt("rebase")
      /\ ~CanEnter(r, rebase.targets[r]) \/ paused[r] # NoPause
      /\ CommandEnds
      /\ UNCHANGED <<rebaseHost, rebaseTrees, rebaseGuest, rebaseMade>>

RebaseDone ==
  /\ RebaseAt("restart") /\ ~rebase.running
  /\ RebaseSucceeds
  /\ UNCHANGED <<rebaseHost, rebaseTrees, rebaseGuest, rebaseMade>>

-----------------------------------------------------------------------------
(***************************************************************************)
(* resume.  A paused rebase refuses it only while files show that: it is   *)
(* not run here over one whose worktree is clean, which it would reset.    *)
(***************************************************************************)

\* With files that the user agrees to commit on their session branch.
Checkpointed(r) == [session[r] EXCEPT !.own = @ \cup files[r]]

CanResume ==
  /\ recorded = "Stopped" /\ ~working
  /\ \A r \in AllTrees : paused[r] = NoPause

Resumed(starts) ==
  /\ CanResume
  /\ session' = [r \in AllTrees |-> Checkpointed(r)]
  /\ head' = session'
  /\ files' = [r \in AllTrees |-> {}]
  /\ isolated' = IF starts THEN AllTrees ELSE isolated
  /\ working' = starts
  /\ recorded' = IF starts THEN "Running" ELSE recorded
  /\ UNCHANGED <<rebaseHost, paused, rebaseMade>>

\* The last step of a rebase whose session was running.  A guest that does
\* not start, or a user who wants no files committed, leaves the worktrees as
\* they were rebased.
RestartMachine ==
  /\ RebaseAt("restart") /\ rebase.running
  /\ \/ Resumed(TRUE) /\ RebaseSucceeds
     \/ Resumed(FALSE) /\ CommandEnds
     \/ /\ \E r \in AllTrees : files[r] # {}
        /\ CommandEnds
        /\ UNCHANGED <<rebaseHost, rebaseTrees, rebaseGuest, rebaseMade>>

\* `jbox resume`
ResumeMachine ==
  /\ RebaseAt("idle")
  /\ \E starts \in BOOLEAN : Resumed(starts)
  /\ CommandEnds

CommandDies ==
  /\ ~RebaseAt("idle")
  /\ CommandEnds
  /\ UNCHANGED <<rebaseHost, rebaseTrees, rebaseGuest, rebaseMade>>

-----------------------------------------------------------------------------
(***************************************************************************)
(* Users and the agent                                                     *)
(***************************************************************************)

\* The agent works in the guest, the user in a worktree of a stopped one.
InTree(r) == working \/ r \notin isolated

MakesItem == made < Items /\ made' = made + 1

TreeEdited(r) ==
  /\ InTree(r) /\ paused[r].stage # "conflict"
  /\ MakesItem
  /\ files' = [files EXCEPT ![r] = @ \cup {made'}]
  /\ wrote' = [wrote EXCEPT ![r] = @ \cup {made'}]
  /\ UNCHANGED <<rebaseHost, session, head, paused, rebaseGuest, rebase>>

\* git commit: on the session's branch, or on the detached head of a rebase
TreeCommitted(r) ==
  LET new == [head[r] EXCEPT !.own = @ \cup files[r]]
  IN  /\ InTree(r) /\ files[r] # {} /\ paused[r].stage # "conflict"
      /\ head' = [head EXCEPT ![r] = new]
      /\ session' = IF r \in isolated \/ paused[r] # NoPause THEN session
                    ELSE [session EXCEPT ![r] = new]
      /\ files' = [files EXCEPT ![r] = {}]
      /\ UNCHANGED <<rebaseHost, paused, rebaseGuest, rebase, rebaseMade>>

\* git commit --amend in the guest, of a commit that may have been imported
AgentAmendsCommit(r) ==
  /\ working
  /\ MakesItem
  /\ \E i \in head[r].own :
       /\ head' = [head EXCEPT ![r].own = (@ \ {i}) \cup {made'}]
       /\ wrote' = [wrote EXCEPT ![r] = (@ \ {i}) \cup {made'}]
  /\ UNCHANGED <<rebaseHost, session, files, paused, rebaseGuest, rebase>>

HostMoves(r) ==
  /\ checkedOut[r] # "none"
  /\ MakesItem
  /\ tip' = [tip EXCEPT ![r][checkedOut[r]] = @ \cup {made'}]
  /\ UNCHANGED <<checkedOut, rebaseTrees, rebaseGuest, rebase, wrote>>

HostSwitches(r, b) ==
  /\ checkedOut[r] # b /\ (b = "none" => r \in Detachable)
  /\ checkedOut' = [checkedOut EXCEPT ![r] = b]
  /\ UNCHANGED <<tip, rebaseTrees, rebaseGuest, rebase, rebaseMade>>

\* `jbox resolve`: the conflicting commit is staged as resolved, or nothing of
\* it is kept, which leaves a clean worktree.
ConflictResolved(r) ==
  LET i == CHOOSE j \in paused[r].todo : \A k \in paused[r].todo : j <= k
  IN  /\ paused[r].stage = "conflict"
      /\ paused' = [paused EXCEPT ![r] = [stage |-> "stopped", todo |-> @.todo \ {i}]]
      /\ \/ files' = [files EXCEPT ![r] = @ \cup {i}] /\ UNCHANGED wrote
         \/ wrote' = [wrote EXCEPT ![r] = @ \ {i}] /\ UNCHANGED files
      /\ UNCHANGED <<rebaseHost, session, head, rebaseGuest, rebase, made>>

\* git rebase --continue
RebaseContinued(r) ==
  LET new == [head[r] EXCEPT !.own = @ \cup files[r]]
  IN  /\ paused[r].stage = "stopped"
      /\ files' = [files EXCEPT ![r] = {}]
      /\ \/ /\ OnTarget(r, [new EXCEPT !.own = @ \cup paused[r].todo])
            /\ paused' = [paused EXCEPT ![r] = NoPause]
         \/ \E i \in paused[r].todo :
              /\ head' = [head EXCEPT ![r] =
                            [new EXCEPT !.own = @ \cup {j \in paused[r].todo : j < i}]]
              /\ paused' = [paused EXCEPT ![r] = [stage |-> "conflict",
                                                  todo |-> {j \in @.todo : j >= i}]]
              /\ UNCHANGED session
      /\ UNCHANGED <<rebaseHost, rebaseGuest, rebase, rebaseMade>>

\* git rebase --abort: what was made since it stopped is given up
RebaseAborted(r) ==
  /\ paused[r] # NoPause
  /\ head' = [head EXCEPT ![r] = session[r]]
  /\ files' = [files EXCEPT ![r] = {}]
  /\ paused' = [paused EXCEPT ![r] = NoPause]
  /\ wrote' = [wrote EXCEPT ![r] = @ \cap Patches(session[r])]
  /\ UNCHANGED <<rebaseHost, session, rebaseGuest, rebase, made>>

-----------------------------------------------------------------------------
RebaseCommand ==
  \/ \E onto \in AllBranches \cup {"none"} : AskToRebase(onto)
  \/ AnswerRebase \/ StopMachine \/ StopContainer
  \/ ImportAndRestore \/ ImportRewritten
  \/ RebaseWorktree \/ RebaseConflicts \/ RebaseRefused \/ RebaseDone
  \/ RestartMachine \/ ResumeMachine \/ CommandDies

Meanwhile(r) ==
  \/ TreeEdited(r) \/ TreeCommitted(r) \/ AgentAmendsCommit(r)
  \/ HostMoves(r) \/ \E b \in HostBranches[r] \cup {"none"} : HostSwitches(r, b)
  \/ ConflictResolved(r) \/ RebaseContinued(r) \/ RebaseAborted(r)

RebasesNext == RebaseCommand \/ \E r \in AllTrees : Meanwhile(r)

RebasesSpec == RebasesInit /\ [][RebasesNext]_rebaseVars

-----------------------------------------------------------------------------
(***************************************************************************)
(* Whatever happened between the plan and the answer, and wherever the     *)
(* command stopped: what was written in a worktree is in its files, on its *)
(* branch, or waits in the paused rebase; no guest works in a worktree     *)
(* that is being rebased; and a rebase that reports success has put every  *)
(* branch on the tip that was shown, and runs the guest again that it      *)
(* stopped (lib.rs 1993-2084, git.rs 1413-1462).                           *)
(***************************************************************************)
RebaseKeepsWork ==
  /\ \A r \in AllTrees :
       wrote[r] \subseteq
         files[r] \cup Patches(head[r]) \cup Patches(session[r]) \cup paused[r].todo
  /\ RebaseAt("rebase") => ~working /\ isolated = {}
  /\ rebase.succeeded =>
       /\ \A r \in AllTrees : rebase.shown[r] \subseteq session[r].on
       /\ rebase.running => working
=============================================================================
