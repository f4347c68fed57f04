---------------------------- MODULE BeadsBaseline ----------------------------
(***************************************************************************)
(* What counts as work in a worktree that also holds files of Beads.       *)
(*                                                                         *)
(* A launch puts the task export of the host into the worktree, and the    *)
(* guest's bootstrap rewrites a few project files, so a worktree that no   *)
(* one touched is not clean for git.  jbox records what those files held   *)
(* when it handed the guest over (a digest of the export, a baseline of    *)
(* the rest) and leaves unchanged ones out of what it calls changes.  A    *)
(* clean deletes, and a resume resets, a worktree without changes.         *)
(*                                                                         *)
(* One worktree, from its launch to its removal.                           *)
(***************************************************************************)
EXTENDS Naturals, FiniteSets

CONSTANTS
  Baselines,   \* the project files, beside the export, that `bd init` rewrites
  Sources,     \* other files of the project
  Lookalikes,  \* those whose path only ends like one of jbox's: a function
               \* from the file to the path its own path ends with
  Caches,      \* files that the project's own .gitignore covers
  Shipped,     \* files that the base commit has
  Edits,       \* bound: each is written once by the agent
  AgentSteps,  \* bound: edits, deletions, stagings and commits of the agent
  Resumes      \* bound: how often the session is resumed

VARIABLES
  committed,   \* the last commit of the session branch, by path
  staged,      \* the index
  onDisk,      \* the files
  snapshot,    \* RepoState.beads_snapshot: the recorded export, or "none"
  baseline,    \* RepoState.beads_bootstrap: recorded content by path
  life,        \* where the session, or the command about it, is
  published,   \* the commit that the host branch accepted
  history,     \* the <<path, edit>> that the session branch has had
  mine,        \* what the agent wrote last in each file and did not take back
  steps,       \* how much of AgentSteps is used
  resumed      \* how much of Resumes is used

baselineVars == <<committed, staged, onDisk, snapshot, baseline, life,
                  published, history, mine, steps, resumed>>

Tracker == "issues.jsonl"
GateLock == "gate.lock"
ServerConfig == "dolt-server-config"
Captured == Baselines \cup {Tracker}
Paths == Captured \cup {GateLock, ServerConfig} \cup Sources
           \cup DOMAIN Lookalikes \cup Caches

\* Content: nothing, what the base commit has, the export of the host, what the
\* bootstrap generates (for the lock: an empty file), an edit of the agent.
Content == {"none", "base", "export", "generated"} \cup Edits

ASSUME BaselineAssumption ==
  /\ IsFiniteSet(Edits)
  /\ Edits \cap {"none", "base", "export", "generated"} = {}
  /\ Baselines \cap {Tracker, GateLock, ServerConfig} = {}
  /\ Shipped \subseteq Paths
  /\ DOMAIN Lookalikes \cap (Captured \cup {GateLock, ServerConfig}) = {}
  /\ Caches \cap (Captured \cup {GateLock} \cup Sources) = {}
  /\ \A p \in DOMAIN Lookalikes : Lookalikes[p] \in Captured \cup {GateLock}
  /\ AgentSteps \in Nat
  /\ Resumes \in Nat

\* "unready": stopped again after a resume whose guest did not become ready.
Stages == {"new", "booting", "checked", "up", "stopped", "unready", "recheck",
           "reset", "rebooting", "clearing", "gone"}
Stopped == life \in {"stopped", "unready"}

BaselineTypeOK ==
  /\ committed \in [Paths -> Content]
  /\ staged \in [Paths -> Content]
  /\ onDisk \in [Paths -> Content]
  /\ snapshot \in {"none", "export"}
  /\ DOMAIN baseline \subseteq Captured
  /\ \A p \in DOMAIN baseline : baseline[p] \in Content \ {"none"}
  /\ life \in Stages
  /\ published \in [Paths -> Content]
  /\ history \subseteq Paths \X Edits
  /\ mine \in [Paths -> {"none"} \cup Edits]
  /\ steps \in 0 .. AgentSteps
  /\ resumed \in 0 .. Resumes

Base == [p \in Paths |-> IF p \in Shipped THEN "base" ELSE "none"]

BaselineInit ==
  /\ committed = Base /\ staged = Base /\ onDisk = Base
  /\ snapshot = "none"
  /\ baseline = [p \in {} |-> "none"]
  /\ life = "new"
  /\ published = Base
  /\ history = {}
  /\ mine = [p \in Paths |-> "none"]
  /\ steps = 0
  /\ resumed = 0

-----------------------------------------------------------------------------
(***************************************************************************)
(* What jbox hides                                                         *)
(***************************************************************************)

HasBaseline == snapshot # "none" \/ DOMAIN baseline # {}

Untracked(p) == committed[p] = "none" /\ staged[p] = "none"
StagedChange(p) == staged[p] # committed[p]

\* `git status`: a change of the index, of the file, or a new file that no
\* ignore pattern covers.
Listed(p) ==
  IF Untracked(p) THEN onDisk[p] # "none" /\ p \notin Caches
  ELSE StagedChange(p) \/ onDisk[p] # staged[p]

\* What `--ignored` adds to that.
IgnoredFile(p) == Untracked(p) /\ p \in Caches /\ onDisk[p] # "none"

\* The names of jbox's that the status line of a file ends with.
EndsLike(p) == {p} \cup {Lookalikes[q] : q \in DOMAIN Lookalikes \cap {p}}

SnapshotUnchanged ==
  /\ snapshot # "none"
  /\ onDisk[Tracker] = snapshot
  /\ ~StagedChange(Tracker)

\* mutant: an edit of a recorded file counts as the recorded file
BaselineNamed(p) == p \in DOMAIN baseline /\ onDisk[p] # "none" /\ ~StagedChange(p)

BaselineUnchanged(p) ==
  /\ p \in DOMAIN baseline
  /\ onDisk[p] = baseline[p]
  /\ ~StagedChange(p)

LockIsEmpty == onDisk[GateLock] = "generated"

\* Only the untracked file that Beads generates, and only where neither the
\* index nor the commit has one.
ServerGenerated ==
  HasBaseline /\ onDisk[ServerConfig] = "generated" /\ Untracked(ServerConfig)

Hidden(p) ==
  /\ HasBaseline
  /\ \/ SnapshotUnchanged /\ Tracker \in EndsLike(p)
     \/ \E q \in EndsLike(p) : BaselineUnchanged(q)
     \/ GateLock \in EndsLike(p) /\ LockIsEmpty
     \/ p = ServerConfig /\ ServerGenerated

\* An ignored file at the path of the generated one that is not it stays work.
ForeignServer == HasBaseline /\ IgnoredFile(ServerConfig) /\ ~ServerGenerated

Uncommitted ==
  {p \in Paths : Listed(p) /\ ~Hidden(p)} \cup {p \in {ServerConfig} : ForeignServer}

\* Commits count as changes until a host branch has them.
HasChanges ==
  Uncommitted # {} \/ (committed # Base /\ committed # published)

\* Left out of a checkpoint, an overlay and a diff: named exactly, and the lock
\* whatever it holds.
ExcludedPaths ==
  {p \in {Tracker} : SnapshotUnchanged}
    \cup {p \in DOMAIN baseline : BaselineUnchanged(p)}
    \cup {p \in {GateLock} : HasBaseline}
    \cup {p \in {ServerConfig} : ServerGenerated}

\* Ignored caches are disposable, and so is what is hidden: the worktree is
\* removed by force when nothing else is in it.
SafeForce ==
  /\ Uncommitted = {}
  /\ \E p \in Paths : Listed(p) \/ IgnoredFile(p)

-----------------------------------------------------------------------------
(***************************************************************************)
(* Launch                                                                  *)
(***************************************************************************)
CaptureBaseline ==
  baseline' = [p \in {q \in Captured : onDisk[q] # "none"} |-> onDisk[p]]

\* The export is copied after the hard reset of the isolation.
SnapshotExport ==
  /\ life = "new"
  /\ \/ UNCHANGED <<snapshot, onDisk>>
     \/ /\ snapshot' = "export"
        /\ onDisk' = [onDisk EXCEPT ![Tracker] = "export"]
  /\ life' = "booting"
  /\ UNCHANGED <<committed, staged, baseline, published, history, mine, steps,
                 resumed>>

\* The guest starts.  With an export it initializes Beads, or imports into what
\* it already has, and rewrites some of the project's files on the way.
Bootstraps(then) ==
  /\ \E Rewritten \in SUBSET Baselines, extra \in SUBSET {GateLock, ServerConfig} :
       onDisk' = [p \in Paths |->
         IF onDisk[Tracker] # "none"
              /\ (p \in Rewritten
                  \/ (p \in extra /\ Untracked(p) /\ onDisk[p] = "none"))
         THEN "generated" ELSE onDisk[p]]
  /\ life' = then

BootGuest ==
  /\ life = "booting"
  /\ Bootstraps("checked")
  /\ UNCHANGED <<committed, staged, snapshot, baseline, published, history,
                 mine, steps, resumed>>

\* Before a client can connect: the result of the bootstrap is no one's edit.
HandOver ==
  /\ life = "checked"
  /\ CaptureBaseline
  /\ life' = "up"
  /\ UNCHANGED <<committed, staged, onDisk, snapshot, published, history,
                 mine, steps, resumed>>

-----------------------------------------------------------------------------
(***************************************************************************)
(* The agent, and the host branch                                          *)
(***************************************************************************)

AgentStep ==
  /\ life = "up"
  /\ steps < AgentSteps
  /\ steps' = steps + 1

\* A new edit of a file, which may replace an earlier one of the agent.
AgentWrites(p) ==
  /\ AgentStep
  /\ \E e \in Edits \ ({onDisk[q] : q \in Paths} \cup {staged[q] : q \in Paths}
                        \cup {h[2] : h \in history}) :
       /\ onDisk' = [onDisk EXCEPT ![p] = e]
       /\ mine' = [mine EXCEPT ![p] = e]
  /\ UNCHANGED <<committed, staged, snapshot, baseline, life, published,
                 history, resumed>>

\* The agent deletes a file, or gives it back a content it had before.
AgentTakesBack(p) ==
  /\ AgentStep
  /\ \E c \in {"none", committed[p]}
              \cup {baseline[q] : q \in DOMAIN baseline \cap {p}} :
       onDisk' = [onDisk EXCEPT ![p] = c]
  /\ onDisk' # onDisk
  /\ mine' = [mine EXCEPT ![p] = IF onDisk'[p] = @ THEN @ ELSE "none"]
  /\ UNCHANGED <<committed, staged, snapshot, baseline, life, published,
                 history, resumed>>

AgentStages(p) ==
  /\ AgentStep
  /\ p \notin Caches
  /\ staged' = [staged EXCEPT ![p] = onDisk[p]]
  /\ UNCHANGED <<committed, onDisk, snapshot, baseline, life, published,
                 history, mine, resumed>>

Commits(tree) ==
  /\ tree # committed
  /\ committed' = tree
  /\ staged' = tree
  /\ history' = history \cup {<<p, tree[p]>> : p \in {q \in Paths : tree[q] \in Edits}}

AgentCommits ==
  /\ AgentStep
  /\ Commits(staged)
  /\ UNCHANGED <<onDisk, snapshot, baseline, life, published, mine, resumed>>

PublishCommit ==
  /\ life = "up" \/ Stopped
  /\ published # committed
  /\ published' = committed
  /\ UNCHANGED <<committed, staged, onDisk, snapshot, baseline, life, history,
                 mine, steps, resumed>>

-----------------------------------------------------------------------------
(***************************************************************************)
(* Stop, resume and clean                                                  *)
(***************************************************************************)

\* Restoring the link resets the index to the branch, and no file.
StopsGuest(then) ==
  /\ life = "up"
  /\ staged' = committed
  /\ life' = then
  /\ UNCHANGED <<committed, onDisk, snapshot, baseline, published, history,
                 mine, steps, resumed>>

StopAgentSession == StopsGuest("stopped")

\* The user lets jbox commit what counts as changes, without the excluded
\* paths; git refuses to commit nothing.
CheckpointWorktree ==
  /\ Stopped
  /\ resumed < Resumes
  /\ Uncommitted # {}
  /\ ~ForeignServer
  /\ Commits([p \in Paths |-> IF p \in ExcludedPaths \/ IgnoredFile(p)
                              THEN committed[p] ELSE onDisk[p]])
  /\ life' = "recheck"
  /\ resumed' = resumed + 1
  /\ UNCHANGED <<onDisk, snapshot, baseline, published, mine, steps>>

BeginResume ==
  /\ Stopped
  /\ resumed < Resumes
  /\ Uncommitted = {}
  /\ life' = "recheck"
  /\ resumed' = resumed + 1
  /\ UNCHANGED <<committed, staged, onDisk, snapshot, baseline, published,
                 history, mine, steps>>

\* Isolating again resets every tracked file; what is still dirty is refused.
PrepareRetained ==
  /\ life = "recheck"
  /\ life' = IF Uncommitted = {} THEN "reset" ELSE "stopped"
  /\ onDisk' = IF Uncommitted = {}
               THEN [p \in Paths |-> IF Untracked(p) THEN onDisk[p]
                                     ELSE committed[p]]
               ELSE onDisk
  /\ staged' = committed
  /\ UNCHANGED <<committed, snapshot, baseline, published, history, mine, steps,
                 resumed>>

RebootGuest ==
  /\ life = "reset"
  /\ Bootstraps("rebooting")
  /\ UNCHANGED <<committed, staged, snapshot, baseline, published, history,
                 mine, steps, resumed>>

\* The guest did not start, or did not answer in time: its files stay.
ResumeStopsShort ==
  /\ life \in {"reset", "rebooting"}
  /\ life' = "unready"
  /\ UNCHANGED <<committed, staged, onDisk, snapshot, baseline, published,
                 history, mine, steps, resumed>>

\* mutant: the baseline of the launch is kept although the guest was
\* bootstrapped again
KeepsBaseline ==
  /\ life = "rebooting"
  /\ life' = "up"
  /\ UNCHANGED <<committed, staged, onDisk, snapshot, baseline, published,
                 history, mine, steps, resumed>>

RefreshBaseline ==
  /\ life = "rebooting"
  /\ IF HasBaseline THEN CaptureBaseline ELSE UNCHANGED baseline
  /\ life' = "up"
  /\ UNCHANGED <<committed, staged, onDisk, snapshot, published, history, mine,
                 steps, resumed>>

\* Without --force a clean stops at changes; the guest of a running session
\* goes on until the clean has stopped it.
CleanStops ==
  /\ ~HasChanges
  /\ StopsGuest("clearing")

CleanStopped ==
  /\ Stopped
  /\ ~HasChanges
  /\ life' = "clearing"
  /\ UNCHANGED <<committed, staged, onDisk, snapshot, baseline, published,
                 history, mine, steps, resumed>>

\* The empty lock goes first.  Git itself refuses to remove a worktree with
\* files that are not committed, unless it is forced.
CleanWorktree ==
  /\ life = "clearing"
  /\ LET without == [p \in Paths |->
           IF p = GateLock /\ HasBaseline /\ LockIsEmpty THEN "none"
           ELSE onDisk[p]]
         removes == SafeForce \/ \A p \in Paths : ~Listed(p)
     IN  /\ onDisk' = IF removes THEN [p \in Paths |-> "none"] ELSE without
         /\ life' = IF removes THEN "gone" ELSE "stopped"
  /\ UNCHANGED <<committed, staged, snapshot, baseline, published, history,
                 mine, steps, resumed>>

-----------------------------------------------------------------------------
BaselineNext ==
  \/ SnapshotExport \/ BootGuest \/ HandOver
  \/ \E p \in Paths : AgentWrites(p) \/ AgentTakesBack(p) \/ AgentStages(p)
  \/ AgentCommits \/ PublishCommit
  \/ StopAgentSession
  \/ CheckpointWorktree \/ BeginResume \/ PrepareRetained \/ RebootGuest
  \/ ResumeStopsShort \/ RefreshBaseline
  \/ CleanStops \/ CleanStopped \/ CleanWorktree

BaselineSpec == BaselineInit /\ [][BaselineNext]_baselineVars

-----------------------------------------------------------------------------
(***************************************************************************)
(* Properties                                                              *)
(***************************************************************************)

\* What the agent wrote last in a file is in the file or in the history of the
\* session branch, through every stop, resume and clean that was not forced:
\* what jbox hides is never the only copy of work.  Ignored files are
\* disposable (`requires_safe_worktree_force`), where Beads is not the one that
\* may have made them.
AgentEditsKept ==
  \A p \in (Paths \ Caches) \cup {q \in {ServerConfig} : HasBaseline} :
    mine[p] = "none" \/ onDisk[p] = mine[p] \/ <<p, mine[p]>> \in history

\* A worktree that only jbox and the bootstrap touched counts as clean from the
\* moment the user gets it, also after a stop and a resume: it blocks neither
\* a resume nor a clean.  (An agent that brings Beads to a project without it,
\* commits and takes it back leaves what the bootstrap wrote: nothing recorded.)
PristineIsClean ==
  (/\ committed = Base /\ staged = Base /\ life \in {"up", "stopped", "recheck", "clearing"}
   /\ HasBaseline \/ history = {}
   /\ \A p \in Paths : onDisk[p] \in {Base[p], "export", "generated"})
    => Uncommitted = {}

\* Every edit of the agent is ordinary user work: it shows as a change
\* (`has_uncommitted_changes`: "every agent edit remains ordinary user work").
\* Not so for lookalikes: a path that ends in a baseline's is hidden with it
\* (`is_unchanged_bootstrap_line` compares ends of lines).
AgentEditsShow ==
  life \in {"up", "stopped"} =>
    \A p \in Paths \ (Caches \cup DOMAIN Lookalikes) :
      mine[p] # "none" /\ onDisk[p] = mine[p] /\ committed[p] # mine[p]
        => p \in Uncommitted

\* Jbox tells the agent's work from the bootstrap's, both ways.
WorkIsExact == AgentEditsKept /\ PristineIsClean /\ AgentEditsShow
=============================================================================
