-------------------------- MODULE SessionLifecycle --------------------------
(***************************************************************************)
(* One session after its launch: the commands that stop, resume, attach    *)
(* to, list, expire and clean it, and the guest and the people around it.  *)
(*                                                                         *)
(* A session is a record (session.json), a runtime container, and for      *)
(* every repository a session branch in the host repository and a retained *)
(* worktree mounted in the guest.  While the guest runs, the worktree's    *)
(* `.git` is an isolated copy of the repository ("isolated"); afterwards   *)
(* it is the usual link to the host repository ("link").  Commits of the   *)
(* guest reach the session branch only when jbox imports them.             *)
(*                                                                         *)
(* Nothing locks the record: a command reads it whole, works on its copy   *)
(* and writes the copy back whole.  Every jbox invocation is a process     *)
(* here, so is the detached watcher that stops expired sessions, and their *)
(* steps interleave.  Branches and files are sets of patches.              *)
(*                                                                         *)
(* Host credentials of the session (ssh agent, known_hosts entry) and the  *)
(* sync journal, which makes resume and clean refuse, are not state here.  *)
(***************************************************************************)
EXTENDS Naturals, FiniteSets

CONSTANTS
  Commands,    \* jbox invocations that may run at the same time
  Watcher,     \* the detached `jbox watch-expiry`
  RepoCount,   \* number of repositories of the session, in session order
  Watched,     \* whether the launch of the session left a watcher running
  Invoked,     \* bound: the commands the user invokes
  CrashAt,     \* bound: phases in which a process can die or fail
  MaxPatches,  \* bound: patches written in all repositories
  MaxFaults,   \* bound: crashes, failures, guests that die, reboots
  EditsAt      \* bound: phases during which the user edits the worktrees

VARIABLES
  record,     \* session.json: state and whether last_activity_at is recent
  guestUp,    \* the runtime container runs
  inFlight,   \* the daemon still works on a `docker run` its client gave up
  agentOn,    \* a client was attached in this life of the guest
  watching,   \* the watcher process is alive
  gitdir,     \* repo -> what `.git` of the retained worktree is
  isolated,   \* repo -> session branch inside the isolated `.git`
  branch,     \* repo -> session branch in the host repository
  merged,     \* repo -> the other local branches of the host repository
  files,      \* repo -> uncommitted patches in the worktree
  proc,       \* process -> what the invocation is doing
  made,       \* patches written so far (names the next one)
  written,    \* repo -> the patches written there
  discarded,  \* repo -> patches their author or a forced clean gave up
  faults      \* how much of MaxFaults is used

machine == <<guestUp, inFlight, agentOn>>
storage == <<gitdir, isolated, branch, merged, files>>
history == <<made, written, discarded>>
vars == <<record, machine, watching, storage, proc, history, faults>>

Repos == 1..RepoCount
Processes == Commands \cup {Watcher}
SessionStates == {"Running", "Stopped", "Removed"}
GitDirs == {"isolated", "link", "missing", "gone"}
CommandNames == {"stop", "resume", "reconnect", "attach", "list", "expire",
                 "clean", "forceClean"}

Phases == {"idle", "load", "inspect", "loaded", "end",
           "remove", "pin", "publish", "restore", "link", "saveStopped",
           "check", "clear", "validate", "checkpoint", "prepare", "swap",
           "isolate", "start", "trust", "abort", "saveRunning", "watch",
           "require", "touch", "changes", "removeTree", "forget"}

\* What the metadata of the repositories is restored for.
Purposes == {"none", "reconcile", "stop", "clean", "undo"}

ASSUME RepoCountAssumption == RepoCount \in Nat \ {0}
ASSUME ConstantsAssumption ==
  /\ Watcher \notin Commands
  /\ Watched \in BOOLEAN
  /\ Invoked \subseteq CommandNames
  /\ CrashAt \subseteq Phases
  /\ {MaxPatches, MaxFaults} \subseteq Nat
  /\ EditsAt \subseteq Phases

Patch == Nat
Record == [state : SessionStates, recent : BOOLEAN]
Running(rec) == rec.state = "Running"

Idle == [pc |-> "idle", cmd |-> "list", purpose |-> "none", cur |-> 1,
         copy |-> [state |-> "Removed", recent |-> FALSE],
         previous |-> {}, snapshot |-> {}, changed |-> {}]

ProcessState == [pc : Phases, cmd : CommandNames, purpose : Purposes,
                 cur : Repos, copy : Record, previous : SUBSET Patch,
                 snapshot : SUBSET Patch, changed : SUBSET Repos]

TypeOK ==
  /\ record \in Record
  /\ guestUp \in BOOLEAN
  /\ inFlight \in BOOLEAN
  /\ agentOn \in BOOLEAN
  /\ watching \in BOOLEAN
  /\ gitdir \in [Repos -> GitDirs]
  /\ isolated \in [Repos -> SUBSET Patch]
  /\ branch \in [Repos -> SUBSET Patch]
  /\ merged \in [Repos -> SUBSET Patch]
  /\ files \in [Repos -> SUBSET Patch]
  /\ proc \in [Processes -> ProcessState]
  /\ made \in Nat
  /\ written \in [Repos -> SUBSET Patch]
  /\ discarded \in [Repos -> SUBSET Patch]
  /\ faults \in Nat

Nothing == [r \in Repos |-> {}]

\* A session that was just launched.
Init ==
  /\ record = [state |-> "Running", recent |-> TRUE]
  /\ guestUp = TRUE
  /\ inFlight = FALSE
  /\ agentOn = FALSE
  /\ watching = Watched
  /\ gitdir = [r \in Repos |-> "isolated"]
  /\ isolated = Nothing
  /\ branch = Nothing
  /\ merged = Nothing
  /\ files = Nothing
  /\ proc = [p \in Processes |-> Idle]
  /\ made = 0
  /\ written = Nothing
  /\ discarded = Nothing
  /\ faults = 0

-----------------------------------------------------------------------------
(***************************************************************************)
(* How a process moves.                                                    *)
(***************************************************************************)
At(p, phase) == proc[p].pc = phase
Cur(p) == proc[p].cur
Goes(p, phase) == proc' = [proc EXCEPT ![p].pc = phase]

\* An error ends an invocation; the watcher leaves its loop with it.
Fails(p) ==
  /\ proc' = [proc EXCEPT ![p] = Idle]
  /\ watching' = (watching /\ p # Watcher)

\* mutant: the last repository is not noticed
NextRepoPastEnd(p, phase, following) ==
  proc' = IF Cur(p) > RepoCount
          THEN [proc EXCEPT ![p].pc = following, ![p].cur = 1]
          ELSE [proc EXCEPT ![p].pc = phase, ![p].cur = @ + 1]

\* The loop over session.repos.
NextRepo(p, phase, following) ==
  proc' = IF Cur(p) = RepoCount
          THEN [proc EXCEPT ![p].pc = following, ![p].cur = 1]
          ELSE [proc EXCEPT ![p].pc = phase, ![p].cur = @ + 1]

Begin(p, c) ==
  /\ At(p, "idle")
  /\ IF p = Watcher THEN watching /\ c = "expire" ELSE c \in Invoked
  /\ proc' = [proc EXCEPT ![p] = [Idle EXCEPT !.pc = "load", !.cmd = c]]
  /\ UNCHANGED <<record, machine, watching, storage, history, faults>>

\* The command did what it said; the watcher sleeps and looks again.
End(p) ==
  /\ At(p, "end")
  /\ proc' = [proc EXCEPT ![p] = Idle]
  /\ UNCHANGED <<record, machine, watching, storage, history, faults>>

-----------------------------------------------------------------------------
(***************************************************************************)
(* load_session and list_sessions: read the record, and put it right when  *)
(* it says Running and the container does not run.                         *)
(***************************************************************************)
Load(p) ==
  /\ At(p, "load")
  /\ record.state # "Removed"
  /\ proc' = [proc EXCEPT ![p].copy = record,
                          ![p].pc = IF Running(record) THEN "inspect"
                                    ELSE "loaded"]
  /\ UNCHANGED <<record, machine, watching, storage, history, faults>>

\* A list of no sessions is no error, an unknown session is one.
LoadUnknown(p) ==
  /\ At(p, "load")
  /\ record.state = "Removed"
  /\ IF proc[p].cmd \in {"list", "expire"}
     THEN Goes(p, "end") /\ UNCHANGED watching
     ELSE Fails(p)
  /\ UNCHANGED <<record, machine, storage, history, faults>>

\* reconcile_runtime_state
Inspect(p) ==
  /\ At(p, "inspect")
  /\ proc' = IF guestUp
             THEN [proc EXCEPT ![p].pc = "loaded"]
             ELSE [proc EXCEPT ![p].pc = "remove", ![p].purpose = "reconcile"]
  /\ UNCHANGED <<record, machine, watching, storage, history, faults>>

-----------------------------------------------------------------------------
(***************************************************************************)
(* Taking the guest down: engine.stop, then for every repository import    *)
(* its commits and give the worktree its link back, then save Stopped.     *)
(* stop, reconcile and clean do the same up to the save.                   *)
(***************************************************************************)

\* stop_running_session, and `jbox expire` going on to stop(id)
StopLoaded(p) ==
  /\ At(p, "loaded")
  /\ proc[p].cmd = "stop"
  /\ proc' = IF Running(proc[p].copy)
             THEN [proc EXCEPT ![p].pc = "remove", ![p].purpose = "stop"]
             ELSE [proc EXCEPT ![p].pc = "end"]
  /\ UNCHANGED <<record, machine, watching, storage, history, faults>>

Expired(rec) == Running(rec) /\ ~rec.recent

\* mutant: sessions that are stopped already are the ones stopped
ExpireStopped(p) ==
  /\ At(p, "loaded")
  /\ proc[p].cmd = "expire"
  /\ proc' = IF ~Running(proc[p].copy)
             THEN [proc EXCEPT ![p].pc = "load", ![p].cmd = "stop"]
             ELSE [proc EXCEPT ![p].pc = "end"]
  /\ UNCHANGED <<record, machine, watching, storage, history, faults>>

ExpireLoaded(p) ==
  /\ At(p, "loaded")
  /\ proc[p].cmd = "expire"
  /\ proc' = IF Expired(proc[p].copy)
             THEN [proc EXCEPT ![p].pc = "load", ![p].cmd = "stop"]
             ELSE [proc EXCEPT ![p].pc = "end"]
  /\ UNCHANGED <<record, machine, watching, storage, history, faults>>

ListLoaded(p) ==
  /\ At(p, "loaded")
  /\ proc[p].cmd = "list"
  /\ Goes(p, "end")
  /\ UNCHANGED <<record, machine, watching, storage, history, faults>>

ContainerGone ==
  /\ guestUp' = FALSE
  /\ agentOn' = FALSE
  /\ UNCHANGED inFlight

\* mutant: an engine that cannot stop the container is not an error
RemoveContainerIgnored(p) ==
  /\ At(p, "remove")
  /\ Goes(p, "pin")
  /\ UNCHANGED <<record, machine, watching, storage, history, faults>>

RemoveContainer(p) ==
  /\ At(p, "remove")
  /\ ContainerGone
  /\ Goes(p, "pin")
  /\ UNCHANGED <<record, watching, storage, history, faults>>

\* import_guest_commits: note the branch in the host and in the guest.
PinSnapshot(p) ==
  /\ At(p, "pin")
  /\ proc' = IF gitdir[Cur(p)] = "isolated"
             THEN [proc EXCEPT ![p].pc = "publish",
                               ![p].previous = branch[Cur(p)],
                               ![p].snapshot = isolated[Cur(p)]]
             ELSE [proc EXCEPT ![p].pc = "restore"]
  /\ UNCHANGED <<record, machine, watching, storage, history, faults>>

\* mutant: a rewritten guest history replaces the host's
CanPublishRewritten(p) == gitdir[Cur(p)] = "isolated"

CanPublish(p) ==
  /\ gitdir[Cur(p)] = "isolated"
  /\ proc[p].previous \subseteq proc[p].snapshot
  /\ branch[Cur(p)] = proc[p].previous

\* `git update-ref <session branch> <snapshot> <previous>`
PublishSnapshot(p) ==
  /\ At(p, "publish")
  /\ CanPublish(p)
  /\ branch' = [branch EXCEPT ![Cur(p)] = proc[p].snapshot]
  /\ Goes(p, "restore")
  /\ UNCHANGED <<record, machine, watching, gitdir, isolated, merged, files,
                 history, faults>>

RefuseSnapshot(p) ==
  /\ At(p, "publish")
  /\ ~CanPublish(p)
  /\ Fails(p)
  /\ UNCHANGED <<record, machine, storage, history, faults>>

\* Where a process goes when the metadata of a repository is restored.
MetadataRestored(p) ==
  IF proc[p].purpose = "undo"
  THEN IF Cur(p) = RepoCount
       THEN Fails(p)
       ELSE NextRepo(p, "restore", "restore") /\ UNCHANGED watching
  ELSE /\ NextRepo(p, "pin", IF proc[p].purpose = "clean" THEN "removeTree"
                             ELSE "saveStopped")
       /\ UNCHANGED watching

\* restore_guest_metadata leaves anything but an isolated `.git` alone.
RestoreNothing(p) ==
  /\ At(p, "restore")
  /\ gitdir[Cur(p)] # "isolated"
  /\ MetadataRestored(p)
  /\ UNCHANGED <<record, machine, storage, history, faults>>

\* mutant: the link comes back with a hard reset
RemoveIsolatedHard(p) ==
  /\ At(p, "restore")
  /\ gitdir[Cur(p)] = "isolated"
  /\ gitdir' = [gitdir EXCEPT ![Cur(p)] = "missing"]
  /\ isolated' = [isolated EXCEPT ![Cur(p)] = {}]
  /\ files' = [files EXCEPT ![Cur(p)] = {}]
  /\ Goes(p, "link")
  /\ UNCHANGED <<record, machine, watching, branch, merged, history, faults>>

\* Its first half removes the directory.  What only the removed branch had
\* is left in the files of the worktree, as the mixed reset finds them.
RemoveIsolated(p) ==
  /\ At(p, "restore")
  /\ gitdir[Cur(p)] = "isolated"
  /\ gitdir' = [gitdir EXCEPT ![Cur(p)] = "missing"]
  /\ isolated' = [isolated EXCEPT ![Cur(p)] = {}]
  /\ files' = [files EXCEPT ![Cur(p)] =
                 @ \cup (isolated[Cur(p)] \ branch[Cur(p)])]
  /\ Goes(p, "link")
  /\ UNCHANGED <<record, machine, watching, branch, merged, history, faults>>

\* Its second half copies the saved link and resets the index.  `.git` is
\* missing until then: only the process that removed it comes here.
RestoreLink(p) ==
  /\ At(p, "link")
  /\ gitdir[Cur(p)] = "missing"
  /\ gitdir' = [gitdir EXCEPT ![Cur(p)] = "link"]
  /\ MetadataRestored(p)
  /\ UNCHANGED <<record, machine, isolated, branch, merged, files, history,
                 faults>>

\* Where every other error ends the invocation (it is a Crash here),
\* restore_retained_metadata goes on with the next repository.
RestoreLinkFails(p) ==
  /\ At(p, "link")
  /\ proc[p].purpose = "undo"
  /\ "link" \in CrashAt
  /\ faults < MaxFaults
  /\ faults' = faults + 1
  /\ MetadataRestored(p)
  /\ UNCHANGED <<record, machine, storage, history>>

StoppedCopy(p) == [proc[p].copy EXCEPT !.state = "Stopped"]

\* Saving creates the file when there is none.
SaveStopped(p) ==
  /\ At(p, "saveStopped")
  /\ record' = StoppedCopy(p)
  /\ proc' = [proc EXCEPT
                ![p].copy = StoppedCopy(p),
                ![p].pc = IF proc[p].purpose = "reconcile" THEN "loaded"
                          ELSE "end"]
  /\ UNCHANGED <<machine, watching, storage, history, faults>>

-----------------------------------------------------------------------------
(***************************************************************************)
(* restart_session_with_image_refresh.  A failure from `prepare` on goes   *)
(* through restore_retained_metadata, which restores without importing.    *)
(***************************************************************************)
ResumeLoaded(p) ==
  /\ At(p, "loaded")
  /\ proc[p].cmd \in {"resume", "reconnect"}
  /\ Goes(p, IF Running(proc[p].copy) THEN "end" ELSE "check")
  /\ UNCHANGED <<record, machine, watching, storage, history, faults>>

\* "runtime container is unexpectedly still running"
CheckNotRunning(p) ==
  /\ At(p, "check")
  /\ IF guestUp THEN Fails(p) ELSE Goes(p, "clear") /\ UNCHANGED watching
  /\ UNCHANGED <<record, machine, storage, history, faults>>

ClearStaleContainer(p) ==
  /\ At(p, "clear")
  /\ ContainerGone
  /\ Goes(p, "validate")
  /\ UNCHANGED <<record, watching, storage, history, faults>>

Readable(r) == gitdir[r] \in {"link", "isolated"}

\* checkpoint_dirty_worktrees_before_resume up to the confirmation
ValidateCheckpoints(p) ==
  /\ At(p, "validate")
  /\ \A r \in Repos : Readable(r)
  /\ LET changed == {r \in Repos : files[r] # {}}
     IN  proc' = [proc EXCEPT
                    ![p].changed = changed,
                    ![p].pc = IF changed = {} THEN "prepare"
                              ELSE "checkpoint"]
  /\ UNCHANGED <<record, machine, watching, storage, history, faults>>

\* A worktree git cannot read, or a user who declines (counted).
RefuseCheckpoints(p) ==
  /\ At(p, "validate")
  /\ \/ \E r \in Repos : ~Readable(r) /\ UNCHANGED faults
     \/ /\ \E r \in Repos : files[r] # {}
        /\ faults < MaxFaults
        /\ faults' = faults + 1
  /\ Fails(p)
  /\ UNCHANGED <<record, machine, storage, history>>

\* The commit goes wherever `.git` of the worktree leads.  Another command
\* may have taken it away since it was validated.
CheckpointWorktree(p) ==
  /\ At(p, "checkpoint")
  /\ IF Readable(Cur(p))
     THEN NextRepo(p, "checkpoint", "prepare") /\ UNCHANGED watching
     ELSE Fails(p)
  /\ IF Readable(Cur(p)) /\ Cur(p) \in proc[p].changed
     THEN /\ IF gitdir[Cur(p)] = "isolated"
             THEN /\ isolated' = [isolated EXCEPT
                                    ![Cur(p)] = @ \cup files[Cur(p)]]
                  /\ UNCHANGED branch
             ELSE /\ branch' = [branch EXCEPT
                                  ![Cur(p)] = @ \cup files[Cur(p)]]
                  /\ UNCHANGED isolated
          /\ files' = [files EXCEPT ![Cur(p)] = {}]
     ELSE UNCHANGED <<isolated, branch, files>>
  /\ UNCHANGED <<record, machine, gitdir, merged, history, faults>>

\* mutant: a failed resume leaves the metadata isolated
UndoesNothing(p) == proc' = [proc EXCEPT ![p] = Idle]

Undoes(p) ==
  proc' = [proc EXCEPT ![p].pc = "restore", ![p].purpose = "undo",
                       ![p].cur = 1]

CanIsolate(r) == files[r] = {} /\ gitdir[r] = "link"

\* prepare_retained_worktree_for_guest: check, note the branch, clone.
PrepareWorktree(p) ==
  /\ At(p, "prepare")
  /\ IF CanIsolate(Cur(p))
     THEN proc' = [proc EXCEPT ![p].pc = "swap",
                               ![p].snapshot = branch[Cur(p)]]
     ELSE Undoes(p)
  /\ UNCHANGED <<record, machine, watching, storage, history, faults>>

\* isolate_guest_metadata removes the link ...
RemoveLink(p) ==
  /\ At(p, "swap")
  /\ IF gitdir[Cur(p)] = "link"
     THEN /\ gitdir' = [gitdir EXCEPT ![Cur(p)] = "missing"]
          /\ Goes(p, "isolate")
     ELSE Undoes(p) /\ UNCHANGED gitdir
  /\ UNCHANGED <<record, machine, watching, isolated, branch, merged, files,
                 history, faults>>

\* ... and renames the clone into its place, and resets it hard.
IsolateWorktree(p) ==
  /\ At(p, "isolate")
  /\ gitdir[Cur(p)] = "missing"
  /\ gitdir' = [gitdir EXCEPT ![Cur(p)] = "isolated"]
  /\ isolated' = [isolated EXCEPT ![Cur(p)] = proc[p].snapshot]
  /\ files' = [files EXCEPT ![Cur(p)] = {}]
  /\ NextRepo(p, "prepare", "start")
  /\ UNCHANGED <<record, machine, watching, branch, merged, history, faults>>

\* The rename fails: the repository stays without a `.git`.
IsolateFails(p) ==
  /\ At(p, "isolate")
  /\ "isolate" \in CrashAt
  /\ faults < MaxFaults
  /\ faults' = faults + 1
  /\ Undoes(p)
  /\ UNCHANGED <<record, machine, watching, storage, history>>

\* engine.start; an older request for the container name loses to this one.
StartGuest(p) ==
  /\ At(p, "start")
  /\ ~guestUp
  /\ guestUp' = TRUE
  /\ inFlight' = FALSE
  /\ agentOn' = FALSE
  /\ Goes(p, "trust")
  /\ UNCHANGED <<record, watching, storage, history, faults>>

\* The container name is taken.
StartRefused(p) ==
  /\ At(p, "start")
  /\ guestUp \/ inFlight
  /\ Undoes(p)
  /\ UNCHANGED <<record, machine, watching, storage, history, faults>>

\* `docker run` fails, or is given up while the daemon still works on it.
StartFails(p) ==
  /\ At(p, "start")
  /\ "start" \in CrashAt
  /\ faults < MaxFaults
  /\ faults' = faults + 1
  /\ inFlight' \in {inFlight, TRUE}
  /\ Undoes(p)
  /\ UNCHANGED <<record, guestUp, agentOn, watching, storage, history>>

\* trust_session_host waits for the guest's ssh.
TrustGuest(p) ==
  /\ At(p, "trust")
  /\ Goes(p, IF guestUp THEN "saveRunning" ELSE "abort")
  /\ UNCHANGED <<record, machine, watching, storage, history, faults>>

TrustTimesOut(p) ==
  /\ At(p, "trust")
  /\ "trust" \in CrashAt
  /\ faults < MaxFaults
  /\ faults' = faults + 1
  /\ Goes(p, "abort")
  /\ UNCHANGED <<record, machine, watching, storage, history>>

AbortGuest(p) ==
  /\ At(p, "abort")
  /\ ContainerGone
  /\ Undoes(p)
  /\ UNCHANGED <<record, watching, storage, history, faults>>

SaveRunning(p) ==
  /\ At(p, "saveRunning")
  /\ record' = [state |-> "Running", recent |-> TRUE]
  /\ Goes(p, IF proc[p].cmd = "reconnect" THEN "watch" ELSE "end")
  /\ UNCHANGED <<machine, watching, storage, history, faults>>

\* start_expiry_watch: `jbox run` does it, `jbox resume` does not.
StartWatch(p) ==
  /\ At(p, "watch")
  /\ watching' = TRUE
  /\ Goes(p, "end")
  /\ UNCHANGED <<record, machine, storage, history, faults>>

-----------------------------------------------------------------------------
(***************************************************************************)
(* attach_session and shell_session: require_running, then touch.          *)
(***************************************************************************)
\* mutant: a container that runs is enough to attach
AttachLoadedAny(p) ==
  /\ At(p, "loaded")
  /\ proc[p].cmd = "attach"
  /\ Goes(p, "require")
  /\ UNCHANGED <<record, machine, watching, storage, history, faults>>

AttachLoaded(p) ==
  /\ At(p, "loaded")
  /\ proc[p].cmd = "attach"
  /\ IF Running(proc[p].copy)
     THEN Goes(p, "require") /\ UNCHANGED watching
     ELSE Fails(p)
  /\ UNCHANGED <<record, machine, storage, history, faults>>

RequireRunning(p) ==
  /\ At(p, "require")
  /\ IF guestUp THEN Goes(p, "touch") /\ UNCHANGED watching ELSE Fails(p)
  /\ UNCHANGED <<record, machine, storage, history, faults>>

\* The touched copy is saved whole, then the client connects.
Touch(p) ==
  /\ At(p, "touch")
  /\ record' = [proc[p].copy EXCEPT !.recent = TRUE]
  /\ agentOn' = guestUp
  /\ Goes(p, "end")
  /\ UNCHANGED <<guestUp, inFlight, watching, storage, history, faults>>

-----------------------------------------------------------------------------
(***************************************************************************)
(* clean: nothing is removed while a worktree holds changes, unless forced.*)
(***************************************************************************)
Head(r) == IF gitdir[r] = "isolated" THEN isolated[r] ELSE branch[r]

\* change_state compares the head of the worktree with the base commit,
\* and the session branch of the host with its other branches.
HasChanges(r) ==
  \/ ~Readable(r)
  \/ files[r] # {}
  \/ Head(r) # {} /\ ~(branch[r] \subseteq merged[r])

CleanLoaded(p) ==
  /\ At(p, "loaded")
  /\ proc[p].cmd \in {"clean", "forceClean"}
  /\ Goes(p, "changes")
  /\ UNCHANGED <<record, machine, watching, storage, history, faults>>

RefuseClean(p) ==
  /\ At(p, "changes")
  /\ proc[p].cmd = "clean"
  /\ \E r \in Repos : HasChanges(r)
  /\ Goes(p, "end")
  /\ UNCHANGED <<record, machine, watching, storage, history, faults>>

AllowClean(p) ==
  /\ At(p, "changes")
  /\ proc[p].cmd = "forceClean" \/ ~\E r \in Repos : HasChanges(r)
  /\ proc' = IF Running(proc[p].copy)
             THEN [proc EXCEPT ![p].pc = "remove", ![p].purpose = "clean"]
             ELSE [proc EXCEPT ![p].pc = "removeTree"]
  /\ UNCHANGED <<record, machine, watching, storage, history, faults>>

\* `git worktree remove [--force]`: not over an isolated `.git`, and not a
\* worktree whose status cannot be read.
CanRemoveTree(p) ==
  /\ gitdir[Cur(p)] = "link"
  /\ files[Cur(p)] = {} \/ proc[p].cmd = "forceClean"

RemoveWorktree(p) ==
  /\ At(p, "removeTree")
  /\ CanRemoveTree(p)
  /\ gitdir' = [gitdir EXCEPT ![Cur(p)] = "gone"]
  /\ files' = [files EXCEPT ![Cur(p)] = {}]
  /\ discarded' = [discarded EXCEPT ![Cur(p)] = @ \cup files[Cur(p)]]
  /\ NextRepo(p, "removeTree", "forget")
  /\ UNCHANGED <<record, machine, watching, isolated, branch, merged, made,
                 written, faults>>

RemoveWorktreeFails(p) ==
  /\ At(p, "removeTree")
  /\ ~CanRemoveTree(p)
  /\ Fails(p)
  /\ UNCHANGED <<record, machine, storage, history, faults>>

\* state.remove, and the session directory with it
ForgetSession(p) ==
  /\ At(p, "forget")
  /\ record' = [state |-> "Removed", recent |-> FALSE]
  /\ Goes(p, "end")
  /\ UNCHANGED <<machine, watching, storage, history, faults>>

-----------------------------------------------------------------------------
(***************************************************************************)
(* The guest, the user, the clock and the ways a process ends early.       *)
(***************************************************************************)
Writes(r) ==
  /\ made < MaxPatches
  /\ made' = made + 1
  /\ written' = [written EXCEPT ![r] = @ \cup {made'}]

\* A client was attached, and the worktree is mounted in the guest.
AgentWorksIn(r) == guestUp /\ agentOn /\ gitdir[r] # "gone"

AgentEdits(r) ==
  /\ AgentWorksIn(r)
  /\ Writes(r)
  /\ files' = [files EXCEPT ![r] = @ \cup {made'}]
  /\ UNCHANGED <<record, machine, watching, gitdir, isolated, branch, merged,
                 proc, discarded, faults>>

AgentCommits(r) ==
  /\ AgentWorksIn(r)
  /\ gitdir[r] = "isolated"
  /\ files[r] # {}
  /\ isolated' = [isolated EXCEPT ![r] = @ \cup files[r]]
  /\ files' = [files EXCEPT ![r] = {}]
  /\ UNCHANGED <<record, machine, watching, gitdir, branch, merged, proc,
                 history, faults>>

\* The agent amends or rebases away one of its commits.
AgentRewrites(r) ==
  /\ AgentWorksIn(r)
  /\ gitdir[r] = "isolated"
  /\ Writes(r)
  /\ \E c \in isolated[r] :
       /\ isolated' = [isolated EXCEPT ![r] = (@ \ {c}) \cup {made'}]
       /\ discarded' = [discarded EXCEPT ![r] = @ \cup {c}]
  /\ UNCHANGED <<record, machine, watching, gitdir, branch, merged, files,
                 proc, faults>>

UserEditsWorktree(r) ==
  /\ \A p \in Processes : proc[p].pc \in EditsAt
  /\ gitdir[r] = "link"
  /\ Writes(r)
  /\ files' = [files EXCEPT ![r] = @ \cup {made'}]
  /\ UNCHANGED <<record, machine, watching, gitdir, isolated, branch, merged,
                 proc, discarded, faults>>

\* The session branch is merged into another local branch.
UserMerges(r) ==
  /\ ~(branch[r] \subseteq merged[r])
  /\ merged' = [merged EXCEPT ![r] = @ \cup branch[r]]
  /\ UNCHANGED <<record, machine, watching, gitdir, isolated, branch, files,
                 proc, history, faults>>

\* The time to live passes: no timestamp taken so far is recent any more.
TimePasses ==
  /\ record.recent \/ \E p \in Processes : proc[p].copy.recent
  /\ record' = [record EXCEPT !.recent = FALSE]
  /\ proc' = [p \in Processes |-> [proc[p] EXCEPT !.copy.recent = FALSE]]
  /\ UNCHANGED <<machine, watching, storage, history, faults>>

\* A container the daemon was still working on comes up.
GuestArrives ==
  /\ inFlight
  /\ inFlight' = FALSE
  /\ guestUp' = TRUE
  /\ UNCHANGED <<record, agentOn, watching, storage, proc, history, faults>>

\* The daemon restarts, or the guest exits.
GuestDies ==
  /\ guestUp
  /\ faults < MaxFaults
  /\ faults' = faults + 1
  /\ ContainerGone
  /\ UNCHANGED <<record, watching, storage, proc, history>>

Crash(p) ==
  /\ ~At(p, "idle")
  /\ proc[p].pc \in CrashAt
  /\ faults < MaxFaults
  /\ faults' = faults + 1
  /\ Fails(p)
  /\ UNCHANGED <<record, machine, storage, history>>

HostReboots ==
  /\ \A p \in Processes : proc[p].pc \in CrashAt \cup {"idle"}
  /\ faults < MaxFaults
  /\ faults' = faults + 1
  /\ guestUp' = FALSE
  /\ agentOn' = FALSE
  /\ inFlight' = FALSE
  /\ watching' = FALSE
  /\ proc' = [p \in Processes |-> Idle]
  /\ UNCHANGED <<record, storage, history>>

-----------------------------------------------------------------------------
LoadSteps(p) ==
  \/ Load(p) \/ LoadUnknown(p) \/ Inspect(p) \/ StopLoaded(p)
  \/ ExpireLoaded(p) \/ ListLoaded(p) \/ ResumeLoaded(p) \/ AttachLoaded(p)
  \/ CleanLoaded(p)

StopSteps(p) ==
  \/ RemoveContainer(p) \/ PinSnapshot(p) \/ PublishSnapshot(p)
  \/ RefuseSnapshot(p) \/ RestoreNothing(p) \/ RemoveIsolated(p)
  \/ RestoreLink(p) \/ RestoreLinkFails(p) \/ SaveStopped(p)

ResumeSteps(p) ==
  \/ CheckNotRunning(p) \/ ClearStaleContainer(p) \/ ValidateCheckpoints(p)
  \/ RefuseCheckpoints(p) \/ CheckpointWorktree(p)
  \/ PrepareWorktree(p) \/ RemoveLink(p) \/ IsolateWorktree(p)
  \/ IsolateFails(p) \/ StartGuest(p) \/ StartRefused(p) \/ StartFails(p)
  \/ TrustGuest(p) \/ TrustTimesOut(p) \/ AbortGuest(p) \/ SaveRunning(p)
  \/ StartWatch(p)

AttachSteps(p) == RequireRunning(p) \/ Touch(p)

CleanSteps(p) ==
  \/ RefuseClean(p) \/ AllowClean(p) \/ RemoveWorktree(p)
  \/ RemoveWorktreeFails(p) \/ ForgetSession(p)

Step(p) == \/ LoadSteps(p) \/ StopSteps(p) \/ ResumeSteps(p)
           \/ AttachSteps(p) \/ CleanSteps(p) \/ End(p)

Work(r) == \/ AgentEdits(r) \/ AgentCommits(r) \/ AgentRewrites(r)
           \/ UserEditsWorktree(r) \/ UserMerges(r)

Next ==
  \/ \E p \in Processes : \/ \E c \in CommandNames : Begin(p, c)
                          \/ Step(p)
                          \/ Crash(p)
  \/ \E r \in Repos : Work(r)
  \/ TimePasses \/ GuestArrives \/ GuestDies \/ HostReboots

Spec == Init /\ [][Next]_vars

(***************************************************************************)
(* A process that is alive goes on, and the watcher looks every minute.    *)
(* Faults and the patches written are bounded, so they end.                *)
(***************************************************************************)
FairSpec ==
  /\ Spec
  /\ \A p \in Processes : WF_vars(Step(p))
  /\ WF_vars(Begin(Watcher, "expire"))

(* The user comes back to each of the commands considered.                 *)
RetrySpec ==
  FairSpec /\ \A p \in Commands, c \in Invoked : SF_vars(Begin(p, c))

-----------------------------------------------------------------------------
(* The phases in which resume relies on nobody writing in the worktrees.   *)
Preparing == {"validate", "checkpoint", "prepare", "swap", "isolate"}

(* What WorkKept rests on: only isolated metadata holds commits of its     *)
(* own, no agent works while resume prepares the worktrees, and the one    *)
(* that is reset hard has no files.                                        *)
LifecycleInv ==
  /\ \A r \in Repos : gitdir[r] # "isolated" => isolated[r] = {}
  /\ \A p \in Processes : proc[p].pc \in Preparing => ~agentOn
  /\ \A p \in Processes :
       proc[p].pc \in {"swap", "isolate"} => files[Cur(p)] = {}

(* No two invocations, the watcher's included, run at the same time.       *)
OneAtATime ==
  \A p, q \in Processes : ~At(p, "idle") /\ ~At(q, "idle") => p = q

(***************************************************************************)
(* Properties                                                              *)
(***************************************************************************)

(* Every patch written in a worktree is in its files, in the commits of    *)
(* its isolated `.git`, or on the session branch, unless its author or a   *)
(* forced clean dropped it: stop, reconcile, resume (hard reset) and clean *)
(* lose nothing, whatever crashes in between.                              *)
WorkKept ==
  \A r \in Repos :
    written[r] \ discarded[r] \subseteq files[r] \cup isolated[r] \cup branch[r]

(* While an agent works in a guest, every worktree has the isolated `.git` *)
(* that the guest needs to commit.                                         *)
AgentHasMetadata ==
  guestUp /\ agentOn => \A r \in Repos : gitdir[r] = "isolated"

(* Only a session recorded as Running has an agent in its guest, so a      *)
(* later command finds it, stops it and imports its commits.               *)
AgentIsRecorded == guestUp /\ agentOn => Running(record)

(* A session branch in the host repository only moves forward, however     *)
(* invocations and rewritten guest histories interleave.                   *)
BranchesMoveForward ==
  [][\A r \in Repos : branch[r] \subseteq branch'[r]]_vars

(* A session whose container is lost, or that was stopped, can be resumed: *)
(* README "marks the session stopped, and makes it resumable".             *)
Resumable == record.state = "Stopped" ~> Running(record)

(* An expired session does not stay up while its watcher lives.            *)
ExpiredSessionsStop ==
  Expired(record) /\ watching ~> ~Expired(record) \/ ~watching

(* When `jbox stop` reports that the session is stopped, its guest is down *)
(* (resume refers to it for a container that is unexpectedly running).     *)
StopTakesGuestDown ==
  \A p \in Commands : At(p, "end") /\ proc[p].cmd = "stop" => ~guestUp
=============================================================================
