# Verification of jbox

jbox is a command line program that runs coding agents in disposable
containers. A *session* owns one git worktree and one session branch per
participating repository, a container, and a JSON record on the host. The
commands a user runs (`jbox`, `stop`, `resume`, `accept`, `rebase`, `sync`,
`clean`, ...) are separate short processes that share that record, the
container runtime and the git repositories, with no lock between them.

This directory holds TLA+ models of that behaviour, the TLC configurations that
check them, and machine-checked proofs.

## The system

| Part | State it keeps | Operations |
| --- | --- | --- |
| `src/main.rs` | none | dispatch of commands to `App`, the expiry-watch loop |
| `src/state.rs` | `sessions/<id>/session.json` | save (whole file), load, list, remove, expiry test |
| `src/lib.rs` lifecycle | session state, container, guest metadata | create, attach, stop, resume, clean, expire, reconcile, rollback of failed launches |
| `src/lib.rs` synchronization | `session.sync` journal | sync, --continue, --abort, resolve |
| `src/lib.rs` acceptance | host branches, paused merges, host stashes | accept, --all, --continue, --abort |
| `src/lib.rs` rebase | branches and paused rebases of retained worktrees | rebase |
| `src/lib.rs` host views | overlay patch, preview worktree and branch | overlay, preview, discard, adopt |
| `src/lib.rs` broker | `session.brokered_plans` | plan a brokered action (dry run) |
| `src/git.rs` | worktrees, isolated guest metadata, refs | worktree add/remove, isolate, import, restore, merge, rebase, push, change state |
| `src/engine.rs` | container | start, stop, is-running, "start is uncertain" |
| `src/paths.rs` | known_hosts, ssh config, credentials, conversation markers | trust/untrust host, read-modify-write helpers |
| `src/image.rs` | project image tags, fingerprint cache | ensure image, build, prune |
| `src/config.rs` | `.jbox.toml`, user configuration | parse, validate, resolve policy, update |
| `src/init.rs`, `src/skills.rs` | files in the guest | bootstrap, copy skills |
| `src/gpu.rs`, `src/jcode.rs` | none | device detection, conversation ids |

### How the parts interact

Every command loads the session record, works on its copy, calls git and the
container runtime, and writes the whole copy back; nothing locks the record.
A detached `jbox watch-expiry` process does the same once a minute. The agent in
the guest writes to the worktrees through a bind mount while it runs; as long as
it runs, the worktree's `.git` is an *isolated* repository, whose commits are
imported into the session branch of the host repository by `accept`, and before
the link to the host repository is restored by `stop` and by reconciliation.
Acceptance moves the branch that is checked out in the user's host repository;
overlays and previews show uncommitted work there. `sync` drives all of it for
all repositories, with a journal in the record.

What is hard: commands overlap (a watcher per session, several terminals), the
agent and the user go on meanwhile, each step can fail and the process can die
between any two of them, git stops half-way on conflicts, pushes are rejected,
and the record that is written back may be stale.

### What makes each part correct

- **Lifecycle.** No patch is lost by the hard reset that isolates a worktree, by
  restoring the link, or by clean; an agent that works has its metadata and is
  recorded; session branches only move forward; a stopped session can be
  resumed; an expired one is stopped.
- **Synchronization.** Phases are barriers across repositories; the guest is
  frozen; planned work survives everything; *pushed* in the journal means
  pushed; a journal can always be brought to its end.
- **Acceptance.** Nothing the user wrote in a host checkout is lost; all
  repositories are fast-forwarded or none; success means complete; host branches
  only move forward; a paused merge is ended only by those who may end it.
- **Host views.** An overlay can be undone and its undo removes nothing else; a
  preview excludes the guest; adoption discards nothing newer.
- **Launch, rollback, host addresses.** Storage of a failed launch is removed
  only when its guest cannot exist any more, and never under a worktree that is
  still registered; an error tells what is left; sessions whose launches do not
  overlap have different addresses.
- **Rebase.** Between plan and answer everything goes on; nothing that is written
  meanwhile is lost, no guest works in a worktree that is rebased, and success
  means that all branches are where the plan said.
- **Beads in a worktree.** What jbox or the guest's bootstrap put there is no work
  of the agent, and no work of the agent is taken for it. Tasks get into the guest
  and into its commits complete.
- **Brokered access.** A plan is allowed only by what was granted to the session,
  whatever the configuration and the remotes say by then.
- **Configuration refresh.** Beside editors and other updaters, `.jbox.toml` is
  updated in one step, and nothing in it that belongs to the project changes.
- **Images.** A guest gets an image made of inputs that were current while it was
  launched.
- **Conversations.** An attachment resumes the last conversation of its repository,
  and never the one of another.
- **Mounts.** No extra mount shows protected files of the host to a guest, or a
  place that jbox itself needs.
- **known_hosts.** Stop removes its own entry and no entry of another session.
  (Not modelled, see below.)

## The modules

Commits, files and stashes are sets of *patches* (something someone wrote, named
by a number); "is an ancestor of" is set inclusion. Only `SyncJournal` also gives
commits an object id, because replaying the same patch twice matters there. Each
action is one step between two effects on disk, in git or in the runtime, so
that a crash or another process can come in between. People, the agent, git's
conflicts and the runtime's failures are actions of the environment.

| Module | Models | State |
| --- | --- | --- |
| `SyncJournal` | `jbox sync`, `--continue`, `--abort` | branches, paused rebases, the journal on disk, the process with its copy |
| `SessionLifecycle` | stop, resume, reconnect, attach, list, expire, clean, the watcher | the record, the container, `.git` of each worktree, branches and files, one process per invocation with its copy of the record |
| `AcceptSnapshots` | accept in all its forms, `--continue`, `--abort` | host branch, files, stashes and merge of each repository; session branch, guest branch and worktree |
| `HostViews` | overlay, undo, preview, adoption by accept, refusals of resume and clean | the session, the host checkout, overlay, preview, its branch and its seed |
| `LaunchRollback` | `jbox` making a session, and taking it back; whole stops, resumes and cleans of what was made | of each launch: record, address, storage, worktrees and their registration, agent, container and Docker's request for it |
| `WorktreeRebases` | `jbox rebase` from plan to restart, with stop, resume and resolution beside it | host branches, session branches, heads, files and paused rebases of the worktrees, guest, record, the command |
| `BeadsBaseline` | the filters of `git status`, and launch, resume, stop and clean as far as they ask them | commit, index and files of one worktree, recorded snapshot and baseline |
| `BeadsTasks` | the export of tasks, the guest's bootstrap, the pre-commit hook | the task file, the guest's database, the hook's copy |
| `BrokeredAccess` | credential profiles, grants, the session's policy, `broker plan` | configuration, remotes, policy, plans, the planners |
| `AtomicRefresh` | what `init --update` promises: one step on the file | the file |
| `ConfigRefresh` | `init --update` as it is done | the file with its identity, its directory, locks, the updaters |
| `ImageCache` | digests, tags and builds of base and project image | the local Jcode, the Dockerfile, Docker's images, the launches |
| `Conversations` | markers, hooks, recovery, the choice of an attachment | markers, hooks, homes, conversations, the commands |
| `GuestMounts` | validation of extra mounts at launch and resume | host paths, configuration, the guest's mounts |
| `MCHostParts` | values of constants; the modules from `LaunchRollback` on side by side | which part a behaviour is of |
| other `MC...` | values of constants for the runs | |
| `..._proofs` | theorems and their proofs | |

`ConfigRefresh` implements `AtomicRefresh`: `RefreshIsAtomic` is the abstract
specification with `contents <- toml`, `Owned` as the part of the file that is the
project's and `Current` as "the update changes nothing". Reading, staging, checking,
locks and failures are stutters; the rename is the one step. The abstract
`Update` has to start from what the file holds at that moment, so an edit that
the updater has not seen would show.

The modules share no variables: each takes what the others do in full as single
steps of its own (`SyncJournal.StopGuest` is the whole stop of
`SessionLifecycle`; `HostViews.ForwardHost` the fast-forward of
`AcceptSnapshots`; `AcceptSnapshots.ImportSnapshot` the two halves of an import).
`PROJECT.json` maps every definition to its lines of source. The main
correspondences:

- **SyncJournal** — `PlanSync`/`ContinueSync` are `sync_plan` and the
  confirmation in `sync_from_repository`; `SaveJournal`, `StopGuest` and
  `CheckpointWorktree` its preparation; `PullHost`, `RebaseGuest`,
  `AcceptSnapshot` and `PushUpstream` the four stages in
  git, each followed by its `Save...Stage`; `AlignAccepted` is the reset of an
  accepted worktree after a host that was rebased again; `FinishSync` and
  `RestartGuest` clear the journal and start the guest; `AbortSync` is
  `abort_sync`. `Overlap` lets `ResumeCommand`, `StopCommand` and
  `AcceptCommand` run inside a sync.
- **SessionLifecycle** — `Load`, `Inspect` and the shared
  `PinSnapshot`/`PublishSnapshot`/`RemoveIsolated`/`RestoreLink` loop are
  `reconcile_runtime_state` and `stop_running_session`;
  `ValidateCheckpoints` ... `SaveRunning` are
  `restart_session_with_image_refresh` in order, with its undo loop;
  `RefuseClean` ... `ForgetSession` are `clean`; `ExpireLoaded` is
  `expire`, whose loop in `main.rs` ends at the first error (`Fails`).
- **AcceptSnapshots** — `OfferImport`/`AskMerge`/`Confirm` are the prompts,
  `ValidateCheckpoint` ... `Preflight` what `accept_snapshots` does before the
  first host moves, `MoveHost`/`MergeConflicts` the moves,
  `ApplyStash`/`FindStash`/`DropStash` are `restore_host_stash`;
  `SelectPaused`/`ReviewMerge`/`ConcludeMerge` are continue and abort.
- **HostViews** — the overlay steps are `overlay`, the preview steps
  `preview_repository`, `CompareSeed` ... `DiscardAdopted` are `adopt_preview`
  and `adopt_preview_commit`.
- **WorktreeRebases** — `AskToRebase` and `AnswerRebase` are
  `rebase_from_repository` up to its question; `StopContainer` and
  `ImportAndRestore` are `stop_running_session`, also for `jbox stop`;
  `RebaseWorktree`, `RebaseConflicts` and `RebaseRefused` are the loop over
  `rebase_worktree`; `RestartMachine` its end. A resume is one step.
- **BeadsBaseline** — `Hidden` is `without_jbox_beads_snapshot` line by line of
  `git status`; `HasChanges` is `change_state`; `CaptureBaseline` is
  `capture_beads_bootstrap` at the end of `create` and of a resume.
- **BeadsTasks** — `Hydrate` and `VerifyImport` are the bootstrap of a workspace in
  the guest's entrypoint, `BeginCommit`, `ExportTasks` and `CheckExport` the hook.
- **BrokeredAccess** — `ValidateGitAccess` with `ValidateGrant` and
  `WithinProfile` are the checks of the same names in `config.rs`; `LoadForPlan` and
  `PlanBrokeredAction` are `broker plan` with `Allows` as its chain of denials;
  `ValidateResumeConfig` is the comparison at a resume.
- **ConfigRefresh** — one action between two effects of `init::update`: lock, read,
  stage, compare, rename.
- **ImageCache** — `ensure` with its base and project builds; a digest stands for
  what is digested.
- **Conversations** — `Records` is the hook in the guest; the attachment's steps are
  `attach` with its recovery of legacy markers; `ForgetTalks` and what follows the
  resume.
- **GuestMounts** — `LoadMounts`, `ValidMounts`, `ValidSource` and
  `ContainerSpec` are `Config::load`, `validate_repositories`,
  `validate_extra_mount_with_paths` and `container_spec`; `Real` is what the kernel
  makes of a path.
- **LaunchRollback** — `ChooseHost` ... `StartAgent` are `create` in order, once
  per repository for `AddWorktree` ... `FillWorktree`; `RunGuest`,
  `RunUncertain`, `PublishesPort` and `StartupFails` are `DockerEngine::start` with
  what `create` does about its errors; `TrustFails` and `ConfirmAbsent` decide
  between rollback and `preserve_failed_launch`; `RestoreMetadata` and
  `RemoveWorktree` are the loop of `cleanup_unpublished_worktrees`,
  `DeleteStorage` the end of `rollback_failed_launch`. A request whose client is
  gone (`guest = "asked"`) is met by `DaemonCreates` at any later time. The
  constants keep the code's proportions: 253 addresses and 256 numbers become
  `HostCount` and `Width`.

## The runs

`tlc -config <run>.cfg <module>`; each finishes within three minutes on two
workers.

| Run | Module | States | What it shows |
| --- | --- | --- | --- |
| SyncTwoRepos | SyncJournal | 1.4 M | With conflicts, rejected pushes and crashes between any two steps, the phases stay barriers, the guest stays frozen, planned work is kept and is on the remote when recorded as pushed; hosts lose no patch, remotes only move forward and only when all is accepted; accepted session branches follow a host that is rebased again. |
| SyncCompletes | SyncJournal | 0.2 M | Every journal is brought to its end by `sync --continue`. |
| SyncDiscards | SyncJournal | violation | see Findings |
| LifecycleCrashes | MCSessionLifecycle | 1.5 M | One command after the other, each of which can die in any phase: no patch is lost, an agent has its metadata and a session recorded as running, session branches move forward. |
| LifecycleResumes | MCSessionLifecycle | 51 k | A stopped session is running again once resume is repeated. |
| LifecycleExpires | SessionLifecycle | 0.2 M | While its watcher lives, an expired session is stopped, beside commands that load, reconcile and touch it. |
| LifecycleDeadEnd | SessionLifecycle | violation | see Findings |
| AcceptAlone | MCAcceptSnapshots | 3.9 M | One acceptance at a time, of one or all of two repositories: nothing the user wrote is lost, all or none is fast-forwarded, success is complete. |
| AcceptOverlaps | MCAcceptSnapshots | 0.1 M | Two commands interleaved at every git command: host branches move forward, a paused merge can be brought to its end. |
| ViewsOfOneRepo | MCHostViews | 1.4 M | Overlays, previews and adoptions: the files of user and agent are kept, a recorded overlay can be undone, no guest runs beside a preview. |
| ViewsTwice | HostViews | violation | see Findings |
| HostParts | MCHostParts | 0.7 M | Launches, rebases, Beads, brokered access, configuration refresh, images, conversations and mounts, see below. |

`HostParts` is one run over parts that share no state: a behaviour is of one part
(`part`), chosen at its start, and the other parts stand still in an initial state
of theirs. Every property is about one part:

| Property | Part | In words |
| --- | --- | --- |
| `MountsAreKept`, `NoDanglingRegistration`, `FailuresAreTold`, `SharedOnlyBySimultaneous` | `LaunchRollback` | Two overlapping launches that can fail and die everywhere: no worktree goes from under a guest that may exist, storage goes only when nothing in it is registered, errors say what is left, only overlapping launches share an address. |
| `RebaseKeepsWork` | `WorktreeRebases` | What was written is in the files, on the branch, or waits in the paused rebase, wherever the command stopped; no guest works in a rebased worktree; after success every branch is on the tip that was shown and the guest is back. |
| `WorkIsExact` | `BeadsBaseline` | Through resumes, stagings, commits and deletions, a worktree counts as changed exactly when it has work of the agent, so a clean deletes none and asks for none that is not there. |
| `TasksKept` | `BeadsTasks` | A guest that answers has every issue it was given, however often a bootstrap was cut off; a commit has every issue, and as many memories, as the file had when it began, whatever other agents change under the hook. |
| `AccessIsGranted` | `BrokeredAccess` | Every allowed plan was granted at launch, protected references win over prefixes, and a guest never gets more than its launch gave it. |
| `RefreshIsAtomic` | `ConfigRefresh` | Two updaters, editors and a directory that is replaced: the refinement above. |
| `ImagesAreFresh` | `ImageCache` | An image under a tag has what the tag says, and a launch that ends has inputs that were current since it began. |
| `ConversationsContinue` | `Conversations` | A marker leads to a saved conversation of its own repository, the last one there; a recovery takes no conversation of a sibling. |
| `MountsKeepTheHost` | `GuestMounts` | No mount shows a protected path, even one that is created later or spelled through a link, or the root or metadata of a checkout, and none covers the guest's home. |
| `PartsTypeOK` | all | types |

### Bounds

- **Two repositories** are the least for which "all or none", a barrier, and a
  loop that dies in the middle mean something; liveness of sync and the overlap of
  acceptances use one, as their loops over repositories do not interact.
- **Two to four patches** (`MaxPatches`) suffice for one in each place that can
  lose it: host, session, worktree, preview; a second one in the same place
  distinguishes an older from a newer state of it.
- **One or two faults, conflicts, troubles** (`MaxFaults`, `MaxConflicts`,
  `MaxTroubles`): a crash, and another one in the recovery from it.
- **`MaxStashes`** bounds the stashes a model makes: one of jbox and one of the
  user, since the user's come only beside it.
- **`CrashAt`, `EditsAt`, `UserActsAt`** say in which phases a process may die and
  people may act. A run that leaves phases out says so at its constant in the MC
  module; what does not hold there is listed under *Known limits of what the
  code promises*.
- **Five addresses**, three of them taken, in arithmetic of eight numbers: both
  launches start at the last one, so that the search wraps around in the address
  space and in the arithmetic. Two launches, since an address is shared by pairs;
  three faults are a failure, another one in its rollback, and one of the other
  launch.
- **`HostParts`**: three items in `WorktreeRebases` (one committed before, and two of: a host
  commit, an edit, an amended commit), which is enough for a rebase that replays
  two commits and stops at either; two edits and three steps of the agent with one
  resume in `BeadsBaseline`; two issues and a memory in `BeadsTasks`, since records
  are compared by id or only counted; six configurations and three remotes in
  `BrokeredAccess`, each with one thing wrong or one rule that decides; two
  updaters and two edits in `ConfigRefresh`, so that either can come first at every
  step; two launches and two changes in `ImageCache`; a session of two repositories
  and one of a single repository, with two conversations, in `Conversations`; a
  tree of fourteen paths with two links in `GuestMounts`, of which four come to exist
  while guests run.
- Deadlock is checked in every passing run except `ViewsOfOneRepo` and `HostParts`:
  a session that was removed, with all patches written, launches that ended
  and were cleaned, and parts whose bounds are used up, have nothing left to do.

### Fairness

- `SyncJournal!FairSpec`: a started sync takes its next step; the user comes back
  to `jbox sync --continue`, agrees to the push, finishes paused rebases, moves
  files out of the way and rebases a worktree whose host branch moved. The repeated commands are strongly fair, since others can
  disable them for a while; failures and rewrites by others are bounded, so
  they end.
- `SessionLifecycle!FairSpec`: each process goes on, and the watcher's loop, which
  sleeps and looks again, begins. `RetrySpec` adds a user who comes back to each
  command. Nothing makes crashes fair.
- `AcceptSnapshots!PatientSpec`: invocations go on; the user resolves the files of
  a paused merge, repeats `accept --continue`, and says yes in the end.

## Findings

Disagreements between what the repository says and what the code does, each with
a run whose counterexample shows it:

1. **SyncDiscards** (`git.rs:1430`): the hard reset that aligns an accepted
   worktree drops a commit made in it between two sync commands, although "no
   guest-only commits or files may be discarded". Nothing else is needed:
   `ResetDiscardsNothing` proves that the reset discards no such commit as long as
   the user writes into no rebased worktree and no other command runs inside the
   sync.
2. **LifecycleDeadEnd** (`lib.rs:1260`): a resume that dies between `docker run`
   and saving `Running` leaves a guest that resume refuses, with the advice to use
   attach or stop, and that neither attach nor stop handles. `StopsTakeGuestsDown`
   proves that, for one invocation at a time, only a failure in these phases
   (`start`, `trust`, `saveRunning`) has this effect; TLC finds that each of them has.
3. **ViewsTwice** (`git.rs:156`): `remove_preview_worktree` asks for the branch
   under a name `show-ref --verify` does not accept, leaves the branch behind, and
   the next preview fails.

### Known limits of what the code promises

Met while modelling; no run of their own, but the constants of the runs keep them
out, and lifting the bound shows them:

- *Overlaps.* A resume confirmed inside a sync's prompt is written over by the
  sync (`GuestFrozen` with `Overlap = TRUE`). Two resumes can reset a worktree hard
  under a live agent (`git.rs:640`), the only overlap of lifecycle commands
  that loses work (`WorkIsKept`). A save after a clean brings the record back.
  An acceptance can adopt a preview that another terminal is still filling.
  The watcher's reconciliation writes a stale record; it also stops a session
  that was attached to a moment ago.
- *Crashes.* `.git` is removed before its link is copied (`git.rs:1235`); a
  container start whose outcome is uncertain can still bring a guest up after
  resume took its metadata back (`lib.rs:2741`); a forced clean interrupted in
  its loop cannot be finished (`lib.rs:3043`); an overlay that dies between save and
  apply, or between reversal and removal, stays on record; a preview that dies
  before it is filled is adopted empty (`lib.rs:1492`); an adoption that dies
  between its resets is refused afterwards as changed.
- *Sequences.* `clean` judges a running guest's commits by the host's branch, and
  takes a leftover preview branch for an acceptance; a checkpoint in a repository
  already pushed is never published; a refused `--stash-host` leaves the files
  stashed, although "a normal refusal never changes the host checkout"
  (`README.md:727`); a stash is dropped by its position in the list
  (`git.rs:956`); `accept --stash-host` in a checkout whose paused merge is
  resolved and staged makes git forget the merge (`git.rs:929`), although a
  conflict is "paused, not discarded" (`README.md:791`); a commit in a retained worktree whose preview is open is
  discarded by the adoption (`UserCommits = TRUE`); accept does not look for
  overlays; `jbox resume` starts no watcher, and any error ends one.
- *Launches.* Two that overlap may record the same address; if the first guest is
  up, Docker refuses the second, otherwise the two sessions cannot run together
  later. A launch that dies, or cannot save its record, after its guest started
  leaves a guest, an agent and worktrees that no command knows (`lib.rs:628`;
  `SaveFails = TRUE` violates `FailuresAreTold`).
- *Numbers.* The loopback address is computed in `u8` (`lib.rs:3598`): a debug
  build panics on the way to the last addresses, a release build tries some twice
  and others never, and so refuses while addresses are free: of the last three
  before its start at most (`RefusalMeansTaken`).
- *Rebase.* A session that another terminal resumes while `jbox rebase` waits for
  its answer is not stopped: git rebases the guest's isolated branch under it, and
  its commits can never be imported again. A rebase that was resolved to nothing and not
  continued leaves a clean worktree, over which a resume goes on (`lib.rs:2697`):
  what was replayed is on no branch then. "It never stops a guest when a sibling has
  uncommitted work" (`README.md:590`) holds for the moment of the plan only.
- *Beads.* A status line is matched to a baseline by the end of its path
  (`git.rs:1705`): with a file whose path ends alike, an edit is not seen, and clean
  deletes it without force (`Lookalikes`). In a project without Beads, an agent that
  commits its files and takes them back leaves what the bootstrap wrote, unrecorded: it
  counts as the user's. A resume that fails after the guest's
  bootstrap leaves a pristine worktree that counts as changed. The bootstrap
  compares ids only, so a memory can get lost in an import; the export of the host is
  accepted by its count of issues. A guest that is killed inside the hook leaves the
  file cut off.
- *Brokered access.* Two planners write the record from their own reading, and a plan
  is lost (`lib.rs:1214`). A protected prefix that ends in `/` protects nothing.
  Without a policy, `git.credentials` may change at a resume.
- *Configuration refresh.* An edit between the last comparison and the rename is
  overwritten (`init.rs:80`; `EditsAt`).
- *Images.* A Dockerfile edited between its digest and its reading is built under the
  old tag (`EditAt`); what else is in the build's context is in no digest.
- *Conversations.* A session that ran with a temporary home and resumes with the store
  keeps markers of conversations that are gone (`lib.rs:2668`).
- *Mounts.* A directory that contains another repository can be mounted, `.git` and
  all; a link to nowhere is taken for a path that is still to be created.
- *known_hosts.* Stop rewrites it from an earlier reading (`paths.rs:659`), so an
  entry appended meanwhile is lost.

## The proofs

`tlapm <module>.tla`. All theorems hold for every set of commands, every number
of repositories and every bound; the assumptions on constants are those named in
the modules (a positive number of repositories, bounds that are numbers, phases
that are phases, host links that lead to what exists, configurations and
files that have their fields). A theorem that needs more says so in its `ASSUME`, or as a
condition on the behaviours: `[]OneAtATime` (no two invocations overlap), or a step
the user does not take. What happens without it is under *Known limits*.

**SyncJournal_proofs.** `TypeCorrect`, then `JournalInvariant`: the safety
properties are not inductive, because between doing a stage and recording it the
journal is behind, and because a process relies on the repositories it has
already visited. `JournalInv` adds where the process is: `VisitedInv` (what
holds of all repositories before the current one in each phase), `PendingInv`
(what is already true in git but not recorded), `PlanInv` (the confirmed plan
that is not saved yet) and `RetainedInv`. From it follow `StagesAreBarriers`,
`PlannedWorkIsKept`, `PushedIsPublished`, `PushesAreOrdered`; `HostsKeepPatches`
needs only types and what replaying preserves. `GuestStaysFrozen` has its own
invariant `FreezeInv`, under `Overlap = FALSE`: with overlapping commands it is
false, see above. `SessionsAlign` is about a retry, where a host branch was rebased
again after its session was accepted. `AlignedInv` says for every position of the
process which accepted repositories are aligned (those behind it, and all of them
after the host phase), and `QuietInv` why the alignment is never skipped: what was
rebased has no files, and a paused rebase has no process beside it. It is for
behaviours in which the user writes into no worktree once it is rebased
(`LeavesRebased`); otherwise the alignment refuses, or discards (finding 1). Under the
same two conditions `ResetDiscardsNothing` says that the alignment never does
discard: by `AcceptedInv`, from acceptance on a host branch has every patch of
its session branch. It is about patches, since a second rebase of the host gives
their commits other ids, and containment of commits is false there.

**AcceptSnapshots_proofs.** `TypeCorrect`, with the ranges of the loops;
`HostsOnlyMoveForward` for any interleaving. For one invocation at a time,
`WorkIsKept`, `NoneIsRefusedHalfWay` and `SuccessMeansAll`. `Books` holds whatever
interleaves: which phases an invocation with its options can be in, and that
stashes are numbered apart. `AloneInv` says what an invocation knows on its way:
the hosts it looked at are still ready (`Looked`), those that had their turn have
the session's commits (`Moved`), the files of its stash are back before the stash
is dropped (`Back`), and the place in the list still names that stash (`Counted`).
The user acts meanwhile except between an answer of git and its use
(`UserWaits`: preflight, moves, and the drop).

**WorktreeRebases_proofs.** `RebaseTypesCorrect`; `RebaseLosesNothing` for any
interleaving with agent, user and hosts, by `RebaseInv`: while a command rebases, no
guest runs and no metadata is isolated (`GuestsAside`); a head is its branch's unless
a rebase is paused there (`OnBranch`); what was written is in files, head, or what is
left to replay, and not on the branch alone while that is to be replaced (`Kept`);
the shown targets only grow (`TargetsStand`); and who had a turn stays on its
target (`DoneStays`), without which the success at the end would not be one.

**ConfigRefresh_proofs.** Of the refresh itself, for every file: it settles
(`RefreshSettles`: a second one changes nothing), keeps the project's part
(`RefreshKeepsOwned`), and is never refused by jbox's own check
(`RefreshIsNeverRefused`). Lists of skills are compared place by place and by
counting, so that no induction is needed. Of the updaters: `RefreshTypesCorrect`, and
`RefreshImplementsAtomic`, the refinement of `AtomicRefresh`, step by step, for
editors that miss the last window (`EditorsMissTheRename`); `Unraced` says that an
updater past its comparison holds what the file holds.

**HostParts_proofs.** The parts that share no state, each with its types and its
property. `PartsTypesCorrect` puts the types together, with those of launches, rebases
and the configuration: a behaviour of `MCHostParts` is one of every part's own
specification (`PartsBehave`), which is what lets the theorems of the parts speak
about that run.

- `ImagesStayFresh`: `Catalogue`, every image holds what its tag is a digest of;
  each launch has staged, and its tag names, a version that was current since it
  began (`Staged`, `TagOf`). The project's Dockerfile is not edited between its
  digest and the build (`"projectBuild" \notin EditAt`).
- `AccessStaysGranted`: the policy in the record is the one of the grants the
  session was started with (`PolicyStands`), and each planner works with it
  (`PlannersAgree`); a plan that is granted stays so.
- `TasksAreKept`: `Hydrated`, and that a commit compared what it is about to write
  over.
- `HostStaysHidden`: a source that was checked shows nothing protected, and no
  checkout's root or metadata, *whatever appears below it later* (`GuestIsSafe`). Its
  lemmas are about paths: why one that does not exist yet already resolves to
  where it will be, and why what comes to exist makes no safe source unsafe. Links
  stand still, lead to what exists, and none lies under another (the assumption).
- `WorkStaysExact`: `BaselineInv` follows every file through start, reset, bootstrap
  and clean: where an export or generated file can be at all (`PlacedInv`), that a
  reset leaves only what is in the history (`ResetInv`), that a baseline is never
  newer than the commit (`ShownInv`), and that what the bootstrap generated is on
  record when the agent gets the guest (`CoveredInv`). For files no other path ends
  like (`DOMAIN Lookalikes = {}`). The first attempt at this proof failed
  for a reason: without a baseline, an agent that commits Beads' files and takes
  them back leaves generated files that are nobody's; `PristineIsClean` says so now.
- `TalksResume`: one resume of a session at a time, with its guest down
  (`ResumesInv`); records and attachments belong to their mount (`ApartInv`); what is
  recorded is saved, in a temporary home while the guest is up (`SavedInv`,
  `TalksInv`); and what is no longer on record is gone, or in a store the
  session will not have again (`ForgottenInv`, which needs `SettingsInv`: the
  setting changes once).

**SessionLifecycle_proofs.** `TypeCorrect`; `SessionBranchesMoveForward` for any
interleaving; `WorkIsKept`, also for commands that overlap, on stale copies of the
record, for users who do not write into a worktree in the very moment of its reset
(`EditsAt \cap {"swap", "isolate"} = {}`). Its one other condition is
`[]NobodyConnects`: no client is about to connect to a running guest while a resume
prepares the worktrees. TLC loses work without it, to two resumes and an attach; a
single invocation at a time meets it (`WorkIsKeptOneAtATime`). Its invariant says why
the hard reset is harmless: only isolated metadata holds commits of its own, no
agent works while resume prepares the worktrees, the worktree that is reset
was seen without files (`LifecycleInv`), and neither it nor the clone that is to
replace it holds what the session branch lacks (`ResetInv`, which overlaps need: another
resume may do the same reset at the same time). `AgentsHaveMetadata` and `AgentsAreRecorded` for one invocation
at a time, with no other assumption, by `AgentInv`: a record that says Running
tells the truth about a guest that is up, and no request for a container is in
flight then, so that none comes up later (`GuestInv`); and each phase has the record
it relies on, or the guest down (`PlaceInv`). `StopsTakeGuestsDown` adds
`KnownInv`: a guest that is up is recorded, or being started by the one invocation
(`KnownTo`); its condition on `CrashAt` is exactly what finding 2 needs.

**HostViews_proofs.** `TypeCorrect`; `HostWorkIsKept` for any interleaving and any
crashes, by `Separate`: no patch of the host checkout ever gets into the session or
its views, so undoing an overlay removes none of them, and a fast-forward
happens only onto commits that contain all of the host's. `BoxWorkIsKept` and
`GuestStaysDown` for invocations that do not overlap, users who do not commit in
a previewed worktree, and no death between making and filling a preview; each of
the three assumptions is needed (see the limits above). `ViewInv` relates preview,
session and seed in every phase: the session stays an ancestor of the preview
branch, the seed stays in the preview, and what adoption is about to reset was
found in both. `OverlaysAreApplied` for any interleaving, if no command dies halfway
through applying or undoing; it is inductive as it stands.

**LaunchRollback_proofs.** `TypeCorrect`; `LaunchInvariant` for any number of
overlapping launches, repositories, failures and deaths, from which `MountsKept`
and `NoneDangling` follow. `LaunchInv` says of each launch where it is:
`PreparedInv`, that exactly the worktrees before the current one are made;
`RollbackInv`, that whatever is still registered is still to be removed or
counted as failed, without which the deletion of storage could not be
justified; `GuestInv`, that no rollback begins while a container exists or a
request for one is in flight, the reason why an uncertain start preserves
everything; `RecordInv`, that the record is saved by launches that ended well.
`SharingIsSimultaneous` has its own invariant `HostInv`, over pairs of launches that
are in progress or recorded. `FailuresTold` assumes `SaveFails = FALSE` and uses
`AgentInv`; the assumption is needed (see the limits above). `RefusalMeansTaken` is
about the arithmetic of the search: `SearchTries` gives the set of addresses it
tries in numbers of any `Width`, and `Untried` those it passes over, so a
refusal is right about all others, and about all where the start is low enough.

**Only model-checked.** The liveness properties (`SyncFinishes`, `Resumable`,
`ExpiredSessionsStop`, `PausedAcceptancesEnd`), since liveness under fairness is
out of this prover's reach. Every safety invariant, action property and the
refinement that a passing run checks has its theorem.

## Not modelled

- *known_hosts* (`paths.rs:659`): removal of exactly one's own entry does not hold
  for commands that overlap, and for one at a time it is a filter over lines. Nothing
  but ssh reads the file.
- *Credential import* and *skills staging* copy files once, on request, with checks on
  their paths; nothing of it is read again by a later step.
- *Configuration parsing* beyond grants, profiles, mounts and guest paths: bounds of
  single values.
- *Command lines, timeouts of child processes, logs* of the engine adapter, argument
  parsing, *diagnostics* (doctor, prime, gpu): input and output.
- *The comparison of Jcode versions*, a pure function of two strings.
- A torn `session.json`, and the contents of files, prompts and messages, are
  abstracted away everywhere.

## Plan

Done: all modules above with their runs; a theorem for every safety property and
action property of the passing runs, and for the refinement; and for the findings
1 and 2 and the arithmetic of addresses a theorem that says what does hold.

What could still be weakened or added:

1. `BoxWorkIsKept` and `WorkIsKept` of the acceptance assume that invocations do not
   overlap. As for the lifecycle, a condition on one pair of phases may be enough.
2. What remains of a session after a crash inside `RestoreLink` or `IsolateWorktree`:
   the branch in the host, and the files.
3. The lemmas on paths and lists of `HostParts_proofs` in a module of their own.
