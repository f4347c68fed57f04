------------------------------ MODULE HostViews ------------------------------
(***************************************************************************)
(* How one repository of a session is tried out on the host.               *)
(*                                                                         *)
(* `jbox overlay` applies the uncommitted files of the worktree, as a      *)
(* patch, to the original host checkout, and keeps the patch to undo it.   *)
(* `jbox preview` stops the guest and opens a shell in a third worktree, a *)
(* copy of the session's, on a branch of its own.  A preview without edits *)
(* is discarded and the guest resumed; one with edits stays, and the next  *)
(* `jbox accept` adopts it: the session's worktree is reset to it.         *)
(*                                                                         *)
(* Stopping and starting the guest and the fast-forward of an acceptance   *)
(* are single steps here: SessionLifecycle and AcceptSnapshots have them   *)
(* in full.  `session` is the head of the session's worktree, wherever its *)
(* metadata is.  Commits and files are sets of patches; the base commit of *)
(* the session has none.                                                   *)
(***************************************************************************)
EXTENDS Naturals

CONSTANTS
  Commands,     \* jbox invocations that may run at the same time
  Invoked,      \* bound: the commands the user invokes
  CrashAt,      \* bound: phases in which an invocation can die
  UserCommits,  \* bound: whether the user commits in a previewed worktree
  MaxPatches,   \* bound: patches the agent and the user write
  MaxFaults     \* bound: crashes, and patches that do not apply

VARIABLES
  state,      \* the session: "Running", "Stopped" or "Removed"
  session,    \* commits of the session
  files,      \* uncommitted patches in the session's worktree
  hostHead,   \* commits of the branch checked out in the host repository
  hostFiles,  \* uncommitted patches in the host checkout
  overlay,    \* the patch file of the active overlay
  preview,    \* the preview worktree: whether it is there, and its files
  branch,     \* the preview branch: whether it is there, and its commits
  seed,       \* the patch file the preview was filled with
  proc,       \* process -> what the invocation is doing
  made,       \* patches written so far (names the next one)
  hostWork,   \* patches the user wrote in the host checkout
  boxWork,    \* patches written in the session's worktree or the preview
  givenUp,    \* patches the user confirmed to discard
  faults      \* how much of MaxFaults is used

box == <<state, session, files>>
checkout == <<hostHead, hostFiles>>
views == <<overlay, preview, branch, seed>>
history == <<made, hostWork, boxWork, givenUp>>
vars == <<box, checkout, views, proc, history, faults>>

CommandNames == {"overlay", "undo", "preview", "accept", "resume", "clean"}
Phases == {"idle", "begin", "savePatch", "applyPatch", "reverse", "forget",
           "look", "replace", "seed", "add", "fill", "shell", "close",
           "compare", "checkpoint", "reset", "adopt", "discard", "forward",
           "resume", "start"}

ASSUME ConstantsAssumption ==
  /\ Invoked \subseteq CommandNames
  /\ CrashAt \subseteq Phases
  /\ UserCommits \in BOOLEAN
  /\ {MaxPatches, MaxFaults} \subseteq Nat

Patch == Nat
\* Something that may be there, and the patches in it.
Held == [there : BOOLEAN, patches : SUBSET Patch]
Absent == [there |-> FALSE, patches |-> {}]
Holding(patches) == [there |-> TRUE, patches |-> patches]

Idle == [pc |-> "idle", cmd |-> "preview"]

TypeOK ==
  /\ state \in {"Running", "Stopped", "Removed"}
  /\ session \in SUBSET Patch
  /\ files \in SUBSET Patch
  /\ hostHead \in SUBSET Patch
  /\ hostFiles \in SUBSET Patch
  /\ overlay \in Held
  /\ preview \in Held
  /\ branch \in Held
  /\ seed \in Held
  /\ proc \in [Commands -> [pc : Phases, cmd : CommandNames]]
  /\ made \in Nat
  /\ hostWork \in SUBSET Patch
  /\ boxWork \in SUBSET Patch
  /\ givenUp \in SUBSET Patch
  /\ faults \in Nat

Init ==
  /\ state = "Running"
  /\ session = {}
  /\ files = {}
  /\ hostHead = {}
  /\ hostFiles = {}
  /\ overlay = Absent
  /\ preview = Absent
  /\ branch = Absent
  /\ seed = Absent
  /\ proc = [p \in Commands |-> Idle]
  /\ made = 0
  /\ hostWork = {}
  /\ boxWork = {}
  /\ givenUp = {}
  /\ faults = 0

-----------------------------------------------------------------------------
At(p, phase) == proc[p].pc = phase
Goes(p, phase) == proc' = [proc EXCEPT ![p].pc = phase]

\* mutant: an invocation that ends stays what it was
EndsDone(p) == proc' = [proc EXCEPT ![p].pc = "done"]

Ends(p) == proc' = [proc EXCEPT ![p] = Idle]

\* An error, or an answer other than yes, ends the invocation.
Unless(p, wrong, phase) == IF wrong THEN Ends(p) ELSE Goes(p, phase)

Begin(p, c) ==
  /\ At(p, "idle")
  /\ c \in Invoked
  /\ state # "Removed"
  /\ proc' = [proc EXCEPT ![p] = [pc |-> "begin", cmd |-> c]]
  /\ UNCHANGED <<box, checkout, views, history, faults>>

Began(p, c) == At(p, "begin") /\ proc[p].cmd = c

\* Something fails that depends on more than the model knows (counted).
Fault ==
  /\ faults < MaxFaults
  /\ faults' = faults + 1

-----------------------------------------------------------------------------
(***************************************************************************)
(* overlay and overlay --undo                                              *)
(***************************************************************************)
OverlayBegins(p) ==
  /\ Began(p, "overlay")
  /\ Unless(p, hostHead # {} \/ overlay.there \/ hostFiles # {}, "savePatch")
  /\ UNCHANGED <<box, checkout, views, history, faults>>

SavePatch(p) ==
  /\ At(p, "savePatch")
  /\ overlay' = IF files = {} THEN overlay ELSE Holding(files)
  /\ Unless(p, files = {}, "applyPatch")
  /\ UNCHANGED <<box, checkout, preview, branch, seed, history, faults>>

ApplyPatch(p) ==
  /\ At(p, "applyPatch")
  /\ hostFiles' = hostFiles \cup overlay.patches
  /\ Ends(p)
  /\ UNCHANGED <<box, hostHead, views, history, faults>>

\* mutant: a patch that could not be applied stays on record
ApplyPatchFailsSilently(p) ==
  /\ At(p, "applyPatch")
  /\ Fault
  /\ Ends(p)
  /\ UNCHANGED <<box, checkout, views, history>>

\* `git apply` changes all files or none.
ApplyPatchFails(p) ==
  /\ At(p, "applyPatch")
  /\ Fault
  /\ overlay' = Absent
  /\ Ends(p)
  /\ UNCHANGED <<box, checkout, preview, branch, seed, history>>

UndoBegins(p) ==
  /\ Began(p, "undo")
  /\ Unless(p, hostHead # {} \/ ~overlay.there, "reverse")
  /\ UNCHANGED <<box, checkout, views, history, faults>>

\* mutant: undo restores the files of the host's HEAD
ReverseEverything(p) ==
  /\ At(p, "reverse")
  /\ overlay.patches \subseteq hostFiles
  /\ hostFiles' = {}
  /\ Goes(p, "forget")
  /\ UNCHANGED <<box, hostHead, views, history, faults>>

ReversePatch(p) ==
  /\ At(p, "reverse")
  /\ overlay.patches \subseteq hostFiles
  /\ hostFiles' = hostFiles \ overlay.patches
  /\ Goes(p, "forget")
  /\ UNCHANGED <<box, hostHead, views, history, faults>>

\* The patch is not, or not unchanged, in the files.
ReversePatchFails(p) ==
  /\ At(p, "reverse")
  /\ ~(overlay.patches \subseteq hostFiles)
  /\ Ends(p)
  /\ UNCHANGED <<box, checkout, views, history, faults>>

ForgetPatch(p) ==
  /\ At(p, "forget")
  /\ overlay' = Absent
  /\ Ends(p)
  /\ UNCHANGED <<box, checkout, preview, branch, seed, history, faults>>

-----------------------------------------------------------------------------
(***************************************************************************)
(* preview_repository                                                      *)
(***************************************************************************)
PreviewBegins(p) ==
  /\ Began(p, "preview")
  /\ state' = IF state = "Running" THEN "Stopped" ELSE state
  /\ Unless(p, state = "Removed", "look")
  /\ UNCHANGED <<session, files, checkout, views, history, faults>>

\* preview_has_changes
PreviewChanged == preview.patches # {} \/ branch.patches # session

\* An old preview is replaced, with edits only after a confirmation.
LookForPreview(p) ==
  /\ At(p, "look")
  /\ \/ ~preview.there /\ Goes(p, "seed") /\ UNCHANGED givenUp
     \/ /\ preview.there /\ ~PreviewChanged
        /\ Goes(p, "replace")
        /\ UNCHANGED givenUp
     \/ /\ preview.there /\ PreviewChanged
        /\ Goes(p, "replace")
        /\ givenUp' = givenUp \cup
             ((preview.patches \cup branch.patches) \ (session \cup files))
     \/ preview.there /\ PreviewChanged /\ Ends(p) /\ UNCHANGED givenUp
  /\ UNCHANGED <<box, checkout, views, made, hostWork, boxWork, faults>>

\* remove_preview_worktree asks git for a ref whose name has no refs/heads/,
\* is told that there is none, and leaves the preview branch.
DiscardPreview ==
  /\ preview' = Absent
  /\ seed' = Absent
  /\ UNCHANGED <<overlay, branch>>

ReplacePreview(p) ==
  /\ At(p, "replace")
  /\ DiscardPreview
  /\ Goes(p, "seed")
  /\ UNCHANGED <<box, checkout, history, faults>>

\* "refusing to replace existing host-change snapshot"
SaveSeed(p) ==
  /\ At(p, "seed")
  /\ seed' = IF seed.there \/ files = {} THEN seed ELSE Holding(files)
  /\ Unless(p, seed.there, "add")
  /\ UNCHANGED <<box, checkout, overlay, preview, branch, history, faults>>

\* `git worktree add -b`
CanAdd == hostHead = session /\ ~preview.there /\ ~branch.there

AddPreview(p) ==
  /\ At(p, "add")
  /\ CanAdd
  /\ preview' = Holding({})
  /\ branch' = Holding(session)
  /\ Goes(p, "fill")
  /\ UNCHANGED <<box, checkout, overlay, seed, history, faults>>

AddPreviewFails(p) ==
  /\ At(p, "add")
  /\ ~CanAdd
  /\ seed' = Absent
  /\ Ends(p)
  /\ UNCHANGED <<box, checkout, overlay, preview, branch, history, faults>>

FillPreview(p) ==
  /\ At(p, "fill")
  /\ preview' = Holding(preview.patches \cup seed.patches)
  /\ Goes(p, "shell")
  /\ UNCHANGED <<box, checkout, overlay, branch, seed, history, faults>>

\* The user leaves the shell, with the status of the last command in it.
ShellExits(p) ==
  /\ At(p, "shell")
  /\ \/ Unless(p, ~preview.there \/ PreviewChanged, "close")
     \/ Ends(p)
  /\ UNCHANGED <<box, checkout, views, history, faults>>

ClosePreview(p) ==
  /\ At(p, "close")
  /\ DiscardPreview
  /\ Goes(p, "resume")
  /\ UNCHANGED <<box, checkout, history, faults>>

-----------------------------------------------------------------------------
(***************************************************************************)
(* accept: adopt_preview first, when there is a preview                    *)
(***************************************************************************)
AcceptBegins(p) ==
  /\ Began(p, "accept")
  /\ IF preview.there
     THEN Unless(p, state # "Stopped", "compare")
     ELSE Goes(p, "forward")
  /\ UNCHANGED <<box, checkout, views, history, faults>>

Unchanged == IF seed.there THEN files = seed.patches ELSE files = {}

\* mutant: the session's worktree is not looked at before its reset
CompareNothing(p) ==
  /\ At(p, "compare")
  /\ Goes(p, "checkpoint")
  /\ UNCHANGED <<box, checkout, views, history, faults>>

CompareSeed(p) ==
  /\ At(p, "compare")
  /\ Unless(p, ~Unchanged, "checkpoint")
  /\ UNCHANGED <<box, checkout, views, history, faults>>

CheckpointPreview(p) ==
  /\ At(p, "checkpoint")
  /\ preview.there
  /\ branch' = Holding(branch.patches \cup preview.patches)
  /\ preview' = Holding({})
  /\ Goes(p, "reset")
  /\ UNCHANGED <<box, checkout, overlay, seed, history, faults>>

\* adopt_preview_commit: `git reset --hard HEAD`, `git clean -fd`, and
ResetWorktree(p) ==
  /\ At(p, "reset")
  /\ files' = {}
  /\ Goes(p, "adopt")
  /\ UNCHANGED <<state, session, checkout, views, history, faults>>

\* ... `git reset --hard <preview branch>`
AdoptCommit(p) ==
  /\ At(p, "adopt")
  /\ session' = branch.patches
  /\ files' = {}
  /\ Goes(p, "discard")
  /\ UNCHANGED <<state, checkout, views, history, faults>>

DiscardAdopted(p) ==
  /\ At(p, "discard")
  /\ DiscardPreview
  /\ Goes(p, "forward")
  /\ UNCHANGED <<box, checkout, history, faults>>

\* The clean host checkout is fast-forwarded; accept never looks for an
\* overlay.
ForwardHost(p) ==
  /\ At(p, "forward")
  /\ hostHead' = IF hostFiles = {} /\ hostHead \subseteq session
                 THEN session ELSE hostHead
  /\ Ends(p)
  /\ UNCHANGED <<box, hostFiles, views, history, faults>>

-----------------------------------------------------------------------------
(***************************************************************************)
(* The commands that look for a view before they change the session.       *)
(***************************************************************************)
\* mutant: resume does not look for previews
ResumeAnyway(p) ==
  /\ Began(p, "resume") \/ At(p, "resume")
  /\ Unless(p, state # "Stopped", "start")
  /\ UNCHANGED <<box, checkout, views, history, faults>>

\* `jbox resume`, and preview once it is closed
ResumeBegins(p) ==
  /\ Began(p, "resume") \/ At(p, "resume")
  /\ Unless(p, preview.there \/ state # "Stopped", "start")
  /\ UNCHANGED <<box, checkout, views, history, faults>>

\* Its checkpoint commits the files of the worktree.
StartGuest(p) ==
  /\ At(p, "start")
  /\ state' = "Running"
  /\ session' = session \cup files
  /\ files' = {}
  /\ Ends(p)
  /\ UNCHANGED <<checkout, views, history, faults>>

\* change_state: any other host branch will do, the preview branch as well
Accepted ==
  \/ session \subseteq hostHead
  \/ branch.there /\ session \subseteq branch.patches

\* The session directory goes, with the patch files in it.
CleanSession(p) ==
  /\ Began(p, "clean")
  /\ IF overlay.there \/ preview.there \/ files # {} \/ ~Accepted
     THEN UNCHANGED <<state, overlay, seed>>
     ELSE state' = "Removed" /\ overlay' = Absent /\ seed' = Absent
  /\ Ends(p)
  /\ UNCHANGED <<session, files, checkout, preview, branch, history, faults>>

-----------------------------------------------------------------------------
(***************************************************************************)
(* The agent, the user, and the ways an invocation ends early.             *)
(***************************************************************************)
Writes(who) ==
  /\ made < MaxPatches
  /\ made' = made + 1
  /\ IF who = "host"
     THEN hostWork' = hostWork \cup {made'} /\ UNCHANGED boxWork
     ELSE boxWork' = boxWork \cup {made'} /\ UNCHANGED hostWork
  /\ UNCHANGED givenUp

AgentEdits ==
  /\ state = "Running"
  /\ Writes("box")
  /\ files' = files \cup {made'}
  /\ UNCHANGED <<state, session, checkout, views, proc, faults>>

AgentCommits ==
  /\ state = "Running"
  /\ files # {}
  /\ session' = session \cup files
  /\ files' = {}
  /\ UNCHANGED <<state, checkout, views, proc, history, faults>>

\* The user waits for a command, unless it is the preview's shell.
UserMayAct == \A p \in Commands : proc[p].pc \in {"idle", "shell"}

UserEditsWorktree ==
  /\ UserMayAct
  /\ state = "Stopped"
  /\ Writes("box")
  /\ files' = files \cup {made'}
  /\ UNCHANGED <<state, session, checkout, views, proc, faults>>

UserCommitsWorktree ==
  /\ UserMayAct
  /\ preview.there => UserCommits
  /\ state = "Stopped"
  /\ files # {}
  /\ session' = session \cup files
  /\ files' = {}
  /\ UNCHANGED <<state, checkout, views, proc, history, faults>>

UserEditsPreview ==
  /\ UserMayAct
  /\ preview.there
  /\ Writes("box")
  /\ preview' = Holding(preview.patches \cup {made'})
  /\ UNCHANGED <<box, checkout, overlay, branch, seed, proc, faults>>

UserCommitsPreview ==
  /\ UserMayAct
  /\ preview.there
  /\ preview.patches # {}
  /\ branch' = Holding(branch.patches \cup preview.patches)
  /\ preview' = Holding({})
  /\ UNCHANGED <<box, checkout, overlay, seed, proc, history, faults>>

UserEditsHost ==
  /\ Writes("host")
  /\ hostFiles' = hostFiles \cup {made'}
  /\ UNCHANGED <<box, hostHead, views, proc, faults>>

UserCommitsHost ==
  /\ hostFiles # {}
  /\ hostHead' = hostHead \cup hostFiles
  /\ hostFiles' = {}
  /\ UNCHANGED <<box, views, proc, history, faults>>

Crash(p) ==
  /\ proc[p].pc \in CrashAt \ {"idle"}
  /\ Fault
  /\ Ends(p)
  /\ UNCHANGED <<box, checkout, views, history>>

-----------------------------------------------------------------------------
OverlaySteps(p) ==
  \/ OverlayBegins(p) \/ SavePatch(p) \/ ApplyPatch(p) \/ ApplyPatchFails(p)
  \/ UndoBegins(p) \/ ReversePatch(p) \/ ReversePatchFails(p)
  \/ ForgetPatch(p)

PreviewSteps(p) ==
  \/ PreviewBegins(p) \/ LookForPreview(p) \/ ReplacePreview(p)
  \/ SaveSeed(p) \/ AddPreview(p) \/ AddPreviewFails(p) \/ FillPreview(p)
  \/ ShellExits(p) \/ ClosePreview(p)

AcceptSteps(p) ==
  \/ AcceptBegins(p) \/ CompareSeed(p) \/ CheckpointPreview(p)
  \/ ResetWorktree(p) \/ AdoptCommit(p) \/ DiscardAdopted(p)
  \/ ForwardHost(p)

SessionSteps(p) == ResumeBegins(p) \/ StartGuest(p) \/ CleanSession(p)

Next ==
  \/ \E p \in Commands : \/ \E c \in CommandNames : Begin(p, c)
                         \/ OverlaySteps(p)
                         \/ PreviewSteps(p)
                         \/ AcceptSteps(p)
                         \/ SessionSteps(p)
                         \/ Crash(p)
  \/ AgentEdits \/ AgentCommits
  \/ UserEditsWorktree \/ UserCommitsWorktree
  \/ UserEditsPreview \/ UserCommitsPreview
  \/ UserEditsHost \/ UserCommitsHost

Spec == Init /\ [][Next]_vars

-----------------------------------------------------------------------------
(* No two invocations run at the same time.                                *)
OneAtATime ==
  \A p, q \in Commands : ~At(p, "idle") /\ ~At(q, "idle") => p = q

(* The patches of the session and its views were not written in the host   *)
(* checkout: nothing flows from there into the session.                    *)
BoxPatches ==
  session \cup files \cup overlay.patches \cup preview.patches
    \cup branch.patches \cup seed.patches
Separate ==
  \A x \in BoxPatches \cup hostWork :
    x <= made /\ (x \in BoxPatches => x \notin hostWork)

(* A preview is where its session was, and the session does not move.      *)
PreviewInv ==
  /\ preview.there => state # "Running" /\ session \subseteq branch.patches
  /\ preview.there /\ (\A p \in Commands : ~At(p, "fill"))
       => seed.patches \subseteq preview.patches \cup branch.patches
  /\ ~preview.there => preview.patches = {}
  /\ ~branch.there => branch.patches = {}
  /\ ~seed.there => seed.patches = {}

GuestIsDown ==
  {"look", "replace", "seed", "add", "fill", "shell", "close", "resume",
   "compare", "checkpoint", "reset", "adopt", "discard", "start"}

(* What an invocation found out or did still holds in its next step.       *)
PhaseInv(p) ==
  LET pc == proc[p].pc IN
  /\ pc \in GuestIsDown => state # "Running"
  /\ pc \in {"seed", "add", "start"} => ~preview.there
  /\ pc \in {"fill", "compare"} => preview.there
  /\ pc = "replace" => preview.patches \subseteq givenUp \cup session \cup files
  /\ pc = "checkpoint" => files \subseteq preview.patches \cup branch.patches
  /\ pc = "reset" => files \subseteq branch.patches
  /\ pc = "adopt" => files = {}
  /\ pc \in {"checkpoint", "reset", "adopt"} => session \subseteq branch.patches
  /\ pc \in {"reset", "adopt", "discard", "close"} => preview.patches = {}

ViewInv == PreviewInv /\ \A p \in Commands : PhaseInv(p)

(***************************************************************************)
(* Properties                                                              *)
(***************************************************************************)

(* What the user wrote in the host checkout survives every overlay and its *)
(* undo, which is to "remove only this overlay".                           *)
HostWorkKept == hostWork \subseteq hostFiles \cup hostHead

(* What was written in the session's worktree or in its preview is still   *)
(* in one of them or accepted, unless the user agreed to discard it:       *)
(* adoption resets the worktree hard, and previews are removed by force.   *)
BoxWorkKept ==
  boxWork \ givenUp \subseteq
    session \cup files \cup preview.patches \cup branch.patches \cup hostHead

(* The patch file of an overlay stands for a patch in the checkout: it can *)
(* be undone, and until then clean refuses with reason.                    *)
OverlayIsApplied ==
  overlay.there /\ (\A p \in Commands : ~At(p, "applyPatch") /\ ~At(p, "forget"))
    => overlay.patches \subseteq hostFiles \cup hostHead

(* No guest works in a worktree whose preview is open, so what is adopted  *)
(* later replaces nothing newer.                                           *)
GuestDownInPreview == preview.there => state # "Running"

(* A preview that is gone takes its private branch with it, so the next    *)
(* one can be made.                                                        *)
NoBranchWithoutPreview ==
  (\A p \in Commands : At(p, "idle")) => (branch.there => preview.there)
=============================================================================
