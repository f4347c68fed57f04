-------------------------- MODULE HostViews_proofs --------------------------
(***************************************************************************)
(* Proofs about HostViews, for any set of commands and any bounds: types;  *)
(* the user's own work in the host checkout is never lost; and when        *)
(* invocations do not overlap, neither is the work in the session and its  *)
(* preview, and no guest runs beside an open preview; and an overlay on    *)
(* record is in the checkout.                                              *)
(***************************************************************************)
EXTENDS HostViews, TLAPS

-----------------------------------------------------------------------------
(***************************************************************************)
(* Type correctness                                                        *)
(***************************************************************************)

LEMMA PhaseNames ==
  /\ "idle" \in Phases
  /\ "begin" \in Phases
  /\ "savePatch" \in Phases
  /\ "applyPatch" \in Phases
  /\ "reverse" \in Phases
  /\ "forget" \in Phases
  /\ "look" \in Phases
  /\ "replace" \in Phases
  /\ "seed" \in Phases
  /\ "add" \in Phases
  /\ "fill" \in Phases
  /\ "shell" \in Phases
  /\ "close" \in Phases
  /\ "compare" \in Phases
  /\ "checkpoint" \in Phases
  /\ "reset" \in Phases
  /\ "adopt" \in Phases
  /\ "discard" \in Phases
  /\ "forward" \in Phases
  /\ "resume" \in Phases
  /\ "start" \in Phases
BY DEF Phases

ProcessType == proc \in [Commands -> [pc : Phases, cmd : CommandNames]]

LEMMA MovesKeepType ==
  ASSUME ProcessType, NEW p \in Commands
  PROVE  /\ Ends(p) => ProcessType'
         /\ \A phase \in Phases : Goes(p, phase) => ProcessType'
         /\ \A phase \in Phases, wrong \in BOOLEAN :
              Unless(p, wrong, phase) => ProcessType'
<1>1. Idle \in [pc : Phases, cmd : CommandNames]
  BY PhaseNames DEF Idle, CommandNames
<1>2. Ends(p) => ProcessType'
  BY <1>1 DEF Ends, ProcessType
<1>3. \A phase \in Phases : Goes(p, phase) => ProcessType'
  BY DEF Goes, ProcessType
<1>4. QED
  BY <1>2, <1>3 DEF Unless

\* The steps that commands take.
Step(p) ==
  \/ \E c \in CommandNames : Begin(p, c)
  \/ OverlaySteps(p)
  \/ PreviewSteps(p)
  \/ AcceptSteps(p)
  \/ SessionSteps(p)
  \/ Crash(p)

\* What happens beside them.
Surroundings ==
  \/ AgentEdits \/ AgentCommits
  \/ UserEditsWorktree \/ UserCommitsWorktree
  \/ UserEditsPreview \/ UserCommitsPreview
  \/ UserEditsHost \/ UserCommitsHost

LEMMA NextIsStepOrSurroundings ==
  Next => Surroundings \/ \E p \in Commands : Step(p)
BY DEF Next, Surroundings, Step

LEMMA StepKeepsProcessType ==
  ASSUME ProcessType, NEW p \in Commands, Step(p)
  PROVE  ProcessType'
<1> USE PhaseNames, MovesKeepType
<1>1. CASE \E c \in CommandNames : Begin(p, c)
  BY <1>1 DEF Begin, ProcessType
<1>2. CASE OverlaySteps(p)
  <2>1. CASE OverlayBegins(p)
    BY <2>1 DEF OverlayBegins, Unless
  <2>2. CASE SavePatch(p)
    BY <2>2 DEF SavePatch, Unless
  <2>3. CASE ApplyPatch(p) \/ ApplyPatchFails(p)
    BY <2>3 DEF ApplyPatch, ApplyPatchFails
  <2>4. CASE UndoBegins(p)
    BY <2>4 DEF UndoBegins, Unless
  <2>5. CASE ReversePatch(p) \/ ReversePatchFails(p) \/ ForgetPatch(p)
    BY <2>5 DEF ReversePatch, ReversePatchFails, ForgetPatch
  <2>6. QED
    BY <1>2, <2>1, <2>2, <2>3, <2>4, <2>5 DEF OverlaySteps
<1>3. CASE PreviewSteps(p)
  <2>1. CASE PreviewBegins(p) \/ SaveSeed(p) \/ ShellExits(p)
    BY <2>1 DEF PreviewBegins, SaveSeed, ShellExits, Unless
  <2>2. CASE LookForPreview(p)
    BY <2>2 DEF LookForPreview
  <2>3. CASE ReplacePreview(p) \/ ClosePreview(p)
    BY <2>3 DEF ReplacePreview, ClosePreview
  <2>4. CASE AddPreview(p) \/ AddPreviewFails(p) \/ FillPreview(p)
    BY <2>4 DEF AddPreview, AddPreviewFails, FillPreview
  <2>5. QED
    BY <1>3, <2>1, <2>2, <2>3, <2>4 DEF PreviewSteps
<1>4. CASE AcceptSteps(p)
  <2>1. CASE AcceptBegins(p) \/ CompareSeed(p)
    BY <2>1 DEF AcceptBegins, CompareSeed, Unless
  <2>2. CASE CheckpointPreview(p) \/ ResetWorktree(p) \/ AdoptCommit(p)
    BY <2>2 DEF CheckpointPreview, ResetWorktree, AdoptCommit
  <2>3. CASE DiscardAdopted(p) \/ ForwardHost(p)
    BY <2>3 DEF DiscardAdopted, ForwardHost
  <2>4. QED
    BY <1>4, <2>1, <2>2, <2>3 DEF AcceptSteps
<1>5. CASE SessionSteps(p)
  BY <1>5 DEF SessionSteps, ResumeBegins, StartGuest, CleanSession, Unless
<1>6. CASE Crash(p)
  BY <1>6 DEF Crash
<1>7. QED
  BY <1>1, <1>2, <1>3, <1>4, <1>5, <1>6 DEF Step

LEMMA HeldType ==
  /\ Absent \in Held
  /\ \A patches \in SUBSET Patch : Holding(patches) \in Held
  /\ \A h \in Held : h.there \in BOOLEAN /\ h.patches \in SUBSET Patch
BY DEF Absent, Holding, Held

BoxType == /\ state \in {"Running", "Stopped", "Removed"}
           /\ session \in SUBSET Patch
           /\ files \in SUBSET Patch
CheckoutType == hostHead \in SUBSET Patch /\ hostFiles \in SUBSET Patch
ViewsType == /\ overlay \in Held
             /\ preview \in Held
             /\ branch \in Held
             /\ seed \in Held
HistoryType == /\ made \in Nat
               /\ hostWork \in SUBSET Patch
               /\ boxWork \in SUBSET Patch
               /\ givenUp \in SUBSET Patch
StateType == BoxType /\ CheckoutType /\ ViewsType /\ HistoryType /\ faults \in Nat

LEMMA TypeInTwoParts == TypeOK <=> StateType /\ ProcessType
BY DEF TypeOK, StateType, BoxType, CheckoutType, ViewsType, HistoryType,
       ProcessType

LEMMA FaultType == faults \in Nat /\ Fault => faults' \in Nat
BY DEF Fault

LEMMA DiscardType == ViewsType /\ DiscardPreview => ViewsType'
BY HeldType DEF DiscardPreview, ViewsType

LEMMA StepKeepsStateType ==
  ASSUME StateType, NEW p \in Commands, Step(p)
  PROVE  StateType'
<1> USE HeldType DEF StateType, box, checkout, views, history
<1>1. CASE \E c \in CommandNames : Begin(p, c)
  BY <1>1 DEF Begin, BoxType, CheckoutType, ViewsType, HistoryType
<1>2. CASE OverlaySteps(p)
  <2> USE DEF BoxType, CheckoutType, ViewsType, HistoryType
  <2>1. CASE OverlayBegins(p) \/ UndoBegins(p) \/ ReversePatchFails(p)
    BY <2>1 DEF OverlayBegins, UndoBegins, ReversePatchFails
  <2>2. CASE SavePatch(p)
    BY <2>2 DEF SavePatch
  <2>3. CASE ApplyPatch(p) \/ ReversePatch(p)
    BY <2>3 DEF ApplyPatch, ReversePatch
  <2>4. CASE ApplyPatchFails(p)
    BY <2>4, FaultType DEF ApplyPatchFails
  <2>5. CASE ForgetPatch(p)
    BY <2>5 DEF ForgetPatch
  <2>6. QED
    BY <1>2, <2>1, <2>2, <2>3, <2>4, <2>5 DEF OverlaySteps
<1>3. CASE PreviewSteps(p)
  <2>1. CASE PreviewBegins(p) \/ ShellExits(p)
    BY <2>1 DEF PreviewBegins, ShellExits,
                BoxType, CheckoutType, ViewsType, HistoryType
  <2>2. CASE LookForPreview(p)
    BY <2>2 DEF LookForPreview, BoxType, CheckoutType, ViewsType, HistoryType
  <2>3. CASE ReplacePreview(p) \/ ClosePreview(p)
    BY <2>3, DiscardType
       DEF ReplacePreview, ClosePreview, BoxType, CheckoutType, HistoryType
  <2>4. CASE SaveSeed(p)
    BY <2>4 DEF SaveSeed, BoxType, CheckoutType, ViewsType, HistoryType
  <2>5. CASE AddPreview(p) \/ AddPreviewFails(p)
    BY <2>5
       DEF AddPreview, AddPreviewFails,
           BoxType, CheckoutType, ViewsType, HistoryType
  <2>6. CASE FillPreview(p)
    BY <2>6 DEF FillPreview, BoxType, CheckoutType, ViewsType, HistoryType
  <2>7. QED
    BY <1>3, <2>1, <2>2, <2>3, <2>4, <2>5, <2>6 DEF PreviewSteps
<1>4. CASE AcceptSteps(p)
  <2>1. CASE AcceptBegins(p) \/ CompareSeed(p)
    BY <2>1 DEF AcceptBegins, CompareSeed,
                BoxType, CheckoutType, ViewsType, HistoryType
  <2>2. CASE CheckpointPreview(p)
    BY <2>2
       DEF CheckpointPreview, BoxType, CheckoutType, ViewsType, HistoryType
  <2>3. CASE ResetWorktree(p) \/ AdoptCommit(p)
    BY <2>3 DEF ResetWorktree, AdoptCommit,
                BoxType, CheckoutType, ViewsType, HistoryType
  <2>4. CASE DiscardAdopted(p)
    BY <2>4, DiscardType DEF DiscardAdopted, BoxType, CheckoutType, HistoryType
  <2>5. CASE ForwardHost(p)
    BY <2>5 DEF ForwardHost, BoxType, CheckoutType, ViewsType, HistoryType
  <2>6. QED
    BY <1>4, <2>1, <2>2, <2>3, <2>4, <2>5 DEF AcceptSteps
<1>5. CASE SessionSteps(p)
  BY <1>5 DEF SessionSteps, ResumeBegins, StartGuest, CleanSession,
              BoxType, CheckoutType, ViewsType, HistoryType
<1>6. CASE Crash(p)
  BY <1>6, FaultType
     DEF Crash, BoxType, CheckoutType, ViewsType, HistoryType
<1>7. QED
  BY <1>1, <1>2, <1>3, <1>4, <1>5, <1>6 DEF Step

LEMMA SurroundingsKeepType ==
  ASSUME StateType, ProcessType, Surroundings
  PROVE  StateType' /\ ProcessType'
<1> USE HeldType DEF StateType, box, checkout, views, history
<1>1. ProcessType'
  BY DEF Surroundings, AgentEdits, AgentCommits, UserEditsWorktree,
         UserCommitsWorktree, UserEditsPreview, UserCommitsPreview,
         UserEditsHost, UserCommitsHost, ProcessType
<1>2. ASSUME NEW who \in {"host", "box"}, Writes(who)
      PROVE  HistoryType' /\ made' \in Patch
  <2>1. made' \in Nat
    BY <1>2 DEF Writes, HistoryType
  <2>2. hostWork' \in SUBSET Nat /\ boxWork' \in SUBSET Nat
    <3>1. hostWork \in SUBSET Nat /\ boxWork \in SUBSET Nat
      BY DEF HistoryType, Patch
    <3>2. CASE who = "host"
      BY <1>2, <2>1, <3>1, <3>2 DEF Writes
    <3>3. CASE who # "host"
      BY <1>2, <2>1, <3>1, <3>3 DEF Writes
    <3>4. QED
      BY <3>2, <3>3
  <2>3. givenUp' \in SUBSET Nat
    BY <1>2 DEF Writes, HistoryType, Patch
  <2>4. QED
    BY <2>1, <2>2, <2>3 DEF HistoryType, Patch
<1>3. CASE AgentEdits \/ UserEditsWorktree
  BY <1>1, <1>2, <1>3
     DEF AgentEdits, UserEditsWorktree, BoxType, CheckoutType, ViewsType
<1>4. CASE AgentCommits \/ UserCommitsWorktree
  BY <1>1, <1>4 DEF AgentCommits, UserCommitsWorktree,
              BoxType, CheckoutType, ViewsType, HistoryType
<1>5. CASE UserEditsPreview
  BY <1>1, <1>2, <1>5
     DEF UserEditsPreview, BoxType, CheckoutType, ViewsType
<1>6. CASE UserCommitsPreview
  BY <1>1, <1>6 DEF UserCommitsPreview,
              BoxType, CheckoutType, ViewsType, HistoryType
<1>7. CASE UserEditsHost
  BY <1>1, <1>2, <1>7
     DEF UserEditsHost, BoxType, CheckoutType, ViewsType
<1>8. CASE UserCommitsHost
  BY <1>1, <1>8 DEF UserCommitsHost,
              BoxType, CheckoutType, ViewsType, HistoryType
<1>9. QED
  BY <1>1, <1>3, <1>4, <1>5, <1>6, <1>7, <1>8 DEF Surroundings

LEMMA InitType == Init => TypeOK
BY HeldType, PhaseNames DEF Init, TypeOK, Idle, CommandNames

LEMMA StepType == TypeOK /\ [Next]_vars => TypeOK'
<1> SUFFICES ASSUME TypeOK, [Next]_vars  PROVE TypeOK'
  OBVIOUS
<1>1. CASE Surroundings
  BY <1>1, TypeInTwoParts, SurroundingsKeepType
     DEF TypeOK, StateType, BoxType, CheckoutType, ViewsType, HistoryType,
         ProcessType
<1>2. ASSUME NEW p \in Commands, Step(p)
      PROVE  TypeOK'
  BY <1>2, TypeInTwoParts, StepKeepsStateType, StepKeepsProcessType
     DEF TypeOK, StateType, BoxType, CheckoutType, ViewsType, HistoryType,
         ProcessType
<1>3. CASE UNCHANGED vars
  BY <1>3 DEF TypeOK, vars, box, checkout, views, history
<1>4. QED
  BY <1>1, <1>2, <1>3, NextIsStepOrSurroundings

\* Every reachable state is well typed, for any commands and any bounds.
THEOREM TypeCorrect == Spec => []TypeOK
<1>1. QED
  BY InitType, StepType, PTL DEF Spec

-----------------------------------------------------------------------------
(***************************************************************************)
(* The user's own work in the host checkout                                *)
(***************************************************************************)

LEMMA HeldParts ==
  /\ ~Absent.there /\ Absent.patches = {}
  /\ \A patches : /\ Holding(patches).there
                  /\ Holding(patches).patches = patches
BY DEF Absent, Holding

\* A step of a command writes nothing new.
LEMMA StepMovesPatches ==
  ASSUME NEW p \in Commands, Step(p)
  PROVE  BoxPatches' \subseteq BoxPatches /\ UNCHANGED <<made, hostWork>>
<1> USE HeldParts DEF BoxPatches, box, checkout, views, history
<1>1. CASE \E c \in CommandNames : Begin(p, c)
  BY <1>1 DEF Begin
<1>2. CASE OverlaySteps(p)
  BY <1>2 DEF OverlaySteps, OverlayBegins, SavePatch, ApplyPatch,
              ApplyPatchFails, UndoBegins, ReversePatch, ReversePatchFails,
              ForgetPatch
<1>3. CASE PreviewSteps(p)
  BY <1>3 DEF PreviewSteps, PreviewBegins, LookForPreview, ReplacePreview,
              SaveSeed, AddPreview, AddPreviewFails, FillPreview, ShellExits,
              ClosePreview, DiscardPreview
<1>4. CASE AcceptSteps(p)
  BY <1>4 DEF AcceptSteps, AcceptBegins, CompareSeed, CheckpointPreview,
              ResetWorktree, AdoptCommit, DiscardAdopted, ForwardHost,
              DiscardPreview
<1>5. CASE SessionSteps(p)
  BY <1>5 DEF SessionSteps, ResumeBegins, StartGuest, CleanSession
<1>6. CASE Crash(p)
  BY <1>6 DEF Crash
<1>7. QED
  BY <1>1, <1>2, <1>3, <1>4, <1>5, <1>6 DEF Step

LEMMA StepKeepsHostWork ==
  ASSUME Separate, HostWorkKept, NEW p \in Commands, Step(p)
  PROVE  HostWorkKept'
<1> USE DEF HostWorkKept, box, checkout, views, history
<1>1. CASE ApplyPatch(p)
  BY <1>1 DEF ApplyPatch
<1>2. CASE ReversePatch(p)
  BY <1>2 DEF ReversePatch, Separate, BoxPatches
<1>3. CASE ForwardHost(p)
  BY <1>3 DEF ForwardHost
<1>4. CASE UNCHANGED <<hostHead, hostFiles, hostWork>>
  BY <1>4
<1>5. QED
  BY <1>1, <1>2, <1>3, <1>4
     DEF Step, Begin, Crash, OverlaySteps, OverlayBegins, SavePatch,
         ApplyPatchFails, UndoBegins, ReversePatchFails, ForgetPatch,
         PreviewSteps, PreviewBegins, LookForPreview, ReplacePreview,
         SaveSeed, AddPreview, AddPreviewFails, FillPreview, ShellExits,
         ClosePreview, AcceptSteps, AcceptBegins, CompareSeed,
         CheckpointPreview, ResetWorktree, AdoptCommit, DiscardAdopted,
         SessionSteps, ResumeBegins, StartGuest, CleanSession

\* What the agent and the user write has a name of its own.
LEMMA WritesAreNew ==
  ASSUME TypeOK, Separate, NEW who \in {"host", "box"}, Writes(who)
  PROVE  /\ made' = made + 1
         /\ made' \notin BoxPatches \cup hostWork
         /\ \A x \in BoxPatches \cup hostWork : x <= made'
         /\ who = "box" => hostWork' = hostWork
         /\ who = "host" => hostWork' = hostWork \cup {made'}
<1>1. made' = made + 1 /\ made \in Nat
  BY DEF Writes, TypeOK
<1>2. BoxPatches \cup hostWork \subseteq Nat
  BY DEF BoxPatches, TypeOK, Held, Patch
<1>3. \A x \in BoxPatches \cup hostWork : x <= made
  BY DEF Separate
<1>4. /\ made' \notin BoxPatches \cup hostWork
      /\ \A x \in BoxPatches \cup hostWork : x <= made'
  <2> DEFINE S == BoxPatches \cup hostWork
  <2> HIDE DEF S
  <2>1. S \subseteq Nat /\ \A x \in S : x <= made
    BY <1>2, <1>3 DEF S
  <2>2. made' \notin S /\ \A x \in S : x <= made'
    BY <2>1, <1>1
  <2>3. QED
    BY <2>2 DEF S
<1>5. QED
  BY <1>1, <1>4 DEF Writes

LEMMA SurroundingsKeepHostWork ==
  ASSUME TypeOK, Separate, HostWorkKept, Surroundings
  PROVE  Separate' /\ HostWorkKept'
<1> USE DEF box, checkout, views, history
<1>1. CASE AgentEdits \/ UserEditsWorktree \/ UserEditsPreview
  <2>1. Writes("box")
    BY <1>1 DEF AgentEdits, UserEditsWorktree, UserEditsPreview
  <2>2. BoxPatches' \subseteq BoxPatches \cup {made'}
    BY <1>1, HeldParts
       DEF AgentEdits, UserEditsWorktree, UserEditsPreview, BoxPatches
  <2>3. made' <= made'
    BY <2>1 DEF Writes, TypeOK
  <2>4. UNCHANGED <<hostHead, hostFiles>>
    BY <1>1 DEF AgentEdits, UserEditsWorktree, UserEditsPreview
  <2>5. QED
    BY <2>1, <2>2, <2>3, <2>4, WritesAreNew DEF Separate, HostWorkKept
<1>2. CASE UserEditsHost
  <2>1. Writes("host")
    BY <1>2 DEF UserEditsHost
  <2>2. BoxPatches' = BoxPatches
    BY <1>2 DEF UserEditsHost, BoxPatches
  <2>3. made' <= made'
    BY <2>1 DEF Writes, TypeOK
  <2>4. hostHead' = hostHead /\ hostFiles' = hostFiles \cup {made'}
    BY <1>2 DEF UserEditsHost
  <2>5. QED
    BY <2>1, <2>2, <2>3, <2>4, WritesAreNew DEF Separate, HostWorkKept
<1>3. CASE AgentCommits \/ UserCommitsWorktree \/ UserCommitsPreview
  <2>1. BoxPatches' \subseteq BoxPatches /\ UNCHANGED <<made, hostWork>>
    BY <1>3, HeldParts
       DEF AgentCommits, UserCommitsWorktree, UserCommitsPreview, BoxPatches
  <2>2. UNCHANGED <<hostHead, hostFiles>>
    BY <1>3 DEF AgentCommits, UserCommitsWorktree, UserCommitsPreview
  <2>3. QED
    BY <2>1, <2>2 DEF Separate, HostWorkKept
<1>4. CASE UserCommitsHost
  BY <1>4 DEF UserCommitsHost, Separate, BoxPatches, HostWorkKept
<1>5. QED
  BY <1>1, <1>2, <1>3, <1>4 DEF Surroundings

(* However many invocations overlap and wherever they die, overlays and    *)
(* their undo, previews and acceptances leave the work that the user wrote *)
(* in the host checkout where it is, or in a commit of its branch.         *)
THEOREM HostWorkIsKept == Spec => []HostWorkKept
<1>1. Init => Separate /\ HostWorkKept
  BY HeldParts DEF Init, Separate, BoxPatches, HostWorkKept
<1>2. TypeOK /\ Separate /\ HostWorkKept /\ [Next]_vars
        => (Separate /\ HostWorkKept)'
  <2> SUFFICES ASSUME TypeOK, Separate, HostWorkKept, [Next]_vars
               PROVE  Separate' /\ HostWorkKept'
    OBVIOUS
  <2>1. ASSUME NEW p \in Commands, Step(p)
        PROVE  Separate' /\ HostWorkKept'
    BY <2>1, StepMovesPatches, StepKeepsHostWork DEF Separate
  <2>2. CASE UNCHANGED vars
    BY <2>2
       DEF vars, box, checkout, views, history, Separate, BoxPatches,
           HostWorkKept
  <2>3. QED
    BY <2>1, <2>2, SurroundingsKeepHostWork, NextIsStepOrSurroundings
<1>3. QED
  BY <1>1, <1>2, TypeCorrect, PTL DEF Spec

-----------------------------------------------------------------------------
(***************************************************************************)
(* The work in the session's worktree and in its preview, when no two      *)
(* invocations overlap                                                     *)
(***************************************************************************)

LEMMA PhaseAfter ==
  ASSUME ProcessType, NEW p \in Commands
  PROVE  /\ Ends(p) => proc'[p].pc = "idle"
         /\ \A phase : Goes(p, phase) => proc'[p].pc = phase
         /\ \A wrong, phase :
              Unless(p, wrong, phase)
                => proc'[p].pc = IF wrong THEN "idle" ELSE phase
<1>1. Ends(p) => proc'[p].pc = "idle"
  BY DEF Ends, Idle, ProcessType
<1>2. \A phase : Goes(p, phase) => proc'[p].pc = phase
  BY DEF Goes, ProcessType
<1>3. QED
  BY <1>1, <1>2 DEF Unless

LEMMA OthersWait ==
  ASSUME ProcessType, NEW p \in Commands, Step(p)
  PROVE  /\ \A q \in Commands \ {p} : proc'[q] = proc[q]
         /\ ~At(p, "idle") \/ proc'[p].pc = "begin"
<1>1. ASSUME NEW q \in Commands \ {p}
      PROVE  /\ Ends(p) => proc'[q] = proc[q]
             /\ \A phase : Goes(p, phase) => proc'[q] = proc[q]
             /\ \A wrong, phase :
                  Unless(p, wrong, phase) => proc'[q] = proc[q]
  BY DEF Ends, Goes, Unless, ProcessType
<1>2. CASE \E c \in CommandNames : Begin(p, c)
  BY <1>2 DEF Begin, ProcessType
<1>3. CASE OverlaySteps(p)
  BY <1>1, <1>3
     DEF OverlaySteps, OverlayBegins, SavePatch, ApplyPatch, ApplyPatchFails,
         UndoBegins, ReversePatch, ReversePatchFails, ForgetPatch, At, Began
<1>4. CASE PreviewSteps(p)
  <2>1. CASE PreviewBegins(p) \/ SaveSeed(p) \/ ShellExits(p)
    BY <1>1, <2>1
       DEF PreviewBegins, SaveSeed, ShellExits, Unless, At, Began
  <2>2. CASE LookForPreview(p)
    BY <1>1, <2>2 DEF LookForPreview, At
  <2>3. CASE \/ ReplacePreview(p) \/ ClosePreview(p)
             \/ AddPreview(p) \/ AddPreviewFails(p) \/ FillPreview(p)
    BY <1>1, <2>3 DEF ReplacePreview, ClosePreview, AddPreview,
                      AddPreviewFails, FillPreview, At
  <2>4. QED
    BY <1>4, <2>1, <2>2, <2>3 DEF PreviewSteps
<1>5. CASE AcceptSteps(p)
  BY <1>1, <1>5
     DEF AcceptSteps, AcceptBegins, CompareSeed, CheckpointPreview,
         ResetWorktree, AdoptCommit, DiscardAdopted, ForwardHost, At, Began
<1>6. CASE SessionSteps(p)
  BY <1>1, <1>6
     DEF SessionSteps, ResumeBegins, StartGuest, CleanSession, At, Began
<1>7. CASE Crash(p)
  BY <1>1, <1>7 DEF Crash, At
<1>8. QED
  BY <1>2, <1>3, <1>4, <1>5, <1>6, <1>7 DEF Step

\* What PreviewInv says when only p can be filling a preview.
OwnPreviewInv(p) ==
  /\ preview.there => state # "Running" /\ session \subseteq branch.patches
  /\ preview.there /\ ~At(p, "fill")
       => seed.patches \subseteq preview.patches \cup branch.patches
  /\ ~preview.there => preview.patches = {}
  /\ ~branch.there => branch.patches = {}
  /\ ~seed.there => seed.patches = {}

SoloInv(p) == OwnPreviewInv(p) /\ PhaseInv(p) /\ BoxWorkKept

LEMMA OnlyWithGuestDown ==
  ASSUME NEW p \in Commands, proc'[p].pc \notin GuestIsDown
  PROVE  PhaseInv(p)'
BY DEF PhaseInv, GuestIsDown

\* A step that leaves the session and its preview alone, and goes on to
\* nothing that relies on them.
LEMMA QuietStep ==
  ASSUME NEW p \in Commands, SoloInv(p), ~At(p, "fill"),
         proc'[p].pc \notin GuestIsDown,
         UNCHANGED <<box, hostHead, preview, branch, boxWork, givenUp>>,
         UNCHANGED seed
  PROVE  SoloInv(p)'
<1>1. PhaseInv(p)'
  BY OnlyWithGuestDown
<1>2. OwnPreviewInv(p)'
  BY DEF SoloInv, OwnPreviewInv, box
<1>3. BoxWorkKept'
  BY DEF SoloInv, BoxWorkKept, box
<1>4. QED
  BY <1>1, <1>2, <1>3 DEF SoloInv

LEMMA FreePhases ==
  {"idle", "begin", "savePatch", "applyPatch", "reverse", "forget", "forward"}
    \cap GuestIsDown = {}
BY DEF GuestIsDown

LEMMA OverlayStepsSafe ==
  ASSUME ProcessType, NEW p \in Commands, SoloInv(p), OverlaySteps(p)
  PROVE  SoloInv(p)'
<1> USE DEF box, checkout, views, history
<1>1. ~At(p, "fill")
  BY DEF OverlaySteps, OverlayBegins, SavePatch, ApplyPatch, ApplyPatchFails,
         UndoBegins, ReversePatch, ReversePatchFails, ForgetPatch, At, Began
<1>2. UNCHANGED <<box, hostHead, preview, branch, boxWork, givenUp, seed>>
  BY DEF OverlaySteps, OverlayBegins, SavePatch, ApplyPatch, ApplyPatchFails,
         UndoBegins, ReversePatch, ReversePatchFails, ForgetPatch
<1>3. proc'[p].pc \in {"idle", "savePatch", "applyPatch", "reverse", "forget"}
  BY PhaseAfter
     DEF OverlaySteps, OverlayBegins, SavePatch, ApplyPatch, ApplyPatchFails,
         UndoBegins, ReversePatch, ReversePatchFails, ForgetPatch, Unless
<1>4. proc'[p].pc \notin GuestIsDown
  BY <1>3, FreePhases
<1>5. QED
  BY <1>1, <1>2, <1>4, QuietStep

LEMMA PreviewStepsSafe ==
  ASSUME ProcessType, NEW p \in Commands, SoloInv(p), PreviewSteps(p)
  PROVE  SoloInv(p)'
<1> USE PhaseAfter, HeldParts
    DEF box, checkout, views, history, SoloInv, OwnPreviewInv, At, GuestIsDown
<1>1. CASE PreviewBegins(p)
  <2>1. proc[p].pc = "begin" /\ proc'[p].pc \in {"idle", "look"}
    BY <1>1 DEF PreviewBegins, Began, Unless
  <2>2. state' # "Running"
    BY <1>1 DEF PreviewBegins
  <2>3. QED
    BY <1>1, <2>1, <2>2 DEF PreviewBegins, PhaseInv, BoxWorkKept
<1>2. CASE LookForPreview(p)
  <2>1. proc[p].pc = "look" /\ proc'[p].pc \in {"idle", "seed", "replace"}
    BY <1>2 DEF LookForPreview
  <2>2. OwnPreviewInv(p)'
    BY <1>2, <2>1 DEF LookForPreview
  <2>3. PhaseInv(p)'
    BY <1>2, <2>1 DEF LookForPreview, PhaseInv, PreviewChanged
  <2>4. BoxWorkKept'
    BY <1>2 DEF LookForPreview, BoxWorkKept
  <2>5. QED
    BY <2>2, <2>3, <2>4
<1>3. CASE ReplacePreview(p)
  <2>1. proc[p].pc = "replace" /\ proc'[p].pc = "seed"
    BY <1>3 DEF ReplacePreview
  <2>2. QED
    BY <1>3, <2>1 DEF ReplacePreview, DiscardPreview, PhaseInv, BoxWorkKept
<1>4. CASE SaveSeed(p)
  <2>1. proc[p].pc = "seed" /\ proc'[p].pc \in {"idle", "add"}
    BY <1>4 DEF SaveSeed, Unless
  <2>2. QED
    BY <1>4, <2>1 DEF SaveSeed, PhaseInv, BoxWorkKept
<1>5. CASE AddPreview(p)
  <2>1. proc[p].pc = "add" /\ proc'[p].pc = "fill"
    BY <1>5 DEF AddPreview
  <2>2. QED
    BY <1>5, <2>1 DEF AddPreview, CanAdd, PhaseInv, BoxWorkKept
<1>6. CASE AddPreviewFails(p)
  <2>1. proc[p].pc = "add" /\ proc'[p].pc = "idle"
    BY <1>6 DEF AddPreviewFails
  <2>2. QED
    BY <1>6, <2>1 DEF AddPreviewFails, PhaseInv, BoxWorkKept
<1>7. CASE FillPreview(p)
  <2>1. proc[p].pc = "fill" /\ proc'[p].pc = "shell"
    BY <1>7 DEF FillPreview
  <2>2. QED
    BY <1>7, <2>1 DEF FillPreview, PhaseInv, BoxWorkKept
<1>8. CASE ShellExits(p)
  <2>1. proc[p].pc = "shell" /\ proc'[p].pc \in {"idle", "close"}
    BY <1>8 DEF ShellExits, Unless
  <2>2. proc'[p].pc = "close" => ~PreviewChanged
    BY <1>8 DEF ShellExits, Unless
  <2>3. QED
    BY <1>8, <2>1, <2>2 DEF ShellExits, PhaseInv, BoxWorkKept, PreviewChanged
<1>9. CASE ClosePreview(p)
  <2>1. proc[p].pc = "close" /\ proc'[p].pc = "resume"
    BY <1>9 DEF ClosePreview
  <2>2. QED
    BY <1>9, <2>1 DEF ClosePreview, DiscardPreview, PhaseInv, BoxWorkKept
<1>10. QED
  BY <1>1, <1>2, <1>3, <1>4, <1>5, <1>6, <1>7, <1>8, <1>9 DEF PreviewSteps

LEMMA AcceptStepsSafe ==
  ASSUME ProcessType, NEW p \in Commands, SoloInv(p), AcceptSteps(p)
  PROVE  SoloInv(p)'
<1> USE PhaseAfter, HeldParts
    DEF box, checkout, views, history, SoloInv, OwnPreviewInv, At, GuestIsDown
<1>1. CASE AcceptBegins(p)
  <2>1. /\ proc[p].pc = "begin"
        /\ proc'[p].pc \in {"idle", "compare", "forward"}
        /\ proc'[p].pc = "compare" => preview.there /\ state = "Stopped"
    BY <1>1 DEF AcceptBegins, Began, Unless
  <2>2. QED
    BY <1>1, <2>1 DEF AcceptBegins, PhaseInv, BoxWorkKept
<1>2. CASE CompareSeed(p)
  <2>1. /\ proc[p].pc = "compare"
        /\ proc'[p].pc \in {"idle", "checkpoint"}
        /\ proc'[p].pc = "checkpoint" => files = {} \/ files = seed.patches
    BY <1>2 DEF CompareSeed, Unless, Unchanged
  <2>2. QED
    BY <1>2, <2>1 DEF CompareSeed, PhaseInv, BoxWorkKept
<1>3. CASE CheckpointPreview(p)
  <2>1. proc[p].pc = "checkpoint" /\ proc'[p].pc = "reset"
    BY <1>3 DEF CheckpointPreview
  <2>2. QED
    BY <1>3, <2>1 DEF CheckpointPreview, PhaseInv, BoxWorkKept
<1>4. CASE ResetWorktree(p)
  <2>1. proc[p].pc = "reset" /\ proc'[p].pc = "adopt"
    BY <1>4 DEF ResetWorktree
  <2>2. QED
    BY <1>4, <2>1 DEF ResetWorktree, PhaseInv, BoxWorkKept
<1>5. CASE AdoptCommit(p)
  <2>1. proc[p].pc = "adopt" /\ proc'[p].pc = "discard"
    BY <1>5 DEF AdoptCommit
  <2>2. QED
    BY <1>5, <2>1 DEF AdoptCommit, PhaseInv, BoxWorkKept
<1>6. CASE DiscardAdopted(p)
  <2>1. proc[p].pc = "discard" /\ proc'[p].pc = "forward"
    BY <1>6 DEF DiscardAdopted
  <2>2. QED
    BY <1>6, <2>1 DEF DiscardAdopted, DiscardPreview, PhaseInv, BoxWorkKept
<1>7. CASE ForwardHost(p)
  <2>1. proc[p].pc = "forward" /\ proc'[p].pc = "idle"
    BY <1>7 DEF ForwardHost
  <2>2. hostHead \subseteq hostHead'
    BY <1>7 DEF ForwardHost
  <2>3. QED
    BY <1>7, <2>1, <2>2 DEF ForwardHost, PhaseInv, BoxWorkKept
<1>8. QED
  BY <1>1, <1>2, <1>3, <1>4, <1>5, <1>6, <1>7 DEF AcceptSteps

LEMMA SessionStepsSafe ==
  ASSUME ProcessType, NEW p \in Commands, SoloInv(p), SessionSteps(p)
  PROVE  SoloInv(p)'
<1> USE PhaseAfter, HeldParts
    DEF box, checkout, views, history, SoloInv, OwnPreviewInv, At, GuestIsDown
<1>1. CASE ResumeBegins(p)
  <2>1. /\ proc[p].pc \in {"begin", "resume"}
        /\ proc'[p].pc \in {"idle", "start"}
        /\ proc'[p].pc = "start" => ~preview.there /\ state = "Stopped"
    BY <1>1 DEF ResumeBegins, Began, Unless
  <2>2. QED
    BY <1>1, <2>1 DEF ResumeBegins, PhaseInv, BoxWorkKept
<1>2. CASE StartGuest(p)
  <2>1. proc[p].pc = "start" /\ proc'[p].pc = "idle"
    BY <1>2 DEF StartGuest
  <2>2. QED
    BY <1>2, <2>1 DEF StartGuest, PhaseInv, BoxWorkKept
<1>3. CASE CleanSession(p)
  <2>1. proc[p].pc = "begin" /\ proc'[p].pc = "idle"
    BY <1>3 DEF CleanSession, Began
  <2>2. QED
    BY <1>3, <2>1 DEF CleanSession, PhaseInv, BoxWorkKept
<1>4. QED
  BY <1>1, <1>2, <1>3 DEF SessionSteps

LEMMA StepSafe ==
  ASSUME ProcessType, NEW p \in Commands, SoloInv(p), Step(p),
         "fill" \notin CrashAt
  PROVE  SoloInv(p)'
<1>1. CASE \E c \in CommandNames : Begin(p, c)
  <2>1. proc[p].pc = "idle" /\ proc'[p].pc = "begin"
    BY <1>1 DEF Begin, ProcessType, At
  <2>2. UNCHANGED <<box, hostHead, preview, branch, boxWork, givenUp, seed>>
    BY <1>1 DEF Begin, box, checkout, views, history
  <2>3. QED
    BY <2>1, <2>2, FreePhases, QuietStep DEF At
<1>2. CASE Crash(p)
  <2>1. proc[p].pc # "fill" /\ proc'[p].pc = "idle"
    BY <1>2, PhaseAfter DEF Crash
  <2>2. UNCHANGED <<box, hostHead, preview, branch, boxWork, givenUp, seed>>
    BY <1>2 DEF Crash, box, checkout, views, history
  <2>3. QED
    BY <2>1, <2>2, FreePhases, QuietStep DEF At
<1>3. QED
  BY <1>1, <1>2, OverlayStepsSafe, PreviewStepsSafe, AcceptStepsSafe,
     SessionStepsSafe DEF Step

\* What the agent and the user do meanwhile.
LEMMA SurroundingsSafe ==
  ASSUME TypeOK, ViewInv, BoxWorkKept, Surroundings, UserCommits = FALSE
  PROVE  ViewInv' /\ BoxWorkKept'
<1> USE HeldParts DEF box, checkout, views, history, ViewInv, PreviewInv, At
<1>1. UNCHANGED proc
  BY DEF Surroundings, AgentEdits, AgentCommits, UserEditsWorktree,
         UserCommitsWorktree, UserEditsPreview, UserCommitsPreview,
         UserEditsHost, UserCommitsHost
<1>2. CASE AgentEdits \/ AgentCommits
  <2>1. state = "Running" /\ UNCHANGED <<state, preview, branch, seed>>
    BY <1>2 DEF AgentEdits, AgentCommits
  <2>2. \A p \in Commands : PhaseInv(p)'
    BY <1>1, <2>1, OnlyWithGuestDown DEF PhaseInv
  <2>3. PreviewInv'
    BY <1>1, <2>1
  <2>4. BoxWorkKept'
    BY <1>2 DEF AgentEdits, AgentCommits, Writes, BoxWorkKept
  <2>5. QED
    BY <2>2, <2>3, <2>4
<1>3. CASE \/ UserEditsWorktree \/ UserCommitsWorktree
           \/ UserEditsPreview \/ UserCommitsPreview
  <2>1. UserMayAct /\ state' = state /\ UNCHANGED <<hostHead, seed, givenUp>>
    BY <1>3 DEF UserEditsWorktree, UserCommitsWorktree, UserEditsPreview,
                UserCommitsPreview, Writes
  <2>2. \A p \in Commands : PhaseInv(p)'
    BY <1>1, <2>1 DEF UserMayAct, PhaseInv, GuestIsDown
  <2>3. PreviewInv'
    BY <1>1, <1>3, <2>1
       DEF UserEditsWorktree, UserCommitsWorktree, UserEditsPreview,
           UserCommitsPreview
  <2>4. BoxWorkKept'
    BY <1>3, <2>1
       DEF UserEditsWorktree, UserCommitsWorktree, UserEditsPreview,
           UserCommitsPreview, Writes, BoxWorkKept
  <2>5. QED
    BY <2>2, <2>3, <2>4
<1>4. CASE UserEditsHost \/ UserCommitsHost
  <2>1. UNCHANGED <<box, preview, branch, seed, boxWork, givenUp>>
    BY <1>4 DEF UserEditsHost, UserCommitsHost, Writes
  <2>2. hostHead \subseteq hostHead'
    BY <1>4 DEF UserEditsHost, UserCommitsHost
  <2>3. ViewInv'
    BY <1>1, <2>1 DEF PhaseInv
  <2>4. BoxWorkKept'
    BY <2>1, <2>2 DEF BoxWorkKept
  <2>5. QED
    BY <2>3, <2>4
<1>5. QED
  BY <1>2, <1>3, <1>4 DEF Surroundings

LEMMA ViewsSafe ==
  ASSUME UserCommits = FALSE, "fill" \notin CrashAt
  PROVE  Spec /\ []OneAtATime => [](ViewInv /\ BoxWorkKept)
<1>1. Init => ViewInv /\ BoxWorkKept
  BY HeldParts DEF Init, ViewInv, PreviewInv, PhaseInv, BoxWorkKept, Idle,
                   GuestIsDown
<1>2. TypeOK /\ OneAtATime /\ OneAtATime' /\ ViewInv /\ BoxWorkKept
        /\ [Next]_vars => (ViewInv /\ BoxWorkKept)'
  <2> SUFFICES ASSUME TypeOK, OneAtATime, OneAtATime', ViewInv, BoxWorkKept,
                      [Next]_vars
               PROVE  ViewInv' /\ BoxWorkKept'
    OBVIOUS
  <2>1. ASSUME NEW p \in Commands, Step(p)
        PROVE  ViewInv' /\ BoxWorkKept'
    <3>1. ProcessType
      BY TypeInTwoParts
    <3>2. \A q \in Commands \ {p} : At(q, "idle") /\ proc'[q] = proc[q]
      BY <2>1, <3>1, OthersWait DEF OneAtATime, At
    <3>3. SoloInv(p)
      BY <3>2 DEF SoloInv, OwnPreviewInv, ViewInv, PreviewInv, At
    <3>4. SoloInv(p)'
      BY <2>1, <3>1, <3>3, StepSafe
    <3>5. \A q \in Commands \ {p} : proc'[q].pc = "idle"
      BY <3>2 DEF At
    <3>6. \A q \in Commands \ {p} : PhaseInv(q)'
      BY <3>5, FreePhases, OnlyWithGuestDown
    <3>7. PreviewInv'
      BY <3>4, <3>5 DEF SoloInv, OwnPreviewInv, PreviewInv, At
    <3>8. QED
      BY <3>4, <3>6, <3>7 DEF SoloInv, ViewInv
  <2>2. CASE UNCHANGED vars
    BY <2>2 DEF vars, box, checkout, views, history, ViewInv, PreviewInv,
                PhaseInv, BoxWorkKept, At
  <2>3. QED
    BY <2>1, <2>2, SurroundingsSafe, NextIsStepOrSurroundings
<1>3. QED
  BY <1>1, <1>2, TypeCorrect, PTL DEF Spec

(* As long as no two invocations overlap, nobody commits in a worktree     *)
(* whose preview is open, and no command dies between making a preview and *)
(* filling it, previews and their adoption by `git reset --hard` lose      *)
(* nothing the agent or the user wrote, whatever else fails.               *)
THEOREM BoxWorkIsKept ==
  ASSUME UserCommits = FALSE, "fill" \notin CrashAt
  PROVE  Spec /\ []OneAtATime => []BoxWorkKept
<1>1. QED
  BY ViewsSafe, PTL

(* Under the same assumptions no guest runs beside an open preview of its  *)
(* session: neither resume nor a closed preview starts one.                *)
THEOREM GuestStaysDown ==
  ASSUME UserCommits = FALSE, "fill" \notin CrashAt
  PROVE  Spec /\ []OneAtATime => []GuestDownInPreview
<1>1. ViewInv => GuestDownInPreview
  BY DEF ViewInv, PreviewInv, GuestDownInPreview
<1>2. QED
  BY <1>1, ViewsSafe, PTL

-----------------------------------------------------------------------------
(***************************************************************************)
(* The patch of an active overlay                                          *)
(***************************************************************************)

\* Between the two halves of applying or of undoing an overlay.
Halfway(p) == At(p, "applyPatch") \/ At(p, "forget")

\* What leaves the overlay alone, or takes it off the record, and nothing of the
\* checkout away.
OverlayStands ==
  /\ overlay' = overlay \/ ~overlay'.there
  /\ hostFiles \cup hostHead \subseteq hostFiles' \cup hostHead'
  /\ \A q \in Commands : Halfway(q) => Halfway(q)'

LEMMA StandingStaysApplied == OverlayIsApplied /\ OverlayStands => OverlayIsApplied'
BY DEF OverlayIsApplied, OverlayStands, Halfway

\* A process that is not halfway leaves the others where they are.
LEMMA OthersStayHalfway ==
  ASSUME ProcessType, NEW p \in Commands, ~Halfway(p),
         \A q \in Commands : q # p => proc'[q] = proc[q]
  PROVE  \A q \in Commands : Halfway(q) => Halfway(q)'
BY DEF Halfway, At

LEMMA StepKeepsOverlay ==
  ASSUME TypeOK, OverlayIsApplied, NEW p \in Commands, Step(p),
         CrashAt \cap {"applyPatch", "forget"} = {}
  PROVE  OverlayIsApplied'
<1> USE DEF box, checkout, views, history
<1>1. ProcessType /\ overlay \in Held
  BY TypeInTwoParts DEF TypeOK
<1>2. \A q \in Commands : q # p => proc'[q] = proc[q]
  BY <1>1, OthersWait
<1>3. CASE SavePatch(p)
  <2>1. CASE files = {}
    <3>1. ~Halfway(p)
      BY <1>3 DEF SavePatch, At, Halfway
    <3>2. QED
      BY <1>1, <1>2, <1>3, <2>1, <3>1, OthersStayHalfway, StandingStaysApplied
         DEF SavePatch, OverlayStands
  <2>2. CASE files # {}
    <3>1. At(p, "applyPatch")'
      BY <1>1, <1>3, <2>2 DEF SavePatch, Unless, Goes, At, ProcessType
    <3>2. QED  BY <3>1 DEF OverlayIsApplied
  <2>3. QED  BY <2>1, <2>2
<1>4. CASE ApplyPatch(p)
  BY <1>4 DEF ApplyPatch, OverlayIsApplied
<1>5. CASE ApplyPatchFails(p) \/ ForgetPatch(p)
  BY <1>5, HeldParts DEF ApplyPatchFails, ForgetPatch, OverlayIsApplied
<1>6. CASE ReversePatch(p)
  <2>1. At(p, "forget")'
    BY <1>1, <1>6 DEF ReversePatch, Goes, At, ProcessType
  <2>2. QED  BY <2>1 DEF OverlayIsApplied
<1>7. ASSUME ~Halfway(p), overlay' = overlay \/ ~overlay'.there,
             hostFiles \cup hostHead \subseteq hostFiles' \cup hostHead'
      PROVE  OverlayIsApplied'
  BY <1>1, <1>2, <1>7, OthersStayHalfway, StandingStaysApplied DEF OverlayStands
<1>8. CASE ForwardHost(p)
  BY <1>7, <1>8 DEF ForwardHost, Halfway, At
<1>9. CASE CleanSession(p)
  BY <1>7, <1>9, HeldParts DEF CleanSession, Began, Halfway, At
<1>10. CASE UNCHANGED <<overlay, hostFiles, hostHead>> /\ ~Halfway(p)
  BY <1>7, <1>10
<1>11. QED
  BY <1>3, <1>4, <1>5, <1>6, <1>8, <1>9, <1>10
     DEF Step, Begin, Began, Crash, OverlaySteps, OverlayBegins, UndoBegins,
         ReversePatchFails, PreviewSteps, PreviewBegins, LookForPreview, ReplacePreview,
         SaveSeed, AddPreview, AddPreviewFails, FillPreview, ShellExits, ClosePreview,
         DiscardPreview, AcceptSteps, AcceptBegins, CompareSeed, CheckpointPreview,
         ResetWorktree, AdoptCommit, DiscardAdopted, SessionSteps, ResumeBegins,
         StartGuest, Halfway, At

\* As long as no command dies between saving the patch of an overlay and applying
\* it, or between reversing it and forgetting it, an overlay on record is in the
\* checkout, or the user committed it there: whatever commands overlap.
THEOREM OverlaysAreApplied ==
  ASSUME CrashAt \cap {"applyPatch", "forget"} = {}
  PROVE  Spec => []OverlayIsApplied
<1>1. Init => OverlayIsApplied
  BY HeldParts DEF Init, OverlayIsApplied
<1>2. TypeOK /\ OverlayIsApplied /\ [Next]_vars => OverlayIsApplied'
  <2> SUFFICES ASSUME TypeOK, OverlayIsApplied, [Next]_vars PROVE OverlayIsApplied'
    OBVIOUS
  <2>1. CASE Surroundings \/ UNCHANGED vars
    <3>1. UNCHANGED <<overlay, proc>>
      BY <2>1
         DEF Surroundings, vars, views, AgentEdits, AgentCommits, UserEditsWorktree,
             UserCommitsWorktree, UserEditsPreview, UserCommitsPreview, UserEditsHost,
             UserCommitsHost
    <3>2. hostFiles \cup hostHead \subseteq hostFiles' \cup hostHead'
      BY <2>1
         DEF Surroundings, vars, checkout, AgentEdits, AgentCommits, UserEditsWorktree,
             UserCommitsWorktree, UserEditsPreview, UserCommitsPreview, UserEditsHost,
             UserCommitsHost
    <3>3. \A q \in Commands : Halfway(q) => Halfway(q)'
      BY <3>1 DEF Halfway, At
    <3>4. QED  BY <3>1, <3>2, <3>3, StandingStaysApplied DEF OverlayStands
  <2>2. QED
    BY <2>1, StepKeepsOverlay, NextIsStepOrSurroundings
<1>3. QED  BY <1>1, <1>2, TypeCorrect, PTL DEF Spec

=============================================================================
