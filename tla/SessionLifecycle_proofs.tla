---------------------- MODULE SessionLifecycle_proofs ----------------------
(***************************************************************************)
(* Proofs about SessionLifecycle, for any set of commands, any number of   *)
(* repositories and any bounds: types, session branches that only move     *)
(* forward; that no work is lost, however invocations overlap, unless a    *)
(* client connects while worktrees are prepared; and, when they do not     *)
(* overlap, that an agent has its metadata and belongs to a running        *)
(* session, and that stop leaves no guest behind.                          *)
(***************************************************************************)
EXTENDS SessionLifecycle, TLAPS

-----------------------------------------------------------------------------
(***************************************************************************)
(* Type correctness.  The types of a process and of the rest of the state  *)
(* are kept separately, one action at a time.                              *)
(***************************************************************************)

LEMMA ReposAreNumbers ==
  /\ Repos \subseteq Nat
  /\ 1 \in Repos
  /\ \A r \in Repos : r # RepoCount => r + 1 \in Repos
BY RepoCountAssumption DEF Repos

LEMMA IdleType == Idle \in ProcessState
BY ReposAreNumbers
   DEF Idle, ProcessState, Phases, CommandNames, Purposes, Record,
       SessionStates

LEMMA PhaseNames ==
  /\ "idle" \in Phases
  /\ "load" \in Phases
  /\ "inspect" \in Phases
  /\ "loaded" \in Phases
  /\ "end" \in Phases
  /\ "remove" \in Phases
  /\ "pin" \in Phases
  /\ "publish" \in Phases
  /\ "restore" \in Phases
  /\ "link" \in Phases
  /\ "saveStopped" \in Phases
  /\ "check" \in Phases
  /\ "clear" \in Phases
  /\ "validate" \in Phases
  /\ "checkpoint" \in Phases
  /\ "prepare" \in Phases
  /\ "swap" \in Phases
  /\ "isolate" \in Phases
  /\ "start" \in Phases
  /\ "trust" \in Phases
  /\ "abort" \in Phases
  /\ "saveRunning" \in Phases
  /\ "watch" \in Phases
  /\ "require" \in Phases
  /\ "touch" \in Phases
  /\ "changes" \in Phases
  /\ "removeTree" \in Phases
  /\ "forget" \in Phases
BY DEF Phases

LEMMA PurposeNames ==
  /\ {"reconcile", "stop", "clean", "undo"} \subseteq Purposes
  /\ "stop" \in CommandNames
BY DEF Purposes, CommandNames

LEMMA GitDirNames == {"isolated", "link", "missing", "gone"} \subseteq GitDirs
BY DEF GitDirs

LEMMA RecordType ==
  /\ [state |-> "Running", recent |-> TRUE] \in Record
  /\ [state |-> "Removed", recent |-> FALSE] \in Record
  /\ \A rec \in Record : /\ [rec EXCEPT !.state = "Stopped"] \in Record
                         /\ [rec EXCEPT !.recent = TRUE] \in Record
                         /\ [rec EXCEPT !.recent = FALSE] \in Record
BY DEF Record, SessionStates

LEMMA PinType ==
  ASSUME proc \in [Processes -> ProcessState], NEW p \in Processes,
         NEW a \in SUBSET Patch, NEW b \in SUBSET Patch
  PROVE  [proc EXCEPT ![p].pc = "publish", ![p].previous = a,
                      ![p].snapshot = b] \in [Processes -> ProcessState]
<1> DEFINE s == [proc[p] EXCEPT !.pc = "publish", !.previous = a,
                                !.snapshot = b]
<1>1. s \in ProcessState
  BY PhaseNames DEF ProcessState
<1>2. [proc EXCEPT ![p] = s] \in [Processes -> ProcessState]
  <2> HIDE DEF s
  <2> QED  BY <1>1
<1>3. QED
  BY <1>2

\* How a process moves keeps its type.
LEMMA UndoesType ==
  ASSUME proc \in [Processes -> ProcessState], NEW p \in Processes, Undoes(p)
  PROVE  proc' \in [Processes -> ProcessState]
BY PhaseNames, PurposeNames, ReposAreNumbers DEF Undoes, ProcessState

LEMMA NextRepoType ==
  ASSUME proc \in [Processes -> ProcessState], NEW p \in Processes,
         NEW a \in Phases, NEW b \in Phases, NextRepo(p, a, b)
  PROVE  proc' \in [Processes -> ProcessState]
BY ReposAreNumbers DEF NextRepo, Cur, ProcessState

LEMMA MetadataRestoredType ==
  ASSUME proc \in [Processes -> ProcessState], NEW p \in Processes,
         MetadataRestored(p)
  PROVE  proc' \in [Processes -> ProcessState]
BY PhaseNames, IdleType, NextRepoType DEF MetadataRestored, Fails

\* A process that goes on, to take the guest down or to another command.
LEMMA GoesType ==
  ASSUME proc \in [Processes -> ProcessState], NEW p \in Processes,
         NEW phase \in Phases
  PROVE  /\ [proc EXCEPT ![p].pc = phase] \in [Processes -> ProcessState]
         /\ \A purpose \in Purposes :
              [proc EXCEPT ![p].pc = phase, ![p].purpose = purpose]
                \in [Processes -> ProcessState]
         /\ \A c \in CommandNames :
              [proc EXCEPT ![p].pc = phase, ![p].cmd = c]
                \in [Processes -> ProcessState]
<1>1. proc[p] \in ProcessState
  OBVIOUS
<1>2. ASSUME NEW s \in ProcessState
      PROVE  [proc EXCEPT ![p] = s] \in [Processes -> ProcessState]
  BY <1>2
<1>3. [proc[p] EXCEPT !.pc = phase] \in ProcessState
  BY <1>1 DEF ProcessState
<1>4. ASSUME NEW purpose \in Purposes
      PROVE  [proc[p] EXCEPT !.pc = phase, !.purpose = purpose] \in ProcessState
  BY <1>1, <1>4 DEF ProcessState
<1>5. ASSUME NEW c \in CommandNames
      PROVE  [proc[p] EXCEPT !.pc = phase, !.cmd = c] \in ProcessState
  BY <1>1, <1>5 DEF ProcessState
<1>6. QED
  BY <1>2, <1>3, <1>4, <1>5

LEMMA ProcessTypeKept ==
  ASSUME proc \in [Processes -> ProcessState], record \in Record,
         branch \in [Repos -> SUBSET Patch],
         isolated \in [Repos -> SUBSET Patch],
         NEW p \in Processes, Step(p)
  PROVE  proc' \in [Processes -> ProcessState]
<1>1. CASE Load(p)
  BY <1>1, PhaseNames DEF Load, At, Running, ProcessState
<1>2. CASE LoadUnknown(p)
  BY <1>2, PhaseNames, IdleType, PurposeNames
     DEF LoadUnknown, At, Goes, Fails, ProcessState
<1>3. CASE Inspect(p)
  BY <1>3, GoesType, PhaseNames, PurposeNames DEF Inspect
<1>4. CASE StopLoaded(p)
  BY <1>4, GoesType, PhaseNames, PurposeNames DEF StopLoaded
<1>5. CASE ExpireLoaded(p)
  BY <1>5, GoesType, PhaseNames, PurposeNames DEF ExpireLoaded
<1>6. CASE ListLoaded(p)
  BY <1>6, PhaseNames, PurposeNames DEF ListLoaded, At, Goes, ProcessState
<1>7. CASE ResumeLoaded(p)
  BY <1>7, PhaseNames, PurposeNames
     DEF ResumeLoaded, At, Goes, Running, ProcessState
<1>8. CASE AttachLoaded(p)
  BY <1>8, PhaseNames, IdleType, PurposeNames
     DEF AttachLoaded, At, Goes, Fails, Running, ProcessState
<1>9. CASE CleanLoaded(p)
  BY <1>9, PhaseNames, PurposeNames DEF CleanLoaded, At, Goes, ProcessState
<1>10. CASE RemoveContainer(p)
  BY <1>10, PhaseNames
     DEF RemoveContainer, At, Goes, ContainerGone, ProcessState
<1>11. CASE PinSnapshot(p)
  <2>1. proc[p].cur \in Repos
    BY DEF ProcessState
  <2>2. /\ branch[Cur(p)] \in SUBSET Patch
        /\ isolated[Cur(p)] \in SUBSET Patch
    BY <2>1 DEF Cur
  <2>3. CASE gitdir[Cur(p)] = "isolated"
    BY <1>11, <2>2, <2>3, PinType DEF PinSnapshot
  <2>4. CASE gitdir[Cur(p)] # "isolated"
    BY <1>11, <2>4, PhaseNames DEF PinSnapshot, ProcessState
  <2>5. QED
    BY <2>3, <2>4
<1>12. CASE PublishSnapshot(p)
  BY <1>12, PhaseNames DEF PublishSnapshot, At, Goes, Cur, ProcessState
<1>13. CASE RefuseSnapshot(p)
  BY <1>13, PhaseNames, IdleType DEF RefuseSnapshot, At, Fails, ProcessState
<1>14. CASE RestoreNothing(p)
  BY <1>14, PhaseNames, IdleType, ReposAreNumbers, MetadataRestoredType
     DEF RestoreNothing, At, Cur, Fails, ProcessState
<1>15. CASE RemoveIsolated(p)
  BY <1>15, PhaseNames DEF RemoveIsolated, At, Goes, Cur, ProcessState
<1>16. CASE RestoreLink(p)
  BY <1>16, PhaseNames, IdleType, ReposAreNumbers, MetadataRestoredType
     DEF RestoreLink, At, Cur, Fails, ProcessState
<1>17. CASE RestoreLinkFails(p)
  BY <1>17, PhaseNames, IdleType, ReposAreNumbers, PurposeNames,
     MetadataRestoredType
     DEF RestoreLinkFails, At, Fails, Cur, ProcessState
<1>18. CASE SaveStopped(p)
  BY <1>18, PhaseNames, PurposeNames, RecordType
     DEF SaveStopped, At, StoppedCopy, ProcessState
<1>19. CASE CheckNotRunning(p)
  BY <1>19, PhaseNames, IdleType
     DEF CheckNotRunning, At, Goes, Fails, ProcessState
<1>20. CASE ClearStaleContainer(p)
  BY <1>20, PhaseNames
     DEF ClearStaleContainer, At, Goes, ContainerGone, ProcessState
<1>21. CASE ValidateCheckpoints(p)
  BY <1>21, PhaseNames DEF ValidateCheckpoints, At, ProcessState
<1>22. CASE RefuseCheckpoints(p)
  BY <1>22, PhaseNames, IdleType DEF RefuseCheckpoints, At, Fails, ProcessState
<1>23. CASE CheckpointWorktree(p)
  BY <1>23, PhaseNames, ReposAreNumbers, NextRepoType, IdleType
     DEF CheckpointWorktree, At, Fails, Cur, ProcessState
<1>25. CASE PrepareWorktree(p)
  BY <1>25, PhaseNames, ReposAreNumbers, PurposeNames, UndoesType
     DEF PrepareWorktree, At, Cur, ProcessState
<1>26. CASE RemoveLink(p)
  BY <1>26, PhaseNames, ReposAreNumbers, PurposeNames, UndoesType
     DEF RemoveLink, At, Goes, Cur, ProcessState
<1>27. CASE IsolateWorktree(p)
  BY <1>27, PhaseNames, ReposAreNumbers, NextRepoType
     DEF IsolateWorktree, At, Cur, ProcessState
<1>28. CASE IsolateFails(p)
  BY <1>28, PhaseNames, ReposAreNumbers, PurposeNames, UndoesType
     DEF IsolateFails, At, Cur, ProcessState
<1>29. CASE StartGuest(p)
  BY <1>29, PhaseNames DEF StartGuest, At, Goes, ProcessState
<1>30. CASE StartRefused(p)
  BY <1>30, PhaseNames, ReposAreNumbers, PurposeNames, UndoesType
     DEF StartRefused, At, ProcessState
<1>31. CASE StartFails(p)
  BY <1>31, PhaseNames, ReposAreNumbers, PurposeNames, UndoesType
     DEF StartFails, At, ProcessState
<1>32. CASE TrustGuest(p)
  BY <1>32, PhaseNames DEF TrustGuest, At, Goes, ProcessState
<1>33. CASE TrustTimesOut(p)
  BY <1>33, PhaseNames DEF TrustTimesOut, At, Goes, ProcessState
<1>34. CASE AbortGuest(p)
  BY <1>34, PhaseNames, ReposAreNumbers, PurposeNames, UndoesType
     DEF AbortGuest, At, ContainerGone, ProcessState
<1>35. CASE SaveRunning(p)
  BY <1>35, PhaseNames, PurposeNames
     DEF SaveRunning, At, Goes, Running, ProcessState
<1>36. CASE StartWatch(p)
  BY <1>36, PhaseNames DEF StartWatch, At, Goes, ProcessState
<1>37. CASE RequireRunning(p)
  BY <1>37, PhaseNames, IdleType
     DEF RequireRunning, At, Goes, Fails, ProcessState
<1>38. CASE Touch(p)
  BY <1>38, PhaseNames DEF Touch, At, Goes, ProcessState
<1>39. CASE RefuseClean(p)
  BY <1>39, PhaseNames, PurposeNames DEF RefuseClean, At, Goes, ProcessState
<1>40. CASE AllowClean(p)
  BY <1>40, GoesType, PhaseNames, PurposeNames DEF AllowClean
<1>41. CASE RemoveWorktree(p)
  BY <1>41, PhaseNames, ReposAreNumbers, NextRepoType
     DEF RemoveWorktree, At, Cur, ProcessState
<1>42. CASE RemoveWorktreeFails(p)
  BY <1>42, PhaseNames, IdleType
     DEF RemoveWorktreeFails, At, Fails, ProcessState
<1>43. CASE ForgetSession(p)
  BY <1>43, PhaseNames DEF ForgetSession, At, Goes, ProcessState
<1>44. CASE End(p)
  BY <1>44, PhaseNames, IdleType DEF End, At, ProcessState
<1> QED
  BY <1>1, <1>2, <1>3, <1>4, <1>5, <1>6, <1>7, <1>8, <1>9, <1>10, <1>11, <1>12,
     <1>13, <1>14, <1>15, <1>16, <1>17, <1>18, <1>19, <1>20, <1>21, <1>22,
     <1>23, <1>25, <1>26, <1>27, <1>28, <1>29, <1>30, <1>31, <1>32,
     <1>33, <1>34, <1>35, <1>36, <1>37, <1>38, <1>39, <1>40, <1>41, <1>42,
     <1>43, <1>44
  DEF Step, LoadSteps, StopSteps, ResumeSteps, AttachSteps, CleanSteps

\* TypeOK without the processes.
StateTyped ==
  /\ record \in Record
  /\ guestUp \in BOOLEAN
  /\ inFlight \in BOOLEAN
  /\ agentOn \in BOOLEAN
  /\ watching \in BOOLEAN
  /\ gitdir \in [Repos -> GitDirs]
  /\ isolated \in [Repos -> SUBSET Patch]
  /\ branch \in [Repos -> SUBSET Patch]
  /\ merged \in [Repos -> SUBSET Patch]
  /\ files \in [Repos -> SUBSET Patch]
  /\ made \in Nat
  /\ written \in [Repos -> SUBSET Patch]
  /\ discarded \in [Repos -> SUBSET Patch]
  /\ faults \in Nat

LEMMA TypeInTwoParts ==
  TypeOK <=> StateTyped /\ proc \in [Processes -> ProcessState]
BY DEF TypeOK, StateTyped

LEMMA StateTypeKept ==
  ASSUME StateTyped, proc \in [Processes -> ProcessState],
         NEW p \in Processes, Step(p)
  PROVE  StateTyped'
<1>0. /\ proc[p].cur \in Repos
      /\ proc[p].snapshot \in SUBSET Patch
      /\ proc[p].copy \in Record
  BY DEF ProcessState
<1> USE DEF machine, storage, history
<1>1. CASE Load(p)
  BY <1>0, <1>1 DEF Load, Running, StateTyped
<1>2. CASE LoadUnknown(p)
  BY <1>0, <1>2 DEF LoadUnknown, Fails, StateTyped
<1>3. CASE Inspect(p)
  BY <1>0, <1>3 DEF Inspect, StateTyped
<1>4. CASE StopLoaded(p)
  BY <1>0, <1>4 DEF StopLoaded, Running, StateTyped
<1>5. CASE ExpireLoaded(p)
  BY <1>0, <1>5 DEF ExpireLoaded, Expired, StateTyped
<1>6. CASE ListLoaded(p)
  BY <1>0, <1>6 DEF ListLoaded, StateTyped
<1>7. CASE ResumeLoaded(p)
  BY <1>0, <1>7 DEF ResumeLoaded, Running, StateTyped
<1>8. CASE AttachLoaded(p)
  BY <1>0, <1>8 DEF AttachLoaded, Fails, Running, StateTyped
<1>9. CASE CleanLoaded(p)
  BY <1>0, <1>9 DEF CleanLoaded, StateTyped
<1>10. CASE RemoveContainer(p)
  BY <1>0, <1>10 DEF RemoveContainer, ContainerGone, StateTyped
<1>11. CASE PinSnapshot(p)
  BY <1>0, <1>11 DEF PinSnapshot, Cur, StateTyped
<1>12. CASE PublishSnapshot(p)
  BY <1>0, <1>12 DEF PublishSnapshot, Cur, StateTyped
<1>13. CASE RefuseSnapshot(p)
  BY <1>0, <1>13 DEF RefuseSnapshot, Fails, StateTyped
<1>14. CASE RestoreNothing(p)
  BY <1>0, <1>14, MetadataRestoredType
     DEF RestoreNothing, Cur, MetadataRestored, Fails, StateTyped
<1>15. CASE RemoveIsolated(p)
  BY <1>0, <1>15, GitDirNames DEF RemoveIsolated, Cur, StateTyped
<1>16. CASE RestoreLink(p)
  BY <1>0, <1>16, MetadataRestoredType, GitDirNames
     DEF RestoreLink, Cur, MetadataRestored, Fails, StateTyped
<1>17. CASE RestoreLinkFails(p)
  <2>1. watching' \in BOOLEAN
    BY <1>17 DEF RestoreLinkFails, MetadataRestored, Fails, StateTyped
  <2>2. faults' \in Nat
    BY <1>17 DEF RestoreLinkFails, StateTyped
  <2>3. QED
    BY <1>17, <2>1, <2>2 DEF RestoreLinkFails, StateTyped
<1>18. CASE SaveStopped(p)
  BY <1>0, <1>18, RecordType DEF SaveStopped, StoppedCopy, StateTyped
<1>19. CASE CheckNotRunning(p)
  BY <1>0, <1>19 DEF CheckNotRunning, Fails, StateTyped
<1>20. CASE ClearStaleContainer(p)
  BY <1>0, <1>20 DEF ClearStaleContainer, ContainerGone, StateTyped
<1>21. CASE ValidateCheckpoints(p)
  BY <1>0, <1>21 DEF ValidateCheckpoints, StateTyped
<1>22. CASE RefuseCheckpoints(p)
  BY <1>0, <1>22 DEF RefuseCheckpoints, Fails, StateTyped
<1>23. CASE CheckpointWorktree(p)
  <2>1. watching' \in BOOLEAN
    BY <1>23 DEF CheckpointWorktree, Fails, StateTyped
  <2>2. /\ isolated' \in [Repos -> SUBSET Patch]
        /\ branch' \in [Repos -> SUBSET Patch]
        /\ files' \in [Repos -> SUBSET Patch]
    BY <1>0, <1>23 DEF CheckpointWorktree, Cur, StateTyped
  <2>3. QED
    BY <1>23, <2>1, <2>2 DEF CheckpointWorktree, StateTyped
<1>25. CASE PrepareWorktree(p)
  BY <1>0, <1>25 DEF PrepareWorktree, Cur, StateTyped
<1>26. CASE RemoveLink(p)
  BY <1>0, <1>26, GitDirNames DEF RemoveLink, Cur, StateTyped
<1>27. CASE IsolateWorktree(p)
  BY <1>0, <1>27, GitDirNames DEF IsolateWorktree, Cur, StateTyped
<1>28. CASE IsolateFails(p)
  BY <1>0, <1>28 DEF IsolateFails, Cur, StateTyped
<1>29. CASE StartGuest(p)
  BY <1>0, <1>29 DEF StartGuest, StateTyped
<1>30. CASE StartRefused(p)
  BY <1>0, <1>30 DEF StartRefused, StateTyped
<1>31. CASE StartFails(p)
  <2>1. inFlight' \in BOOLEAN
    BY <1>31 DEF StartFails, StateTyped
  <2>2. QED
    BY <1>31, <2>1 DEF StartFails, StateTyped
<1>32. CASE TrustGuest(p)
  BY <1>0, <1>32 DEF TrustGuest, StateTyped
<1>33. CASE TrustTimesOut(p)
  BY <1>0, <1>33 DEF TrustTimesOut, StateTyped
<1>34. CASE AbortGuest(p)
  BY <1>0, <1>34 DEF AbortGuest, ContainerGone, StateTyped
<1>35. CASE SaveRunning(p)
  BY <1>0, <1>35, RecordType DEF SaveRunning, Running, StateTyped
<1>36. CASE StartWatch(p)
  BY <1>0, <1>36 DEF StartWatch, StateTyped
<1>37. CASE RequireRunning(p)
  BY <1>0, <1>37 DEF RequireRunning, Fails, StateTyped
<1>38. CASE Touch(p)
  BY <1>0, <1>38, RecordType DEF Touch, StateTyped
<1>39. CASE RefuseClean(p)
  BY <1>0, <1>39 DEF RefuseClean, StateTyped
<1>40. CASE AllowClean(p)
  BY <1>0, <1>40 DEF AllowClean, Running, StateTyped
<1>41. CASE RemoveWorktree(p)
  BY <1>0, <1>41, GitDirNames DEF RemoveWorktree, Cur, StateTyped
<1>42. CASE RemoveWorktreeFails(p)
  BY <1>0, <1>42 DEF RemoveWorktreeFails, Fails, StateTyped
<1>43. CASE ForgetSession(p)
  BY <1>0, <1>43, RecordType DEF ForgetSession, StateTyped
<1>44. CASE End(p)
  BY <1>0, <1>44 DEF End, StateTyped
<1> QED
  BY <1>1, <1>2, <1>3, <1>4, <1>5, <1>6, <1>7, <1>8, <1>9, <1>10, <1>11, <1>12,
     <1>13, <1>14, <1>15, <1>16, <1>17, <1>18, <1>19, <1>20, <1>21, <1>22,
     <1>23, <1>25, <1>26, <1>27, <1>28, <1>29, <1>30, <1>31, <1>32,
     <1>33, <1>34, <1>35, <1>36, <1>37, <1>38, <1>39, <1>40, <1>41, <1>42,
     <1>43, <1>44
  DEF Step, LoadSteps, StopSteps, ResumeSteps, AttachSteps, CleanSteps

-----------------------------------------------------------------------------
(***************************************************************************)
(* What a step of a command may do to its own place, to the worktrees and  *)
(* to the guest.  Other processes stay where they are; resume enters its   *)
(* preparing phases by removing the container, and reaches the hard reset  *)
(* of a worktree only by finding it clean.                                 *)
(***************************************************************************)
LEMMA PlaceKept ==
  ASSUME proc \in [Processes -> ProcessState], NEW p \in Processes, Step(p)
  PROVE  /\ \A q \in Processes : q # p => proc'[q] = proc[q]
         /\ proc'[p].pc \in Preparing
              => proc[p].pc \in Preparing \cup {"clear"}
         /\ proc'[p].pc \in {"swap", "isolate"}
              => /\ proc'[p].cur = proc[p].cur
                 /\ \/ PrepareWorktree(p) /\ CanIsolate(Cur(p))
                    \/ RemoveLink(p)
<1> USE DEF Preparing
<1>1. CASE Load(p)
  BY <1>1 DEF Load, At, Running, ProcessState
<1>2. CASE LoadUnknown(p)
  BY <1>2 DEF LoadUnknown, At, Goes, Fails, Idle, ProcessState
<1>3. CASE Inspect(p)
  BY <1>3 DEF Inspect, At, ProcessState
<1>4. CASE StopLoaded(p)
  BY <1>4 DEF StopLoaded, At, Running, ProcessState
<1>5. CASE ExpireLoaded(p)
  BY <1>5 DEF ExpireLoaded, At, Expired, ProcessState
<1>6. CASE ListLoaded(p)
  BY <1>6 DEF ListLoaded, At, Goes, ProcessState
<1>7. CASE ResumeLoaded(p)
  BY <1>7 DEF ResumeLoaded, At, Goes, Running, ProcessState
<1>8. CASE AttachLoaded(p)
  BY <1>8 DEF AttachLoaded, At, Goes, Fails, Running, Idle, ProcessState
<1>9. CASE CleanLoaded(p)
  BY <1>9 DEF CleanLoaded, At, Goes, ProcessState
<1>10. CASE RemoveContainer(p)
  BY <1>10 DEF RemoveContainer, At, Goes, ContainerGone, ProcessState
<1>11. CASE PinSnapshot(p)
  BY <1>11 DEF PinSnapshot, At, Cur, ProcessState
<1>12. CASE PublishSnapshot(p)
  BY <1>12 DEF PublishSnapshot, At, Goes, Cur, ProcessState
<1>13. CASE RefuseSnapshot(p)
  BY <1>13 DEF RefuseSnapshot, At, Fails, Idle, ProcessState
<1>14. CASE RestoreNothing(p)
  BY <1>14
     DEF RestoreNothing, At, Cur, MetadataRestored, NextRepo, Fails, Idle,
         ProcessState
<1>15. CASE RemoveIsolated(p)
  BY <1>15 DEF RemoveIsolated, At, Goes, Cur, ProcessState
<1>16. CASE RestoreLink(p)
  BY <1>16
     DEF RestoreLink, At, Cur, MetadataRestored, NextRepo, Fails, Idle,
         ProcessState
<1>17. CASE RestoreLinkFails(p)
  BY <1>17
     DEF RestoreLinkFails, At, Fails, Cur, MetadataRestored, NextRepo, Idle,
         ProcessState
<1>18. CASE SaveStopped(p)
  BY <1>18 DEF SaveStopped, At, StoppedCopy, ProcessState
<1>19. CASE CheckNotRunning(p)
  BY <1>19 DEF CheckNotRunning, At, Goes, Fails, Idle, ProcessState
<1>20. CASE ClearStaleContainer(p)
  BY <1>20 DEF ClearStaleContainer, At, Goes, ContainerGone, ProcessState
<1>21. CASE ValidateCheckpoints(p)
  BY <1>21 DEF ValidateCheckpoints, At, ProcessState
<1>22. CASE RefuseCheckpoints(p)
  BY <1>22 DEF RefuseCheckpoints, At, Fails, Idle, ProcessState
<1>23. CASE CheckpointWorktree(p)
  BY <1>23 DEF CheckpointWorktree, At, NextRepo, Fails, Idle, Cur, ProcessState
<1>25. CASE PrepareWorktree(p)
  BY <1>25 DEF PrepareWorktree, At, Cur, Undoes, ProcessState
<1>26. CASE RemoveLink(p)
  BY <1>26 DEF RemoveLink, At, Goes, Cur, Undoes, ProcessState
<1>27. CASE IsolateWorktree(p)
  BY <1>27 DEF IsolateWorktree, At, NextRepo, Cur, ProcessState
<1>28. CASE IsolateFails(p)
  BY <1>28 DEF IsolateFails, At, Cur, Undoes, ProcessState
<1>29. CASE StartGuest(p)
  BY <1>29 DEF StartGuest, At, Goes, ProcessState
<1>30. CASE StartRefused(p)
  BY <1>30 DEF StartRefused, At, Undoes, ProcessState
<1>31. CASE StartFails(p)
  BY <1>31 DEF StartFails, At, Undoes, ProcessState
<1>32. CASE TrustGuest(p)
  BY <1>32 DEF TrustGuest, At, Goes, ProcessState
<1>33. CASE TrustTimesOut(p)
  BY <1>33 DEF TrustTimesOut, At, Goes, ProcessState
<1>34. CASE AbortGuest(p)
  BY <1>34 DEF AbortGuest, At, ContainerGone, Undoes, ProcessState
<1>35. CASE SaveRunning(p)
  BY <1>35 DEF SaveRunning, At, Goes, Running, ProcessState
<1>36. CASE StartWatch(p)
  BY <1>36 DEF StartWatch, At, Goes, ProcessState
<1>37. CASE RequireRunning(p)
  BY <1>37 DEF RequireRunning, At, Goes, Fails, Idle, ProcessState
<1>38. CASE Touch(p)
  BY <1>38 DEF Touch, At, Goes, ProcessState
<1>39. CASE RefuseClean(p)
  BY <1>39 DEF RefuseClean, At, Goes, ProcessState
<1>40. CASE AllowClean(p)
  BY <1>40 DEF AllowClean, At, Running, ProcessState
<1>41. CASE RemoveWorktree(p)
  BY <1>41 DEF RemoveWorktree, At, NextRepo, Cur, ProcessState
<1>42. CASE RemoveWorktreeFails(p)
  BY <1>42 DEF RemoveWorktreeFails, At, Fails, Idle, ProcessState
<1>43. CASE ForgetSession(p)
  BY <1>43 DEF ForgetSession, At, Goes, ProcessState
<1>44. CASE End(p)
  BY <1>44 DEF End, At, Idle, ProcessState
<1> QED
  BY <1>1, <1>2, <1>3, <1>4, <1>5, <1>6, <1>7, <1>8, <1>9, <1>10, <1>11, <1>12,
     <1>13, <1>14, <1>15, <1>16, <1>17, <1>18, <1>19, <1>20, <1>21, <1>22,
     <1>23, <1>25, <1>26, <1>27, <1>28, <1>29, <1>30, <1>31, <1>32,
     <1>33, <1>34, <1>35, <1>36, <1>37, <1>38, <1>39, <1>40, <1>41, <1>42,
     <1>43, <1>44
  DEF Step, LoadSteps, StopSteps, ResumeSteps, AttachSteps, CleanSteps

\* The steps that touch worktrees and branches.
LEMMA StorageSteps ==
  ASSUME NEW p \in Processes, Step(p)
  PROVE  \/ UNCHANGED <<gitdir, isolated, branch, files, written, discarded>>
         \/ PublishSnapshot(p) \/ RemoveIsolated(p) \/ RestoreLink(p)
         \/ CheckpointWorktree(p) \/ RemoveLink(p) \/ IsolateWorktree(p)
         \/ RemoveWorktree(p)
<1> USE DEF storage, history
<1>1. CASE Load(p)
  BY <1>1 DEF Load
<1>2. CASE LoadUnknown(p)
  BY <1>2 DEF LoadUnknown
<1>3. CASE Inspect(p)
  BY <1>3 DEF Inspect
<1>4. CASE StopLoaded(p)
  BY <1>4 DEF StopLoaded
<1>5. CASE ExpireLoaded(p)
  BY <1>5 DEF ExpireLoaded
<1>6. CASE ListLoaded(p)
  BY <1>6 DEF ListLoaded
<1>7. CASE ResumeLoaded(p)
  BY <1>7 DEF ResumeLoaded
<1>8. CASE AttachLoaded(p)
  BY <1>8 DEF AttachLoaded
<1>9. CASE CleanLoaded(p)
  BY <1>9 DEF CleanLoaded
<1>10. CASE RemoveContainer(p)
  BY <1>10 DEF RemoveContainer
<1>11. CASE PinSnapshot(p)
  BY <1>11 DEF PinSnapshot
<1>12. CASE PublishSnapshot(p)
  BY <1>12
<1>13. CASE RefuseSnapshot(p)
  BY <1>13 DEF RefuseSnapshot
<1>14. CASE RestoreNothing(p)
  BY <1>14 DEF RestoreNothing
<1>15. CASE RemoveIsolated(p)
  BY <1>15
<1>16. CASE RestoreLink(p)
  BY <1>16
<1>17. CASE RestoreLinkFails(p)
  BY <1>17 DEF RestoreLinkFails
<1>18. CASE SaveStopped(p)
  BY <1>18 DEF SaveStopped
<1>19. CASE CheckNotRunning(p)
  BY <1>19 DEF CheckNotRunning
<1>20. CASE ClearStaleContainer(p)
  BY <1>20 DEF ClearStaleContainer
<1>21. CASE ValidateCheckpoints(p)
  BY <1>21 DEF ValidateCheckpoints
<1>22. CASE RefuseCheckpoints(p)
  BY <1>22 DEF RefuseCheckpoints
<1>23. CASE CheckpointWorktree(p)
  BY <1>23
<1>25. CASE PrepareWorktree(p)
  BY <1>25 DEF PrepareWorktree
<1>26. CASE RemoveLink(p)
  BY <1>26
<1>27. CASE IsolateWorktree(p)
  BY <1>27
<1>28. CASE IsolateFails(p)
  BY <1>28 DEF IsolateFails
<1>29. CASE StartGuest(p)
  BY <1>29 DEF StartGuest
<1>30. CASE StartRefused(p)
  BY <1>30 DEF StartRefused
<1>31. CASE StartFails(p)
  BY <1>31 DEF StartFails
<1>32. CASE TrustGuest(p)
  BY <1>32 DEF TrustGuest
<1>33. CASE TrustTimesOut(p)
  BY <1>33 DEF TrustTimesOut
<1>34. CASE AbortGuest(p)
  BY <1>34 DEF AbortGuest
<1>35. CASE SaveRunning(p)
  BY <1>35 DEF SaveRunning
<1>36. CASE StartWatch(p)
  BY <1>36 DEF StartWatch
<1>37. CASE RequireRunning(p)
  BY <1>37 DEF RequireRunning
<1>38. CASE Touch(p)
  BY <1>38 DEF Touch
<1>39. CASE RefuseClean(p)
  BY <1>39 DEF RefuseClean
<1>40. CASE AllowClean(p)
  BY <1>40 DEF AllowClean
<1>41. CASE RemoveWorktree(p)
  BY <1>41
<1>42. CASE RemoveWorktreeFails(p)
  BY <1>42 DEF RemoveWorktreeFails
<1>43. CASE ForgetSession(p)
  BY <1>43 DEF ForgetSession
<1>44. CASE End(p)
  BY <1>44 DEF End
<1> QED
  BY <1>1, <1>2, <1>3, <1>4, <1>5, <1>6, <1>7, <1>8, <1>9, <1>10, <1>11, <1>12,
     <1>13, <1>14, <1>15, <1>16, <1>17, <1>18, <1>19, <1>20, <1>21, <1>22,
     <1>23, <1>25, <1>26, <1>27, <1>28, <1>29, <1>30, <1>31, <1>32,
     <1>33, <1>34, <1>35, <1>36, <1>37, <1>38, <1>39, <1>40, <1>41, <1>42,
     <1>43, <1>44
  DEF Step, LoadSteps, StopSteps, ResumeSteps, AttachSteps, CleanSteps

\* Only a client that attaches puts an agent into the guest.
LEMMA AgentSteps ==
  ASSUME NEW p \in Processes, Step(p)
  PROVE  /\ ~At(p, "idle")
         /\ \/ UNCHANGED agentOn \/ ~agentOn'
            \/ At(p, "touch") /\ (agentOn' = guestUp)
         /\ At(p, "clear") => ~agentOn'
<1> USE DEF machine
<1>1. CASE Load(p)
  BY <1>1 DEF Load, At
<1>2. CASE LoadUnknown(p)
  BY <1>2 DEF LoadUnknown, At
<1>3. CASE Inspect(p)
  BY <1>3 DEF Inspect, At
<1>4. CASE StopLoaded(p)
  BY <1>4 DEF StopLoaded, At
<1>5. CASE ExpireLoaded(p)
  BY <1>5 DEF ExpireLoaded, At
<1>6. CASE ListLoaded(p)
  BY <1>6 DEF ListLoaded, At
<1>7. CASE ResumeLoaded(p)
  BY <1>7 DEF ResumeLoaded, At
<1>8. CASE AttachLoaded(p)
  BY <1>8 DEF AttachLoaded, At
<1>9. CASE CleanLoaded(p)
  BY <1>9 DEF CleanLoaded, At
<1>10. CASE RemoveContainer(p)
  BY <1>10 DEF RemoveContainer, At, ContainerGone
<1>11. CASE PinSnapshot(p)
  BY <1>11 DEF PinSnapshot, At
<1>12. CASE PublishSnapshot(p)
  BY <1>12 DEF PublishSnapshot, At
<1>13. CASE RefuseSnapshot(p)
  BY <1>13 DEF RefuseSnapshot, At
<1>14. CASE RestoreNothing(p)
  BY <1>14 DEF RestoreNothing, At
<1>15. CASE RemoveIsolated(p)
  BY <1>15 DEF RemoveIsolated, At
<1>16. CASE RestoreLink(p)
  BY <1>16 DEF RestoreLink, At
<1>17. CASE RestoreLinkFails(p)
  BY <1>17 DEF RestoreLinkFails, At
<1>18. CASE SaveStopped(p)
  BY <1>18 DEF SaveStopped, At
<1>19. CASE CheckNotRunning(p)
  BY <1>19 DEF CheckNotRunning, At
<1>20. CASE ClearStaleContainer(p)
  BY <1>20 DEF ClearStaleContainer, At, ContainerGone
<1>21. CASE ValidateCheckpoints(p)
  BY <1>21 DEF ValidateCheckpoints, At
<1>22. CASE RefuseCheckpoints(p)
  BY <1>22 DEF RefuseCheckpoints, At
<1>23. CASE CheckpointWorktree(p)
  BY <1>23 DEF CheckpointWorktree, At
<1>25. CASE PrepareWorktree(p)
  BY <1>25 DEF PrepareWorktree, At
<1>26. CASE RemoveLink(p)
  BY <1>26 DEF RemoveLink, At
<1>27. CASE IsolateWorktree(p)
  BY <1>27 DEF IsolateWorktree, At
<1>28. CASE IsolateFails(p)
  BY <1>28 DEF IsolateFails, At
<1>29. CASE StartGuest(p)
  BY <1>29 DEF StartGuest, At
<1>30. CASE StartRefused(p)
  BY <1>30 DEF StartRefused, At
<1>31. CASE StartFails(p)
  BY <1>31 DEF StartFails, At
<1>32. CASE TrustGuest(p)
  BY <1>32 DEF TrustGuest, At
<1>33. CASE TrustTimesOut(p)
  BY <1>33 DEF TrustTimesOut, At
<1>34. CASE AbortGuest(p)
  BY <1>34 DEF AbortGuest, At, ContainerGone
<1>35. CASE SaveRunning(p)
  BY <1>35 DEF SaveRunning, At
<1>36. CASE StartWatch(p)
  BY <1>36 DEF StartWatch, At
<1>37. CASE RequireRunning(p)
  BY <1>37 DEF RequireRunning, At
<1>38. CASE Touch(p)
  BY <1>38 DEF Touch, At
<1>39. CASE RefuseClean(p)
  BY <1>39 DEF RefuseClean, At
<1>40. CASE AllowClean(p)
  BY <1>40 DEF AllowClean, At
<1>41. CASE RemoveWorktree(p)
  BY <1>41 DEF RemoveWorktree, At
<1>42. CASE RemoveWorktreeFails(p)
  BY <1>42 DEF RemoveWorktreeFails, At
<1>43. CASE ForgetSession(p)
  BY <1>43 DEF ForgetSession, At
<1>44. CASE End(p)
  BY <1>44 DEF End, At
<1> QED
  BY <1>1, <1>2, <1>3, <1>4, <1>5, <1>6, <1>7, <1>8, <1>9, <1>10, <1>11, <1>12,
     <1>13, <1>14, <1>15, <1>16, <1>17, <1>18, <1>19, <1>20, <1>21, <1>22,
     <1>23, <1>25, <1>26, <1>27, <1>28, <1>29, <1>30, <1>31, <1>32,
     <1>33, <1>34, <1>35, <1>36, <1>37, <1>38, <1>39, <1>40, <1>41, <1>42,
     <1>43, <1>44
  DEF Step, LoadSteps, StopSteps, ResumeSteps, AttachSteps, CleanSteps

(***************************************************************************)
(* What keeps work safe when invocations overlap.                          *)
(***************************************************************************)
\* No client is about to connect to a guest that runs while a resume prepares the
\* worktrees.  It takes a second resume, or a container that comes up late, in between.
NobodyConnects ==
  \A p, q \in Processes : proc[p].pc \in Preparing /\ At(q, "touch") => ~guestUp

\* The worktree that p is about to reset hard holds nothing that the session branch
\* lacks, nor does the clone that p puts there.
ResetOf(p) ==
  /\ files[Cur(p)] = {}
  /\ isolated[Cur(p)] \subseteq branch[Cur(p)]
  /\ proc[p].snapshot \subseteq branch[Cur(p)]

ResetInv == \A p \in Processes : proc[p].pc \in {"swap", "isolate"} => ResetOf(p)

LEMMA MetadataKept ==
  ASSUME TypeOK, LifecycleInv, NEW p \in Processes, Step(p)
  PROVE  \A r \in Repos : gitdir'[r] # "isolated" => isolated'[r] = {}
<1>0. proc[p].cur \in Repos
  BY DEF TypeOK, ProcessState
<1> USE DEF LifecycleInv, TypeOK, Cur
<1>1. CASE UNCHANGED <<gitdir, isolated, branch, files, written, discarded>>
  BY <1>1
<1>2. CASE PublishSnapshot(p)
  BY <1>2 DEF PublishSnapshot
<1>3. CASE RemoveIsolated(p)
  BY <1>0, <1>3 DEF RemoveIsolated
<1>4. CASE RestoreLink(p)
  BY <1>0, <1>4 DEF RestoreLink
<1>5. CASE CheckpointWorktree(p)
  BY <1>0, <1>5 DEF CheckpointWorktree
<1>6. CASE RemoveLink(p)
  BY <1>0, <1>6 DEF RemoveLink
<1>7. CASE IsolateWorktree(p)
  BY <1>0, <1>7 DEF IsolateWorktree
<1>8. CASE RemoveWorktree(p)
  BY <1>0, <1>8 DEF RemoveWorktree, CanRemoveTree
<1>9. QED
  BY <1>1, <1>2, <1>3, <1>4, <1>5, <1>6, <1>7, <1>8, StorageSteps

LEMMA WorkKeptByStep ==
  ASSUME TypeOK, LifecycleInv, WorkKept, NEW p \in Processes, Step(p)
  PROVE  WorkKept'
<1>0. proc[p].cur \in Repos
  BY DEF TypeOK, ProcessState
<1> USE DEF WorkKept, TypeOK, Cur, history
<1>1. CASE UNCHANGED <<gitdir, isolated, branch, files, written, discarded>>
  BY <1>1
<1>2. CASE PublishSnapshot(p)
  BY <1>0, <1>2 DEF PublishSnapshot, CanPublish
<1>3. CASE RemoveIsolated(p)
  BY <1>0, <1>3 DEF RemoveIsolated
<1>4. CASE RestoreLink(p)
  BY <1>4 DEF RestoreLink
<1>5. CASE CheckpointWorktree(p)
  BY <1>0, <1>5 DEF CheckpointWorktree
<1>6. CASE RemoveLink(p)
  BY <1>6 DEF RemoveLink
<1>7. CASE IsolateWorktree(p)
  <2>1. files[Cur(p)] = {} /\ isolated[Cur(p)] = {}
    BY <1>0, <1>7 DEF IsolateWorktree, LifecycleInv, At
  <2>2. QED
    BY <1>0, <1>7, <2>1 DEF IsolateWorktree
<1>8. CASE RemoveWorktree(p)
  BY <1>0, <1>8 DEF RemoveWorktree
<1>9. QED
  BY <1>1, <1>2, <1>3, <1>4, <1>5, <1>6, <1>7, <1>8, StorageSteps

LEMMA PreparingKept ==
  ASSUME TypeOK, LifecycleInv, NobodyConnects, NEW p \in Processes, Step(p),
         NEW q \in Processes, proc'[q].pc \in Preparing
  PROVE  ~agentOn'
<1>1. CASE q = p
  <2>1. proc[p].pc \in Preparing \cup {"clear"}
    BY <1>1, PlaceKept DEF TypeOK
  <2>2. CASE proc[p].pc = "clear"
    BY <2>2, AgentSteps DEF At
  <2>3. CASE proc[p].pc \in Preparing
    <3>1. ~agentOn /\ ~At(p, "touch")
      BY <2>3 DEF LifecycleInv, At, Preparing
    <3>2. QED  BY <3>1, AgentSteps
  <2>4. QED  BY <2>1, <2>2, <2>3
<1>2. CASE q # p
  <2>1. proc'[q] = proc[q]
    BY <1>2, PlaceKept DEF TypeOK
  <2>2. ~agentOn /\ (At(p, "touch") => ~guestUp)
    BY <2>1 DEF LifecycleInv, NobodyConnects
  <2>3. QED  BY <2>2, AgentSteps
<1>3. QED  BY <1>1, <1>2

\* What the step of one invocation leaves of a worktree another is about to reset: it
\* may be isolated and restored by a second resume, but no work is left in it.
LEMMA ResetKept ==
  ASSUME TypeOK, LifecycleInv, ResetInv, NEW p \in Processes, Step(p),
         NEW q \in Processes, proc'[q].pc \in {"swap", "isolate"}
  PROVE  ResetOf(q)'
<1>0. /\ proc[p].cur \in Repos /\ proc[q].cur \in Repos
      /\ proc[p] \in ProcessState
  BY DEF TypeOK, ProcessState
<1>1. CASE q = p
  <2>1. /\ proc'[p].cur = proc[p].cur
        /\ \/ PrepareWorktree(p) /\ CanIsolate(Cur(p))
           \/ RemoveLink(p)
    BY <1>1, PlaceKept DEF TypeOK
  <2>2. CASE PrepareWorktree(p) /\ CanIsolate(Cur(p))
    <3>1. proc'[p].snapshot = branch[Cur(p)] /\ UNCHANGED <<isolated, branch, files>>
      BY <1>0, <2>2 DEF PrepareWorktree, TypeOK, ProcessState, storage
    <3>2. files[Cur(p)] = {} /\ isolated[Cur(p)] = {}
      BY <1>0, <2>2 DEF CanIsolate, LifecycleInv, Cur
    <3>3. QED  BY <1>1, <2>1, <3>1, <3>2 DEF ResetOf, Cur
  <2>3. CASE RemoveLink(p)
    <3>1. ResetOf(p)
      BY <2>3 DEF RemoveLink, At, ResetInv
    <3>2. UNCHANGED <<isolated, branch, files>>
      BY <2>3 DEF RemoveLink
    <3>3. proc'[p].snapshot = proc[p].snapshot
      BY <1>0, <2>3 DEF RemoveLink, Goes, Undoes, TypeOK, ProcessState
    <3>4. QED  BY <1>1, <2>1, <3>1, <3>2, <3>3 DEF ResetOf, Cur
  <2>4. QED  BY <2>1, <2>2, <2>3
<1>2. CASE q # p
  <2>1. proc'[q] = proc[q]
    BY <1>2, PlaceKept DEF TypeOK
  <2>2. ResetOf(q)
    BY <2>1 DEF ResetInv
  <2> SUFFICES /\ files'[Cur(q)] = {}
               /\ isolated'[Cur(q)] \subseteq branch'[Cur(q)]
               /\ branch[Cur(q)] \subseteq branch'[Cur(q)]
    BY <2>1, <2>2 DEF ResetOf, Cur
  <2> USE <1>0, <2>2 DEF TypeOK, Cur, ResetOf
  <2>3. CASE UNCHANGED <<gitdir, isolated, branch, files, written, discarded>>
    BY <2>3
  <2>4. CASE PublishSnapshot(p)
    BY <2>4 DEF PublishSnapshot, CanPublish
  <2>5. CASE RemoveIsolated(p)
    BY <2>5 DEF RemoveIsolated
  <2>6. CASE RestoreLink(p)
    BY <2>6 DEF RestoreLink
  <2>7. CASE CheckpointWorktree(p)
    BY <2>7 DEF CheckpointWorktree
  <2>8. CASE RemoveLink(p)
    BY <2>8 DEF RemoveLink
  <2>9. CASE IsolateWorktree(p)
    <3>1. proc[p].snapshot \subseteq branch[Cur(p)]
      BY <2>9 DEF IsolateWorktree, At, ResetInv
    <3>2. UNCHANGED branch
      BY <2>9 DEF IsolateWorktree
    <3>3. CASE Cur(q) = Cur(p)
      BY <2>9, <3>1, <3>2, <3>3 DEF IsolateWorktree
    <3>4. CASE Cur(q) # Cur(p)
      BY <2>9, <3>2, <3>4 DEF IsolateWorktree
    <3>5. QED  BY <3>3, <3>4
  <2>10. CASE RemoveWorktree(p)
    BY <2>10 DEF RemoveWorktree
  <2>11. QED
    BY <2>3, <2>4, <2>5, <2>6, <2>7, <2>8, <2>9, <2>10, StorageSteps
<1>3. QED  BY <1>1, <1>2

LEMMA IdlePlace == Idle.pc = "idle" /\ Idle.pc \notin Preparing
BY DEF Idle, Preparing

-----------------------------------------------------------------------------
(***************************************************************************)
(* The steps that no running command takes.                                *)
(***************************************************************************)
Surroundings ==
  \/ \E p \in Processes : Crash(p) \/ \E c \in CommandNames : Begin(p, c)
  \/ \E r \in Repos : Work(r)
  \/ TimePasses \/ GuestArrives \/ GuestDies \/ HostReboots

LEMMA NextIsStepOrSurroundings ==
  Next <=> Surroundings \/ \E p \in Processes : Step(p)
BY DEF Next, Surroundings

LEMMA NewProcessType ==
  ASSUME proc \in [Processes -> ProcessState], NEW p \in Processes,
         NEW c \in CommandNames
  PROVE  [proc EXCEPT ![p] = [Idle EXCEPT !.pc = "load", !.cmd = c]]
           \in [Processes -> ProcessState]
<1>1. [Idle EXCEPT !.pc = "load", !.cmd = c] \in ProcessState
  BY IdleType, PhaseNames DEF ProcessState
<1>2. QED
  BY <1>1

LEMMA AgedProcessType ==
  ASSUME proc \in [Processes -> ProcessState]
  PROVE  [p \in Processes |-> [proc[p] EXCEPT !.copy.recent = FALSE]]
           \in [Processes -> ProcessState]
<1>1. SUFFICES ASSUME NEW p \in Processes
               PROVE  [proc[p] EXCEPT !.copy.recent = FALSE] \in ProcessState
  OBVIOUS
<1>2. proc[p] \in ProcessState
  OBVIOUS
<1>3. QED
  BY <1>2, RecordType DEF ProcessState

LEMMA SurroundingsType ==
  ASSUME TypeOK, Surroundings
  PROVE  TypeOK'
<1> USE DEF machine, storage, history
<1>1. ASSUME NEW p \in Processes, Crash(p)
      PROVE  TypeOK'
  BY <1>1, IdleType DEF Crash, Fails, TypeOK
<1>2. ASSUME NEW p \in Processes, NEW c \in CommandNames, Begin(p, c)
      PROVE  TypeOK'
  BY <1>2, NewProcessType DEF Begin, TypeOK
<1>3. ASSUME NEW r \in Repos, Work(r)
      PROVE  TypeOK'
  <2>1. CASE AgentEdits(r)
    BY <1>3, <2>1 DEF AgentEdits, Writes, TypeOK, Patch
  <2>2. CASE AgentCommits(r)
    BY <1>3, <2>2 DEF AgentCommits, TypeOK, Patch
  <2>3. CASE AgentRewrites(r)
    BY <1>3, <2>3 DEF AgentRewrites, Writes, TypeOK, Patch
  <2>4. CASE UserEditsWorktree(r)
    BY <1>3, <2>4 DEF UserEditsWorktree, Writes, TypeOK, Patch
  <2>5. CASE UserMerges(r)
    BY <1>3, <2>5 DEF UserMerges, TypeOK, Patch
  <2>6. QED
    BY <1>3, <2>1, <2>2, <2>3, <2>4, <2>5 DEF Work
<1>4. CASE TimePasses
  <2>1. proc' \in [Processes -> ProcessState]
    BY <1>4, AgedProcessType DEF TimePasses, TypeOK
  <2>2. record' \in Record
    BY <1>4, RecordType DEF TimePasses, TypeOK
  <2>3. QED
    BY <1>4, <2>1, <2>2 DEF TimePasses, TypeOK
<1>5. CASE GuestArrives
  BY <1>5 DEF GuestArrives, TypeOK
<1>6. CASE GuestDies
  <2>1. faults' \in Nat
    BY <1>6 DEF GuestDies, TypeOK
  <2>2. guestUp' \in BOOLEAN /\ agentOn' \in BOOLEAN
    BY <1>6 DEF GuestDies, ContainerGone
  <2>3. QED
    BY <1>6, <2>1, <2>2 DEF GuestDies, ContainerGone, TypeOK
<1>7. CASE HostReboots
  <2>1. proc' \in [Processes -> ProcessState]
    BY <1>7, IdleType DEF HostReboots
  <2>2. faults' \in Nat
    BY <1>7 DEF HostReboots, TypeOK
  <2>3. /\ guestUp' \in BOOLEAN /\ agentOn' \in BOOLEAN
        /\ inFlight' \in BOOLEAN /\ watching' \in BOOLEAN
    BY <1>7 DEF HostReboots
  <2>4. QED
    BY <1>7, <2>1, <2>2, <2>3 DEF HostReboots, TypeOK
<1>8. QED
  BY <1>1, <1>2, <1>3, <1>4, <1>5, <1>6, <1>7 DEF Surroundings

LEMMA StepType == TypeOK /\ [Next]_vars => TypeOK'
<1> SUFFICES ASSUME TypeOK, [Next]_vars PROVE TypeOK'
  OBVIOUS
<1>1. ASSUME NEW p \in Processes, Step(p)
      PROVE  TypeOK'
  <2>1. StateTyped /\ proc \in [Processes -> ProcessState]
    BY TypeInTwoParts
  <2>2. proc' \in [Processes -> ProcessState]
    BY <1>1, <2>1, ProcessTypeKept DEF StateTyped
  <2>3. StateTyped'
    BY <1>1, <2>1, StateTypeKept
  <2>4. QED
    BY <2>2, <2>3 DEF TypeOK, StateTyped
<1>2. CASE Surroundings
  BY <1>2, SurroundingsType
<1>3. CASE UNCHANGED vars
  BY <1>3 DEF vars, machine, storage, history, TypeOK
<1>4. QED
  BY <1>1, <1>2, <1>3, NextIsStepOrSurroundings

LEMMA InitType == Init => TypeOK
<1> SUFFICES ASSUME Init PROVE TypeOK
  OBVIOUS
<1>1. proc \in [Processes -> ProcessState]
  BY IdleType DEF Init
<1>2. record \in Record
  BY RecordType DEF Init
<1>3. gitdir \in [Repos -> GitDirs]
  BY GitDirNames DEF Init
<1>4. Nothing \in [Repos -> SUBSET Patch]
  BY DEF Nothing
<1>5. watching \in BOOLEAN
  BY ConstantsAssumption DEF Init
<1>6. QED
  BY <1>1, <1>2, <1>3, <1>4, <1>5 DEF Init, TypeOK

(* Every variable keeps its type, for any number of commands and           *)
(* repositories and any bounds.                                            *)
THEOREM TypeCorrect == Spec => []TypeOK
BY InitType, StepType, PTL DEF Spec

-----------------------------------------------------------------------------
(***************************************************************************)
(* Session branches move forward under every interleaving.                 *)
(***************************************************************************)
LEMMA BranchSteps ==
  ASSUME NEW p \in Processes, Step(p)
  PROVE  UNCHANGED branch \/ PublishSnapshot(p) \/ CheckpointWorktree(p)
<1>1. ASSUME RemoveIsolated(p) \/ RestoreLink(p) \/ RemoveLink(p)
               \/ IsolateWorktree(p) \/ RemoveWorktree(p)
      PROVE  UNCHANGED branch
  BY <1>1
     DEF RemoveIsolated, RestoreLink, RemoveLink, IsolateWorktree,
         RemoveWorktree
<1>2. QED
  BY <1>1, StorageSteps

LEMMA BranchesKeepCommits ==
  ASSUME TypeOK, [Next]_vars, NEW r \in Repos
  PROVE  branch[r] \subseteq branch'[r]
<1>1. ASSUME NEW p \in Processes, Step(p)
      PROVE  branch[r] \subseteq branch'[r]
  <2>1. CASE PublishSnapshot(p)
    BY <2>1 DEF PublishSnapshot, CanPublish, TypeOK
  <2>2. CASE CheckpointWorktree(p)
    BY <2>2 DEF CheckpointWorktree, TypeOK
  <2>3. QED
    BY <1>1, <2>1, <2>2, BranchSteps
<1>2. CASE Surroundings
  <2>1. branch' = branch
    BY <1>2
       DEF Surroundings, Crash, Begin, Work, AgentEdits, AgentCommits,
           AgentRewrites, UserEditsWorktree, UserMerges, TimePasses,
           GuestArrives, GuestDies, HostReboots, storage
  <2>2. QED
    BY <2>1
<1>3. CASE UNCHANGED vars
  BY <1>3 DEF vars, storage
<1>4. QED
  BY <1>1, <1>2, <1>3, NextIsStepOrSurroundings

(* Whatever invocations interleave, crash or overlap, no session branch    *)
(* loses a commit it had.                                                  *)
THEOREM SessionBranchesMoveForward == Spec => BranchesMoveForward
<1>1. TypeOK /\ [Next]_vars
        => [\A r \in Repos : branch[r] \subseteq branch'[r]]_vars
  BY BranchesKeepCommits
<1>2. QED
  BY <1>1, TypeCorrect, PTL DEF Spec, BranchesMoveForward

-----------------------------------------------------------------------------
(***************************************************************************)
(* No work is lost, whatever overlaps, if nobody connects too early.       *)
(***************************************************************************)
LEMMA InitSafe == Init => LifecycleInv /\ ResetInv /\ WorkKept
BY IdlePlace DEF Init, LifecycleInv, ResetInv, WorkKept, Nothing, Idle, Preparing

LEMMA StepSafe ==
  ASSUME TypeOK, LifecycleInv, ResetInv, WorkKept, NobodyConnects,
         NEW p \in Processes, Step(p)
  PROVE  LifecycleInv' /\ ResetInv' /\ WorkKept'
<1>1. WorkKept'
  BY WorkKeptByStep
<1>2. \A r \in Repos : gitdir'[r] # "isolated" => isolated'[r] = {}
  BY MetadataKept
<1>3. \A q \in Processes : proc'[q].pc \in Preparing => ~agentOn'
  BY PreparingKept
<1>4. \A q \in Processes : proc'[q].pc \in {"swap", "isolate"} => ResetOf(q)'
  BY ResetKept
<1>5. QED
  BY <1>1, <1>2, <1>3, <1>4 DEF LifecycleInv, ResetInv, ResetOf, Cur

LEMMA WorkSafe ==
  ASSUME TypeOK, LifecycleInv, WorkKept, NEW r \in Repos, Work(r),
         EditsAt \cap {"swap", "isolate"} = {}
  PROVE  LifecycleInv' /\ WorkKept'
<1> USE DEF machine, history
<1>1. ASSUME agentOn
      PROVE  \A q \in Processes : proc[q].pc \notin {"swap", "isolate"}
  BY <1>1 DEF LifecycleInv, Preparing
<1>2. CASE AgentEdits(r)
  <2>1. LifecycleInv'
    BY <1>1, <1>2 DEF AgentEdits, AgentWorksIn, LifecycleInv, Cur
  <2>2. WorkKept'
    BY <1>2 DEF AgentEdits, Writes, WorkKept, TypeOK
  <2>3. QED
    BY <2>1, <2>2
<1>3. CASE AgentCommits(r)
  <2>1. LifecycleInv'
    BY <1>1, <1>3 DEF AgentCommits, AgentWorksIn, LifecycleInv, Cur, TypeOK
  <2>2. WorkKept'
    BY <1>3 DEF AgentCommits, WorkKept, TypeOK
  <2>3. QED
    BY <2>1, <2>2
<1>4. CASE AgentRewrites(r)
  <2>1. LifecycleInv'
    BY <1>1, <1>4 DEF AgentRewrites, AgentWorksIn, LifecycleInv, Cur, TypeOK
  <2>2. WorkKept'
    BY <1>4 DEF AgentRewrites, Writes, WorkKept, TypeOK
  <2>3. QED
    BY <2>1, <2>2
<1>5. CASE UserEditsWorktree(r)
  <2>1. LifecycleInv'
    BY <1>5 DEF UserEditsWorktree, LifecycleInv, Cur
  <2>2. WorkKept'
    BY <1>5 DEF UserEditsWorktree, Writes, WorkKept, TypeOK
  <2>3. QED
    BY <2>1, <2>2
<1>6. CASE UserMerges(r)
  BY <1>6 DEF UserMerges, LifecycleInv, WorkKept, Cur
<1>7. QED
  BY <1>2, <1>3, <1>4, <1>5, <1>6 DEF Work

LEMMA SurroundingsSafe ==
  ASSUME TypeOK, LifecycleInv, WorkKept, Surroundings,
         EditsAt \cap {"swap", "isolate"} = {}
  PROVE  LifecycleInv' /\ WorkKept'
<1> USE DEF machine, storage, history
<1>1. ASSUME NEW p \in Processes, Crash(p)
      PROVE  LifecycleInv' /\ WorkKept'
  BY <1>1, IdlePlace
     DEF Crash, Fails, LifecycleInv, WorkKept, Cur, TypeOK, Preparing
<1>2. ASSUME NEW p \in Processes, NEW c \in CommandNames, Begin(p, c)
      PROVE  LifecycleInv' /\ WorkKept'
  <2>1. \A q \in Processes :
          proc'[q].pc \in Preparing => q # p /\ proc'[q] = proc[q]
    <3>1. [Idle EXCEPT !.pc = "load", !.cmd = c].pc = "load"
      BY IdleType DEF ProcessState
    <3>2. QED
      BY <1>2, <3>1 DEF Begin, TypeOK, Preparing
  <2>2. QED
    BY <1>2, <2>1 DEF Begin, LifecycleInv, WorkKept, Cur, Preparing
<1>3. CASE TimePasses
  <2>1. \A q \in Processes : /\ proc'[q].pc = proc[q].pc
                             /\ proc'[q].cur = proc[q].cur
    BY <1>3 DEF TimePasses, TypeOK, ProcessState
  <2>2. QED
    BY <1>3, <2>1 DEF TimePasses, LifecycleInv, WorkKept, Cur
<1>4. CASE GuestArrives
  BY <1>4 DEF GuestArrives, LifecycleInv, WorkKept, Cur
<1>5. CASE GuestDies
  BY <1>5 DEF GuestDies, ContainerGone, LifecycleInv, WorkKept, Cur
<1>6. CASE HostReboots
  BY <1>6 DEF HostReboots, LifecycleInv, WorkKept, Cur, Idle
<1>7. QED
  BY <1>1, <1>2, <1>3, <1>4, <1>5, <1>6, WorkSafe DEF Surroundings

\* Nor does anything around the invocations write in a worktree about to be reset.
LEMMA ResetSafe ==
  ASSUME TypeOK, LifecycleInv, ResetInv, Surroundings,
         EditsAt \cap {"swap", "isolate"} = {}
  PROVE  ResetInv'
<1> USE DEF machine, storage, history
<1>1. ASSUME UNCHANGED <<isolated, branch, files>>,
             \A q \in Processes :
               \/ proc'[q].pc \notin {"swap", "isolate"}
               \/ /\ proc'[q].pc = proc[q].pc
                  /\ proc'[q].cur = proc[q].cur
                  /\ proc'[q].snapshot = proc[q].snapshot
      PROVE  ResetInv'
  BY <1>1 DEF ResetInv, ResetOf, Cur
<1>2. ASSUME NEW p \in Processes, Crash(p)
      PROVE  ResetInv'
  <2>1. \A q \in Processes : proc'[q] = proc[q] \/ proc'[q].pc = "idle"
    BY <1>2, IdlePlace DEF Crash, Fails, TypeOK
  <2>2. QED  BY <1>1, <1>2, <2>1 DEF Crash
<1>3. ASSUME NEW p \in Processes, NEW c \in CommandNames, Begin(p, c)
      PROVE  ResetInv'
  <2>1. [Idle EXCEPT !.pc = "load", !.cmd = c].pc = "load"
    BY IdleType DEF ProcessState
  <2>2. \A q \in Processes : proc'[q] = proc[q] \/ proc'[q].pc = "load"
    BY <1>3, <2>1 DEF Begin, TypeOK
  <2>3. QED  BY <1>1, <1>3, <2>2 DEF Begin
<1>4. ASSUME NEW r \in Repos, Work(r)
      PROVE  ResetInv'
  <2>1. proc' = proc
    BY <1>4
       DEF Work, AgentEdits, AgentCommits, AgentRewrites, UserEditsWorktree, UserMerges
  <2>2. CASE \A q \in Processes : proc[q].pc \notin {"swap", "isolate"}
    BY <2>1, <2>2 DEF ResetInv
  <2>3. CASE \E q \in Processes : proc[q].pc \in {"swap", "isolate"}
    <3>1. ~agentOn
      BY <2>3 DEF LifecycleInv, Preparing
    <3>2. UserMerges(r)
      BY <1>4, <2>3, <3>1
         DEF Work, AgentEdits, AgentCommits, AgentRewrites, AgentWorksIn, UserEditsWorktree
    <3>3. QED  BY <1>1, <2>1, <3>2 DEF UserMerges
  <2>4. QED  BY <2>2, <2>3
<1>5. CASE TimePasses
  <2>1. \A q \in Processes : /\ proc'[q].pc = proc[q].pc
                             /\ proc'[q].cur = proc[q].cur
                             /\ proc'[q].snapshot = proc[q].snapshot
    BY <1>5 DEF TimePasses, TypeOK, ProcessState
  <2>2. QED  BY <1>1, <1>5, <2>1 DEF TimePasses
<1>6. CASE GuestArrives \/ GuestDies
  BY <1>1, <1>6 DEF GuestArrives, GuestDies
<1>7. CASE HostReboots
  BY <1>1, <1>7, IdlePlace DEF HostReboots
<1>8. QED
  BY <1>2, <1>3, <1>4, <1>5, <1>6, <1>7 DEF Surroundings

\* However stops, reconciling lists, expiries, cleans, attaches and resumes overlap,
\* on whatever copies of the record they work, and whatever crash, reboot or lost guest
\* comes in between, jbox loses no patch: unless a client connects to a running guest
\* while a resume prepares the worktrees, or somebody edits one in the moment it is
\* reset.
THEOREM WorkIsKept ==
  ASSUME EditsAt \cap {"swap", "isolate"} = {}
  PROVE  Spec /\ []NobodyConnects => []WorkKept
<1>1. TypeOK /\ LifecycleInv /\ ResetInv /\ WorkKept /\ NobodyConnects /\ [Next]_vars
        => (LifecycleInv /\ ResetInv /\ WorkKept)'
  <2> SUFFICES ASSUME TypeOK, LifecycleInv, ResetInv, WorkKept, NobodyConnects, [Next]_vars
               PROVE  LifecycleInv' /\ ResetInv' /\ WorkKept'
    OBVIOUS
  <2>1. CASE Next
    BY <2>1, StepSafe, SurroundingsSafe, ResetSafe, NextIsStepOrSurroundings
  <2>2. CASE UNCHANGED vars
    BY <2>2
       DEF vars, machine, storage, history, LifecycleInv, ResetInv, ResetOf, WorkKept, Cur
  <2>3. QED
    BY <2>1, <2>2
<1>2. QED
  BY <1>1, InitSafe, TypeCorrect, PTL DEF Spec

\* In particular none is lost when no two invocations run at the same time.
COROLLARY WorkIsKeptOneAtATime ==
  ASSUME EditsAt \cap {"swap", "isolate"} = {}
  PROVE  Spec /\ []OneAtATime => []WorkKept
<1>1. OneAtATime => NobodyConnects
  BY DEF OneAtATime, NobodyConnects, At, Preparing
<1>2. QED  BY <1>1, WorkIsKept, PTL

-----------------------------------------------------------------------------
(***************************************************************************)
(* The agent, the record and the metadata, one invocation at a time.       *)
(***************************************************************************)
AllIsolated == \A r \in Repos : gitdir[r] = "isolated"

\* A record that says Running is the truth, or its container is gone for good: no
\* request for one is in flight, and the guest that is up has all its metadata.
GuestInv ==
  /\ agentOn => guestUp /\ Running(record)
  /\ Running(record) => ~inFlight
  /\ Running(record) /\ guestUp => AllIsolated

\* Where the copy of the record a command works on has to be the record still,
\* where the guest is down, and which metadata is there already.
PlaceInv(p) ==
  /\ proc[p].pc \in {"inspect", "loaded", "require", "touch", "changes"} =>
       proc[p].copy.state = record.state
  /\ proc[p].pc \in {"inspect", "require", "touch"} => Running(record)
  /\ proc[p].pc \in Preparing \cup {"check", "clear", "start", "trust", "abort",
                                    "saveRunning"} => ~Running(record)
  /\ proc[p].pc \in {"pin", "publish", "restore", "link", "saveStopped",
                     "removeTree", "forget"} => ~(Running(record) /\ guestUp)
  /\ proc[p].pc \in {"prepare", "swap", "isolate"} =>
       \A r \in Repos : r < Cur(p) => gitdir[r] = "isolated"
  /\ proc[p].pc \in {"start", "trust", "saveRunning"} => AllIsolated
  /\ proc[p].pc \in {"trust", "saveRunning"} => ~inFlight

AgentInv == GuestInv /\ \A p \in Processes : PlaceInv(p)

\* A step of the only invocation keeps them.
LEMMA AgentStep ==
  ASSUME TypeOK, GuestInv, NEW p \in Processes, PlaceInv(p), Step(p)
  PROVE  GuestInv' /\ PlaceInv(p)'
<1> USE DEF TypeOK, GuestInv, PlaceInv, AllIsolated, Running, At, Cur, Preparing,
            machine, storage, history
<1>0. /\ proc[p] \in ProcessState
      /\ proc[p].cur \in Repos
      /\ record \in Record
      /\ Idle.pc = "idle"
  BY DEF ProcessState, Idle
<1>1. CASE Load(p)
  BY <1>0, <1>1 DEF Load, ProcessState, Record
<1>2. CASE LoadUnknown(p)
  BY <1>0, <1>2 DEF LoadUnknown, Goes, Fails, Idle, ProcessState, Record
<1>3. CASE Inspect(p)
  BY <1>0, <1>3 DEF Inspect, ProcessState, Record
<1>4. CASE StopLoaded(p)
  BY <1>0, <1>4 DEF StopLoaded, ProcessState, Record
<1>5. CASE ExpireLoaded(p)
  BY <1>0, <1>5 DEF ExpireLoaded, Expired, ProcessState, Record
<1>6. CASE ListLoaded(p)
  BY <1>0, <1>6 DEF ListLoaded, Goes, ProcessState, Record
<1>7. CASE ResumeLoaded(p)
  BY <1>0, <1>7 DEF ResumeLoaded, Goes, ProcessState, Record
<1>8. CASE AttachLoaded(p)
  <2>1. /\ record' = record /\ guestUp' = guestUp /\ inFlight' = inFlight
        /\ agentOn' = agentOn /\ gitdir' = gitdir
    BY <1>8 DEF AttachLoaded
  <2>2. CASE Running(proc[p].copy)
    <3>1. /\ proc'[p].pc = "require"
          /\ proc'[p].copy = proc[p].copy
      BY <1>8, <2>2 DEF AttachLoaded, Goes, ProcessState
    <3>2. Running(record) /\ proc[p].copy.state = record.state
      BY <1>8, <2>2 DEF AttachLoaded
    <3>3. proc'[p].copy.state = record'.state
      BY <2>1, <3>1, <3>2
    <3>4. Running(record')
      BY <2>1, <3>2
    <3>5. PlaceInv(p)'
      BY <3>1, <3>3, <3>4
    <3>6. GuestInv'
      BY <2>1
    <3>7. QED  BY <3>5, <3>6
  <2>3. CASE ~Running(proc[p].copy)
    <3>1. proc'[p].pc = "idle"
      BY <1>0, <1>8, <2>3 DEF AttachLoaded, Fails
    <3>2. QED  BY <2>1, <3>1
  <2>4. QED  BY <2>2, <2>3
<1>9. CASE CleanLoaded(p)
  BY <1>0, <1>9 DEF CleanLoaded, Goes, ProcessState, Record
<1>10. CASE RemoveContainer(p)
  BY <1>0, <1>10 DEF RemoveContainer, Goes, ContainerGone, ProcessState, Record
<1>11. CASE PinSnapshot(p)
  BY <1>0, <1>11 DEF PinSnapshot, ProcessState, Record
<1>12. CASE PublishSnapshot(p)
  BY <1>0, <1>12 DEF PublishSnapshot, Goes, ProcessState, Record
<1>13. CASE RefuseSnapshot(p)
  BY <1>0, <1>13 DEF RefuseSnapshot, Fails, Idle, ProcessState, Record
<1>14. CASE RestoreNothing(p)
  BY <1>0, <1>14 DEF RestoreNothing, MetadataRestored, NextRepo, Fails, Idle, ProcessState, Record
<1>15. CASE RemoveIsolated(p)
  BY <1>0, <1>15 DEF RemoveIsolated, Goes, ProcessState, Record
<1>16. CASE RestoreLink(p)
  BY <1>0, <1>16 DEF RestoreLink, MetadataRestored, NextRepo, Fails, Idle, ProcessState, Record
<1>17. CASE RestoreLinkFails(p)
  BY <1>0, <1>17 DEF RestoreLinkFails, MetadataRestored, NextRepo, Fails, Idle, ProcessState, Record
<1>18. CASE SaveStopped(p)
  BY <1>0, <1>18 DEF SaveStopped, StoppedCopy, ProcessState, Record
<1>19. CASE CheckNotRunning(p)
  BY <1>0, <1>19 DEF CheckNotRunning, Goes, Fails, Idle, ProcessState, Record
<1>20. CASE ClearStaleContainer(p)
  BY <1>0, <1>20 DEF ClearStaleContainer, Goes, ContainerGone, ProcessState, Record
<1>21. CASE ValidateCheckpoints(p)
  BY <1>0, <1>21 DEF ValidateCheckpoints, ProcessState, Record
<1>22. CASE RefuseCheckpoints(p)
  BY <1>0, <1>22 DEF RefuseCheckpoints, Fails, Idle, ProcessState, Record
<1>23. CASE CheckpointWorktree(p)
  <2>1. /\ record' = record /\ guestUp' = guestUp /\ inFlight' = inFlight
        /\ agentOn' = agentOn /\ gitdir' = gitdir
    BY <1>23 DEF CheckpointWorktree
  <2>2. ~Running(record)
    BY <1>23 DEF CheckpointWorktree
  <2>3. \/ proc'[p].pc \in {"idle", "checkpoint"}
        \/ proc'[p].pc = "prepare" /\ proc'[p].cur = 1
    BY <1>0, <1>23 DEF CheckpointWorktree, NextRepo, Fails, ProcessState
  <2>4. \A r \in Repos : ~(r < 1)
    BY DEF Repos
  <2>5. QED  BY <2>1, <2>2, <2>3, <2>4
<1>24. CASE PrepareWorktree(p)
  BY <1>0, <1>24 DEF PrepareWorktree, Undoes, ProcessState, Record
<1>25. CASE RemoveLink(p)
  <2>1. /\ record' = record /\ guestUp' = guestUp /\ inFlight' = inFlight
        /\ agentOn' = agentOn /\ ~Running(record)
    BY <1>25 DEF RemoveLink
  <2>2. CASE gitdir[Cur(p)] = "link"
    <3>1. proc'[p].pc = "isolate" /\ proc'[p].cur = proc[p].cur
      BY <1>25, <2>2 DEF RemoveLink, Goes, ProcessState
    <3>2. \A r \in Repos : r < Cur(p) => gitdir'[r] = gitdir[r]
      BY <1>0, <1>25, <2>2 DEF RemoveLink, Repos
    <3>3. QED  BY <1>25, <2>1, <3>1, <3>2 DEF RemoveLink
  <2>3. CASE gitdir[Cur(p)] # "link"
    <3>1. proc'[p].pc = "restore"
      BY <1>25, <2>3 DEF RemoveLink, Undoes, ProcessState
    <3>2. QED  BY <2>1, <3>1
  <2>4. QED  BY <2>2, <2>3
<1>26. CASE IsolateWorktree(p)
  <2>1. /\ record' = record /\ guestUp' = guestUp /\ inFlight' = inFlight
        /\ agentOn' = agentOn /\ ~Running(record)
    BY <1>26 DEF IsolateWorktree
  <2>2. \A r \in Repos : r <= Cur(p) => gitdir'[r] = "isolated"
    BY <1>0, <1>26 DEF IsolateWorktree, Repos
  <2>3. CASE Cur(p) = RepoCount
    <3>1. proc'[p].pc = "start"
      BY <1>26, <2>3 DEF IsolateWorktree, NextRepo, ProcessState
    <3>2. \A r \in Repos : r <= RepoCount
      BY DEF Repos
    <3>3. QED  BY <2>1, <2>2, <2>3, <3>1, <3>2
  <2>4. CASE Cur(p) # RepoCount
    <3>1. proc'[p].pc = "prepare" /\ proc'[p].cur = proc[p].cur + 1
      BY <1>26, <2>4 DEF IsolateWorktree, NextRepo, ProcessState
    <3>2. \A r \in Repos : r < proc[p].cur + 1 => r <= proc[p].cur
      BY <1>0 DEF Repos
    <3>3. QED  BY <2>1, <2>2, <3>1, <3>2
  <2>5. QED  BY <2>3, <2>4
<1>27. CASE IsolateFails(p)
  BY <1>0, <1>27 DEF IsolateFails, Undoes, ProcessState, Record
<1>28. CASE StartGuest(p)
  BY <1>0, <1>28 DEF StartGuest, Goes, ProcessState, Record
<1>29. CASE StartRefused(p)
  BY <1>0, <1>29 DEF StartRefused, Undoes, ProcessState, Record
<1>30. CASE StartFails(p)
  BY <1>0, <1>30 DEF StartFails, Undoes, ProcessState, Record
<1>31. CASE TrustGuest(p)
  BY <1>0, <1>31 DEF TrustGuest, Goes, ProcessState, Record
<1>32. CASE TrustTimesOut(p)
  BY <1>0, <1>32 DEF TrustTimesOut, Goes, ProcessState, Record
<1>33. CASE AbortGuest(p)
  BY <1>0, <1>33 DEF AbortGuest, ContainerGone, Undoes, ProcessState, Record
<1>34. CASE SaveRunning(p)
  BY <1>0, <1>34 DEF SaveRunning, Goes, ProcessState, Record
<1>35. CASE StartWatch(p)
  BY <1>0, <1>35 DEF StartWatch, Goes, ProcessState, Record
<1>36. CASE RequireRunning(p)
  BY <1>0, <1>36 DEF RequireRunning, Goes, Fails, Idle, ProcessState, Record
<1>37. CASE Touch(p)
  BY <1>0, <1>37 DEF Touch, Goes, ProcessState, Record
<1>38. CASE RefuseClean(p)
  BY <1>0, <1>38 DEF RefuseClean, Goes, ProcessState, Record
<1>39. CASE AllowClean(p)
  BY <1>0, <1>39 DEF AllowClean, ProcessState, Record
<1>40. CASE RemoveWorktree(p)
  BY <1>0, <1>40 DEF RemoveWorktree, NextRepo, ProcessState, Record
<1>41. CASE RemoveWorktreeFails(p)
  BY <1>0, <1>41 DEF RemoveWorktreeFails, Fails, Idle, ProcessState, Record
<1>42. CASE ForgetSession(p)
  BY <1>0, <1>42 DEF ForgetSession, Goes, ProcessState, Record
<1>43. CASE End(p)
  BY <1>0, <1>43 DEF End, Idle, ProcessState, Record
<1> QED
  BY <1>1, <1>2, <1>3, <1>4, <1>5, <1>6, <1>7, <1>8, <1>9, <1>10, <1>11, <1>12,
     <1>13, <1>14, <1>15, <1>16, <1>17, <1>18, <1>19, <1>20, <1>21, <1>22,
     <1>23, <1>24, <1>25, <1>26, <1>27, <1>28, <1>29, <1>30, <1>31, <1>32,
     <1>33, <1>34, <1>35, <1>36, <1>37, <1>38, <1>39, <1>40, <1>41, <1>42, <1>43
  DEF Step, LoadSteps, StopSteps, ResumeSteps, AttachSteps, CleanSteps

\* So does what happens around the invocations.
LEMMA AgentSurroundings ==
  ASSUME TypeOK, AgentInv, Surroundings
  PROVE  AgentInv'
<1> DEFINE Standing == UNCHANGED <<record, guestUp, inFlight, agentOn, gitdir>>
<1>1. ASSUME Standing,
             \A q \in Processes : proc'[q] = proc[q] \/ proc'[q].pc \in {"idle", "load"}
      PROVE  AgentInv'
  BY <1>1 DEF AgentInv, GuestInv, PlaceInv, AllIsolated, Cur, Running, Preparing
<1>2. ASSUME NEW p \in Processes, Crash(p)
      PROVE  AgentInv'
  <2>1. \A q \in Processes : proc'[q] = proc[q] \/ proc'[q].pc = "idle"
    BY <1>2, IdlePlace DEF Crash, Fails, TypeOK
  <2>2. QED  BY <1>1, <1>2, <2>1 DEF Crash, machine, storage
<1>3. ASSUME NEW p \in Processes, NEW c \in CommandNames, Begin(p, c)
      PROVE  AgentInv'
  <2>1. [Idle EXCEPT !.pc = "load", !.cmd = c].pc = "load"
    BY IdleType DEF ProcessState
  <2>2. \A q \in Processes : proc'[q] = proc[q] \/ proc'[q].pc = "load"
    BY <1>3, <2>1 DEF Begin, TypeOK
  <2>3. QED  BY <1>1, <1>3, <2>2 DEF Begin, machine, storage
<1>4. ASSUME NEW r \in Repos, Work(r)
      PROVE  AgentInv'
  <2>1. Standing /\ proc' = proc
    BY <1>4
       DEF Work, AgentEdits, AgentCommits, AgentRewrites, UserEditsWorktree, UserMerges,
           Writes, machine
  <2>2. QED  BY <1>1, <2>1
<1>5. CASE TimePasses
  <2>1. /\ record'.state = record.state
        /\ UNCHANGED <<guestUp, inFlight, agentOn, gitdir>>
    BY <1>5 DEF TimePasses, TypeOK, Record, machine, storage
  <2>2. \A q \in Processes : /\ proc'[q].pc = proc[q].pc
                             /\ proc'[q].cur = proc[q].cur
                             /\ proc'[q].copy.state = proc[q].copy.state
    BY <1>5 DEF TimePasses, TypeOK, ProcessState, Record
  <2>3. QED
    BY <2>1, <2>2 DEF AgentInv, GuestInv, PlaceInv, AllIsolated, Cur, Running, Preparing
<1>6. CASE GuestArrives
  <2>1. ~Running(record) /\ ~agentOn
    BY <1>6 DEF GuestArrives, AgentInv, GuestInv
  <2>2. QED
    BY <1>6, <2>1
       DEF GuestArrives, AgentInv, GuestInv, PlaceInv, AllIsolated, Cur, Running, storage
<1>7. CASE GuestDies
  BY <1>7
     DEF GuestDies, ContainerGone, AgentInv, GuestInv, PlaceInv, AllIsolated, Cur,
         Running, storage
<1>8. CASE HostReboots
  BY <1>8, IdlePlace
     DEF HostReboots, AgentInv, GuestInv, PlaceInv, AllIsolated, Cur, Running, storage,
         Preparing
<1>9. QED
  BY <1>2, <1>3, <1>4, <1>5, <1>6, <1>7, <1>8 DEF Surroundings

LEMMA AgentInvariant == Spec /\ []OneAtATime => []AgentInv
<1>1. Init => AgentInv
  BY IdlePlace
     DEF Init, AgentInv, GuestInv, PlaceInv, AllIsolated, Running, Preparing
<1>2. TypeOK /\ AgentInv /\ OneAtATime /\ [Next]_vars => AgentInv'
  <2> SUFFICES ASSUME TypeOK, AgentInv, OneAtATime, [Next]_vars PROVE AgentInv'
    OBVIOUS
  <2>1. ASSUME NEW p \in Processes, Step(p)
        PROVE  AgentInv'
    <3>1. GuestInv' /\ PlaceInv(p)'
      BY <2>1, AgentStep DEF AgentInv
    <3>2. ~At(p, "idle")
      BY <2>1, AgentSteps DEF TypeOK
    <3>3. ASSUME NEW q \in Processes, q # p
          PROVE  PlaceInv(q)'
      <4>1. proc[q].pc = "idle"
        BY <3>2, <3>3 DEF OneAtATime, At
      <4>2. proc'[q] = proc[q]
        BY <2>1, <3>3, PlaceKept DEF TypeOK
      <4>3. QED  BY <4>1, <4>2 DEF PlaceInv, Preparing
    <3>4. QED  BY <3>1, <3>3 DEF AgentInv
  <2>2. CASE UNCHANGED vars
    BY <2>2
       DEF vars, machine, storage, AgentInv, GuestInv, PlaceInv, AllIsolated, Cur, Running,
           Preparing
  <2>3. QED
    BY <2>1, <2>2, AgentSurroundings, NextIsStepOrSurroundings
<1>3. QED  BY <1>1, <1>2, TypeCorrect, PTL DEF Spec

\* As long as no two invocations overlap, an agent works only in a guest whose
\* worktrees all have their isolated metadata, whatever dies in between: stop, a
\* lost guest, a resume that fails halfway or a container that comes up late.
THEOREM AgentsHaveMetadata == Spec /\ []OneAtATime => []AgentHasMetadata
<1>1. AgentInv => AgentHasMetadata
  BY DEF AgentInv, GuestInv, AllIsolated, AgentHasMetadata
<1>2. QED  BY <1>1, AgentInvariant, PTL

\* And every guest with an agent belongs to a session that is recorded as Running.
THEOREM AgentsAreRecorded == Spec /\ []OneAtATime => []AgentIsRecorded
<1>1. AgentInv => AgentIsRecorded
  BY DEF AgentInv, GuestInv, AgentIsRecorded
<1>2. QED  BY <1>1, AgentInvariant, PTL

-----------------------------------------------------------------------------
(***************************************************************************)
(* What makes a stopped session's guest outlive its stop (finding 2).      *)
(***************************************************************************)
\* From the request for a container to the record that says Running.
Creating == {"start", "trust", "saveRunning"}

\* A guest that is up is recorded, or it is being started by p.
KnownTo(p) ==
  guestUp => Running(record) \/ proc[p].pc \in {"trust", "saveRunning"}

\* Where the guest is down, and which commands do not stop it.
DownInv(p) ==
  /\ proc[p].pc \in Preparing \cup
       {"pin", "publish", "restore", "link", "saveStopped", "start", "abort",
        "removeTree", "forget"} => ~guestUp
  /\ proc[p].pc \in Preparing \cup
       {"check", "clear", "start", "trust", "abort", "saveRunning", "watch",
        "require", "touch"} => proc[p].cmd # "stop"
  /\ At(p, "end") /\ proc[p].cmd = "stop" => ~guestUp

KnownInv ==
  /\ ~inFlight
  /\ \E p \in Processes : KnownTo(p)
  /\ \A p \in Processes : DownInv(p)

\* A step of the only invocation keeps them, unless it fails while it creates a guest.
LEMMA KnownStep ==
  ASSUME TypeOK, ~inFlight, NEW p \in Processes, PlaceInv(p), DownInv(p), KnownTo(p),
         CrashAt \cap Creating = {}, Step(p)
  PROVE  ~inFlight' /\ KnownTo(p)' /\ DownInv(p)'
<1> USE DEF TypeOK, KnownTo, DownInv, Running, At, Cur, Preparing, machine, storage, history
<1>0. /\ proc[p] \in ProcessState
      /\ record \in Record
      /\ Idle.pc = "idle"
  BY DEF ProcessState, Idle
<1>a. proc[p].pc \in {"loaded", "changes"} => proc[p].copy.state = record.state
  BY DEF PlaceInv
<1>b. proc[p].pc \in {"inspect", "require", "touch"} => record.state = "Running"
  BY DEF PlaceInv
<1>c. proc[p].pc = "touch" => proc[p].copy.state = "Running"
  BY DEF PlaceInv
<1>1. CASE Load(p)
  BY <1>0, <1>a, <1>b, <1>c, <1>1 DEF Load, ProcessState, Record
<1>2. CASE LoadUnknown(p)
  BY <1>0, <1>a, <1>b, <1>c, <1>2 DEF LoadUnknown, Goes, Fails, Idle, ProcessState, Record
<1>3. CASE Inspect(p)
  BY <1>0, <1>a, <1>b, <1>c, <1>3 DEF Inspect, ProcessState, Record
<1>4. CASE StopLoaded(p)
  BY <1>0, <1>a, <1>b, <1>c, <1>4 DEF StopLoaded, ProcessState, Record
<1>5. CASE ExpireLoaded(p)
  BY <1>0, <1>a, <1>b, <1>c, <1>5 DEF ExpireLoaded, Expired, ProcessState, Record
<1>6. CASE ListLoaded(p)
  BY <1>0, <1>a, <1>b, <1>c, <1>6 DEF ListLoaded, Goes, ProcessState, Record
<1>7. CASE ResumeLoaded(p)
  BY <1>0, <1>a, <1>b, <1>c, <1>7 DEF ResumeLoaded, Goes, ProcessState, Record
<1>8. CASE AttachLoaded(p)
  BY <1>0, <1>a, <1>b, <1>c, <1>8 DEF AttachLoaded, Goes, Fails, Idle, ProcessState, Record
<1>9. CASE CleanLoaded(p)
  BY <1>0, <1>a, <1>b, <1>c, <1>9 DEF CleanLoaded, Goes, ProcessState, Record
<1>10. CASE RemoveContainer(p)
  BY <1>0, <1>a, <1>b, <1>c, <1>10 DEF RemoveContainer, Goes, ContainerGone, ProcessState, Record
<1>11. CASE PinSnapshot(p)
  BY <1>0, <1>a, <1>b, <1>c, <1>11 DEF PinSnapshot, ProcessState, Record
<1>12. CASE PublishSnapshot(p)
  BY <1>0, <1>a, <1>b, <1>c, <1>12 DEF PublishSnapshot, Goes, ProcessState, Record
<1>13. CASE RefuseSnapshot(p)
  BY <1>0, <1>a, <1>b, <1>c, <1>13 DEF RefuseSnapshot, Fails, Idle, ProcessState, Record
<1>14. CASE RestoreNothing(p)
  BY <1>0, <1>a, <1>b, <1>c, <1>14 DEF RestoreNothing, MetadataRestored, NextRepo, Fails, Idle, ProcessState, Record
<1>15. CASE RemoveIsolated(p)
  BY <1>0, <1>a, <1>b, <1>c, <1>15 DEF RemoveIsolated, Goes, ProcessState, Record
<1>16. CASE RestoreLink(p)
  BY <1>0, <1>a, <1>b, <1>c, <1>16 DEF RestoreLink, MetadataRestored, NextRepo, Fails, Idle, ProcessState, Record
<1>17. CASE RestoreLinkFails(p)
  BY <1>0, <1>a, <1>b, <1>c, <1>17 DEF RestoreLinkFails, MetadataRestored, NextRepo, Fails, Idle, ProcessState, Record
<1>18. CASE SaveStopped(p)
  BY <1>0, <1>a, <1>b, <1>c, <1>18 DEF SaveStopped, StoppedCopy, ProcessState, Record
<1>19. CASE CheckNotRunning(p)
  BY <1>0, <1>a, <1>b, <1>c, <1>19 DEF CheckNotRunning, Goes, Fails, Idle, ProcessState, Record
<1>20. CASE ClearStaleContainer(p)
  BY <1>0, <1>a, <1>b, <1>c, <1>20 DEF ClearStaleContainer, Goes, ContainerGone, ProcessState, Record
<1>21. CASE ValidateCheckpoints(p)
  BY <1>0, <1>a, <1>b, <1>c, <1>21 DEF ValidateCheckpoints, ProcessState, Record
<1>22. CASE RefuseCheckpoints(p)
  BY <1>0, <1>a, <1>b, <1>c, <1>22 DEF RefuseCheckpoints, Fails, Idle, ProcessState, Record
<1>23. CASE CheckpointWorktree(p)
  BY <1>0, <1>a, <1>b, <1>c, <1>23 DEF CheckpointWorktree, NextRepo, Fails, Idle, ProcessState, Record
<1>24. CASE PrepareWorktree(p)
  BY <1>0, <1>a, <1>b, <1>c, <1>24 DEF PrepareWorktree, Undoes, ProcessState, Record
<1>25. CASE RemoveLink(p)
  BY <1>0, <1>a, <1>b, <1>c, <1>25 DEF RemoveLink, Goes, Undoes, ProcessState, Record
<1>26. CASE IsolateWorktree(p)
  BY <1>0, <1>a, <1>b, <1>c, <1>26 DEF IsolateWorktree, NextRepo, ProcessState, Record
<1>27. CASE IsolateFails(p)
  BY <1>0, <1>a, <1>b, <1>c, <1>27 DEF IsolateFails, Undoes, ProcessState, Record
<1>28. CASE StartGuest(p)
  BY <1>0, <1>a, <1>b, <1>c, <1>28 DEF StartGuest, Goes, ProcessState, Record
<1>29. CASE StartRefused(p)
  BY <1>0, <1>a, <1>b, <1>c, <1>29 DEF StartRefused, Undoes, ProcessState, Record
<1>30. CASE StartFails(p)
  BY <1>0, <1>a, <1>b, <1>c, <1>30 DEF StartFails, Undoes, ProcessState, Record, Creating
<1>31. CASE TrustGuest(p)
  BY <1>0, <1>a, <1>b, <1>c, <1>31 DEF TrustGuest, Goes, ProcessState, Record
<1>32. CASE TrustTimesOut(p)
  BY <1>0, <1>a, <1>b, <1>c, <1>32 DEF TrustTimesOut, Goes, ProcessState, Record, Creating
<1>33. CASE AbortGuest(p)
  BY <1>0, <1>a, <1>b, <1>c, <1>33 DEF AbortGuest, ContainerGone, Undoes, ProcessState, Record
<1>34. CASE SaveRunning(p)
  BY <1>0, <1>a, <1>b, <1>c, <1>34 DEF SaveRunning, Goes, ProcessState, Record
<1>35. CASE StartWatch(p)
  BY <1>0, <1>a, <1>b, <1>c, <1>35 DEF StartWatch, Goes, ProcessState, Record
<1>36. CASE RequireRunning(p)
  BY <1>0, <1>a, <1>b, <1>c, <1>36 DEF RequireRunning, Goes, Fails, Idle, ProcessState, Record
<1>37. CASE Touch(p)
  BY <1>0, <1>a, <1>b, <1>c, <1>37 DEF Touch, Goes, ProcessState, Record
<1>38. CASE RefuseClean(p)
  BY <1>0, <1>a, <1>b, <1>c, <1>38 DEF RefuseClean, Goes, ProcessState, Record
<1>39. CASE AllowClean(p)
  BY <1>0, <1>a, <1>b, <1>c, <1>39 DEF AllowClean, ProcessState, Record
<1>40. CASE RemoveWorktree(p)
  BY <1>0, <1>a, <1>b, <1>c, <1>40 DEF RemoveWorktree, NextRepo, ProcessState, Record
<1>41. CASE RemoveWorktreeFails(p)
  BY <1>0, <1>a, <1>b, <1>c, <1>41 DEF RemoveWorktreeFails, Fails, Idle, ProcessState, Record
<1>42. CASE ForgetSession(p)
  BY <1>0, <1>a, <1>b, <1>c, <1>42 DEF ForgetSession, Goes, ProcessState, Record
<1>43. CASE End(p)
  BY <1>0, <1>a, <1>b, <1>c, <1>43 DEF End, Idle, ProcessState, Record
<1> QED
  BY <1>1, <1>2, <1>3, <1>4, <1>5, <1>6, <1>7, <1>8, <1>9, <1>10, <1>11, <1>12, <1>13, <1>14, <1>15, <1>16, <1>17, <1>18, <1>19, <1>20, <1>21, <1>22, <1>23, <1>24, <1>25, <1>26, <1>27, <1>28, <1>29, <1>30, <1>31, <1>32, <1>33, <1>34, <1>35, <1>36, <1>37, <1>38, <1>39, <1>40, <1>41, <1>42, <1>43
  DEF Step, LoadSteps, StopSteps, ResumeSteps, AttachSteps, CleanSteps

LEMMA KnownSurroundings ==
  ASSUME TypeOK, KnownInv, Surroundings, CrashAt \cap Creating = {}
  PROVE  KnownInv'
<1> DEFINE Standing == UNCHANGED <<record, guestUp, inFlight>>
<1>1. ASSUME Standing,
             \A q \in Processes :
               \/ proc'[q] = proc[q]
               \/ proc'[q].pc \in {"idle", "load"} /\ proc[q].pc \notin {"trust", "saveRunning"}
      PROVE  KnownInv'
  BY <1>1 DEF KnownInv, KnownTo, DownInv, Running, At, Preparing
<1>2. ASSUME NEW p \in Processes, Crash(p)
      PROVE  KnownInv'
  <2>1. proc[p].pc \notin {"trust", "saveRunning"}
    BY <1>2 DEF Crash, Creating
  <2>2. \A q \in Processes : proc'[q] = proc[q] \/ (q = p /\ proc'[q].pc = "idle")
    BY <1>2, IdlePlace DEF Crash, Fails, TypeOK
  <2>3. QED  BY <1>1, <1>2, <2>1, <2>2 DEF Crash, machine
<1>3. ASSUME NEW p \in Processes, NEW c \in CommandNames, Begin(p, c)
      PROVE  KnownInv'
  <2>1. [Idle EXCEPT !.pc = "load", !.cmd = c].pc = "load" /\ proc[p].pc = "idle"
    BY <1>3, IdleType DEF ProcessState, Begin, At
  <2>2. \A q \in Processes : proc'[q] = proc[q] \/ (q = p /\ proc'[q].pc = "load")
    BY <1>3, <2>1 DEF Begin, TypeOK
  <2>3. QED  BY <1>1, <1>3, <2>1, <2>2 DEF Begin, machine
<1>4. ASSUME NEW r \in Repos, Work(r)
      PROVE  KnownInv'
  <2>1. Standing /\ proc' = proc
    BY <1>4
       DEF Work, AgentEdits, AgentCommits, AgentRewrites, UserEditsWorktree, UserMerges,
           Writes, machine
  <2>2. QED  BY <1>1, <2>1
<1>5. CASE TimePasses
  <2>1. record'.state = record.state /\ UNCHANGED <<guestUp, inFlight>>
    BY <1>5 DEF TimePasses, TypeOK, Record, machine
  <2>2. \A q \in Processes : /\ proc'[q].pc = proc[q].pc
                             /\ proc'[q].cmd = proc[q].cmd
    BY <1>5 DEF TimePasses, TypeOK, ProcessState
  <2>3. QED  BY <2>1, <2>2 DEF KnownInv, KnownTo, DownInv, Running, At
<1>6. CASE GuestArrives
  BY <1>6 DEF GuestArrives, KnownInv
<1>7. CASE GuestDies
  BY <1>7 DEF GuestDies, ContainerGone, KnownInv, KnownTo, DownInv, At
<1>8. CASE HostReboots
  <2>1. ~guestUp' /\ ~inFlight' /\ \A q \in Processes : proc'[q].pc = "idle"
    BY <1>8, IdlePlace DEF HostReboots
  <2>2. QED  BY <2>1 DEF KnownInv, KnownTo, DownInv, At, Preparing
<1>9. QED
  BY <1>2, <1>3, <1>4, <1>5, <1>6, <1>7, <1>8 DEF Surroundings

\* "runtime container is unexpectedly still running; stop it first", says resume, and
\* a stop does take the guest down, for every death, failure, reboot and lost guest,
\* if invocations do not overlap and none of them fails between the request for a
\* container and the record of it: these three phases are what finding 2 needs.
THEOREM StopsTakeGuestsDown ==
  ASSUME CrashAt \cap Creating = {}
  PROVE  Spec /\ []OneAtATime => []StopTakesGuestDown
<1>1. Init => KnownInv
  BY IdlePlace
     DEF Init, KnownInv, KnownTo, DownInv, Running, At, Preparing, Processes
<1>2. TypeOK /\ AgentInv /\ KnownInv /\ OneAtATime /\ [Next]_vars => KnownInv'
  <2> SUFFICES ASSUME TypeOK, AgentInv, KnownInv, OneAtATime, [Next]_vars PROVE KnownInv'
    OBVIOUS
  <2>1. ASSUME NEW p \in Processes, Step(p)
        PROVE  KnownInv'
    <3>1. ~At(p, "idle")
      BY <2>1, AgentSteps DEF TypeOK
    <3>2. \A q \in Processes : q # p => proc[q].pc = "idle"
      BY <3>1 DEF OneAtATime, At
    <3>3. KnownTo(p)
      BY <3>2 DEF KnownInv, KnownTo
    <3>4. ~inFlight' /\ KnownTo(p)' /\ DownInv(p)'
      BY <2>1, <3>3, KnownStep DEF KnownInv, AgentInv
    <3>5. ASSUME NEW q \in Processes, q # p
          PROVE  DownInv(q)'
      <4>1. proc'[q].pc = "idle"
        BY <2>1, <3>2, <3>5, PlaceKept DEF TypeOK
      <4>2. QED  BY <4>1 DEF DownInv, At, Preparing
    <3>6. QED  BY <3>4, <3>5 DEF KnownInv
  <2>2. CASE UNCHANGED vars
    BY <2>2 DEF vars, machine, KnownInv, KnownTo, DownInv, Running, At
  <2>3. QED
    BY <2>1, <2>2, KnownSurroundings, NextIsStepOrSurroundings
<1>3. KnownInv => StopTakesGuestDown
  BY DEF KnownInv, DownInv, StopTakesGuestDown, Processes
<1>4. QED  BY <1>1, <1>2, <1>3, AgentInvariant, TypeCorrect, PTL DEF Spec

=============================================================================
