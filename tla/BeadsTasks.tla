------------------------------ MODULE BeadsTasks ------------------------------
(***************************************************************************)
(* The tasks of a project on their way into a guest and into its commits.  *)
(*                                                                         *)
(* The host's Beads export (`issues.jsonl`) is copied into the worktree of *)
(* a new session.  Each start of the guest initializes a database from the *)
(* file, or imports the file into the database that an earlier start left, *)
(* and does not answer before it has found every record again.  A commit   *)
(* in the guest runs a hook that lets Beads export its database over the   *)
(* file, and takes that back when records would be lost.                   *)
(*                                                                         *)
(* One workspace; the guest's loop over workspaces ends at the first that  *)
(* fails.  Beads and its database are external.                            *)
(***************************************************************************)
EXTENDS Naturals, FiniteSets

CONSTANTS
  Issues,     \* records with an id
  Memories,   \* records without one
  TaskSteps   \* bound: what agents do with the database, and stops

VARIABLES
  export,     \* the file in the host repository; "none" when there is none
  jsonl,      \* the file in the worktree
  inCommit,   \* the file in the last commit of the session branch
  db,         \* the guest's database, "none" before it is initialized
  guestAt,    \* what the guest is doing
  backup,     \* the hook's copy of the file
  given,      \* issues that the file had when the guest last became ready
  dropped,    \* issues that an agent deleted since
  taskSteps   \* how much of TaskSteps is used

taskVars == <<export, jsonl, inCommit, db, guestAt, backup, given, dropped,
              taskSteps>>

TaskRecords == Issues \cup Memories
None == [absent |-> TRUE]

\* A file or a database is the set of its records, wrapped so that it can be
\* told from one that does not exist.
Holding(S) == [absent |-> FALSE, records |-> S]
Stores == {None} \cup {Holding(S) : S \in SUBSET TaskRecords}
Exists(store) == store # None
Of(store) == IF Exists(store) THEN store.records ELSE {}

ASSUME TasksAssumption ==
  /\ IsFiniteSet(Issues) /\ IsFiniteSet(Memories)
  /\ Issues \cap Memories = {}
  /\ TaskSteps \in Nat

GuestStages == {"new", "down", "prepare", "verify", "ready", "exporting",
                "checking", "refused", "failed"}

TasksTypeOK ==
  /\ export \in Stores
  /\ jsonl \in Stores
  /\ inCommit \in Stores
  /\ db \in Stores
  /\ guestAt \in GuestStages
  /\ backup \subseteq TaskRecords
  /\ given \subseteq Issues
  /\ dropped \subseteq Issues
  /\ taskSteps \in 0 .. TaskSteps

\* The project may track its file, and the host's may be newer than that.
TasksInit ==
  /\ export \in Stores
  /\ inCommit \in Stores
  /\ jsonl = inCommit
  /\ db = None
  /\ guestAt = "new"
  /\ backup = {} /\ given = {} /\ dropped = {}
  /\ taskSteps = 0

-----------------------------------------------------------------------------
(***************************************************************************)
(* The host's export becomes the worktree's file                           *)
(***************************************************************************)
IssueCount(S) == Cardinality(S \cap Issues)

\* An empty export, or one with fewer issues than the file that it would
\* replace, never goes over a working one.  Memories are not counted.
AcceptsExport ==
  /\ Of(export) # {}
  /\ IssueCount(Of(export)) >= IssueCount(Of(jsonl))

SnapshotBeads ==
  /\ guestAt = "new"
  /\ IF ~Exists(export)
     THEN guestAt' = "down" /\ UNCHANGED jsonl
     ELSE IF AcceptsExport
     THEN guestAt' = "down" /\ jsonl' = export
     ELSE guestAt' = "refused" /\ UNCHANGED jsonl
  /\ UNCHANGED <<export, inCommit, db, backup, given, dropped, taskSteps>>

-----------------------------------------------------------------------------
(***************************************************************************)
(* Bootstrap of the guest                                                  *)
(***************************************************************************)

\* No file: nothing to do.  An empty one is refused.
EnterGuest ==
  /\ guestAt = "down"
  /\ guestAt' = IF ~Exists(jsonl) THEN "ready"
                ELSE IF Of(jsonl) = {} THEN "failed" ELSE "prepare"
  /\ given' = Of(jsonl) \cap Issues
  /\ dropped' = {}
  /\ UNCHANGED <<export, jsonl, inCommit, db, backup, taskSteps>>

\* `bd init` from the file, or an import into what is there: it adds records
\* and removes none.  What Beads leaves out is for the next step to find.
Hydrate ==
  /\ guestAt = "prepare"
  /\ \E S \in SUBSET Of(jsonl) : db' = Holding(Of(db) \cup S)
  /\ guestAt' = "verify"
  /\ UNCHANGED <<export, jsonl, inCommit, backup, given, dropped, taskSteps>>

\* mutant: as many issues as the file has, whichever they are
SameCount ==
  /\ guestAt = "verify"
  /\ guestAt' = IF IssueCount(Of(db)) >= IssueCount(Of(jsonl))
                THEN "ready" ELSE "failed"
  /\ UNCHANGED <<export, jsonl, inCommit, db, backup, given, dropped, taskSteps>>

\* Ids are compared, not counts.  Then the hook is installed, and ssh starts.
VerifyImport ==
  /\ guestAt = "verify"
  /\ guestAt' = IF /\ Of(jsonl) \cap Issues # {}
                   /\ Of(jsonl) \cap Issues \subseteq Of(db)
                THEN "ready" ELSE "failed"
  /\ UNCHANGED <<export, jsonl, inCommit, db, backup, given, dropped, taskSteps>>

\* A wrong prefix, a project's own hooks, or the budget of time is used up, at
\* any point of it: the guest ends, and leaves what it has imported.
BootstrapFails ==
  /\ guestAt \in {"prepare", "verify"}
  /\ \E S \in SUBSET Of(jsonl) :
       db' \in {db, Holding(Of(db) \cup S)}
  /\ guestAt' = "failed"
  /\ UNCHANGED <<export, jsonl, inCommit, backup, given, dropped, taskSteps>>

-----------------------------------------------------------------------------
(***************************************************************************)
(* Agents in the guest                                                     *)
(***************************************************************************)
InGuest == guestAt \in {"ready", "exporting", "checking"}

TaskStep ==
  /\ taskSteps < TaskSteps
  /\ taskSteps' = taskSteps + 1

\* While one of them commits, another one uses the database.
AgentChangesTasks ==
  /\ InGuest
  /\ Exists(db)
  /\ TaskStep
  /\ \/ \E r \in TaskRecords \ Of(db) :
          db' = Holding(Of(db) \cup {r}) /\ UNCHANGED dropped
     \/ \E r \in Of(db) :
          /\ db' = Holding(Of(db) \ {r})
          /\ dropped' = dropped \cup ({r} \cap Issues)
  /\ UNCHANGED <<export, jsonl, inCommit, guestAt, backup, given>>

\* What may replace what: no issue is missing, and memories are not fewer.
SafeExport(old, candidate) ==
  /\ old \cap Issues # {} /\ candidate \cap Issues # {}
  /\ old \cap Issues \subseteq candidate
  /\ Cardinality(candidate \cap Memories) >= Cardinality(old \cap Memories)

\* The hook refuses the commit when the database has lost something already.
BeginCommit ==
  /\ guestAt = "ready"
  /\ Exists(jsonl)
  /\ SafeExport(Of(jsonl), Of(db))
  /\ backup' = Of(jsonl)
  /\ guestAt' = "exporting"
  /\ UNCHANGED <<export, jsonl, inCommit, db, given, dropped, taskSteps>>

\* Beads writes its database over the file, in full or in part, or fails; a
\* failure ends the hook, which puts the file back.
ExportTasks ==
  /\ guestAt = "exporting"
  /\ \/ /\ \E S \in SUBSET Of(db) : jsonl' = Holding(S)
        /\ guestAt' = "checking"
     \/ /\ jsonl' = Holding(backup)
        /\ guestAt' = "ready"
  /\ UNCHANGED <<export, inCommit, db, backup, given, dropped, taskSteps>>

\* mutant: the file that Beads wrote is not compared again
CommitsUnchecked ==
  /\ guestAt = "checking"
  /\ inCommit' = jsonl
  /\ guestAt' = "ready"
  /\ UNCHANGED <<export, jsonl, db, backup, given, dropped, taskSteps>>

\* It is compared with the copy again, put back when it lost something, and
\* committed else.
CheckExport ==
  /\ guestAt = "checking"
  /\ IF SafeExport(backup, Of(jsonl))
     THEN inCommit' = jsonl /\ UNCHANGED jsonl
     ELSE jsonl' = Holding(backup) /\ UNCHANGED inCommit
  /\ guestAt' = "ready"
  /\ UNCHANGED <<export, db, backup, given, dropped, taskSteps>>

-----------------------------------------------------------------------------
(***************************************************************************)
(* Stop and resume                                                         *)
(***************************************************************************)

\* The guest ends wherever it is; file and database stay in the worktree.  The
\* next start may find the file checkpointed, or reset to the commit that
\* tracks it.
EndGuest ==
  /\ InGuest \/ guestAt = "failed"
  /\ TaskStep
  /\ \/ /\ jsonl' = IF Exists(inCommit) THEN inCommit ELSE jsonl
        /\ UNCHANGED inCommit
     \/ inCommit' = jsonl /\ UNCHANGED jsonl
  /\ guestAt' = "down"
  /\ UNCHANGED <<export, db, backup, given, dropped>>

TasksNext ==
  \/ SnapshotBeads
  \/ EnterGuest \/ Hydrate \/ VerifyImport \/ BootstrapFails
  \/ AgentChangesTasks
  \/ BeginCommit \/ ExportTasks \/ CheckExport
  \/ EndGuest

TasksSpec == TasksInit /\ [][TasksNext]_taskVars

-----------------------------------------------------------------------------
(***************************************************************************)
(* Properties                                                              *)
(***************************************************************************)

\* A guest that answers has every issue of the file it started from, except
\* what its agents deleted since, however often a bootstrap was cut off.
Hydrated == InGuest => given \ dropped \subseteq Of(db)

\* No commit in the guest has fewer issues, or fewer memories, than the file had
\* when the commit began, although the database changes under the hook.
CommitKeepsTasks ==
  guestAt = "checking" /\ guestAt' = "ready" /\ inCommit' # inCommit =>
    /\ backup \cap Issues \subseteq Of(inCommit')
    /\ Cardinality(backup \cap Memories) <= Cardinality(Of(inCommit') \cap Memories)

\* Tasks are never lost on the way from the host's export to the guest, and from
\* its database to its commits.
TasksKept == [][Hydrated' /\ CommitKeepsTasks]_taskVars
=============================================================================
