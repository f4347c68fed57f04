--------------------------- MODULE LaunchRollback ---------------------------
(***************************************************************************)
(* `jbox run` creating sessions, and what becomes of a launch that fails.  *)
(*                                                                         *)
(* A launch chooses a loopback address, creates the storage of its         *)
(* session, a worktree of each repository with isolated metadata, and an   *)
(* SSH agent, asks Docker for the guest, waits until it answers, and saves *)
(* the record.  Before that save no other command knows of it, so a        *)
(* failure takes everything back, unless the guest may still exist: then   *)
(* the storage that it mounts stays, and the user is told.                 *)
(*                                                                         *)
(* Several launches run at the same time.  What happens to a session once  *)
(* it is saved is one step here: SessionLifecycle has it in full.          *)
(***************************************************************************)
EXTENDS Integers

CONSTANTS
  Launches,    \* invocations that create a session, each with its own id
  RepoCount,   \* repositories of each of them
  HostCount,   \* loopback addresses, 253 in the code
  Width,       \* numbers the address arithmetic has, 256 for its u8
  First,       \* launch -> where the hash of its id starts looking
  Taken,       \* addresses of older sessions
  CrashAt,     \* bound: phases in which an invocation can die
  SaveFails,   \* bound: whether the record can fail to be saved
  MaxFaults    \* bound: failures and crashes

VARIABLES
  record,      \* state in the saved record; "none" before, "Removed" after
  host,        \* the address a launch has chosen
  storage,     \* whether the session's directory is there
  linked,      \* the worktrees git has registered in their repositories
  tree,        \* what is at the path of each worktree
  agent,       \* whether the session's ssh-agent runs
  guest,       \* the container, and Docker's request for it
  proc,        \* what each invocation is doing
  outcome,     \* what the user was told at its end
  beside,      \* the launches in progress when a launch chose its address
  faults       \* how much of MaxFaults is used

worktrees == <<linked, tree>>
runtime == <<agent, guest>>
told == <<outcome, beside>>
vars == <<record, host, storage, worktrees, runtime, proc, told, faults>>

Repos == 1 .. RepoCount
Hosts == 0 .. HostCount - 1
NoHost == -1

Phases == {"idle", "store", "snapshot", "add", "isolate", "fill", "agent",
           "run", "poll", "trust", "save", "probe", "restore", "remove",
           "delete", "ended"}

ASSUME ConstantsAssumption ==
  /\ RepoCount \in Nat \ {0}
  /\ HostCount \in Nat \ {0}
  /\ Width \in Nat \ {0}
  /\ First \in [Launches -> Hosts]
  /\ Taken \subseteq Hosts
  /\ CrashAt \subseteq Phases
  /\ SaveFails \in BOOLEAN
  /\ MaxFaults \in Nat

\* A worktree with its link file, with the guest's own metadata, or without
\* any of the two.
Trees == {"none", "link", "isolated", "broken"}

\* "asked": a request is in flight that can still create the container.
Guests == {"none", "asked", "up", "down"}

Outcomes == {"none", "created", "failed", "rolledBack", "incomplete",
             "preserved", "died"}

TypeOK ==
  /\ record \in [Launches -> {"none", "Running", "Stopped", "Removed"}]
  /\ host \in [Launches -> Hosts \cup {NoHost}]
  /\ storage \in [Launches -> BOOLEAN]
  /\ linked \in [Launches -> SUBSET Repos]
  /\ tree \in [Launches -> [Repos -> Trees]]
  /\ agent \in [Launches -> BOOLEAN]
  /\ guest \in [Launches -> Guests]
  /\ proc \in [Launches -> [pc : Phases, repo : Repos, owned : 0 .. RepoCount,
                            failed : BOOLEAN]]
  /\ outcome \in [Launches -> Outcomes]
  /\ beside \in [Launches -> SUBSET Launches]
  /\ faults \in Nat

Init ==
  /\ record = [l \in Launches |-> "none"]
  /\ host = [l \in Launches |-> NoHost]
  /\ storage = [l \in Launches |-> FALSE]
  /\ linked = [l \in Launches |-> {}]
  /\ tree = [l \in Launches |-> [r \in Repos |-> "none"]]
  /\ agent = [l \in Launches |-> FALSE]
  /\ guest = [l \in Launches |-> "none"]
  /\ proc = [l \in Launches |->
               [pc |-> "idle", repo |-> 1, owned |-> 0, failed |-> FALSE]]
  /\ outcome = [l \in Launches |-> "none"]
  /\ beside = [l \in Launches |-> {}]
  /\ faults = 0

-----------------------------------------------------------------------------
At(l, phase) == proc[l].pc = phase
Cur(l) == proc[l].repo
Goes(l, phase) == proc' = [proc EXCEPT ![l].pc = phase]

Ends(l, how) ==
  /\ Goes(l, "ended")
  /\ outcome' = [outcome EXCEPT ![l] = how]

\* Something fails that depends on more than the model knows (counted).
Fault ==
  /\ faults < MaxFaults
  /\ faults' = faults + 1

\* mutant: the worktree that failed is not taken back with the others
RollsBackOthers(l, n) ==
  proc' = [proc EXCEPT ![l] =
             [pc |-> IF n < 2 THEN "delete" ELSE "restore",
              repo |-> 1, owned |-> IF n = 0 THEN 0 ELSE n - 1,
              failed |-> FALSE]]

\* The first `n` worktrees are taken back, then the storage.
RollsBack(l, n) ==
  proc' = [proc EXCEPT ![l] =
             [pc |-> IF n = 0 THEN "delete" ELSE "restore",
              repo |-> 1, owned |-> n, failed |-> FALSE]]

InProgress(l) == ~At(l, "idle") /\ ~At(l, "ended")
Recorded(l) == record[l] \in {"Running", "Stopped"}

-----------------------------------------------------------------------------
(***************************************************************************)
(* The launch                                                              *)
(***************************************************************************)

\* The k-th address that a launch tries, in a build whose arithmetic wraps
\* (one that checks it panics here, before anything is created).
Candidate(l, k) == ((First[l] + k) % Width) % HostCount

\* mutant: the addresses of running sessions only
RunningHosts ==
  Taken \cup {host[l] : l \in {m \in Launches : record[m] = "Running"}}

\* The addresses of all records, running or stopped.
UsedHosts == Taken \cup {host[l] : l \in {m \in Launches : Recorded(m)}}

ChooseHost(l) ==
  /\ At(l, "idle")
  /\ \E k \in 0 .. HostCount - 1 :
       /\ Candidate(l, k) \notin UsedHosts
       /\ \A j \in 0 .. k - 1 : Candidate(l, j) \in UsedHosts
       /\ host' = [host EXCEPT ![l] = Candidate(l, k)]
  /\ beside' = [beside EXCEPT ![l] = {m \in Launches : InProgress(m)}]
  /\ Goes(l, "store")
  /\ UNCHANGED <<record, storage, worktrees, runtime, outcome, faults>>

NoHostFree(l) ==
  /\ At(l, "idle")
  /\ \A k \in 0 .. HostCount - 1 : Candidate(l, k) \in UsedHosts
  /\ Ends(l, "failed")
  /\ UNCHANGED <<record, host, storage, worktrees, runtime, beside, faults>>

CreateStorage(l) ==
  /\ At(l, "store")
  /\ storage' = [storage EXCEPT ![l] = TRUE]
  /\ \/ Goes(l, "snapshot") /\ UNCHANGED <<outcome, faults>>
     \/ Fault /\ Ends(l, "failed")
  /\ UNCHANGED <<record, host, worktrees, runtime, beside>>

SnapshotHostChanges(l) ==
  /\ At(l, "snapshot")
  /\ \/ Goes(l, "add") /\ UNCHANGED faults
     \/ Fault /\ RollsBack(l, 0)
  /\ UNCHANGED <<record, host, storage, worktrees, runtime, told>>

AddWorktree(l) ==
  /\ At(l, "add")
  /\ linked' = [linked EXCEPT ![l] = @ \cup {Cur(l)}]
  /\ tree' = [tree EXCEPT ![l][Cur(l)] = "link"]
  /\ \/ Goes(l, "isolate") /\ UNCHANGED faults
     \/ Fault /\ RollsBack(l, Cur(l))
  /\ UNCHANGED <<record, host, storage, runtime, told>>

\* Git fails before it registers the worktree; something may be at its path.
AddFails(l) ==
  /\ At(l, "add")
  /\ Fault
  /\ \/ RollsBack(l, Cur(l) - 1) /\ UNCHANGED tree
     \/ /\ RollsBack(l, Cur(l))
        /\ tree' = [tree EXCEPT ![l][Cur(l)] = "broken"]
  /\ UNCHANGED <<record, host, storage, linked, runtime, told>>

IsolateMetadata(l) ==
  /\ At(l, "isolate")
  /\ tree' = [tree EXCEPT ![l][Cur(l)] = "isolated"]
  /\ \/ Goes(l, "fill") /\ UNCHANGED faults
     \/ Fault /\ RollsBack(l, Cur(l))
  /\ UNCHANGED <<record, host, storage, linked, runtime, told>>

\* It fails before the swap, or between the removal of the link and the
\* rename of the metadata that replaces it.
IsolateFails(l) ==
  /\ At(l, "isolate")
  /\ Fault
  /\ \/ UNCHANGED tree
     \/ tree' = [tree EXCEPT ![l][Cur(l)] = "broken"]
  /\ RollsBack(l, Cur(l))
  /\ UNCHANGED <<record, host, storage, linked, runtime, told>>

\* Host changes and the Beads export are copied into the worktree.
FillWorktree(l) ==
  /\ At(l, "fill")
  /\ \/ /\ Cur(l) < RepoCount
        /\ proc' = [proc EXCEPT ![l].pc = "add", ![l].repo = @ + 1]
        /\ UNCHANGED faults
     \/ Cur(l) = RepoCount /\ Goes(l, "agent") /\ UNCHANGED faults
     \/ Fault /\ RollsBack(l, Cur(l))
  /\ UNCHANGED <<record, host, storage, worktrees, runtime, told>>

StartAgent(l) ==
  /\ At(l, "agent")
  /\ \/ /\ agent' = [agent EXCEPT ![l] = TRUE]
        /\ Goes(l, "run")
        /\ UNCHANGED faults
     \/ Fault /\ RollsBack(l, RepoCount) /\ UNCHANGED agent
  /\ UNCHANGED <<record, host, storage, worktrees, guest, told>>

StopsAgent(l) == agent' = [agent EXCEPT ![l] = FALSE]

\* mutant: the agent is started and not stopped
SpecFailsAlone(l) ==
  /\ At(l, "run")
  /\ Fault
  /\ RollsBack(l, RepoCount)
  /\ UNCHANGED <<record, host, storage, worktrees, runtime, told>>

SpecFails(l) ==
  /\ At(l, "run")
  /\ Fault
  /\ StopsAgent(l)
  /\ RollsBack(l, RepoCount)
  /\ UNCHANGED <<record, host, storage, worktrees, guest, told>>

-----------------------------------------------------------------------------
(***************************************************************************)
(* The guest                                                               *)
(***************************************************************************)

\* Docker publishes an address and port for one container at a time.
Published(l) ==
  \E m \in Launches : m # l /\ guest[m] = "up" /\ host[m] = host[l]

Guest(l, g) == guest' = [guest EXCEPT ![l] = g]

RunGuest(l) ==
  /\ At(l, "run")
  /\ ~Published(l)
  /\ Guest(l, "up")
  /\ Goes(l, "poll")
  /\ UNCHANGED <<record, host, storage, worktrees, agent, told, faults>>

\* mutant: absence right after the failed client is taken for certain
RunTakenForFailed(l) ==
  /\ At(l, "run")
  /\ \/ Fault /\ \E g \in {"none", "asked", "down"} : Guest(l, g)
     \/ Published(l) /\ Guest(l, "down") /\ UNCHANGED faults
  /\ StopsAgent(l)
  /\ Goes(l, "probe")
  /\ UNCHANGED <<record, host, storage, worktrees, told>>

\* `docker run` fails or times out: GuestStartUncertain.
RunUncertain(l) ==
  /\ At(l, "run")
  /\ \/ Fault /\ \E g \in {"none", "asked", "down"} : Guest(l, g)
     \/ Published(l) /\ Guest(l, "down") /\ UNCHANGED faults
  /\ StopsAgent(l)
  /\ Ends(l, "preserved")
  /\ UNCHANGED <<record, host, storage, worktrees, beside>>

\* A prerequisite is missing, so `docker run` is not called.
RunRefused(l) ==
  /\ At(l, "run")
  /\ Fault
  /\ StopsAgent(l)
  /\ Goes(l, "probe")
  /\ UNCHANGED <<record, host, storage, worktrees, guest, told>>

\* The daemon gets to a request whose client is gone.
DaemonCreates(l) ==
  /\ guest[l] = "asked"
  /\ \/ ~Published(l) /\ Guest(l, "up")
     \/ Guest(l, "down")
     \/ Guest(l, "none")
  /\ UNCHANGED <<record, host, storage, worktrees, agent, proc, told, faults>>

GuestExits(l) ==
  /\ guest[l] = "up"
  /\ At(l, "poll") \/ At(l, "trust")
  /\ Fault
  /\ Guest(l, "down")
  /\ UNCHANGED <<record, host, storage, worktrees, agent, proc, told>>

PublishesPort(l) ==
  /\ At(l, "poll")
  /\ guest[l] = "up"
  /\ Goes(l, "trust")
  /\ UNCHANGED <<record, host, storage, worktrees, runtime, told, faults>>

\* finish_startup stops the guest; whether that worked is found by asking.
StartupFails(l) ==
  /\ At(l, "poll")
  /\ \/ guest[l] = "down" /\ UNCHANGED faults
     \/ Fault
  /\ Guest(l, "none") \/ UNCHANGED guest
  /\ StopsAgent(l)
  /\ Goes(l, "probe")
  /\ UNCHANGED <<record, host, storage, worktrees, told>>

TrustHost(l) ==
  /\ At(l, "trust")
  /\ guest[l] = "up"
  /\ Goes(l, "save")
  /\ UNCHANGED <<record, host, storage, worktrees, runtime, told, faults>>

TrustFails(l) ==
  /\ At(l, "trust")
  /\ \/ guest[l] = "down" /\ UNCHANGED faults
     \/ Fault
  /\ StopsAgent(l)
  /\ \/ Guest(l, "none") /\ Goes(l, "probe") /\ UNCHANGED outcome
     \/ UNCHANGED guest /\ Goes(l, "probe") /\ UNCHANGED outcome
     \/ Ends(l, "preserved") /\ (Guest(l, "none") \/ UNCHANGED guest)
  /\ UNCHANGED <<record, host, storage, worktrees, beside>>

\* guest_confirmed_absent: a request in flight does not show.
ConfirmAbsent(l) ==
  /\ At(l, "probe")
  /\ \/ /\ guest[l] \in {"none", "asked"}
        /\ RollsBack(l, RepoCount)
        /\ UNCHANGED <<outcome, faults>>
     \/ /\ guest[l] \in {"up", "down"}
        /\ Ends(l, "preserved")
        /\ UNCHANGED faults
     \/ Fault /\ Ends(l, "preserved")
  /\ UNCHANGED <<record, host, storage, worktrees, runtime, beside>>

SaveSession(l) ==
  /\ At(l, "save")
  /\ \/ /\ record' = [record EXCEPT ![l] = "Running"]
        /\ Ends(l, "created")
        /\ UNCHANGED faults
     \/ SaveFails /\ Fault /\ Ends(l, "failed") /\ UNCHANGED record
  /\ UNCHANGED <<host, storage, worktrees, runtime, beside>>

-----------------------------------------------------------------------------
(***************************************************************************)
(* The rollback                                                            *)
(***************************************************************************)

\* mutant: one worktree too many
NextOwnedPast(l, wrong) ==
  LET p == proc[l] IN
  proc' = [proc EXCEPT ![l] =
             [p EXCEPT !.pc = IF p.repo <= p.owned THEN "restore" ELSE "delete",
                       !.repo = IF p.repo <= p.owned THEN @ + 1 ELSE @,
                       !.failed = @ \/ wrong]]

\* On to the next worktree; a failure is noted and the others go on.
NextOwned(l, wrong) ==
  LET p == proc[l] IN
  proc' = [proc EXCEPT ![l] =
             [p EXCEPT !.pc = IF p.repo < p.owned THEN "restore" ELSE "delete",
                       !.repo = IF p.repo < p.owned THEN @ + 1 ELSE @,
                       !.failed = @ \/ wrong]]

\* The isolated metadata is removed, the link copied back, the index reset.
RestoreMetadata(l) ==
  /\ At(l, "restore")
  /\ \/ /\ tree[l][Cur(l)] # "isolated"
        /\ Goes(l, "remove")
        /\ UNCHANGED <<tree, faults>>
     \/ /\ tree[l][Cur(l)] = "isolated"
        /\ tree' = [tree EXCEPT ![l][Cur(l)] = "link"]
        /\ Goes(l, "remove")
        /\ UNCHANGED faults
     \/ /\ tree[l][Cur(l)] = "isolated"
        /\ Fault
        /\ \E t \in {"isolated", "broken", "link"} :
             tree' = [tree EXCEPT ![l][Cur(l)] = t]
        /\ NextOwned(l, TRUE)
  /\ UNCHANGED <<record, host, storage, linked, runtime, told>>

\* Git refuses a worktree without its link; when it cannot delete the files
\* it may still drop the registration.
RemoveWorktree(l) ==
  /\ At(l, "remove")
  /\ \/ /\ tree[l][Cur(l)] = "link"
        /\ linked' = [linked EXCEPT ![l] = @ \ {Cur(l)}]
        /\ \/ /\ tree' = [tree EXCEPT ![l][Cur(l)] = "none"]
              /\ NextOwned(l, FALSE)
              /\ UNCHANGED faults
           \/ /\ Fault
              /\ tree' = [tree EXCEPT ![l][Cur(l)] = "broken"]
              /\ NextOwned(l, TRUE)
     \/ /\ tree[l][Cur(l)] = "link"
        /\ Fault
        /\ NextOwned(l, TRUE)
        /\ UNCHANGED worktrees
     \/ /\ tree[l][Cur(l)] = "broken"
        /\ NextOwned(l, TRUE)
        /\ UNCHANGED <<worktrees, faults>>
  /\ UNCHANGED <<record, host, storage, runtime, told>>

\* The directory goes only when every worktree did.
DeleteStorage(l) ==
  /\ At(l, "delete")
  /\ \/ /\ ~proc[l].failed
        /\ storage' = [storage EXCEPT ![l] = FALSE]
        /\ tree' = [tree EXCEPT ![l] = [r \in Repos |-> "none"]]
        /\ Ends(l, "rolledBack")
        /\ UNCHANGED faults
     \/ /\ proc[l].failed
        /\ Ends(l, "incomplete")
        /\ UNCHANGED <<storage, tree, faults>>
     \/ /\ ~proc[l].failed
        /\ Fault
        /\ Ends(l, "incomplete")
        /\ UNCHANGED <<storage, tree>>
  /\ UNCHANGED <<record, host, linked, runtime, beside>>

\* A client that dies with its request sent leaves it to the daemon.
Crash(l) ==
  /\ InProgress(l)
  /\ proc[l].pc \in CrashAt
  /\ Fault
  /\ \/ UNCHANGED guest
     \/ At(l, "run") /\ Guest(l, "asked")
  /\ Ends(l, "died")
  /\ UNCHANGED <<record, host, storage, worktrees, agent, beside>>

-----------------------------------------------------------------------------
(***************************************************************************)
(* The life of a saved session, whole commands at a time                   *)
(***************************************************************************)
StopSession(l) ==
  /\ record[l] = "Running"
  /\ record' = [record EXCEPT ![l] = "Stopped"]
  /\ Guest(l, "none")
  /\ StopsAgent(l)
  /\ tree' = [tree EXCEPT ![l] = [r \in Repos |-> "link"]]
  /\ UNCHANGED <<host, storage, linked, proc, told, faults>>

ResumeSession(l) ==
  /\ record[l] = "Stopped"
  /\ ~Published(l)
  /\ record' = [record EXCEPT ![l] = "Running"]
  /\ Guest(l, "up")
  /\ agent' = [agent EXCEPT ![l] = TRUE]
  /\ tree' = [tree EXCEPT ![l] = [r \in Repos |-> "isolated"]]
  /\ UNCHANGED <<host, storage, linked, proc, told, faults>>

CleanSession(l) ==
  /\ record[l] = "Stopped"
  /\ record' = [record EXCEPT ![l] = "Removed"]
  /\ storage' = [storage EXCEPT ![l] = FALSE]
  /\ linked' = [linked EXCEPT ![l] = {}]
  /\ tree' = [tree EXCEPT ![l] = [r \in Repos |-> "none"]]
  /\ UNCHANGED <<host, runtime, proc, told, faults>>

-----------------------------------------------------------------------------
Prepares(l) ==
  \/ ChooseHost(l) \/ NoHostFree(l) \/ CreateStorage(l)
  \/ SnapshotHostChanges(l) \/ AddWorktree(l) \/ AddFails(l)
  \/ IsolateMetadata(l) \/ IsolateFails(l) \/ FillWorktree(l)
  \/ StartAgent(l) \/ SpecFails(l)

StartsGuest(l) ==
  \/ RunGuest(l) \/ RunUncertain(l) \/ RunRefused(l)
  \/ PublishesPort(l) \/ StartupFails(l) \/ TrustHost(l) \/ TrustFails(l)
  \/ ConfirmAbsent(l) \/ SaveSession(l)

TakesBack(l) == RestoreMetadata(l) \/ RemoveWorktree(l) \/ DeleteStorage(l)

Runtime(l) == DaemonCreates(l) \/ GuestExits(l)

Later(l) == StopSession(l) \/ ResumeSession(l) \/ CleanSession(l)

Next ==
  \E l \in Launches :
    \/ Prepares(l) \/ StartsGuest(l) \/ TakesBack(l)
    \/ Runtime(l) \/ Later(l) \/ Crash(l)

Spec == Init /\ [][Next]_vars

-----------------------------------------------------------------------------
(* A guest can be started: its worktrees are there, with its own metadata. *)
Ready(l) == \A r \in Repos : r \in linked[l] /\ tree[l][r] = "isolated"

WithWorktrees == {"agent", "run", "poll", "trust", "save", "probe"}
WithGuest == {"poll", "trust", "save", "probe", "ended"}

(* The worktrees before the current one are made, the others are not.      *)
PreparedInv(l) ==
  /\ ~At(l, "idle") /\ ~At(l, "store") /\ ~At(l, "ended") => storage[l]
  /\ At(l, "idle") \/ At(l, "store") \/ At(l, "snapshot") =>
       linked[l] = {} /\ Cur(l) = 1
  /\ At(l, "add") =>
       \A r \in Repos : /\ r \in linked[l] <=> r < Cur(l)
                        /\ r < Cur(l) => tree[l][r] = "isolated"
  /\ At(l, "isolate") =>
       \A r \in Repos : /\ r \in linked[l] <=> r <= Cur(l)
                        /\ r < Cur(l) => tree[l][r] = "isolated"
  /\ At(l, "fill") =>
       \A r \in Repos : /\ r \in linked[l] <=> r <= Cur(l)
                        /\ r <= Cur(l) => tree[l][r] = "isolated"
  /\ proc[l].pc \in WithWorktrees => Ready(l)

(* What is still registered is still to be removed, or counted as failed.  *)
RollbackInv(l) ==
  /\ At(l, "restore") \/ At(l, "remove") =>
       /\ Cur(l) <= proc[l].owned
       /\ \A r \in linked[l] :
            proc[l].failed \/ (Cur(l) <= r /\ r <= proc[l].owned)
  /\ At(l, "delete") => proc[l].failed \/ linked[l] = {}
  /\ At(l, "ended") => storage[l] \/ linked[l] = {}

(* No rollback begins while a container exists or can still be created.    *)
GuestInv(l) ==
  /\ guest[l] # "none" => proc[l].pc \in WithGuest /\ storage[l] /\ Ready(l)
  /\ guest[l] = "asked" => outcome[l] \in {"preserved", "died"}

RecordInv(l) ==
  /\ ~At(l, "ended") => outcome[l] = "none"
  /\ record[l] # "none" => outcome[l] = "created"
  /\ record[l] = "Running" => storage[l] /\ Ready(l)
  /\ record[l] = "Stopped" =>
       guest[l] = "none" /\ storage[l] /\ linked[l] = Repos

LaunchInv == \A l \in Launches :
  PreparedInv(l) /\ RollbackInv(l) /\ GuestInv(l) /\ RecordInv(l)

(* What an error leaves behind, if records can always be saved.            *)
AgentInv == \A l \in Launches :
  /\ agent[l] => \/ proc[l].pc \in {"run", "poll", "trust", "save"}
                 \/ outcome[l] \in {"created", "died"}
  /\ outcome[l] \in {"failed", "rolledBack", "incomplete"} =>
       guest[l] = "none"

(* Launches that hold the same address were in progress together.          *)
Holds(l) == InProgress(l) \/ Recorded(l)

HostInv == \A l, m \in Launches :
  l # m /\ Holds(l) /\ Holds(m) /\ host[l] = host[m] =>
    l \in beside[m] \/ m \in beside[l]

-----------------------------------------------------------------------------
(***************************************************************************)
(* Properties                                                              *)
(***************************************************************************)

(* While a container exists, or a request that can still create it, the    *)
(* worktrees it mounts are there, registered, with the guest's metadata:   *)
(* neither a failed launch nor another command takes them away under it.   *)
MountsAreKept ==
  \A l \in Launches : guest[l] # "none" => storage[l] /\ Ready(l)

(* No repository has a worktree registered whose directory went with the   *)
(* storage of its session: rollback_failed_launch deletes only what it     *)
(* could unregister.                                                       *)
NoDanglingRegistration ==
  \A l \in Launches : ~storage[l] => linked[l] = {}

(* A launch that ends with an error leaves no ssh-agent, and no container  *)
(* or request for one unless the user is told that it may exist.           *)
FailuresAreTold ==
  \A l \in Launches :
    outcome[l] \in {"failed", "rolledBack", "incomplete", "preserved"} =>
      ~agent[l] /\ (guest[l] # "none" => outcome[l] = "preserved")

(* Two recorded sessions have the same address only if their launches      *)
(* overlapped: a session that is stopped keeps its own for the resume.     *)
SharedOnlyBySimultaneous ==
  \A l, m \in Launches :
    l # m /\ Recorded(l) /\ Recorded(m) /\ host[l] = host[m] =>
      l \in beside[m] \/ m \in beside[l]
=============================================================================
