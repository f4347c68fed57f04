---------------------------- MODULE BrokeredAccess ----------------------------
(***************************************************************************)
(* The repository access policy of a session.                              *)
(*                                                                         *)
(* `.jbox.toml` declares credential profiles with the capabilities their   *)
(* tokens should have, and grants that allow operations on one repository  *)
(* with one profile.  A launch validates them, keeps them in the record as *)
(* the session's policy, and mounts at most one profile in the guest.  The *)
(* file can be edited at any time after that: a resume compares it with    *)
(* the policy, and a brokered action is planned from the policy alone.     *)
(*                                                                         *)
(* Sorted lists of distinct entries are sets here: the policy is canonical *)
(* by construction.                                                        *)
(***************************************************************************)
EXTENDS Naturals, FiniteSets, Sequences, SequencesExt

CONSTANTS
  Configs,     \* what `.jbox.toml` may say: see IsConfig
  Urls,        \* what a git remote may be: see IsUrl
  Remotes,     \* names of remotes
  Refs,        \* names a plan may ask for, as lists of parts
  Planners,    \* `jbox broker plan` commands
  MaxPlans,    \* bound: plans in the journal
  AccessSteps  \* bound: edits of the file and of remotes

VARIABLES
  file,        \* what `.jbox.toml` says now
  remoteUrl,   \* the host repository's remotes
  policy,      \* Session.git_access_policy, or NoPolicy
  plans,       \* Session.brokered_plans
  access,      \* what the running guest can use, or "no guest"
  loaded,      \* the configuration that the current launch or resume has read
  launchAt,    \* what the launch or resume is doing
  granted,     \* the configuration the session was created with
  planner,     \* of each planner: the record it has loaded, if any
  accessSteps  \* how much of AccessSteps is used

accessVars == <<file, remoteUrl, policy, plans, access, loaded, launchAt,
                granted, planner, accessSteps>>

\* GitCapability, in its order.
NoCapability == 0
Read == 1
Write == 2

Reads == {"clone", "fetch"}
PullRequestReads == {"pr-view", "pr-status"}
PullRequestWrites == {"pr-create", "pr-update"}
Operations == Reads \cup PullRequestReads \cup PullRequestWrites
                \cup {"push-branch", "ci-view"}

\* `wellFormed` stands for the fields that are only compared with the one value
\* they may have, and for the syntax of identifiers.
IsProfile(p) ==
  /\ {"name", "wellFormed", "contents", "pulls", "actions"} = DOMAIN p
  /\ {p.contents, p.pulls, p.actions} \subseteq NoCapability .. Write

IsGrant(g) ==
  /\ {"id", "wellFormed", "repository", "remote", "profile", "delivery", "git",
      "pulls", "actions", "checks", "operations", "prefixes", "protected",
      "force", "merge"} = DOMAIN g
  /\ g.id \in Nat
  /\ g.delivery \in {"brokered", "guest-passthrough"}
  /\ {g.git, g.pulls, g.actions, g.checks} \subseteq NoCapability .. Write
  /\ g.operations \subseteq Operations
  /\ {g.force, g.merge} \subseteq BOOLEAN

IsConfig(c) ==
  /\ {"credentials", "profiles", "grants"} = DOMAIN c
  /\ c.credentials \in {"jbox", "github-cli", "none"}
  /\ \A p \in c.profiles : IsProfile(p)
  /\ \A g \in c.grants : IsGrant(g)

ASSUME AccessAssumption ==
  /\ \A c \in Configs : IsConfig(c)
  /\ \A u \in Urls : {"prefix", "path"} = DOMAIN u
  /\ AccessSteps \in Nat
  /\ MaxPlans \in Nat

NoPolicy == [profiles |-> {}, grants |-> {}]
PolicyOf(c) == [profiles |-> c.profiles, grants |-> c.grants]

-----------------------------------------------------------------------------
(***************************************************************************)
(* Validation of the declarations                                          *)
(***************************************************************************)
Capable(g, operation) ==
  CASE operation \in Reads -> g.git >= Read
    [] operation = "push-branch" -> g.git = Write
    [] operation \in PullRequestReads -> g.pulls >= Read
    [] operation = "ci-view" -> g.actions >= Read \/ g.checks >= Read
    [] operation \in PullRequestWrites -> g.pulls = Write

ValidRule(rule) == rule # <<>> /\ rule[1] = "refs/heads/"

\* mutant: an operation needs no capability of its grant
ValidateOperationsOnly(g) ==
  /\ g.operations # {}
  /\ "push-branch" \in g.operations => g.prefixes # {}
  /\ g.force => "push-branch" \in g.operations
  /\ \A rule \in g.prefixes \cup g.protected : ValidRule(rule)

ValidateGrantOperations(g) ==
  /\ g.operations # {}
  /\ \A operation \in g.operations : Capable(g, operation)
  /\ "push-branch" \in g.operations => g.prefixes # {}
  /\ g.force => "push-branch" \in g.operations
  /\ \A rule \in g.prefixes \cup g.protected : ValidRule(rule)

\* Its profile declares at least what the grant asks of it.
WithinProfile(g, p) ==
  /\ g.git <= p.contents
  /\ g.pulls <= p.pulls
  /\ g.actions <= p.actions
  /\ g.checks <= p.actions

\* No two entries of a configuration have the same name.
DistinctNames(S, Name(_)) == \A a, b \in S : Name(a) = Name(b) => a = b

ValidateGrant(g, profiles) ==
  /\ g.wellFormed
  /\ \E p \in profiles : p.name = g.profile /\ WithinProfile(g, p)
  /\ ValidateGrantOperations(g)
  /\ g.merge => g.delivery = "brokered" /\ g.pulls = Write

PassthroughProfiles(c) ==
  {g.profile : g \in {h \in c.grants : h.delivery = "guest-passthrough"}}

ValidateGitAccess(c) ==
  IF c.profiles = {} THEN c.grants = {}
  ELSE /\ c.credentials = "none"
       /\ \A p \in c.profiles : p.wellFormed
       /\ DistinctNames(c.profiles, LAMBDA p : p.name)
       /\ DistinctNames(c.grants, LAMBDA g : g.id)
       /\ \A g \in c.grants : ValidateGrant(g, c.profiles)
       /\ Cardinality(PassthroughProfiles(c)) <= 1

\* What the guest gets: the profile of its passthrough grant, or else what the
\* legacy setting says.
GuestAccess(c) ==
  IF PassthroughProfiles(c) # {} THEN CHOOSE name \in PassthroughProfiles(c) : TRUE
  ELSE c.credentials

-----------------------------------------------------------------------------
NoConfig == [credentials |-> "none", profiles |-> {}, grants |-> {}]
NotLoaded == [busy |-> FALSE, policy |-> NoPolicy, plans |-> <<>>]

AccessTypeOK ==
  /\ file \in Configs
  /\ remoteUrl \in [Remotes -> Urls]
  /\ policy \in {NoPolicy} \cup {PolicyOf(c) : c \in Configs}
  /\ \A i \in DOMAIN plans : plans[i].allowed \in BOOLEAN
  /\ launchAt \in {"new", "create", "stopped", "resume", "mount", "running"}
  /\ loaded \in Configs \cup {NoConfig}
  /\ granted \in Configs \cup {NoConfig}
  /\ accessSteps \in 0 .. AccessSteps

AccessInit ==
  /\ file \in Configs
  /\ remoteUrl \in [Remotes -> Urls]
  /\ policy = NoPolicy
  /\ plans = <<>>
  /\ access = "no guest"
  /\ loaded = NoConfig
  /\ launchAt = "new"
  /\ granted = NoConfig
  /\ planner = [p \in Planners |-> NotLoaded]
  /\ accessSteps = 0

-----------------------------------------------------------------------------
(***************************************************************************)
(* Launch and resume                                                       *)
(***************************************************************************)

\* The file is read once; a configuration that is not valid is no session.
LoadConfig(from, to) ==
  /\ launchAt = from
  /\ ValidateGitAccess(file)
  /\ loaded' = file
  /\ launchAt' = to
  /\ UNCHANGED <<file, remoteUrl, policy, plans, access, granted, planner,
                 accessSteps>>

LoadForLaunch == LoadConfig("new", "create")
LoadForResume == LoadConfig("stopped", "resume")

\* The profile is imported and mounted, and the policy kept in the record.
CreateSession ==
  /\ launchAt = "create"
  /\ access' = GuestAccess(loaded)
  /\ policy' = PolicyOf(loaded)
  /\ granted' = loaded
  /\ launchAt' = "running"
  /\ UNCHANGED <<file, remoteUrl, plans, loaded, planner, accessSteps>>

\* mutant: only the number of profiles and grants is compared
ComparesSize ==
  /\ launchAt = "resume"
  /\ launchAt' = IF Cardinality(loaded.grants) = Cardinality(policy.grants)
                 THEN "mount" ELSE "stopped"
  /\ UNCHANGED <<file, remoteUrl, policy, plans, access, loaded, granted,
                 planner, accessSteps>>

ValidateResumeConfig ==
  /\ launchAt = "resume"
  /\ launchAt' = IF PolicyOf(loaded) = policy THEN "mount" ELSE "stopped"
  /\ UNCHANGED <<file, remoteUrl, policy, plans, access, loaded, granted,
                 planner, accessSteps>>

\* A resume imports nothing: it mounts the retained profile.
MountForResume ==
  /\ launchAt = "mount"
  /\ access' = GuestAccess(loaded)
  /\ launchAt' = "running"
  /\ UNCHANGED <<file, remoteUrl, policy, plans, loaded, granted, planner,
                 accessSteps>>

StopsAccess ==
  /\ launchAt = "running"
  /\ access' = "no guest"
  /\ launchAt' = "stopped"
  /\ UNCHANGED <<file, remoteUrl, policy, plans, loaded, granted, planner,
                 accessSteps>>

\* The user, or the agent through an accepted commit, edits `.jbox.toml`; the
\* user changes a remote.
EditDeclarations ==
  /\ accessSteps < AccessSteps
  /\ accessSteps' = accessSteps + 1
  /\ \/ file' \in Configs /\ UNCHANGED remoteUrl
     \/ remoteUrl' \in [Remotes -> Urls] /\ UNCHANGED file
  /\ UNCHANGED <<policy, plans, access, loaded, launchAt, granted, planner>>

-----------------------------------------------------------------------------
(***************************************************************************)
(* Plans                                                                   *)
(***************************************************************************)

\* OWNER/REPO of a github.com url, or nothing.
RepositoryOf(url) ==
  IF url.prefix = "github.com" /\ Len(url.path) = 2 THEN url.path ELSE <<>>

\* A rule is an exact name or a directory to protect, and a plain prefix to
\* allow.
Protects(rule, ref) == ref = rule \/ IsPrefix(Append(rule, "/"), ref)

ValidRef(ref) ==
  /\ Len(ref) > 1 /\ ref[1] = "refs/heads/"
  /\ ref[Len(ref)] # "/"

\* mutant: what is protected is not looked at
PlanIgnoresProtection(g, operation, ref) ==
  IF operation # "push-branch" THEN ref = <<>>
  ELSE ValidRef(ref) /\ \E prefix \in g.prefixes : IsPrefix(prefix, ref)

PlanReference(g, operation, ref) ==
  IF operation # "push-branch" THEN ref = <<>>
  ELSE /\ ValidRef(ref)
       /\ \A rule \in g.protected : ~Protects(rule, ref)
       /\ \E prefix \in g.prefixes : IsPrefix(prefix, ref)

\* The first grant, in the order of ids, for a repository and a remote.
Matching(pol, repository, remote) ==
  {g \in pol.grants : /\ g.repository = repository
                      /\ g.remote = remote
                      /\ g.delivery = "brokered"}
FirstMatch(grants) == CHOOSE g \in grants : \A h \in grants : g.id <= h.id

Allows(pol, repository, remote, operation, ref) ==
  /\ repository # <<>>
  /\ Matching(pol, repository, remote) # {}
  /\ LET g == FirstMatch(Matching(pol, repository, remote))
     IN  operation \in g.operations /\ PlanReference(g, operation, ref)

LoadForPlan(p) ==
  /\ launchAt \in {"stopped", "running"}
  /\ ~planner[p].busy
  /\ Len(plans) < MaxPlans
  /\ planner' = [planner EXCEPT ![p] =
                   [busy |-> TRUE, policy |-> policy, plans |-> plans]]
  /\ UNCHANGED <<file, remoteUrl, policy, plans, access, loaded, launchAt,
                 granted, accessSteps>>

\* The evaluation goes to the end of the journal as it was loaded, and the
\* whole record is written back.
PlanBrokeredAction(p) ==
  /\ planner[p].busy
  /\ \E remote \in Remotes, operation \in Operations, ref \in Refs \cup {<<>>} :
       LET repository == RepositoryOf(remoteUrl[remote])
       IN  plans' = Append(planner[p].plans,
             [repository |-> repository, remote |-> remote,
              operation |-> operation, ref |-> ref,
              allowed |-> Allows(planner[p].policy, repository, remote,
                                 operation, ref)])
  /\ policy' = planner[p].policy
  /\ planner' = [planner EXCEPT ![p] = NotLoaded]
  /\ UNCHANGED <<file, remoteUrl, access, loaded, launchAt, granted,
                 accessSteps>>

AccessNext ==
  \/ LoadForLaunch \/ CreateSession
  \/ LoadForResume \/ ValidateResumeConfig \/ MountForResume
  \/ StopsAccess \/ EditDeclarations
  \/ \E p \in Planners : LoadForPlan(p) \/ PlanBrokeredAction(p)

AccessSpec == AccessInit /\ [][AccessNext]_accessVars

-----------------------------------------------------------------------------
(***************************************************************************)
(* Properties                                                              *)
(***************************************************************************)

\* What the operations cost in capabilities of the token.
Costs(p, operation) ==
  CASE operation \in Reads -> p.contents >= Read
    [] operation = "push-branch" -> p.contents = Write
    [] operation \in PullRequestReads -> p.pulls >= Read
    [] operation = "ci-view" -> p.actions >= Read
    [] operation \in PullRequestWrites -> p.pulls = Write

\* An allowed plan, whatever the file said meanwhile, was granted by the
\* configuration the session was created with, for that repository, within the
\* capabilities its profile declares, and never touches a protected branch.
PlansAreAuthorized ==
  \A i \in DOMAIN plans : plans[i].allowed =>
    \E g \in granted.grants :
      /\ g.repository = plans[i].repository /\ g.remote = plans[i].remote
      /\ g.delivery = "brokered" /\ plans[i].operation \in g.operations
      /\ \E p \in granted.profiles :
           p.name = g.profile /\ Costs(p, plans[i].operation)
      /\ plans[i].operation = "push-branch" =>
           /\ \E prefix \in g.prefixes : IsPrefix(prefix, plans[i].ref)
           /\ \A rule \in g.protected :
                ~(rule = plans[i].ref \/ IsPrefix(Append(rule, "/"), plans[i].ref))

\* A guest of a session with a policy never gets more than the launch gave it:
\* no edit of `.jbox.toml`, at any moment of a resume, broadens its access.
GuestAccessFrozen ==
  access # "no guest" /\ granted.profiles # {} => access = GuestAccess(granted)

\* What a session was granted at its launch is what holds later: for what is
\* planned on its behalf, and for its guest.
AccessIsGranted == PlansAreAuthorized /\ GuestAccessFrozen
=============================================================================
