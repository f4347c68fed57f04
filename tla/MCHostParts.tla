----------------------------- MODULE MCHostParts -----------------------------
(***************************************************************************)
(* The parts of Jbox that keep state of their own and share none, side by  *)
(* side: values of their constants, and one behaviour for all.  A          *)
(* behaviour is of one of the parts; the others stand still.               *)
(***************************************************************************)
EXTENDS LaunchRollback, BeadsBaseline, BeadsTasks, BrokeredAccess,
        ConfigRefresh, ImageCache, Conversations, GuestMounts,
        WorktreeRebases, TLC

VARIABLE part    \* the part that this behaviour is of

allVars == <<part, vars, baselineVars, taskVars, accessVars, configVars,
             imageVars, conversationVars, mountVars, rebaseVars>>

Parts == {"launch", "baseline", "tasks", "access", "config", "images",
          "conversations", "mounts", "rebases"}

-----------------------------------------------------------------------------
(***************************************************************************)
(* LaunchRollback                                                          *)
(***************************************************************************)

\* An invocation can die wherever it is.
AnyPhase == Phases \ {"idle", "ended"}

\* All ids hash to the last address: the looking wraps around.
FromTheLast == [l \in Launches |-> HostCount - 1]

-----------------------------------------------------------------------------
(***************************************************************************)
(* BeadsBaseline                                                           *)
(***************************************************************************)
NoLookalikes == [p \in {} |-> "none"]

-----------------------------------------------------------------------------
(***************************************************************************)
(* BrokeredAccess: a broad grant, one to read, and what is wrong with them *)
(***************************************************************************)
Heads(s) == <<"refs/heads/">> \o s

Profile(name, contents, pulls, actions) ==
  [name |-> name, wellFormed |-> TRUE, contents |-> contents, pulls |-> pulls,
   actions |-> actions]

Broker ==
  [id |-> 1, wellFormed |-> TRUE, repository |-> <<"o", "r">>, remote |-> "origin",
   profile |-> "bot", delivery |-> "brokered", git |-> 2, pulls |-> 1, actions |-> 0,
   checks |-> 0, operations |-> {"fetch", "push-branch", "pr-view"},
   prefixes |-> {Heads(<<>>)}, protected |-> {Heads(<<"main">>)},
   force |-> FALSE, merge |-> FALSE]

Reader ==
  [Broker EXCEPT !.id = 2, !.profile = "reader", !.delivery = "guest-passthrough",
                 !.git = 1, !.pulls = 0, !.operations = {"fetch"}, !.prefixes = {},
                 !.protected = {}]

Profiles == {Profile("bot", 2, 1, 0), Profile("reader", 1, 0, 0)}

GitConfig(credentials, profiles, grants) ==
  [credentials |-> credentials, profiles |-> profiles, grants |-> grants]

SomeConfigs ==
  {GitConfig("github-cli", {}, {}), GitConfig("none", Profiles, {Broker, Reader}),
   GitConfig("none", Profiles, {Broker,
     [Broker EXCEPT !.id = 3, !.protected = {}, !.git = 1, !.operations = {"fetch"}]}),
   GitConfig("none", Profiles, {Broker, [Reader EXCEPT !.profile = "bot"]}),
   GitConfig("none", Profiles, {[Broker EXCEPT !.operations = @ \cup {"pr-create"}]}),
   GitConfig("none", Profiles, {[Broker EXCEPT !.profile = "reader"]})}

SomeUrls == {[prefix |-> "github.com", path |-> path] :
               path \in {<<"o", "r">>, <<"o", "r", "x">>, <<"o", "s">>}}

SomeRefs == {Heads(<<"main">>), Heads(<<"main", "/", "x">>), Heads(<<"task">>)}

-----------------------------------------------------------------------------
(***************************************************************************)
(* ConfigRefresh                                                           *)
(***************************************************************************)
Source(repository, skill, pin, managed) ==
  [repository |-> repository, skill |-> skill, pin |-> pin, settings |-> "shipped",
   managed |-> managed]

TwoDefaults == <<Source("routing", "all", "none", "yes"), Source("review", "all", "none", "yes")>>

TwoFamilies ==
  [gpt |-> [provider |-> "openai", newest |-> <<6, 1>>, reasons |-> TRUE],
   qwen |-> [provider |-> "compatible", newest |-> <<3, 8>>, reasons |-> FALSE]]

AFile ==
  [valid |-> TRUE, written |-> 0, provider |-> "any", family |-> "gpt",
   version |-> <<5, 4>>, lowEffort |-> FALSE, prompt |-> "old", legacy |-> "known",
   skills |-> <<Source("routing", "all", "none", "unset"),
                Source("review", "one", "v1", "unset")>>]

SomeFiles ==
  {AFile,
   [AFile EXCEPT !.version = <<6>>, !.lowEffort = TRUE,
                 !.skills = <<Source("routing", "all", "none", "no")>>],
   [AFile EXCEPT !.family = "other", !.legacy = "absent", !.prompt = "current",
                 !.skills = <<>>],
   [AFile EXCEPT !.family = "qwen", !.provider = "compatible", !.version = <<4>>,
                 !.skills = <<Source("routing", "all", "v2", "yes")>>],
   [AFile EXCEPT !.legacy = "edited"], [AFile EXCEPT !.valid = FALSE]}

-----------------------------------------------------------------------------
(***************************************************************************)
(* Conversations: two repositories in a guest, and one of them alone       *)
(***************************************************************************)
Repository(source, mount) == [source |-> source, mount |-> mount]

PairAndAlone ==
  [pair |-> <<Repository("app", "/app"), Repository("lib", "/lib")>>,
   alone |-> <<Repository("app", "/app")>>]

OlderHooks ==
  {[pair |-> "shared", alone |-> "shared"], [pair |-> "scoped", alone |-> "none"]}

-----------------------------------------------------------------------------
(***************************************************************************)
(* GuestMounts: a home, two checkouts, data elsewhere under a link, and a  *)
(* runtime directory under its older name                                  *)
(***************************************************************************)
Checkout == <<"home", "repo">>
SomeHost ==
  {<<"run">>, <<"run", "user">>, <<"srv">>, <<"srv", "set">>, <<"home">>, Checkout,
   Checkout \o <<".git">>, Checkout \o <<"data">>, <<"home", "lib">>,
   <<"home", "lib", ".git">>}
GrownHost ==
  SomeHost \cup {<<"run", "docker.sock">>, <<"home", ".ssh">>, <<"home", ".ssh", "key">>,
                 Checkout \o <<"data", "new">>}
SomeLinks == (<<"var", "run">> :> <<"run">>) @@ (<<"sets">> :> <<"srv", "set">>)
SomeProtected == {<<"var", "run", "docker.sock">>, <<"home", ".ssh">>}

Mount(source, target, writable) == [source |-> source, target |-> target, writable |-> writable]
RepoOnly == <<Repository(Checkout, <<"workspace", "repo">>)>>
RepoAndLib == Append(RepoOnly, Repository(<<"home", "lib">>, <<"workspace", "lib">>))
MountConfig(mounts, repos, features) ==
  [mounts |-> mounts, repos |-> repos, features |-> features]

SomeMountConfigs ==
  {MountConfig({Mount(<<"sets">>, <<"mnt", "set">>, TRUE),
                Mount(Checkout \o <<"data">>, <<"mnt", "data">>, FALSE)},
               RepoAndLib, {"persistent_credentials", "skills"}),
   MountConfig({Mount(<<"run">>, <<"mnt", "run">>, FALSE)}, RepoAndLib, {}),
   MountConfig({Mount(Checkout \o <<"data">>, <<"mnt", "data">>, TRUE)}, RepoAndLib, {"model"}),
   MountConfig({Mount(Checkout \o <<".git">>, <<"mnt", "git">>, FALSE)}, RepoOnly, {"git_key"}),
   MountConfig({Mount(<<"srv">>, <<"home", "", "jbox">>, FALSE)}, RepoOnly, {"profile"}),
   MountConfig({Mount(<<"srv">>, <<"home", "jbox", ".jcode">>, FALSE)}, RepoOnly,
               {"persistent_credentials", "instructions", "github_cli"}),
   MountConfig({Mount(<<"home">>, <<"mnt", "home">>, FALSE)}, RepoOnly, {}),
   MountConfig({}, RepoAndLib, {"skills"})}

-----------------------------------------------------------------------------
(***************************************************************************)
(* WorktreeRebases: a repository with two branches, one with one           *)
(***************************************************************************)
TwoBranchesAndOne == <<{"main", "next"}, {"main"}>>

-----------------------------------------------------------------------------
(***************************************************************************)
(* Side by side                                                            *)
(***************************************************************************)

\* A part that stands still does so in any one of its initial states.
StandsStill(p, first) == part = p \/ first

PartsInit ==
  /\ part \in Parts
  /\ Init /\ BaselineInit
  /\ TasksInit /\ StandsStill("tasks", export = None /\ inCommit = None)
  /\ AccessInit
  /\ StandsStill("access", /\ file = CHOOSE c \in Configs : TRUE
                           /\ remoteUrl = CHOOSE r \in [Remotes -> Urls] : TRUE)
  /\ RefreshInit /\ StandsStill("config", toml = [AFile EXCEPT !.written = 0])
  /\ ImageInit
  /\ ConversationsInit
  /\ StandsStill("conversations", persistent /\ hook = CHOOSE h \in Hooks : TRUE)
  /\ MountsInit
  /\ StandsStill("mounts", mountConfig = CHOOSE c \in MountConfigs : TRUE)
  /\ RebasesInit

Others(p) ==
  /\ part = p
  /\ UNCHANGED part
  /\ IF p = "launch" THEN TRUE ELSE UNCHANGED vars
  /\ IF p = "baseline" THEN TRUE ELSE UNCHANGED baselineVars
  /\ IF p = "tasks" THEN TRUE ELSE UNCHANGED taskVars
  /\ IF p = "access" THEN TRUE ELSE UNCHANGED accessVars
  /\ IF p = "config" THEN TRUE ELSE UNCHANGED configVars
  /\ IF p = "images" THEN TRUE ELSE UNCHANGED imageVars
  /\ IF p = "conversations" THEN TRUE ELSE UNCHANGED conversationVars
  /\ IF p = "mounts" THEN TRUE ELSE UNCHANGED mountVars
  /\ IF p = "rebases" THEN TRUE ELSE UNCHANGED rebaseVars

PartsNext ==
  \/ Others("launch") /\ Next
  \/ Others("baseline") /\ BaselineNext
  \/ Others("tasks") /\ TasksNext
  \/ Others("access") /\ AccessNext
  \/ Others("config") /\ RefreshNext
  \/ Others("images") /\ ImageNext
  \/ Others("conversations") /\ ConversationsNext
  \/ Others("mounts") /\ MountsNext
  \/ Others("rebases") /\ RebasesNext

PartsSpec == PartsInit /\ [][PartsNext]_allVars

\* Every part's variables have their types: the records, journals and markers
\* that the code keeps hold nothing that it does not write.
PartsTypeOK ==
  /\ part \in Parts
  /\ CASE part = "launch" -> TypeOK
       [] part = "baseline" -> BaselineTypeOK
       [] part = "tasks" -> TasksTypeOK
       [] part = "access" -> AccessTypeOK
       [] part = "config" -> RefreshTypeOK
       [] part = "images" -> ImageTypeOK
       [] part = "conversations" -> ConversationsTypeOK
       [] part = "mounts" -> GuestMountsTypeOK
       [] part = "rebases" -> WorktreeRebasesTypeOK
=============================================================================
