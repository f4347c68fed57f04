------------------------------ MODULE GuestMounts ------------------------------
(***************************************************************************)
(* What of the host a guest gets to see: the mounts of its container.      *)
(*                                                                         *)
(* The project's configuration names repositories and further mounts.  A   *)
(* launch and every resume load it, resolve the sources, check them, and   *)
(* start the guest some time later, with Jbox's own mounts beside.  The    *)
(* host goes on: sockets and directories appear, the configuration is      *)
(* edited, while the guest runs.                                           *)
(*                                                                         *)
(* A host path is a sequence of names.  A guest path is one as it is       *)
(* written, where "" and "." are names too.                                *)
(***************************************************************************)
EXTENDS Naturals, Sequences, SequencesExt, FiniteSetsExt

CONSTANTS
  HostTree,      \* real host paths that may come to exist
  HostStart,     \* those of them that do from the start
  Links,         \* symbolic links of the host: where each leads
  Protected,     \* host paths as the code spells them
  MountConfigs   \* what .jbox.toml may say

VARIABLES
  hostPaths,     \* real host paths that exist
  mountConfig,   \* what .jbox.toml says
  starting,      \* the launch or resume in progress
  retained,      \* repositories of the session, once it was created
  skillsStaged,  \* has the session a directory of skills
  guestMounts    \* mounts of the running guest

mountVars == <<hostPaths, mountConfig, starting, retained, skillsStaged, guestMounts>>

\* A link is an entry of a real directory, so there is none below another, and
\* leads somewhere.
ASSUME MountsAssumption ==
  /\ HostTree \subseteq Seq(STRING) /\ HostStart \subseteq HostTree
  /\ DOMAIN Links \subseteq Seq(STRING)
  /\ \A link \in DOMAIN Links : Links[link] \in HostStart
  /\ \A one, other \in DOMAIN Links : IsPrefix(one, other) => one = other
  /\ Protected \subseteq Seq(STRING)
  /\ \A c \in MountConfigs :
       /\ c.mounts \subseteq [source : Seq(STRING), target : Seq(STRING),
                                writable : BOOLEAN]
       /\ \A i \in DOMAIN c.repos : c.repos[i].source \in Seq(STRING)

\* What .jbox.toml may ask for that adds mounts of Jbox's own.
Features == {"persistent_credentials", "model", "instructions", "skills",
             "git_key", "profile", "github_cli"}

NotStarting == [at |-> "idle", extra |-> {}, repos |-> <<>>, features |-> {}]

GuestMountsTypeOK ==
  /\ HostStart \subseteq hostPaths /\ hostPaths \subseteq HostTree
  /\ mountConfig \in MountConfigs
  /\ starting.at \in {"idle", "loaded", "checked", "prepared"}
  /\ \A m \in starting.extra :
       m.writable \in BOOLEAN /\ m.source \in HostTree \cup {<<>>}
  /\ \A m \in guestMounts : m.extra \in BOOLEAN

MountsInit ==
  /\ hostPaths = HostStart
  /\ mountConfig \in MountConfigs
  /\ starting = NotStarting
  /\ retained = <<>>
  /\ skillsStaged = FALSE
  /\ guestMounts = {}

-----------------------------------------------------------------------------
(***************************************************************************)
(* Paths                                                                   *)
(***************************************************************************)

\* Through a symbolic link (of links there are no chains).
Real(path) ==
  IF \E link \in DOMAIN Links : IsPrefix(link, path)
  THEN LET link == CHOOSE link \in DOMAIN Links : IsPrefix(link, path)
       IN  Links[link] \o SubSeq(path, Len(link) + 1, Len(path))
  ELSE path

OnHost(path) == path = <<>> \/ Real(path) \in hostPaths

\* mutant: a path that does not exist is taken as it is spelled
CanonicalizeIfThere(path) == IF OnHost(path) THEN Real(path) ELSE path

\* The real path of the nearest ancestor that exists, and what is missing.
CanonicalizeExistingAncestor(path) ==
  LET n == Max({i \in 0 .. Len(path) : OnHost(SubSeq(path, 1, i))})
  IN  Real(SubSeq(path, 1, n)) \o SubSeq(path, n + 1, Len(path))

\* The components of a guest path, as Rust's Path and Docker see them.
Components(target) == SelectSeq(target, LAMBDA name : name \notin {"", "."})

GuestHome == <<"home", "jbox">>

\* Absolute, no "..", and not an ancestor of the guest's home, nor it.
ValidGuestPath(target) ==
  /\ target # <<>>
  /\ ".." \notin ToSet(target)
  /\ ~IsPrefix(Components(target), GuestHome)

\* validate_extra_mount: a part of a checkout only to read and without .git,
\* nothing above or below what is protected.
ValidSource(source, writable, repos) ==
  /\ \A i \in DOMAIN repos :
       LET repo == CanonicalizeExistingAncestor(repos[i].source)
       IN  /\ ~IsPrefix(source, repo)
           /\ IsPrefix(repo, source) =>
                /\ ~writable
                /\ ".git" \notin ToSet(SubSeq(source, Len(repo) + 1, Len(source)))
  /\ \A path \in Protected :
       LET p == CanonicalizeExistingAncestor(path)
       IN  ~IsPrefix(p, source) /\ ~IsPrefix(source, p)

-----------------------------------------------------------------------------
(***************************************************************************)
(* Launch and resume                                                       *)
(***************************************************************************)

\* mutant: the sources stay as they are written
LoadUnresolved ==
  /\ starting.at = "idle" /\ guestMounts = {}
  /\ \A m \in mountConfig.mounts : OnHost(m.source)
  /\ starting' = [at |-> "loaded", repos |-> mountConfig.repos,
                  features |-> mountConfig.features, extra |-> mountConfig.mounts]
  /\ UNCHANGED <<hostPaths, mountConfig, retained, skillsStaged, guestMounts>>

\* Config::load: the sources must exist, and are resolved now.
LoadMounts ==
  /\ starting.at = "idle" /\ guestMounts = {}
  /\ \A m \in mountConfig.mounts : OnHost(m.source)
  /\ starting' = [at |-> "loaded", repos |-> mountConfig.repos,
                  features |-> mountConfig.features,
                  extra |-> {[m EXCEPT !.source = Real(@)] : m \in mountConfig.mounts}]
  /\ UNCHANGED <<hostPaths, mountConfig, retained, skillsStaged, guestMounts>>

Targets(s) == [i \in DOMAIN s.repos |-> s.repos[i].mount]

\* validate_repositories; a resume also wants the session's repositories.
ValidMounts(s) ==
  /\ \A i, j \in DOMAIN s.repos : i # j =>
       s.repos[i].source # s.repos[j].source /\ s.repos[i].mount # s.repos[j].mount
  /\ \A i \in DOMAIN s.repos : OnHost(s.repos[i].source) /\ ValidGuestPath(s.repos[i].mount)
  /\ \A m \in s.extra :
       /\ ValidGuestPath(m.target)
       /\ m.target \notin ToSet(Targets(s))
       /\ \A other \in s.extra : other # m => other.target # m.target
       /\ ValidSource(m.source, m.writable, s.repos)
  /\ retained # <<>> => s.repos = retained

ValidateMounts ==
  /\ starting.at = "loaded"
  /\ ValidMounts(starting)
  /\ starting' = [starting EXCEPT !.at = "checked"]
  /\ UNCHANGED <<hostPaths, mountConfig, retained, skillsStaged, guestMounts>>

\* Images, worktrees and keys are made; a launch fetches the skills, a resume
\* never does.
PrepareSession ==
  /\ starting.at = "checked"
  /\ starting' = [starting EXCEPT !.at = "prepared"]
  /\ skillsStaged' = (skillsStaged \/ (retained = <<>> /\ "skills" \in starting.features))
  /\ UNCHANGED <<hostPaths, mountConfig, retained, guestMounts>>

InGuestHome(names) == GuestHome \o names

\* Targets of Jbox's own mounts: files and directories of its state.
OwnTargets(features) ==
  {InGuestHome(<<".local", "share", "jcode">>),
   InGuestHome(<<".ssh", "authorized_keys">>)}
  \cup {InGuestHome(<<".jcode">>) : f \in features \cap {"persistent_credentials"}}
  \cup {InGuestHome(<<".jcode", "config.toml">>) : f \in features \cap {"model"}}
  \cup {InGuestHome(<<"AGENTS.md">>) : f \in features \cap {"instructions"}}
  \cup {InGuestHome(<<".agents">>) : f \in features \cap {"skills"}}
  \cup {InGuestHome(<<".ssh", "id_ed25519">>) : f \in features \cap {"git_key"}}
  \cup {InGuestHome(<<".config", "gh", "hosts.yml">>) :
          f \in features \cap {"profile", "github_cli"}}

\* What container_spec makes of it.
ContainerSpec(s) ==
  {[source |-> <<>>, target |-> target, writable |-> TRUE, extra |-> FALSE] :
     target \in OwnTargets(s.features)}
  \cup {[source |-> <<>>, target |-> Components(target), writable |-> TRUE,
         extra |-> FALSE] : target \in ToSet(Targets(s))}
  \cup {[source |-> m.source, target |-> Components(m.target), writable |-> m.writable,
         extra |-> TRUE] : m \in s.extra}

\* Docker refuses two mounts at one place.
StartGuestWithMounts ==
  /\ starting.at = "prepared"
  /\ "skills" \in starting.features => skillsStaged
  /\ \A m, n \in ContainerSpec(starting) : m # n => m.target # n.target
  /\ guestMounts' = ContainerSpec(starting)
  /\ retained' = starting.repos
  /\ starting' = NotStarting
  /\ UNCHANGED <<hostPaths, mountConfig, skillsStaged>>

\* Any check, or anything else of a launch or resume, may fail.  A launch that
\* does takes the session's directory with it.
StartFails ==
  /\ starting.at # "idle"
  /\ starting' = NotStarting
  /\ skillsStaged' = (skillsStaged /\ retained # <<>>)
  /\ UNCHANGED <<hostPaths, mountConfig, retained, guestMounts>>

StopMountedGuest ==
  /\ guestMounts # {}
  /\ guestMounts' = {}
  /\ UNCHANGED <<hostPaths, mountConfig, starting, retained, skillsStaged>>

-----------------------------------------------------------------------------
(***************************************************************************)
(* The host                                                                *)
(***************************************************************************)
CreateHostPath ==
  /\ \E path \in HostTree \ hostPaths :
       /\ OnHost(Front(path))
       /\ hostPaths' = hostPaths \cup {path}
  /\ UNCHANGED <<mountConfig, starting, retained, skillsStaged, guestMounts>>

EditMountConfig ==
  /\ mountConfig' \in MountConfigs \ {mountConfig}
  /\ UNCHANGED <<hostPaths, starting, retained, skillsStaged, guestMounts>>

MountsNext ==
  \/ LoadMounts \/ ValidateMounts \/ PrepareSession \/ StartGuestWithMounts
  \/ StartFails \/ StopMountedGuest \/ CreateHostPath \/ EditMountConfig

MountsSpec == MountsInit /\ [][MountsNext]_mountVars

-----------------------------------------------------------------------------
\* Host paths that a mount shows to the guest.
Shown(m) == {path \in hostPaths : IsPrefix(m.source, path)}

\* No further mount of a running guest shows it a protected path, a checkout's
\* root or its Git metadata, or lets it write into a checkout; also not a socket
\* or a directory that the host made after the checks, under whatever name the
\* host reaches it (paths.rs: "Read-only descendants of original checkouts may
\* expose artifact data, but never mount the checkout root or Git metadata").
HostIsHidden ==
  \A m \in {m \in guestMounts : m.extra} : \A path \in Shown(m) :
    /\ \A p \in Protected : ~IsPrefix(Real(p), path)
    /\ \A i \in DOMAIN retained :
         LET repo == Real(retained[i].source)
         IN  IsPrefix(repo, path) =>
               ~m.writable /\ path # repo /\ ~IsPrefix(repo \o <<".git">>, path)

\* Nothing of the host is mounted over the guest's home or above it, which the
\* guest's entrypoint makes its own (config.rs: "The entrypoint must own only its
\* dedicated tmpfs, never a configured host mount").
GuestHomeIsOwn ==
  \A m \in guestMounts : ~IsPrefix(m.target, GuestHome)

MountsKeepTheHost == HostIsHidden /\ GuestHomeIsOwn
=============================================================================
