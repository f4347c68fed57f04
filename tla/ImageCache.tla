------------------------------ MODULE ImageCache ------------------------------
(***************************************************************************)
(* Images of guests: found by a tag that is a digest of what goes in, or   *)
(* built.                                                                  *)
(*                                                                         *)
(* The base image takes the local Jcode, a launcher and a binary, which an *)
(* upgrade replaces one after the other.  The project's image adds the     *)
(* project's Dockerfile.  Launches run beside each other, beside upgrades, *)
(* edits and `docker image prune`.  A retained session keeps its tag; a    *)
(* resume that refreshes the image looks for one again.                    *)
(***************************************************************************)
EXTENDS Naturals, FiniteSets

CONSTANTS
  Launchers,   \* launches, and resumes with --refresh-image
  Projects,    \* those of them whose project has a Dockerfile
  EditAt,      \* bound: where a launch may be while its Dockerfile changes
  Changes      \* bound: upgrades, edits and prunes

VARIABLES
  jcode,       \* the local Jcode: version of its launcher and of its binary
  dockerfile,  \* version of the project's Dockerfile
  images,      \* Docker's images by tag: what went into each
  launch,      \* what each launch is doing, and with what
  current,     \* of each launch: what was current at any time since it began
  changes      \* how much of Changes is used

imageVars == <<jcode, dockerfile, images, launch, current, changes>>

Versions == 0 .. Changes

ASSUME ImageAssumption ==
  /\ Projects \subseteq Launchers
  /\ Changes \in Nat

\* A digest stands for what is digested.
BaseTag(staged) == <<"base", staged>>
\* mutant: the tag of a project's image names its Dockerfile only
ProjectTagOfFile(file, base) == <<"project", file>>

ProjectTag(file, base) == <<"project", file, base>>

NotStaged == [launcher |-> 0, binary |-> 0]

\* What goes into an image; a base image has no Dockerfile of a project.
BaseContent(files) ==
  [launcher |-> files.launcher, binary |-> files.binary, dockerfile |-> 0]
Fresh == [at |-> "start", staged |-> NotStaged, base |-> <<>>, tag |-> <<>>]

LaunchStages == {"start", "binary", "base", "baseBuild", "project",
                 "projectBuild", "chosen", "failed"}

ImageTypeOK ==
  /\ jcode \in [launcher : Versions, binary : Versions]
  /\ dockerfile \in Versions
  /\ \A tag \in DOMAIN images : tag[1] \in {"base", "project"}
  /\ \A l \in Launchers : launch[l].at \in LaunchStages
  /\ current \in [Launchers -> [launcher : SUBSET Versions,
                                binary : SUBSET Versions,
                                dockerfile : SUBSET Versions]]
  /\ changes \in 0 .. Changes

ImageInit ==
  /\ jcode = NotStaged
  /\ dockerfile = 0
  /\ images = [tag \in {} |-> 0]
  /\ launch = [l \in Launchers |-> Fresh]
  /\ current = [l \in Launchers |->
                  [launcher |-> {}, binary |-> {}, dockerfile |-> {}]]
  /\ changes = 0

LaunchAt(l, stage) == launch[l].at = stage
LaunchGoes(l, stage) == launch' = [launch EXCEPT ![l].at = stage]
InWindow(l) == ~LaunchAt(l, "start") /\ ~LaunchAt(l, "chosen") /\ ~LaunchAt(l, "failed")

-----------------------------------------------------------------------------
(***************************************************************************)
(* ImageManager::ensure                                                    *)
(***************************************************************************)

\* The two files are copied into a directory of this launch's own, one by one.
StageLauncher(l) ==
  /\ LaunchAt(l, "start")
  /\ launch' = [launch EXCEPT ![l].at = "binary",
                              ![l].staged.launcher = jcode.launcher]
  /\ current' = [current EXCEPT ![l] =
       [launcher |-> {jcode.launcher}, binary |-> {jcode.binary},
        dockerfile |-> {dockerfile}]]
  /\ UNCHANGED <<jcode, dockerfile, images, changes>>

StageBinary(l) ==
  /\ LaunchAt(l, "binary")
  /\ launch' = [launch EXCEPT ![l].at = "base", ![l].staged.binary = jcode.binary]
  /\ UNCHANGED <<jcode, dockerfile, images, current, changes>>

\* After the base image: the project's image, or this is it.
TakesBase(l, tag) ==
  launch' = [launch EXCEPT ![l].at = IF l \in Projects THEN "project" ELSE "chosen",
                           ![l].base = tag, ![l].tag = tag]

\* The digest is of the staged copies, the bytes that Docker will read.
FindBase(l) ==
  /\ LaunchAt(l, "base")
  /\ IF BaseTag(launch[l].staged) \in DOMAIN images
     THEN TakesBase(l, BaseTag(launch[l].staged))
     ELSE LaunchGoes(l, "baseBuild")
  /\ UNCHANGED <<jcode, dockerfile, images, current, changes>>

Tagged(tag, content) ==
  images' = [t \in DOMAIN images \cup {tag} |->
               IF t = tag THEN content ELSE images[t]]

\* mutant: Docker is given the installed files, not the staged copies
BuildsFromHost(l) ==
  /\ LaunchAt(l, "baseBuild")
  /\ Tagged(BaseTag(launch[l].staged), BaseContent(jcode))
  /\ TakesBase(l, BaseTag(launch[l].staged))
  /\ UNCHANGED <<jcode, dockerfile, current, changes>>

BuildBase(l) ==
  /\ LaunchAt(l, "baseBuild")
  /\ Tagged(BaseTag(launch[l].staged), BaseContent(launch[l].staged))
  /\ TakesBase(l, BaseTag(launch[l].staged))
  /\ UNCHANGED <<jcode, dockerfile, current, changes>>

\* The Dockerfile is read for the digest here, and by Docker again in a build.
FindProject(l) ==
  /\ LaunchAt(l, "project")
  /\ LET tag == ProjectTag(dockerfile, launch[l].base)
     IN  launch' = [launch EXCEPT ![l].tag = tag,
           ![l].at = IF tag \in DOMAIN images THEN "chosen" ELSE "projectBuild"]
  /\ UNCHANGED <<jcode, dockerfile, images, current, changes>>

\* A base that was pruned meanwhile fails the build.
BuildProject(l) ==
  /\ LaunchAt(l, "projectBuild")
  /\ launch[l].base \in DOMAIN images
  /\ Tagged(launch[l].tag, [images[launch[l].base] EXCEPT !.dockerfile = dockerfile])
  /\ LaunchGoes(l, "chosen")
  /\ UNCHANGED <<jcode, dockerfile, current, changes>>

\* Docker can fail in any build; nothing is tagged then.
BuildFails(l) ==
  /\ LaunchAt(l, "baseBuild") \/ LaunchAt(l, "projectBuild")
  /\ LaunchGoes(l, "failed")
  /\ UNCHANGED <<jcode, dockerfile, images, current, changes>>

\* A later resume of the session asks for a refreshed image.
RefreshImage(l) ==
  /\ LaunchAt(l, "chosen") \/ LaunchAt(l, "failed")
  /\ launch' = [launch EXCEPT ![l] = Fresh]
  /\ UNCHANGED <<jcode, dockerfile, images, current, changes>>

-----------------------------------------------------------------------------
(***************************************************************************)
(* Around it                                                               *)
(***************************************************************************)
Changed ==
  /\ changes < Changes
  /\ changes' = changes + 1

\* What every launch in progress could have seen.
Notes(field, version) ==
  current' = [l \in Launchers |->
    IF InWindow(l) THEN [current[l] EXCEPT ![field] = @ \cup {version}]
    ELSE current[l]]

UpgradeJcode ==
  /\ Changed
  /\ \E part \in {"launcher", "binary"} :
       /\ jcode' = [jcode EXCEPT ![part] = changes + 1]
       /\ Notes(part, changes + 1)
  /\ UNCHANGED <<dockerfile, images, launch>>

EditDockerfile ==
  /\ Changed
  /\ \A l \in Projects : launch[l].at \in EditAt
  /\ dockerfile' = changes + 1
  /\ Notes("dockerfile", changes + 1)
  /\ UNCHANGED <<jcode, images, launch>>

PruneImage ==
  /\ Changed
  /\ \E tag \in DOMAIN images :
       images' = [t \in DOMAIN images \ {tag} |-> images[t]]
  /\ UNCHANGED <<jcode, dockerfile, launch, current>>

ImageNext ==
  \/ \E l \in Launchers :
       \/ StageLauncher(l) \/ StageBinary(l) \/ FindBase(l) \/ BuildBase(l)
       \/ FindProject(l) \/ BuildProject(l) \/ BuildFails(l) \/ RefreshImage(l)
  \/ UpgradeJcode \/ EditDockerfile \/ PruneImage

ImageSpec == ImageInit /\ [][ImageNext]_imageVars

-----------------------------------------------------------------------------
\* The image that a launch starts its guest from has the Jcode, and for a
\* project the Dockerfile, that were installed and saved at some time of this
\* launch: no cache hit is older, whatever launches, upgrades and prunes beside it
\* (README: a Jcode upgrade selects a new base and dependent project image, a
\* changed Dockerfile rebuilds).
ImagesAreFresh ==
  \A l \in Launchers :
    LaunchAt(l, "chosen") /\ launch[l].tag \in DOMAIN images =>
      LET content == images[launch[l].tag]
      IN  /\ content.launcher \in current[l].launcher
          /\ content.binary \in current[l].binary
          /\ l \in Projects => content.dockerfile \in current[l].dockerfile
=============================================================================
