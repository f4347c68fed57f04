---------------------------- MODULE HostParts_proofs ----------------------------
(***************************************************************************)
(* Proofs about the parts that keep state of their own and share none:     *)
(* the images of guests (ImageCache), what a session was granted           *)
(* (BrokeredAccess), its tasks and what it wrote of the files it was given *)
(* (BeadsTasks, BeadsBaseline), what of the host its mounts show           *)
(* (GuestMounts), and the conversations it resumes (Conversations).        *)
(* And of all parts side by side, with launches, rebases and configuration *)
(* (MCHostParts).                                                          *)
(***************************************************************************)
EXTENDS MCHostParts, LaunchRollback_proofs, WorktreeRebases_proofs, ConfigRefresh_proofs,
        FiniteSetTheorems, SequenceTheorems, TLAPS

-----------------------------------------------------------------------------
(***************************************************************************)
(* ImageCache: what a tag says, and what its image holds                   *)
(***************************************************************************)
StagedFiles == [launcher : Versions, binary : Versions]
BaseTags == {BaseTag(s) : s \in StagedFiles}
ProjectTags == {ProjectTag(f, BaseTag(s)) : f \in Versions, s \in StagedFiles}
NoTag == {<<>>}

ProjectContent(f, s) ==
  [launcher |-> s.launcher, binary |-> s.binary, dockerfile |-> f]

SeenFiles == [launcher : SUBSET Versions, binary : SUBSET Versions,
              dockerfile : SUBSET Versions]

Launching == [at : LaunchStages, staged : StagedFiles, base : BaseTags \cup NoTag,
              tag : BaseTags \cup ProjectTags \cup NoTag]

ImageTypes ==
  /\ jcode \in StagedFiles
  /\ dockerfile \in Versions
  /\ changes \in Versions
  /\ launch \in [Launchers -> Launching]
  /\ current \in [Launchers -> SeenFiles]

\* Every image holds what its tag is a digest of.
Catalogue ==
  /\ DOMAIN images \subseteq BaseTags \cup ProjectTags
  /\ \A s \in StagedFiles : BaseTag(s) \in DOMAIN images =>
       images[BaseTag(s)] = BaseContent(s)
  /\ \A f \in Versions, s \in StagedFiles :
       ProjectTag(f, BaseTag(s)) \in DOMAIN images =>
         images[ProjectTag(f, BaseTag(s))] = ProjectContent(f, s)

\* What is current now is among what a launch in progress could have seen.
Window(l) ==
  InWindow(l) =>
    /\ jcode.launcher \in current[l].launcher
    /\ jcode.binary \in current[l].binary
    /\ dockerfile \in current[l].dockerfile

\* The staged copies were current when they were made.
Staged(l) ==
  /\ launch[l].at \notin {"start", "failed"} =>
       launch[l].staged.launcher \in current[l].launcher
  /\ launch[l].at \notin {"start", "binary", "failed"} =>
       launch[l].staged.binary \in current[l].binary

\* A tag is of the staged copies, and of a Dockerfile that was current: of the
\* one that is there still while Docker builds.
TagOf(l) ==
  /\ launch[l].at \in {"project", "projectBuild"} =>
       l \in Projects /\ launch[l].base = BaseTag(launch[l].staged)
  /\ LaunchAt(l, "projectBuild") =>
       launch[l].tag = ProjectTag(dockerfile, BaseTag(launch[l].staged))
  /\ LaunchAt(l, "chosen") =>
       IF l \in Projects
       THEN \E f \in Versions : /\ f \in current[l].dockerfile
                                /\ launch[l].tag = ProjectTag(f, BaseTag(launch[l].staged))
       ELSE launch[l].tag = BaseTag(launch[l].staged)

ImageInv ==
  /\ ImageTypes
  /\ Catalogue
  /\ \A l \in Launchers : Window(l) /\ Staged(l) /\ TagOf(l)

-----------------------------------------------------------------------------
(***************************************************************************)
(* Tags                                                                    *)
(***************************************************************************)

\* A digest tells apart what it is of.
LEMMA TagsDiffer ==
  ASSUME NEW s, NEW t, NEW f, NEW g
  PROVE  /\ BaseTag(s) = BaseTag(t) => s = t
         /\ BaseTag(s) # ProjectTag(f, BaseTag(t))
         /\ ProjectTag(f, BaseTag(s)) = ProjectTag(g, BaseTag(t)) => f = g /\ s = t
BY DEF BaseTag, ProjectTag

\* Every tag names its kind.
LEMMA TagKinds ==
  ASSUME NEW tag \in BaseTags \cup ProjectTags
  PROVE  tag[1] \in {"base", "project"}
BY DEF BaseTags, ProjectTags, BaseTag, ProjectTag

\* An image that is tagged with what its tag says keeps the catalogue.
LEMMA TagsBase ==
  ASSUME Catalogue, NEW s \in StagedFiles, Tagged(BaseTag(s), BaseContent(s))
  PROVE  Catalogue'
<1>1. /\ DOMAIN images' = DOMAIN images \cup {BaseTag(s)}
      /\ images'[BaseTag(s)] = BaseContent(s)
      /\ \A t \in DOMAIN images \ {BaseTag(s)} : images'[t] = images[t]
  BY DEF Tagged
<1>2. BaseTag(s) \in BaseTags
  BY DEF BaseTags
<1>3. DOMAIN images' \subseteq BaseTags \cup ProjectTags
  BY <1>1, <1>2 DEF Catalogue
<1>4. ASSUME NEW t \in StagedFiles, BaseTag(t) \in DOMAIN images'
      PROVE  images'[BaseTag(t)] = BaseContent(t)
  <2>1. CASE BaseTag(t) = BaseTag(s)
    BY <2>1, <1>1, TagsDiffer
  <2>2. CASE BaseTag(t) # BaseTag(s)
    BY <2>2, <1>1, <1>4 DEF Catalogue
  <2> QED
    BY <2>1, <2>2
<1>5. ASSUME NEW f \in Versions, NEW t \in StagedFiles,
             ProjectTag(f, BaseTag(t)) \in DOMAIN images'
      PROVE  images'[ProjectTag(f, BaseTag(t))] = ProjectContent(f, t)
  <2>1. BaseTag(s) # ProjectTag(f, BaseTag(t))
    BY TagsDiffer
  <2> QED
    BY <2>1, <1>1, <1>5 DEF Catalogue
<1> QED
  BY <1>3, <1>4, <1>5 DEF Catalogue, Versions, StagedFiles, BaseTags, ProjectTags

LEMMA TagsProject ==
  ASSUME Catalogue, NEW f \in Versions, NEW s \in StagedFiles,
         Tagged(ProjectTag(f, BaseTag(s)), ProjectContent(f, s))
  PROVE  Catalogue'
<1> DEFINE tag == ProjectTag(f, BaseTag(s))
<1>1. /\ DOMAIN images' = DOMAIN images \cup {tag}
      /\ images'[tag] = ProjectContent(f, s)
      /\ \A t \in DOMAIN images \ {tag} : images'[t] = images[t]
  BY DEF Tagged
<1>2. tag \in ProjectTags
  BY DEF ProjectTags
<1> HIDE DEF tag
<1>3. DOMAIN images' \subseteq BaseTags \cup ProjectTags
  BY <1>1, <1>2 DEF Catalogue
<1>4. ASSUME NEW t \in StagedFiles, BaseTag(t) \in DOMAIN images'
      PROVE  images'[BaseTag(t)] = BaseContent(t)
  <2>1. BaseTag(t) # tag
    BY TagsDiffer DEF tag
  <2> QED
    BY <2>1, <1>1, <1>4 DEF Catalogue
<1>5. ASSUME NEW g \in Versions, NEW t \in StagedFiles,
             ProjectTag(g, BaseTag(t)) \in DOMAIN images'
      PROVE  images'[ProjectTag(g, BaseTag(t))] = ProjectContent(g, t)
  <2>1. CASE ProjectTag(g, BaseTag(t)) = tag
    <3>1. g = f /\ t = s
      BY <2>1, TagsDiffer DEF tag
    <3> QED
      BY <3>1, <2>1, <1>1
  <2>2. CASE ProjectTag(g, BaseTag(t)) # tag
    BY <2>2, <1>1, <1>5 DEF Catalogue
  <2> QED
    BY <2>1, <2>2
<1> QED
  BY <1>3, <1>4, <1>5 DEF Catalogue, Versions, StagedFiles, BaseTags, ProjectTags

-----------------------------------------------------------------------------
(***************************************************************************)
(* A step of one launch                                                    *)
(***************************************************************************)

\* What one launch does is nothing to the others.
LEMMA OthersStand ==
  ASSUME ImageInv, NEW l \in Launchers, NEW m \in Launchers, m # l,
         launch'[m] = launch[m], current'[m] = current[m],
         UNCHANGED <<jcode, dockerfile>>
  PROVE  Window(m)' /\ Staged(m)' /\ TagOf(m)'
<1>1. Window(m) /\ Staged(m) /\ TagOf(m)
  BY DEF ImageInv
<1>2. Window(m)'
  BY <1>1 DEF Window, InWindow, LaunchAt
<1>3. Staged(m)'
  BY <1>1 DEF Staged
<1>4. TagOf(m)'
  BY <1>1 DEF TagOf, LaunchAt
<1> QED
  BY <1>2, <1>3, <1>4

\* A step of one launch: the launch itself is left to show.
LEMMA OneLaunches ==
  ASSUME ImageInv, NEW l \in Launchers, NEW r \in Launching,
         launch' = [launch EXCEPT ![l] = r],
         UNCHANGED <<jcode, dockerfile, changes, current>>,
         Catalogue',
         launch'[l] = r => Window(l)' /\ Staged(l)' /\ TagOf(l)'
  PROVE  ImageInv'
<1>1. launch \in [Launchers -> Launching]
  BY DEF ImageInv, ImageTypes
<1>2. launch'[l] = r /\ \A m \in Launchers : m # l => launch'[m] = launch[m]
  BY <1>1
<1>3. launch' \in [Launchers -> Launching]
  BY <1>1
<1>4. ImageTypes'
  BY <1>3 DEF ImageInv, ImageTypes, Launching, LaunchStages, StagedFiles,
              BaseTags, ProjectTags, NoTag, SeenFiles, Versions
<1>5. ASSUME NEW m \in Launchers
      PROVE  Window(m)' /\ Staged(m)' /\ TagOf(m)'
  <2>1. CASE m = l
    BY <2>1, <1>2
  <2>2. CASE m # l
    BY <2>2, <1>2, OthersStand
  <2> QED
    BY <2>1, <2>2
<1> QED
  BY <1>4, <1>5 DEF ImageInv

-----------------------------------------------------------------------------
(***************************************************************************)
(* The steps of a launch keep the invariant                                *)
(***************************************************************************)

\* A launch as a record, so that a step of it is one replacement.
LEMMA LaunchIs ==
  ASSUME ImageInv, NEW l \in Launchers
  PROVE  /\ launch[l] \in Launching
         /\ launch[l] = [at |-> launch[l].at, staged |-> launch[l].staged,
                         base |-> launch[l].base, tag |-> launch[l].tag]
         /\ Window(l) /\ Staged(l) /\ TagOf(l)
         /\ jcode \in StagedFiles /\ dockerfile \in Versions
         /\ current[l] \in SeenFiles
         /\ Catalogue
BY DEF ImageInv, ImageTypes, Launching

LEMMA SameImages ==
  ASSUME ImageInv, UNCHANGED images
  PROVE  Catalogue'
BY DEF ImageInv, Catalogue, StagedFiles, BaseTags, ProjectTags, Versions

LEMMA TypesStand ==
  ASSUME ImageInv, launch' \in [Launchers -> Launching],
         current' \in [Launchers -> SeenFiles], UNCHANGED <<jcode, dockerfile, changes>>
  PROVE  ImageTypes'
<1>1. jcode' \in StagedFiles /\ dockerfile' \in Versions /\ changes' \in Versions
  BY DEF ImageInv, ImageTypes
<1> QED
  BY <1>1 DEF ImageTypes

LEMMA StartKeeps ==
  ASSUME ImageInv, NEW l \in Launchers, StageLauncher(l)
  PROVE  ImageInv'
<1> DEFINE copies == [launcher |-> jcode.launcher, binary |-> launch[l].staged.binary]
           r == [at |-> "binary", staged |-> copies,
                 base |-> launch[l].base, tag |-> launch[l].tag]
           seen == [launcher |-> {jcode.launcher}, binary |-> {jcode.binary},
                    dockerfile |-> {dockerfile}]
<1>1. launch[l] \in Launching /\ jcode \in StagedFiles /\ dockerfile \in Versions
  BY LaunchIs
<1>2. copies \in StagedFiles
  BY <1>1 DEF Launching, StagedFiles
<1>3. r \in Launching
  BY <1>1, <1>2 DEF Launching, LaunchStages
<1>4. seen \in SeenFiles
  BY <1>1 DEF SeenFiles, StagedFiles
<1>5. launch \in [Launchers -> Launching] /\ current \in [Launchers -> SeenFiles]
  BY DEF ImageInv, ImageTypes
<1>6. launch'[l] = r /\ current'[l] = seen
  BY <1>1, <1>5 DEF StageLauncher, Launching, StagedFiles
<1>7. \A m \in Launchers : m # l => launch'[m] = launch[m] /\ current'[m] = current[m]
  BY <1>5 DEF StageLauncher
<1>8. launch' \in [Launchers -> Launching] /\ current' \in [Launchers -> SeenFiles]
  <2>1. DOMAIN launch' = Launchers /\ launch' = [m \in Launchers |-> launch'[m]]
    BY <1>5 DEF StageLauncher
  <2>2. DOMAIN current' = Launchers /\ current' = [m \in Launchers |-> current'[m]]
    BY <1>5 DEF StageLauncher
  <2>3. \A m \in Launchers : launch'[m] \in Launching /\ current'[m] \in SeenFiles
    <3> HIDE DEF r, seen
    <3> QED
      BY <1>3, <1>4, <1>5, <1>6, <1>7
  <2> QED
    BY <2>1, <2>2, <2>3
<1>9. UNCHANGED <<jcode, dockerfile, images, changes>>
  BY DEF StageLauncher
<1> HIDE DEF r, seen, copies
<1>10. ImageTypes'
  BY <1>8, <1>9, TypesStand
<1>11. Catalogue'
  BY <1>9, SameImages
<1>12. Window(l)' /\ Staged(l)' /\ TagOf(l)'
  BY <1>6, <1>9 DEF Window, Staged, TagOf, InWindow, LaunchAt, r, seen, copies
<1>13. ASSUME NEW m \in Launchers
       PROVE  Window(m)' /\ Staged(m)' /\ TagOf(m)'
  <2>1. CASE m = l
    BY <2>1, <1>12
  <2>2. CASE m # l
    BY <2>2, <1>7, <1>9, OthersStand
  <2> QED
    BY <2>1, <2>2
<1> QED
  BY <1>10, <1>11, <1>13 DEF ImageInv

LEMMA BinaryKeeps ==
  ASSUME ImageInv, NEW l \in Launchers, StageBinary(l)
  PROVE  ImageInv'
<1> DEFINE copies == [launch[l].staged EXCEPT !.binary = jcode.binary]
           r == [launch[l] EXCEPT !.at = "base", !.staged = copies]
<1>1. launch[l] \in Launching /\ jcode \in StagedFiles
  BY LaunchIs
<1>2. /\ copies \in StagedFiles /\ copies.binary = jcode.binary
      /\ copies.launcher = launch[l].staged.launcher
  BY <1>1 DEF Launching, StagedFiles
<1>4. launch' = [launch EXCEPT ![l] = r]
  BY DEF StageBinary
<1> HIDE DEF copies
<1>3. r \in Launching /\ r.at = "base" /\ r.staged = copies
  BY <1>1, <1>2 DEF Launching, LaunchStages
<1> HIDE DEF r
<1>5. UNCHANGED <<jcode, dockerfile, images, current, changes>>
  BY DEF StageBinary
<1>6. ASSUME launch'[l] = r
      PROVE  Window(l)' /\ Staged(l)' /\ TagOf(l)'
  <2>1. Window(l) /\ Staged(l) /\ LaunchAt(l, "binary")
    BY LaunchIs DEF StageBinary
  <2>2. Window(l)' /\ TagOf(l)'
    BY <1>3, <1>5, <1>6, <2>1 DEF Window, TagOf, InWindow, LaunchAt
  <2>3. Staged(l)'
    BY <1>2, <1>3, <1>5, <1>6, <2>1 DEF Window, Staged, InWindow, LaunchAt
  <2> QED
    BY <2>2, <2>3
<1>7. Catalogue'
  BY <1>5, SameImages
<1> QED
  BY <1>3, <1>4, <1>5, <1>6, <1>7, OneLaunches

\* The base image that a launch takes is the one of what it staged.
LEMMA TakingKeeps ==
  ASSUME ImageInv, NEW l \in Launchers, launch[l].at \in {"base", "baseBuild"},
         TakesBase(l, BaseTag(launch[l].staged)), Catalogue',
         UNCHANGED <<jcode, dockerfile, changes, current>>
  PROVE  ImageInv'
<1> DEFINE tag == BaseTag(launch[l].staged)
           stage == IF l \in Projects THEN "project" ELSE "chosen"
           r == [launch[l] EXCEPT !.at = stage, !.base = tag, !.tag = tag]
<1>1. launch[l] \in Launching
  BY LaunchIs
<1>2. tag \in BaseTags
  BY <1>1 DEF Launching, BaseTags
<1>3. launch' = [launch EXCEPT ![l] = r]
  BY DEF TakesBase
<1> HIDE DEF tag
<1>4. /\ r \in Launching /\ r.at = stage /\ r.staged = launch[l].staged
      /\ r.base = tag /\ r.tag = tag
  BY <1>1, <1>2 DEF Launching, LaunchStages
<1> HIDE DEF r
<1>5. ASSUME launch'[l] = r
      PROVE  Window(l)' /\ Staged(l)' /\ TagOf(l)'
  <2>0. Window(l) /\ Staged(l)
    BY LaunchIs
  <2>1. Window(l)' /\ Staged(l)'
    BY <1>4, <1>5, <2>0 DEF Window, Staged, InWindow, LaunchAt
  <2>2. TagOf(l)'
    BY <1>4, <1>5 DEF TagOf, LaunchAt, tag
  <2> QED
    BY <2>1, <2>2
<1> QED
  BY <1>3, <1>4, <1>5, OneLaunches

\* A launch that only goes on.
LEMMA GoingKeeps ==
  ASSUME ImageInv, NEW l \in Launchers, NEW stage \in LaunchStages,
         LaunchGoes(l, stage), Catalogue',
         UNCHANGED <<jcode, dockerfile, changes, current>>,
         launch'[l] = [launch[l] EXCEPT !.at = stage] =>
           Window(l)' /\ Staged(l)' /\ TagOf(l)'
  PROVE  ImageInv'
<1> DEFINE r == [launch[l] EXCEPT !.at = stage]
<1>1. launch[l] \in Launching
  BY LaunchIs
<1>2. r \in Launching
  BY <1>1 DEF Launching
<1>3. launch' = [launch EXCEPT ![l] = r]
  BY <1>1 DEF LaunchGoes, ImageInv, ImageTypes
<1> HIDE DEF r
<1> QED
  BY <1>2, <1>3, OneLaunches DEF r

LEMMA FindBaseKeeps ==
  ASSUME ImageInv, NEW l \in Launchers, FindBase(l)
  PROVE  ImageInv'
<1>1. LaunchAt(l, "base") /\ UNCHANGED <<jcode, dockerfile, images, current, changes>>
  BY DEF FindBase
<1>2. Catalogue'
  BY <1>1, SameImages
<1>3. CASE TakesBase(l, BaseTag(launch[l].staged))
  BY <1>1, <1>2, <1>3, TakingKeeps DEF LaunchAt
<1>4. CASE LaunchGoes(l, "baseBuild")
  <2>1. launch'[l] = [launch[l] EXCEPT !.at = "baseBuild"] =>
          Window(l)' /\ Staged(l)' /\ TagOf(l)'
    BY <1>1, LaunchIs DEF Window, Staged, TagOf, InWindow, LaunchAt, Launching
  <2> QED
    BY <1>1, <1>2, <1>4, <2>1, GoingKeeps DEF LaunchStages
<1> QED
  BY <1>3, <1>4 DEF FindBase

LEMMA BuildBaseKeeps ==
  ASSUME ImageInv, NEW l \in Launchers, BuildBase(l)
  PROVE  ImageInv'
<1>1. launch[l].staged \in StagedFiles
  BY LaunchIs DEF Launching
<1>2. Catalogue'
  BY <1>1, LaunchIs, TagsBase DEF BuildBase
<1> QED
  BY <1>2, TakingKeeps DEF BuildBase, LaunchAt

LEMMA FindProjectKeeps ==
  ASSUME ImageInv, NEW l \in Launchers, FindProject(l)
  PROVE  ImageInv'
<1> DEFINE copies == launch[l].staged
           tag == ProjectTag(dockerfile, launch[l].base)
           stage == IF tag \in DOMAIN images THEN "chosen" ELSE "projectBuild"
           r == [launch[l] EXCEPT !.tag = tag, !.at = stage]
<1>1. launch[l] \in Launching /\ dockerfile \in Versions /\ LaunchAt(l, "project")
  BY LaunchIs DEF FindProject
<1>2. copies \in StagedFiles
  BY <1>1 DEF Launching
<1>3. l \in Projects /\ tag = ProjectTag(dockerfile, BaseTag(copies))
  BY <1>1, LaunchIs DEF TagOf, LaunchAt
<1>4. tag \in ProjectTags
  BY <1>1, <1>2, <1>3 DEF ProjectTags
<1>5. UNCHANGED <<jcode, dockerfile, images, current, changes>>
  BY DEF FindProject
<1>6. launch' = [launch EXCEPT ![l] = r]
  BY DEF FindProject
<1>7. Window(l) /\ Staged(l) /\ Catalogue' /\ dockerfile \in current[l].dockerfile
  BY <1>1, <1>5, LaunchIs, SameImages DEF Window, InWindow, LaunchAt
<1>8. stage \in {"chosen", "projectBuild"}
  OBVIOUS
<1> HIDE DEF tag, stage
<1>9. /\ r \in Launching /\ r.at = stage /\ r.staged = copies
      /\ r.base = launch[l].base /\ r.tag = tag
  BY <1>1, <1>4, <1>8 DEF Launching, LaunchStages
<1> HIDE DEF r
<1>10. ASSUME launch'[l] = r
       PROVE  Window(l)' /\ Staged(l)' /\ TagOf(l)'
  <2>1. Window(l)' /\ Staged(l)'
    BY <1>1, <1>5, <1>7, <1>8, <1>9, <1>10 DEF Window, Staged, InWindow, LaunchAt
  <2>2. TagOf(l)'
    <3>1. launch'[l].tag = ProjectTag(dockerfile', BaseTag(launch'[l].staged))
      BY <1>3, <1>5, <1>9, <1>10
    <3>2. launch'[l].base = BaseTag(launch'[l].staged)
      <4>1. launch[l].base = BaseTag(launch[l].staged)
        BY <1>1, LaunchIs DEF TagOf, LaunchAt
      <4>2. launch'[l].base = launch[l].base /\ launch'[l].staged = launch[l].staged
        BY <1>9, <1>10
      <4> QED
        BY <4>1, <4>2
    <3>3. dockerfile' \in Versions /\ dockerfile' \in current'[l].dockerfile
      BY <1>1, <1>5, <1>7
    <3>4. launch'[l].at \in {"chosen", "projectBuild"}
      BY <1>8, <1>9, <1>10
    <3>5. \E f \in Versions :
            /\ f \in current'[l].dockerfile
            /\ launch'[l].tag = ProjectTag(f, BaseTag(launch'[l].staged))
      BY <3>1, <3>3
    <3> QED
      BY <1>3, <3>1, <3>2, <3>4, <3>5 DEF TagOf, LaunchAt
  <2> QED
    BY <2>1, <2>2
<1> QED
  BY <1>5, <1>6, <1>7, <1>9, <1>10, OneLaunches

LEMMA BuildProjectKeeps ==
  ASSUME ImageInv, NEW l \in Launchers, BuildProject(l)
  PROVE  ImageInv'
<1> DEFINE copies == launch[l].staged
<1>1. LaunchAt(l, "projectBuild") /\ launch[l].base \in DOMAIN images
      /\ LaunchGoes(l, "chosen") /\ UNCHANGED <<jcode, dockerfile, changes, current>>
  BY DEF BuildProject
<1>2. copies \in StagedFiles /\ dockerfile \in Versions
  BY LaunchIs DEF Launching
<1>3. /\ l \in Projects /\ launch[l].base = BaseTag(copies)
      /\ launch[l].tag = ProjectTag(dockerfile, BaseTag(copies))
  BY <1>1, LaunchIs DEF TagOf, LaunchAt
<1>4. images[launch[l].base] = BaseContent(copies)
  BY <1>1, <1>2, <1>3, LaunchIs DEF Catalogue
<1>5. [images[launch[l].base] EXCEPT !.dockerfile = dockerfile]
        = ProjectContent(dockerfile, copies)
  BY <1>4 DEF BaseContent, ProjectContent
<1>6. Tagged(ProjectTag(dockerfile, BaseTag(copies)), ProjectContent(dockerfile, copies))
  BY <1>3, <1>5 DEF BuildProject
<1>7. Catalogue'
  BY <1>2, <1>6, LaunchIs, TagsProject
<1>8. Window(l) /\ Staged(l) /\ dockerfile \in current[l].dockerfile
  BY <1>1, LaunchIs DEF Window, InWindow, LaunchAt
<1>9. ASSUME launch'[l] = [launch[l] EXCEPT !.at = "chosen"]
      PROVE  Window(l)' /\ Staged(l)' /\ TagOf(l)'
  <2>1. /\ launch'[l].at = "chosen" /\ launch'[l].staged = copies
        /\ launch'[l].tag = launch[l].tag
    BY <1>9, LaunchIs DEF Launching
  <2>2. Window(l)' /\ Staged(l)'
    BY <1>1, <1>8, <2>1 DEF Window, Staged, InWindow, LaunchAt
  <2>3. TagOf(l)'
    BY <1>1, <1>2, <1>3, <1>8, <2>1 DEF TagOf, LaunchAt
  <2> QED
    BY <2>2, <2>3
<1> QED
  BY <1>1, <1>7, <1>9, GoingKeeps DEF LaunchStages

LEMMA FailingKeeps ==
  ASSUME ImageInv, NEW l \in Launchers, BuildFails(l)
  PROVE  ImageInv'
<1>1. LaunchGoes(l, "failed") /\ UNCHANGED <<jcode, dockerfile, images, current, changes>>
  BY DEF BuildFails
<1>2. Catalogue'
  BY <1>1, SameImages
<1>3. launch'[l] = [launch[l] EXCEPT !.at = "failed"] =>
        Window(l)' /\ Staged(l)' /\ TagOf(l)'
  BY LaunchIs DEF Window, Staged, TagOf, InWindow, LaunchAt, Launching
<1> QED
  BY <1>1, <1>2, <1>3, GoingKeeps DEF LaunchStages

LEMMA RefreshingKeeps ==
  ASSUME ImageInv, NEW l \in Launchers, RefreshImage(l)
  PROVE  ImageInv'
<1>1. NotStaged \in StagedFiles
  BY ImageAssumption DEF NotStaged, StagedFiles, Versions
<1>2. Fresh \in Launching
  BY <1>1 DEF Fresh, Launching, LaunchStages, NoTag
<1>3. launch'[l] = Fresh => Window(l)' /\ Staged(l)' /\ TagOf(l)'
  BY DEF Window, Staged, TagOf, InWindow, LaunchAt, Fresh
<1>4. Catalogue'
  BY SameImages DEF RefreshImage
<1> QED
  BY <1>2, <1>3, <1>4, OneLaunches DEF RefreshImage

-----------------------------------------------------------------------------
(***************************************************************************)
(* Upgrades, edits and prunes keep it                                      *)
(***************************************************************************)

LEMMA NextVersion ==
  ASSUME ImageTypes, Changed
  PROVE  changes + 1 \in Versions /\ changes' = changes + 1
BY ImageAssumption DEF ImageTypes, Changed, Versions

\* What is current now is noted for every launch in progress; nothing is forgotten.
LEMMA NotesWhatIsNew ==
  ASSUME ImageTypes, NEW field \in {"launcher", "binary", "dockerfile"},
         NEW version \in Versions, Notes(field, version)
  PROVE  /\ current' \in [Launchers -> SeenFiles]
         /\ \A l \in Launchers :
              /\ current[l].launcher \subseteq current'[l].launcher
              /\ current[l].binary \subseteq current'[l].binary
              /\ current[l].dockerfile \subseteq current'[l].dockerfile
              /\ InWindow(l) => version \in current'[l][field]
              /\ ~InWindow(l) => current'[l] = current[l]
<1>1. current \in [Launchers -> SeenFiles]
  BY DEF ImageTypes
<1>2. ASSUME NEW l \in Launchers
      PROVE  /\ current'[l] \in SeenFiles
             /\ current[l].launcher \subseteq current'[l].launcher
             /\ current[l].binary \subseteq current'[l].binary
             /\ current[l].dockerfile \subseteq current'[l].dockerfile
             /\ InWindow(l) => version \in current'[l][field]
             /\ ~InWindow(l) => current'[l] = current[l]
  <2>1. current[l] \in SeenFiles
    BY <1>1
  <2>2. CASE ~InWindow(l)
    BY <2>1, <2>2 DEF Notes
  <2>3. CASE InWindow(l)
    <3>1. current'[l] = [current[l] EXCEPT ![field] = @ \cup {version}]
      BY <2>3 DEF Notes
    <3>2. CASE field = "launcher"
      BY <2>1, <2>3, <3>1, <3>2 DEF SeenFiles
    <3>3. CASE field = "binary"
      BY <2>1, <2>3, <3>1, <3>3 DEF SeenFiles
    <3>4. CASE field = "dockerfile"
      BY <2>1, <2>3, <3>1, <3>4 DEF SeenFiles
    <3> QED
      BY <3>2, <3>3, <3>4
  <2> QED
    BY <2>2, <2>3
<1>3. current' = [l \in Launchers |-> current'[l]]
  BY DEF Notes
<1> QED
  BY <1>2, <1>3

\* What a launch holds is as current as it was when more becomes current.
LEMMA MoreIsCurrent ==
  ASSUME ImageInv, NEW l \in Launchers,
         UNCHANGED launch,
         dockerfile' = dockerfile \/ ~LaunchAt(l, "projectBuild"),
         current[l].launcher \subseteq current'[l].launcher,
         current[l].binary \subseteq current'[l].binary,
         current[l].dockerfile \subseteq current'[l].dockerfile
  PROVE  Staged(l)' /\ TagOf(l)'
<1>1. Staged(l) /\ TagOf(l)
  BY DEF ImageInv
<1>2. Staged(l)'
  BY <1>1 DEF Staged
<1>3. launch'[l] = launch[l]
  OBVIOUS
<1>4. ASSUME LaunchAt(l, "chosen"), l \in Projects
      PROVE  \E f \in Versions : /\ f \in current'[l].dockerfile
                                 /\ launch[l].tag = ProjectTag(f, BaseTag(launch[l].staged))
  BY <1>1, <1>4 DEF TagOf
<1>5. TagOf(l)'
  BY <1>1, <1>3, <1>4 DEF TagOf, LaunchAt, Versions
<1> QED
  BY <1>2, <1>5

LEMMA UpgradeKeeps ==
  ASSUME ImageInv, UpgradeJcode
  PROVE  ImageInv'
<1>1. PICK piece \in {"launcher", "binary"} :
        jcode' = [jcode EXCEPT ![piece] = changes + 1] /\ Notes(piece, changes + 1)
  BY DEF UpgradeJcode
<1>2. UNCHANGED <<dockerfile, images, launch>>
  BY DEF UpgradeJcode
<1>3. ImageTypes /\ changes + 1 \in Versions /\ changes' \in Versions
  BY NextVersion DEF UpgradeJcode, ImageInv
<1>4. /\ current' \in [Launchers -> SeenFiles]
      /\ \A l \in Launchers :
           /\ current[l].launcher \subseteq current'[l].launcher
           /\ current[l].binary \subseteq current'[l].binary
           /\ current[l].dockerfile \subseteq current'[l].dockerfile
           /\ InWindow(l) => changes + 1 \in current'[l][piece]
  BY <1>1, <1>3, NotesWhatIsNew
<1>5. /\ jcode' \in StagedFiles /\ jcode'[piece] = changes + 1
      /\ \A other \in {"launcher", "binary"} : other # piece => jcode'[other] = jcode[other]
  BY <1>1, <1>3 DEF ImageTypes, StagedFiles
<1>6. ImageTypes'
  BY <1>2, <1>3, <1>4, <1>5 DEF ImageTypes
<1>7. Catalogue'
  BY <1>2, SameImages
<1>8. ASSUME NEW l \in Launchers
      PROVE  Window(l)' /\ Staged(l)' /\ TagOf(l)'
  <2>1. Staged(l)' /\ TagOf(l)'
    BY <1>2, <1>4, MoreIsCurrent
  <2>2. Window(l)
    BY DEF ImageInv
  <2>3. ASSUME InWindow(l)
        PROVE  /\ jcode'.launcher \in current'[l].launcher
               /\ jcode'.binary \in current'[l].binary
               /\ dockerfile' \in current'[l].dockerfile
    <3>1. CASE piece = "launcher"
      BY <1>2, <1>4, <1>5, <2>2, <2>3, <3>1 DEF Window
    <3>2. CASE piece = "binary"
      BY <1>2, <1>4, <1>5, <2>2, <2>3, <3>2 DEF Window
    <3> QED
      BY <3>1, <3>2
  <2>4. Window(l)'
    BY <1>2, <2>3 DEF Window, InWindow, LaunchAt
  <2> QED
    BY <2>1, <2>4
<1> QED
  BY <1>6, <1>7, <1>8 DEF ImageInv

\* A Dockerfile is not saved between its digest and Docker's reading of it.
LEMMA EditKeeps ==
  ASSUME ImageInv, EditDockerfile, "projectBuild" \notin EditAt
  PROVE  ImageInv'
<1>1. /\ dockerfile' = changes + 1 /\ Notes("dockerfile", changes + 1)
      /\ UNCHANGED <<jcode, images, launch>>
      /\ \A l \in Projects : launch[l].at \in EditAt
  BY DEF EditDockerfile
<1>2. ImageTypes /\ changes + 1 \in Versions /\ changes' \in Versions
  BY NextVersion DEF EditDockerfile, ImageInv
<1>3. /\ current' \in [Launchers -> SeenFiles]
      /\ \A l \in Launchers :
           /\ current[l].launcher \subseteq current'[l].launcher
           /\ current[l].binary \subseteq current'[l].binary
           /\ current[l].dockerfile \subseteq current'[l].dockerfile
           /\ InWindow(l) => changes + 1 \in current'[l].dockerfile
  BY <1>1, <1>2, NotesWhatIsNew
<1>4. ImageTypes'
  BY <1>1, <1>2, <1>3 DEF ImageTypes
<1>5. Catalogue'
  BY <1>1, SameImages
<1>6. ASSUME NEW l \in Launchers
      PROVE  Window(l)' /\ Staged(l)' /\ TagOf(l)'
  <2>1. Window(l) /\ TagOf(l)
    BY DEF ImageInv
  <2>2. ~LaunchAt(l, "projectBuild")
    BY <1>1, <2>1 DEF TagOf, LaunchAt
  <2>3. Staged(l)' /\ TagOf(l)'
    BY <1>1, <1>3, <2>2, MoreIsCurrent
  <2>4. Window(l)'
    BY <1>1, <1>3, <2>1 DEF Window, InWindow, LaunchAt
  <2> QED
    BY <2>3, <2>4
<1> QED
  BY <1>4, <1>5, <1>6 DEF ImageInv

LEMMA PruneKeeps ==
  ASSUME ImageInv, PruneImage
  PROVE  ImageInv'
<1>1. PICK tag \in DOMAIN images :
        images' = [t \in DOMAIN images \ {tag} |-> images[t]]
  BY DEF PruneImage
<1>2. UNCHANGED <<jcode, dockerfile, launch, current>>
  BY DEF PruneImage
<1>3. ImageTypes /\ Catalogue /\ changes' \in Versions
  BY NextVersion DEF PruneImage, ImageInv
<1>4. ImageTypes'
  BY <1>2, <1>3 DEF ImageTypes
<1>5. /\ DOMAIN images' \subseteq DOMAIN images
      /\ \A t \in DOMAIN images' : images'[t] = images[t]
  BY <1>1
<1>6. Catalogue'
  <2>1. DOMAIN images' \subseteq BaseTags \cup ProjectTags
    BY <1>3, <1>5 DEF Catalogue
  <2>2. \A s \in StagedFiles : BaseTag(s) \in DOMAIN images' =>
          images'[BaseTag(s)] = BaseContent(s)
    BY <1>3, <1>5 DEF Catalogue
  <2>3. \A f \in Versions, s \in StagedFiles :
          ProjectTag(f, BaseTag(s)) \in DOMAIN images' =>
            images'[ProjectTag(f, BaseTag(s))] = ProjectContent(f, s)
    BY <1>3, <1>5 DEF Catalogue
  <2> QED
    BY <2>1, <2>2, <2>3 DEF Catalogue
<1>7. ASSUME NEW l \in Launchers
      PROVE  Window(l)' /\ Staged(l)' /\ TagOf(l)'
  <2>1. Window(l)
    BY DEF ImageInv
  <2>2. Window(l)'
    BY <1>2, <2>1 DEF Window, InWindow, LaunchAt
  <2> QED
    BY <1>2, <2>2, MoreIsCurrent
<1> QED
  BY <1>4, <1>6, <1>7 DEF ImageInv

-----------------------------------------------------------------------------
(***************************************************************************)
(* Images: the theorems                                                    *)
(***************************************************************************)

LEMMA ImagesBegin == ImageInit => ImageInv
<1> SUFFICES ASSUME ImageInit PROVE ImageInv
  OBVIOUS
<1>1. NotStaged \in StagedFiles /\ 0 \in Versions
  BY ImageAssumption DEF NotStaged, StagedFiles, Versions
<1>2. Fresh \in Launching
  BY <1>1 DEF Fresh, Launching, LaunchStages, NoTag
<1>3. launch \in [Launchers -> Launching]
  BY <1>2 DEF ImageInit
<1>4. current \in [Launchers -> SeenFiles]
  BY DEF ImageInit, SeenFiles
<1>5. ImageTypes
  BY <1>1, <1>3, <1>4 DEF ImageInit, ImageTypes
<1>6. Catalogue
  BY DEF ImageInit, Catalogue
<1>7. ASSUME NEW l \in Launchers
      PROVE  Window(l) /\ Staged(l) /\ TagOf(l)
  <2>1. launch[l].at = "start"
    BY DEF ImageInit, Fresh
  <2> QED
    BY <2>1 DEF Window, Staged, TagOf, InWindow, LaunchAt
<1> QED
  BY <1>5, <1>6, <1>7 DEF ImageInv

LEMMA ImagesStep ==
  ASSUME "projectBuild" \notin EditAt, ImageInv, [ImageNext]_imageVars
  PROVE  ImageInv'
<1>1. ASSUME NEW l \in Launchers, StageLauncher(l) PROVE ImageInv'
  BY <1>1, StartKeeps
<1>2. ASSUME NEW l \in Launchers, StageBinary(l) PROVE ImageInv'
  BY <1>2, BinaryKeeps
<1>3. ASSUME NEW l \in Launchers, FindBase(l) PROVE ImageInv'
  BY <1>3, FindBaseKeeps
<1>4. ASSUME NEW l \in Launchers, BuildBase(l) PROVE ImageInv'
  BY <1>4, BuildBaseKeeps
<1>5. ASSUME NEW l \in Launchers, FindProject(l) PROVE ImageInv'
  BY <1>5, FindProjectKeeps
<1>6. ASSUME NEW l \in Launchers, BuildProject(l) PROVE ImageInv'
  BY <1>6, BuildProjectKeeps
<1>7. ASSUME NEW l \in Launchers, BuildFails(l) PROVE ImageInv'
  BY <1>7, FailingKeeps
<1>8. ASSUME NEW l \in Launchers, RefreshImage(l) PROVE ImageInv'
  BY <1>8, RefreshingKeeps
<1>9. CASE UpgradeJcode
  BY <1>9, UpgradeKeeps
<1>10. CASE EditDockerfile
  BY <1>10, EditKeeps
<1>11. CASE PruneImage
  BY <1>11, PruneKeeps
<1>12. CASE UNCHANGED imageVars
  <2>1. UNCHANGED <<jcode, dockerfile, images, launch, current, changes>>
    BY <1>12 DEF imageVars
  <2>2. ImageTypes' /\ Catalogue'
    BY <2>1, SameImages DEF ImageInv, ImageTypes
  <2>3. ASSUME NEW l \in Launchers PROVE Window(l)' /\ Staged(l)' /\ TagOf(l)'
    <3>1. Window(l)'
      BY <2>1 DEF ImageInv, Window, InWindow, LaunchAt
    <3> QED
      BY <2>1, <3>1, MoreIsCurrent
  <2> QED
    BY <2>2, <2>3 DEF ImageInv
<1> QED
  BY <1>1, <1>2, <1>3, <1>4, <1>5, <1>6, <1>7, <1>8, <1>9, <1>10, <1>11, <1>12
     DEF ImageNext

\* The image of a launch has the Jcode, and the Dockerfile, that were current at
\* some time of this launch (ImageManager::ensure), for any number of launches,
\* upgrades, edits and prunes beside each other, where no edit of the Dockerfile
\* falls between its digest and the build that reads it again.
THEOREM ImagesStayFresh ==
  ASSUME "projectBuild" \notin EditAt
  PROVE  ImageSpec => []ImagesAreFresh
<1>1. ImageInv => ImagesAreFresh
  <2> SUFFICES ASSUME ImageInv, NEW l \in Launchers,
                      LaunchAt(l, "chosen"), launch[l].tag \in DOMAIN images
               PROVE  LET content == images[launch[l].tag]
                      IN  /\ content.launcher \in current[l].launcher
                          /\ content.binary \in current[l].binary
                          /\ l \in Projects => content.dockerfile \in current[l].dockerfile
    BY DEF ImagesAreFresh
  <2> DEFINE copies == launch[l].staged
             content == images[launch[l].tag]
  <2>1. copies \in StagedFiles /\ Staged(l) /\ TagOf(l) /\ Catalogue
    BY LaunchIs DEF Launching
  <2>2. copies.launcher \in current[l].launcher /\ copies.binary \in current[l].binary
    BY <2>1 DEF Staged, LaunchAt
  <2>3. CASE l \in Projects
    <3>1. PICK f \in Versions : /\ f \in current[l].dockerfile
                                /\ launch[l].tag = ProjectTag(f, BaseTag(copies))
      BY <2>1, <2>3 DEF TagOf
    <3>2. content = ProjectContent(f, copies)
      BY <2>1, <3>1 DEF Catalogue
    <3> QED
      BY <2>2, <3>1, <3>2 DEF ProjectContent
  <2>4. CASE l \notin Projects
    <3>1. launch[l].tag = BaseTag(copies)
      BY <2>1, <2>4 DEF TagOf
    <3>2. content = BaseContent(copies)
      BY <2>1, <3>1 DEF Catalogue
    <3> QED
      BY <2>2, <2>4, <3>2 DEF BaseContent
  <2> QED
    BY <2>3, <2>4
<1> QED
  BY <1>1, ImagesBegin, ImagesStep, PTL DEF ImageSpec

\* What ensure keeps has its types.
THEOREM ImageTypesCorrect ==
  ASSUME "projectBuild" \notin EditAt
  PROVE  ImageSpec => []ImageTypeOK
<1>1. ImageInv => ImageTypeOK
  <2> SUFFICES ASSUME ImageInv PROVE ImageTypeOK
    OBVIOUS
  <2>1. \A tag \in DOMAIN images : tag[1] \in {"base", "project"}
    BY TagKinds DEF ImageInv, Catalogue
  <2> QED
    BY <2>1 DEF ImageTypeOK, ImageInv, ImageTypes, StagedFiles, SeenFiles, Launching,
                Versions
<1> QED
  BY <1>1, ImagesBegin, ImagesStep, PTL DEF ImageSpec

-----------------------------------------------------------------------------
(***************************************************************************)
(* BrokeredAccess: the policy, the journal and the configuration they are  *)
(* of                                                                      *)
(***************************************************************************)
PlanRecords == [repository : {RepositoryOf(u) : u \in Urls}, remote : Remotes,
                operation : Operations, ref : Refs \cup {<<>>}, allowed : BOOLEAN]
Policies == {NoPolicy} \cup {PolicyOf(c) : c \in Configs}
Planning == [busy : BOOLEAN, policy : Policies, plans : Seq(PlanRecords)]
LaunchSteps == {"new", "create", "stopped", "resume", "mount", "running"}

AccessTypes ==
  /\ file \in Configs
  /\ remoteUrl \in [Remotes -> Urls]
  /\ policy \in Policies
  /\ plans \in Seq(PlanRecords)
  /\ launchAt \in LaunchSteps
  /\ loaded \in Configs \cup {NoConfig}
  /\ granted \in Configs \cup {NoConfig}
  /\ planner \in [Planners -> Planning]
  /\ accessSteps \in 0 .. AccessSteps

\* What a configuration grants of a plan: what PlansAreAuthorized says of one.
Grants(c, plan) ==
  \E g \in c.grants :
    /\ g.repository = plan.repository /\ g.remote = plan.remote
    /\ g.delivery = "brokered" /\ plan.operation \in g.operations
    /\ \E p \in c.profiles : p.name = g.profile /\ Costs(p, plan.operation)
    /\ plan.operation = "push-branch" =>
         /\ \E prefix \in g.prefixes : IsPrefix(prefix, plan.ref)
         /\ \A rule \in g.protected :
              ~(rule = plan.ref \/ IsPrefix(Append(rule, "/"), plan.ref))

GrantsAll(c, journal) ==
  \A i \in DOMAIN journal : journal[i].allowed => Grants(c, journal[i])

\* Before there is a session, nothing is granted and nothing planned.
NoSession ==
  launchAt \in {"new", "create"} =>
    /\ plans = <<>>
    /\ access = "no guest"
    /\ \A p \in Planners : ~planner[p].busy

\* The record keeps what was granted, which was valid.
PolicyStands ==
  launchAt \notin {"new", "create"} =>
    /\ granted \in Configs
    /\ ValidateGitAccess(granted)
    /\ policy = PolicyOf(granted)

\* A launch or resume goes on with a valid file; a resume mounts with one that
\* has the policy of the record.
LoadedIsValid ==
  /\ launchAt \in {"create", "resume", "mount"} =>
       loaded \in Configs /\ ValidateGitAccess(loaded)
  /\ launchAt = "mount" => PolicyOf(loaded) = policy

\* A planner holds the policy of the record, however old its reading of it is.
PlannersAgree ==
  \A p \in Planners : planner[p].busy =>
    /\ planner[p].policy = PolicyOf(granted)
    /\ GrantsAll(granted, planner[p].plans)

AccessInv ==
  /\ AccessTypes
  /\ NoSession
  /\ PolicyStands
  /\ LoadedIsValid
  /\ PlannersAgree
  /\ GrantsAll(granted, plans)
  /\ GuestAccessFrozen

-----------------------------------------------------------------------------
(***************************************************************************)
(* What a policy allows, its configuration grants                          *)
(***************************************************************************)

\* Some number of a set is its least: else the numbers below all of it would be
\* a finite set that adding one maps into less than itself.
LEMMA LeastNumber ==
  ASSUME NEW S \in SUBSET Nat, NEW n \in S
  PROVE  \E i \in S : \A j \in S : i <= j
<1> DEFINE Below == {k \in 0 .. n : \A j \in S : k < j}
<1> SUFFICES ASSUME \A i \in S : \E j \in S : j < i
             PROVE  FALSE
  OBVIOUS
<1>1. IsFiniteSet(Below)
  <2>1. IsFiniteSet(0 .. n) /\ Below \in SUBSET (0 .. n)
    BY FS_Interval
  <2> HIDE DEF Below
  <2> QED
    BY <2>1, FS_Subset
<1>2. 0 \in Below
  OBVIOUS
<1>3. ASSUME NEW k \in Below
      PROVE  k + 1 \in Below \ {0}
  <2>1. k \in Nat /\ \A j \in S : k + 1 <= j
    OBVIOUS
  <2>2. \A j \in S : k + 1 < j
    BY <2>1
  <2>3. k + 1 \in 0 .. n
    BY <2>1
  <2> QED
    BY <2>1, <2>2, <2>3
<1> DEFINE Up == [k \in Below |-> k + 1]
<1>4. Up \in [Below -> Below \ {0}] /\ \A k, l \in Below : Up[k] = Up[l] => k = l
  BY <1>3
<1>5. /\ IsFiniteSet(Below \ {0})
      /\ Cardinality(Below \ {0}) < Cardinality(Below)
  <2> HIDE DEF Below
  <2>1. /\ Cardinality(Below) \in Nat
        /\ Cardinality(Below \ {0}) = Cardinality(Below) - 1
    BY <1>1, <1>2, FS_RemoveElement, FS_CardinalityType
  <2> QED
    BY <1>1, <2>1, FS_RemoveElement
<1> HIDE DEF Below, Up
<1> QED
  BY <1>1, <1>4, <1>5, FS_PigeonHole

\* A policy has a first grant among those that match.
LEMMA FirstMatches ==
  ASSUME NEW grants, \A g \in grants : g.id \in Nat, grants # {}
  PROVE  FirstMatch(grants) \in grants
<1> DEFINE ids == {g.id : g \in grants}
<1>1. PICK g \in grants : TRUE
  OBVIOUS
<1>2. ids \in SUBSET Nat /\ g.id \in ids
  OBVIOUS
<1>3. PICK i \in ids : \A j \in ids : i <= j
  <2> HIDE DEF ids
  <2> QED
    BY <1>2, LeastNumber
<1>4. PICK first \in grants : first.id = i
  OBVIOUS
<1>5. \A h \in grants : first.id <= h.id
  BY <1>3, <1>4
<1> QED
  BY <1>4, <1>5 DEF FirstMatch

\* Each grant of a valid configuration was validated with its profiles.
LEMMA GrantsAreValid ==
  ASSUME NEW c \in Configs, ValidateGitAccess(c), NEW g \in c.grants
  PROVE  ValidateGrant(g, c.profiles) /\ IsGrant(g) /\ \A p \in c.profiles : IsProfile(p)
<1>1. c.profiles # {}
  BY DEF ValidateGitAccess
<1>2. ValidateGrant(g, c.profiles)
  BY <1>1 DEF ValidateGitAccess
<1>3. IsConfig(c)
  BY AccessAssumption
<1> QED
  BY <1>2, <1>3 DEF IsConfig

\* A profile that declares as much as a grant asks has what the operations of the
\* grant cost.
LEMMA DeclaredIsEnough ==
  ASSUME NEW g, IsGrant(g), NEW p, IsProfile(p), WithinProfile(g, p),
         NEW operation \in Operations, Capable(g, operation)
  PROVE  Costs(p, operation)
<1>1. /\ g.git \in 0 .. 2 /\ g.pulls \in 0 .. 2
      /\ g.actions \in 0 .. 2 /\ g.checks \in 0 .. 2
      /\ p.contents \in 0 .. 2 /\ p.pulls \in 0 .. 2 /\ p.actions \in 0 .. 2
  BY DEF IsGrant, IsProfile, NoCapability, Write
<1>2. /\ g.git <= p.contents /\ g.pulls <= p.pulls
      /\ g.actions <= p.actions /\ g.checks <= p.actions
  BY DEF WithinProfile
<1>3. CASE operation \in Reads
  <2>1. g.git >= Read
    BY <1>3, Zenon DEF Capable, Reads, PullRequestReads, PullRequestWrites
  <2>2. p.contents >= Read
    BY <1>1, <1>2, <2>1 DEF Read
  <2> QED
    BY <1>3, <2>2, Zenon DEF Costs, Reads, PullRequestReads, PullRequestWrites
<1>4. CASE operation = "push-branch"
  <2>1. g.git = Write
    BY <1>4, Zenon DEF Capable, Reads, PullRequestReads, PullRequestWrites
  <2>2. p.contents = Write
    BY <1>1, <1>2, <2>1 DEF Write
  <2> QED
    BY <1>4, <2>2, Zenon DEF Costs, Reads, PullRequestReads, PullRequestWrites
<1>5. CASE operation \in PullRequestReads
  <2>1. g.pulls >= Read
    BY <1>5, Zenon DEF Capable, Reads, PullRequestReads, PullRequestWrites
  <2>2. p.pulls >= Read
    BY <1>1, <1>2, <2>1 DEF Read
  <2> QED
    BY <1>5, <2>2, Zenon DEF Costs, Reads, PullRequestReads, PullRequestWrites
<1>6. CASE operation = "ci-view"
  <2>1. g.actions >= Read \/ g.checks >= Read
    BY <1>6, Zenon DEF Capable, Reads, PullRequestReads, PullRequestWrites
  <2>2. p.actions >= Read
    BY <1>1, <1>2, <2>1 DEF Read
  <2> QED
    BY <1>6, <2>2, Zenon DEF Costs, Reads, PullRequestReads, PullRequestWrites
<1>7. CASE operation \in PullRequestWrites
  <2>1. g.pulls = Write
    BY <1>7, Zenon DEF Capable, Reads, PullRequestReads, PullRequestWrites
  <2>2. p.pulls = Write
    BY <1>1, <1>2, <2>1 DEF Write
  <2> QED
    BY <1>7, <2>2, Zenon DEF Costs, Reads, PullRequestReads, PullRequestWrites
<1> QED
  BY <1>3, <1>4, <1>5, <1>6, <1>7 DEF Operations

\* What the policy of a valid configuration allows, the configuration grants.
LEMMA AllowedIsGranted ==
  ASSUME NEW c \in Configs, ValidateGitAccess(c), NEW plan,
         plan.operation \in Operations,
         Allows(PolicyOf(c), plan.repository, plan.remote, plan.operation, plan.ref)
  PROVE  Grants(c, plan)
<1> DEFINE matching == Matching(PolicyOf(c), plan.repository, plan.remote)
           g == FirstMatch(matching)
<1>1. matching # {} /\ plan.operation \in g.operations
      /\ PlanReference(g, plan.operation, plan.ref)
  BY DEF Allows
<1>2. \A h \in matching :
        /\ h \in c.grants /\ h.repository = plan.repository
        /\ h.remote = plan.remote /\ h.delivery = "brokered"
  BY DEF Matching, PolicyOf
<1>3. \A h \in matching : h.id \in Nat
  BY <1>2, GrantsAreValid DEF IsGrant
<1> HIDE DEF matching
<1>4. g \in matching
  BY <1>1, <1>3, FirstMatches
<1> HIDE DEF g
<1>5. /\ g \in c.grants /\ g.repository = plan.repository
      /\ g.remote = plan.remote /\ g.delivery = "brokered"
  BY <1>2, <1>4
<1>6. ValidateGrant(g, c.profiles) /\ IsGrant(g) /\ \A p \in c.profiles : IsProfile(p)
  BY <1>5, GrantsAreValid
<1>7. PICK p \in c.profiles : p.name = g.profile /\ WithinProfile(g, p)
  BY <1>6 DEF ValidateGrant
<1>8. Capable(g, plan.operation)
  BY <1>1, <1>6 DEF ValidateGrant, ValidateGrantOperations
<1>9. Costs(p, plan.operation)
  BY <1>6, <1>7, <1>8, DeclaredIsEnough
<1>10. plan.operation = "push-branch" =>
         /\ \E prefix \in g.prefixes : IsPrefix(prefix, plan.ref)
         /\ \A rule \in g.protected :
              ~(rule = plan.ref \/ IsPrefix(Append(rule, "/"), plan.ref))
  BY <1>1 DEF PlanReference, Protects
<1> QED
  BY <1>1, <1>5, <1>7, <1>9, <1>10 DEF Grants

-----------------------------------------------------------------------------
(***************************************************************************)
(* The steps of a session keep the invariant                               *)
(***************************************************************************)

LEMMA AccessBegins == AccessInit => AccessInv
<1> SUFFICES ASSUME AccessInit PROVE AccessInv
  OBVIOUS
<1>1. NoPolicy \in Policies /\ <<>> \in Seq(PlanRecords)
  BY DEF Policies
<1>2. NotLoaded \in Planning /\ ~NotLoaded.busy
  BY <1>1 DEF NotLoaded, Planning
<1>3. AccessTypes
  <2>1. planner \in [Planners -> Planning]
    BY <1>2 DEF AccessInit
  <2>2. accessSteps \in 0 .. AccessSteps
    <3>1. AccessSteps \in Nat
      BY AccessAssumption
    <3>2. accessSteps = 0
      BY DEF AccessInit
    <3> QED
      BY <3>1, <3>2
  <2> QED
    BY <1>1, <2>1, <2>2 DEF AccessInit, AccessTypes, LaunchSteps
<1>4. NoSession /\ PolicyStands /\ LoadedIsValid /\ PlannersAgree
  BY <1>2 DEF AccessInit, NoSession, PolicyStands, LoadedIsValid, PlannersAgree
<1>5. GrantsAll(granted, plans)
  <2>1. plans = <<>>
    BY DEF AccessInit
  <2>2. plans \in Seq(PlanRecords) /\ Len(plans) = 0
    BY <2>1
  <2>3. DOMAIN plans = {}
    BY <2>2
  <2> QED
    BY <2>3 DEF GrantsAll
<1>6. GuestAccessFrozen
  BY DEF AccessInit, GuestAccessFrozen
<1> QED
  BY <1>3, <1>4, <1>5, <1>6 DEF AccessInv

LEMMA LoadKeeps ==
  ASSUME AccessInv, NEW from, NEW to,
         <<from, to>> \in {<<"new", "create">>, <<"stopped", "resume">>},
         LoadConfig(from, to)
  PROVE  AccessInv'
<1>1. /\ launchAt = from /\ launchAt' = to /\ loaded' = file /\ ValidateGitAccess(file)
      /\ UNCHANGED <<file, remoteUrl, policy, plans, access, granted, planner,
                     accessSteps>>
  BY DEF LoadConfig
<1>2. /\ (from = "new" /\ to = "create") \/ (from = "stopped" /\ to = "resume")
  OBVIOUS
<1>3. AccessTypes'
  BY <1>1, <1>2 DEF AccessInv, AccessTypes, LaunchSteps
<1>4. NoSession' /\ PolicyStands'
  BY <1>1, <1>2 DEF AccessInv, NoSession, PolicyStands
<1>5. LoadedIsValid'
  BY <1>1, <1>2 DEF AccessInv, AccessTypes, LoadedIsValid
<1>6. PlannersAgree' /\ GrantsAll(granted, plans)' /\ GuestAccessFrozen'
  BY <1>1 DEF AccessInv, PlannersAgree, GrantsAll, GuestAccessFrozen
<1> QED
  BY <1>3, <1>4, <1>5, <1>6 DEF AccessInv

LEMMA CreateKeeps ==
  ASSUME AccessInv, CreateSession
  PROVE  AccessInv'
<1>1. /\ launchAt = "create" /\ launchAt' = "running"
      /\ access' = GuestAccess(loaded) /\ policy' = PolicyOf(loaded) /\ granted' = loaded
      /\ UNCHANGED <<file, remoteUrl, plans, loaded, planner, accessSteps>>
  BY DEF CreateSession
<1>2. loaded \in Configs /\ ValidateGitAccess(loaded)
  BY <1>1 DEF AccessInv, LoadedIsValid
<1>3. plans = <<>> /\ \A p \in Planners : ~planner[p].busy
  BY <1>1 DEF AccessInv, NoSession
<1>4. AccessTypes'
  BY <1>1, <1>2 DEF AccessInv, AccessTypes, LaunchSteps, Policies
<1>5. NoSession' /\ PolicyStands' /\ LoadedIsValid' /\ PlannersAgree'
  BY <1>1, <1>2, <1>3 DEF NoSession, PolicyStands, LoadedIsValid, PlannersAgree
<1>6. GrantsAll(granted, plans)'
  BY <1>1, <1>3 DEF GrantsAll
<1>7. GuestAccessFrozen'
  BY <1>1 DEF GuestAccessFrozen
<1> QED
  BY <1>4, <1>5, <1>6, <1>7 DEF AccessInv

LEMMA ValidateKeeps ==
  ASSUME AccessInv, ValidateResumeConfig
  PROVE  AccessInv'
<1>1. /\ launchAt = "resume"
      /\ \/ launchAt' = "mount" /\ PolicyOf(loaded) = policy
         \/ launchAt' = "stopped"
      /\ UNCHANGED <<file, remoteUrl, policy, plans, access, loaded, granted,
                     planner, accessSteps>>
  BY DEF ValidateResumeConfig
<1>2. AccessTypes'
  BY <1>1 DEF AccessInv, AccessTypes, LaunchSteps
<1>3. NoSession' /\ PolicyStands' /\ LoadedIsValid'
  BY <1>1 DEF AccessInv, NoSession, PolicyStands, LoadedIsValid
<1>4. PlannersAgree' /\ GrantsAll(granted, plans)' /\ GuestAccessFrozen'
  BY <1>1 DEF AccessInv, PlannersAgree, GrantsAll, GuestAccessFrozen
<1> QED
  BY <1>2, <1>3, <1>4 DEF AccessInv

\* Two valid configurations with one policy give the guest the same.
LEMMA SamePolicySameAccess ==
  ASSUME NEW c, NEW d, ValidateGitAccess(c), ValidateGitAccess(d),
         PolicyOf(c) = PolicyOf(d), d.profiles # {}
  PROVE  GuestAccess(c) = GuestAccess(d)
<1>1. c.profiles = d.profiles /\ c.grants = d.grants
  BY DEF PolicyOf
<1>2. c.credentials = d.credentials
  BY <1>1 DEF ValidateGitAccess
<1>3. PassthroughProfiles(c) = PassthroughProfiles(d)
  BY <1>1 DEF PassthroughProfiles
<1> QED
  BY <1>2, <1>3 DEF GuestAccess

LEMMA MountKeeps ==
  ASSUME AccessInv, MountForResume
  PROVE  AccessInv'
<1>1. /\ launchAt = "mount" /\ launchAt' = "running" /\ access' = GuestAccess(loaded)
      /\ UNCHANGED <<file, remoteUrl, policy, plans, loaded, granted, planner,
                     accessSteps>>
  BY DEF MountForResume
<1>2. /\ ValidateGitAccess(loaded) /\ ValidateGitAccess(granted)
      /\ PolicyOf(loaded) = PolicyOf(granted)
  BY <1>1 DEF AccessInv, LoadedIsValid, PolicyStands
<1>3. AccessTypes'
  BY <1>1 DEF AccessInv, AccessTypes, LaunchSteps
<1>4. NoSession' /\ PolicyStands' /\ LoadedIsValid'
  BY <1>1 DEF AccessInv, NoSession, PolicyStands, LoadedIsValid
<1>5. PlannersAgree' /\ GrantsAll(granted, plans)'
  BY <1>1 DEF AccessInv, PlannersAgree, GrantsAll
<1>6. GuestAccessFrozen'
  BY <1>1, <1>2, SamePolicySameAccess DEF GuestAccessFrozen
<1> QED
  BY <1>3, <1>4, <1>5, <1>6 DEF AccessInv

LEMMA StopKeeps ==
  ASSUME AccessInv, StopsAccess
  PROVE  AccessInv'
<1>1. /\ launchAt = "running" /\ launchAt' = "stopped" /\ access' = "no guest"
      /\ UNCHANGED <<file, remoteUrl, policy, plans, loaded, granted, planner,
                     accessSteps>>
  BY DEF StopsAccess
<1>2. AccessTypes'
  BY <1>1 DEF AccessInv, AccessTypes, LaunchSteps
<1>3. NoSession' /\ PolicyStands' /\ LoadedIsValid'
  BY <1>1 DEF AccessInv, NoSession, PolicyStands, LoadedIsValid
<1>4. PlannersAgree' /\ GrantsAll(granted, plans)' /\ GuestAccessFrozen'
  BY <1>1 DEF AccessInv, PlannersAgree, GrantsAll, GuestAccessFrozen
<1> QED
  BY <1>2, <1>3, <1>4 DEF AccessInv

\* Nothing that the session holds is the file.
LEMMA EditDeclarationsKeeps ==
  ASSUME AccessInv, EditDeclarations
  PROVE  AccessInv'
<1>1. /\ file' \in Configs /\ remoteUrl' \in [Remotes -> Urls]
      /\ accessSteps' \in 0 .. AccessSteps
      /\ UNCHANGED <<policy, plans, access, loaded, launchAt, granted, planner>>
  BY AccessAssumption DEF AccessInv, AccessTypes, EditDeclarations
<1>2. AccessTypes'
  BY <1>1 DEF AccessInv, AccessTypes
<1>3. NoSession' /\ PolicyStands' /\ LoadedIsValid'
  BY <1>1 DEF AccessInv, NoSession, PolicyStands, LoadedIsValid
<1>4. PlannersAgree' /\ GrantsAll(granted, plans)' /\ GuestAccessFrozen'
  BY <1>1 DEF AccessInv, PlannersAgree, GrantsAll, GuestAccessFrozen
<1> QED
  BY <1>2, <1>3, <1>4 DEF AccessInv

LEMMA LoadForPlanKeeps ==
  ASSUME AccessInv, NEW p \in Planners, LoadForPlan(p)
  PROVE  AccessInv'
<1> DEFINE reading == [busy |-> TRUE, policy |-> policy, plans |-> plans]
<1>1. /\ launchAt \in {"stopped", "running"}
      /\ planner' = [planner EXCEPT ![p] = reading]
      /\ UNCHANGED <<file, remoteUrl, policy, plans, access, loaded, launchAt,
                     granted, accessSteps>>
  BY DEF LoadForPlan
<1>2. planner \in [Planners -> Planning] /\ policy \in Policies /\ plans \in Seq(PlanRecords)
  BY DEF AccessInv, AccessTypes
<1>3. /\ reading \in Planning /\ reading.policy = policy /\ reading.plans = plans
  BY <1>2 DEF Planning
<1>4. policy = PolicyOf(granted) /\ GrantsAll(granted, plans)
  BY <1>1 DEF AccessInv, PolicyStands
<1> HIDE DEF reading
<1>5. /\ planner' \in [Planners -> Planning] /\ planner'[p] = reading
      /\ \A q \in Planners : q # p => planner'[q] = planner[q]
  BY <1>1, <1>2, <1>3
<1>6. AccessTypes'
  BY <1>1, <1>5 DEF AccessInv, AccessTypes
<1>7. NoSession' /\ PolicyStands' /\ LoadedIsValid'
  BY <1>1 DEF AccessInv, NoSession, PolicyStands, LoadedIsValid
<1>8. GrantsAll(granted, plans)' /\ GuestAccessFrozen'
  BY <1>1 DEF AccessInv, GrantsAll, GuestAccessFrozen
<1>9. ASSUME NEW q \in Planners, planner'[q].busy
      PROVE  /\ planner'[q].policy = PolicyOf(granted)
             /\ GrantsAll(granted, planner'[q].plans)
  <2>1. CASE q = p
    BY <1>3, <1>4, <1>5, <2>1
  <2>2. CASE q # p
    BY <1>5, <1>9, <2>2 DEF AccessInv, PlannersAgree
  <2> QED
    BY <2>1, <2>2
<1>10. PlannersAgree'
  BY <1>1, <1>9 DEF PlannersAgree, GrantsAll
<1> QED
  BY <1>6, <1>7, <1>8, <1>10 DEF AccessInv

\* One more plan that is granted.
LEMMA OneMorePlan ==
  ASSUME NEW c, NEW journal \in Seq(PlanRecords), NEW plan \in PlanRecords,
         GrantsAll(c, journal), plan.allowed => Grants(c, plan)
  PROVE  Append(journal, plan) \in Seq(PlanRecords) /\ GrantsAll(c, Append(journal, plan))
<1> DEFINE longer == Append(journal, plan)
<1>1. /\ longer \in Seq(PlanRecords)
      /\ DOMAIN longer = 1 .. Len(journal) + 1
      /\ longer[Len(journal) + 1] = plan
      /\ \A i \in 1 .. Len(journal) : longer[i] = journal[i]
  OBVIOUS
<1>2. DOMAIN journal = 1 .. Len(journal) /\ Len(journal) \in Nat
  OBVIOUS
<1> HIDE DEF longer
<1>3. ASSUME NEW i \in DOMAIN longer, longer[i].allowed
      PROVE  Grants(c, longer[i])
  <2>1. CASE i = Len(journal) + 1
    BY <1>1, <1>3, <2>1
  <2>2. CASE i # Len(journal) + 1
    <3>1. i \in 1 .. Len(journal)
      BY <1>1, <1>2, <2>2
    <3> QED
      BY <1>1, <1>2, <1>3, <3>1 DEF GrantsAll
  <2> QED
    BY <2>1, <2>2
<1>4. GrantsAll(c, longer)
  BY <1>3 DEF GrantsAll
<1> QED
  BY <1>1, <1>4 DEF longer

LEMMA PlanKeeps ==
  ASSUME AccessInv, NEW p \in Planners, PlanBrokeredAction(p)
  PROVE  AccessInv'
<1>1. /\ planner[p].busy /\ policy' = planner[p].policy
      /\ planner' = [planner EXCEPT ![p] = NotLoaded]
      /\ UNCHANGED <<file, remoteUrl, access, loaded, launchAt, granted, accessSteps>>
  BY DEF PlanBrokeredAction
<1>2. PICK remote \in Remotes, operation \in Operations, ref \in Refs \cup {<<>>} :
        plans' = Append(planner[p].plans,
          [repository |-> RepositoryOf(remoteUrl[remote]), remote |-> remote,
           operation |-> operation, ref |-> ref,
           allowed |-> Allows(planner[p].policy, RepositoryOf(remoteUrl[remote]),
                              remote, operation, ref)])
  BY DEF PlanBrokeredAction
<1>3. /\ planner \in [Planners -> Planning] /\ remoteUrl[remote] \in Urls
      /\ planner[p].plans \in Seq(PlanRecords) /\ planner[p].policy \in Policies
  BY DEF AccessInv, AccessTypes, Planning
<1>4. planner[p].policy = PolicyOf(granted) /\ GrantsAll(granted, planner[p].plans)
  BY <1>1 DEF AccessInv, PlannersAgree
<1>5. /\ launchAt \notin {"new", "create"} /\ granted \in Configs
      /\ ValidateGitAccess(granted) /\ policy = PolicyOf(granted)
  BY <1>1 DEF AccessInv, NoSession, PolicyStands
<1> DEFINE repository == RepositoryOf(remoteUrl[remote])
           allowed == Allows(PolicyOf(granted), repository, remote, operation, ref)
           plan == [repository |-> repository, remote |-> remote,
                    operation |-> operation, ref |-> ref, allowed |-> allowed]
<1>6. allowed \in BOOLEAN
  BY DEF Allows
<1>7. repository \in {RepositoryOf(u) : u \in Urls}
  BY <1>3
<1>8. plans' = Append(planner[p].plans, plan)
  BY <1>2, <1>4
<1>9. /\ plan.operation = operation /\ plan.repository = repository
      /\ plan.remote = remote /\ plan.ref = ref
      /\ plan.allowed = allowed
  OBVIOUS
<1> HIDE DEF repository
<1>10. plan.allowed => Grants(granted, plan)
  <2>1. allowed => Allows(PolicyOf(granted), plan.repository, plan.remote,
                          plan.operation, plan.ref)
    BY <1>9
  <2> HIDE DEF plan, allowed
  <2> QED
    BY <1>5, <1>9, <2>1, AllowedIsGranted
<1> HIDE DEF allowed
<1>11. plan \in PlanRecords
  BY <1>6, <1>7 DEF PlanRecords
<1> HIDE DEF plan
<1>12. plans' \in Seq(PlanRecords) /\ GrantsAll(granted, plans')
  BY <1>3, <1>4, <1>8, <1>10, <1>11, OneMorePlan
<1>13. NotLoaded \in Planning /\ ~NotLoaded.busy
  BY DEF NotLoaded, Planning, Policies
<1>14. /\ planner' \in [Planners -> Planning] /\ ~planner'[p].busy
       /\ \A q \in Planners : q # p => planner'[q] = planner[q]
  BY <1>1, <1>3, <1>13
<1>15. AccessTypes'
  BY <1>1, <1>3, <1>12, <1>14 DEF AccessInv, AccessTypes
<1>16. NoSession' /\ PolicyStands' /\ LoadedIsValid'
  BY <1>1, <1>4, <1>5 DEF AccessInv, NoSession, PolicyStands, LoadedIsValid
<1>17. PlannersAgree'
  BY <1>1, <1>14 DEF AccessInv, PlannersAgree, GrantsAll
<1>18. GuestAccessFrozen'
  BY <1>1 DEF AccessInv, GuestAccessFrozen
<1>19. GrantsAll(granted, plans)'
  BY <1>1, <1>12 DEF GrantsAll
<1> QED
  BY <1>15, <1>16, <1>17, <1>18, <1>19 DEF AccessInv

-----------------------------------------------------------------------------
(***************************************************************************)
(* Access: the theorems                                                    *)
(***************************************************************************)

LEMMA AccessNextKeeps ==
  ASSUME AccessInv, [AccessNext]_accessVars
  PROVE  AccessInv'
<1>1. CASE LoadForLaunch
  BY <1>1, LoadKeeps DEF LoadForLaunch
<1>2. CASE LoadForResume
  BY <1>2, LoadKeeps DEF LoadForResume
<1>3. CASE CreateSession
  BY <1>3, CreateKeeps
<1>4. CASE ValidateResumeConfig
  BY <1>4, ValidateKeeps
<1>5. CASE MountForResume
  BY <1>5, MountKeeps
<1>6. CASE StopsAccess
  BY <1>6, StopKeeps
<1>7. CASE EditDeclarations
  BY <1>7, EditDeclarationsKeeps
<1>8. ASSUME NEW p \in Planners, LoadForPlan(p) PROVE AccessInv'
  BY <1>8, LoadForPlanKeeps
<1>9. ASSUME NEW p \in Planners, PlanBrokeredAction(p) PROVE AccessInv'
  BY <1>9, PlanKeeps
<1>10. CASE UNCHANGED accessVars
  BY <1>10 DEF AccessInv, AccessTypes, NoSession, PolicyStands, LoadedIsValid,
               PlannersAgree, GrantsAll, GuestAccessFrozen, accessVars
<1> QED
  BY <1>1, <1>2, <1>3, <1>4, <1>5, <1>6, <1>7, <1>8, <1>9, <1>10 DEF AccessNext

\* Whatever `.jbox.toml` and the remotes become, and however the planners and
\* the resumes overlap, every allowed plan was granted at the launch, within what
\* its profile declares (plan_brokered_action), and the guest has what the launch
\* gave it (validate_resume_config).
THEOREM AccessStaysGranted == AccessSpec => []AccessIsGranted
<1>1. AccessInv => AccessIsGranted
  BY DEF AccessInv, GrantsAll, Grants, AccessIsGranted, PlansAreAuthorized
<1> QED
  BY <1>1, AccessBegins, AccessNextKeeps, PTL DEF AccessSpec

\* What the record, the planners and the guest hold has its types: no policy is
\* kept that no configuration declares.
THEOREM AccessTypesCorrect == AccessSpec => []AccessTypeOK
<1>1. AccessInv => AccessTypeOK
  <2> SUFFICES ASSUME AccessInv PROVE AccessTypeOK
    OBVIOUS
  <2>1. \A i \in DOMAIN plans : plans[i].allowed \in BOOLEAN
    <3>1. \A i \in DOMAIN plans : plans[i] \in PlanRecords
      BY DEF AccessInv, AccessTypes
    <3> QED
      BY <3>1 DEF PlanRecords
  <2> QED
    BY <2>1 DEF AccessInv, AccessTypes, AccessTypeOK, Policies, LaunchSteps
<1> QED
  BY <1>1, AccessBegins, AccessNextKeeps, PTL DEF AccessSpec

-----------------------------------------------------------------------------
(***************************************************************************)
(* BeadsTasks: tasks on their way into a guest and into its commits        *)
(***************************************************************************)

\* While a guest is bootstrapped, what it is to be given is what the file has;
\* from then on it has that, except what its agents delete.
TasksInv ==
  /\ TasksTypeOK
  /\ guestAt \in {"prepare", "verify"} =>
       given = Of(jsonl) \cap Issues /\ dropped = {}
  /\ Hydrated

LEMMA StoresHold ==
  ASSUME NEW store \in Stores
  PROVE  Of(store) \subseteq TaskRecords /\ (store = None \/ store = Holding(Of(store)))
<1>1. CASE store = None
  BY <1>1 DEF Of, Exists
<1>2. CASE \E S \in SUBSET TaskRecords : store = Holding(S)
  <2>1. PICK S \in SUBSET TaskRecords : store = Holding(S)
    BY <1>2
  <2>2. store # None /\ store.records = S
    BY <2>1 DEF Holding, None
  <2> QED
    BY <2>1, <2>2 DEF Of, Exists
<1> QED
  BY <1>1, <1>2 DEF Stores

LEMMA HoldingIs ==
  ASSUME NEW S \in SUBSET TaskRecords
  PROVE  Holding(S) \in Stores /\ Of(Holding(S)) = S
BY DEF Stores, Holding, Of, Exists, None

LEMMA TasksBegin == TasksInit => TasksInv
<1> SUFFICES ASSUME TasksInit PROVE TasksInv
  OBVIOUS
<1>1. TasksTypeOK
  BY TasksAssumption DEF TasksInit, TasksTypeOK, Stores, GuestStages
<1>2. Hydrated
  BY DEF TasksInit, Hydrated, InGuest
<1> QED
  BY <1>1, <1>2 DEF TasksInv, TasksInit

LEMMA TasksStep ==
  ASSUME TasksInv, [TasksNext]_taskVars
  PROVE  TasksInv'
<1> USE DEF TasksInv
<1>0. /\ Of(jsonl) \subseteq TaskRecords /\ Of(db) \subseteq TaskRecords
      /\ Of(export) \subseteq TaskRecords /\ Of(inCommit) \subseteq TaskRecords
  BY StoresHold DEF TasksTypeOK
<1>1. CASE SnapshotBeads
  <2>1. TasksTypeOK'
    BY <1>1 DEF SnapshotBeads, TasksTypeOK, GuestStages
  <2>2. guestAt' \in {"down", "refused"}
    BY <1>1 DEF SnapshotBeads
  <2> QED
    BY <2>1, <2>2 DEF Hydrated, InGuest
<1>2. CASE EnterGuest
  <2>1. TasksTypeOK'
    BY <1>0, <1>2 DEF EnterGuest, TasksTypeOK, GuestStages
  <2>2. /\ given' = Of(jsonl') \cap Issues /\ dropped' = {}
        /\ guestAt' \in {"ready", "failed", "prepare"}
        /\ guestAt' = "ready" => ~Exists(jsonl)
    BY <1>2 DEF EnterGuest
  <2>3. guestAt' = "ready" => given' = {}
    BY <1>2, <2>2 DEF EnterGuest, Of
  <2> QED
    BY <2>1, <2>2, <2>3 DEF Hydrated, InGuest
<1>3. CASE Hydrate
  <2>1. PICK S \in SUBSET Of(jsonl) : db' = Holding(Of(db) \cup S)
    BY <1>3 DEF Hydrate
  <2>2. db' \in Stores
    BY <1>0, <2>1, HoldingIs
  <2>3. TasksTypeOK'
    BY <1>3, <2>2 DEF Hydrate, TasksTypeOK, GuestStages
  <2> QED
    BY <1>3, <2>3 DEF Hydrate, Hydrated, InGuest
<1>4. CASE VerifyImport
  <2>1. TasksTypeOK'
    BY <1>4 DEF VerifyImport, TasksTypeOK, GuestStages
  <2>2. guestAt' = "ready" => given' \subseteq Of(db')
    BY <1>4 DEF VerifyImport
  <2> QED
    BY <1>4, <2>1, <2>2 DEF VerifyImport, Hydrated, InGuest
<1>5. CASE BootstrapFails
  <2>1. PICK S \in SUBSET Of(jsonl) : db' \in {db, Holding(Of(db) \cup S)}
    BY <1>5 DEF BootstrapFails
  <2>2. db' \in Stores
    BY <1>0, <2>1, HoldingIs DEF TasksTypeOK
  <2>3. TasksTypeOK'
    BY <1>5, <2>2 DEF BootstrapFails, TasksTypeOK, GuestStages
  <2> QED
    BY <1>5, <2>3 DEF BootstrapFails, Hydrated, InGuest
<1>6. CASE AgentChangesTasks
  <2>1. /\ InGuest /\ Exists(db) /\ taskSteps' \in 0 .. TaskSteps
        /\ UNCHANGED <<export, jsonl, inCommit, guestAt, backup, given>>
    BY <1>6, TasksAssumption DEF AgentChangesTasks, TaskStep, TasksTypeOK
  <2>2. /\ db' \in Stores /\ dropped' \subseteq Issues
        /\ given \ dropped' \subseteq Of(db')
    <3>1. CASE \E r \in TaskRecords \ Of(db) :
                 db' = Holding(Of(db) \cup {r}) /\ UNCHANGED dropped
      BY <1>0, <2>1, <3>1, HoldingIs DEF Hydrated, TasksTypeOK
    <3>2. CASE \E r \in Of(db) :
                 /\ db' = Holding(Of(db) \ {r})
                 /\ dropped' = dropped \cup ({r} \cap Issues)
      <4>1. PICK r \in Of(db) : /\ db' = Holding(Of(db) \ {r})
                                /\ dropped' = dropped \cup ({r} \cap Issues)
        BY <3>2
      <4>2. db' \in Stores /\ Of(db') = Of(db) \ {r}
        BY <1>0, <4>1, HoldingIs
      <4> QED
        BY <2>1, <4>1, <4>2 DEF Hydrated, TasksTypeOK
    <3> QED
      BY <1>6, <3>1, <3>2 DEF AgentChangesTasks
  <2>3. TasksTypeOK'
    BY <2>1, <2>2 DEF TasksTypeOK
  <2> QED
    BY <2>1, <2>2, <2>3 DEF Hydrated, InGuest
<1>7. CASE BeginCommit
  <2>1. TasksTypeOK'
    BY <1>0, <1>7 DEF BeginCommit, TasksTypeOK, GuestStages
  <2> QED
    BY <1>7, <2>1 DEF BeginCommit, Hydrated, InGuest
<1>8. CASE ExportTasks
  <2>1. /\ guestAt = "exporting" /\ guestAt' \in {"checking", "ready"}
        /\ UNCHANGED <<export, inCommit, db, backup, given, dropped, taskSteps>>
    BY <1>8 DEF ExportTasks
  <2>2. jsonl' \in Stores
    <3>1. CASE \E S \in SUBSET Of(db) : jsonl' = Holding(S)
      BY <1>0, <3>1, HoldingIs
    <3>2. CASE jsonl' = Holding(backup)
      BY <3>2, HoldingIs DEF TasksTypeOK
    <3> QED
      BY <1>8, <3>1, <3>2 DEF ExportTasks
  <2>3. TasksTypeOK'
    BY <2>1, <2>2 DEF TasksTypeOK, GuestStages
  <2> QED
    BY <2>1, <2>3 DEF Hydrated, InGuest
<1>9. CASE CheckExport
  <2>1. /\ guestAt = "checking" /\ guestAt' = "ready"
        /\ UNCHANGED <<export, db, backup, given, dropped, taskSteps>>
        /\ jsonl' \in {jsonl, Holding(backup)} /\ inCommit' \in {inCommit, jsonl}
    BY <1>9 DEF CheckExport
  <2>2. jsonl' \in Stores /\ inCommit' \in Stores
    BY <2>1, HoldingIs DEF TasksTypeOK
  <2>3. TasksTypeOK'
    BY <2>1, <2>2 DEF TasksTypeOK, GuestStages
  <2> QED
    BY <2>1, <2>3 DEF Hydrated, InGuest
<1>10. CASE EndGuest
  <2>1. /\ guestAt' = "down" /\ taskSteps' \in 0 .. TaskSteps
        /\ UNCHANGED <<export, db, backup, given, dropped>>
        /\ jsonl' \in {jsonl, inCommit} /\ inCommit' \in {inCommit, jsonl}
    BY <1>10, TasksAssumption DEF EndGuest, TaskStep, TasksTypeOK
  <2>2. TasksTypeOK'
    BY <2>1 DEF TasksTypeOK, GuestStages
  <2> QED
    BY <2>1, <2>2 DEF Hydrated, InGuest
<1>11. CASE UNCHANGED taskVars
  BY <1>11 DEF taskVars, TasksTypeOK, Hydrated, InGuest
<1> QED
  BY <1>1, <1>2, <1>3, <1>4, <1>5, <1>6, <1>7, <1>8, <1>9, <1>10, <1>11 DEF TasksNext

\* What the hook commits passed its comparison, and nothing else ends it in a
\* commit.
LEMMA CommitsWereCompared ==
  ASSUME TasksInv, [TasksNext]_taskVars
  PROVE  CommitKeepsTasks
<1> SUFFICES ASSUME guestAt = "checking", guestAt' = "ready", inCommit' # inCommit
             PROVE  /\ backup \cap Issues \subseteq Of(inCommit')
                    /\ Cardinality(backup \cap Memories)
                         <= Cardinality(Of(inCommit') \cap Memories)
  BY DEF CommitKeepsTasks
<1>1. CheckExport
  BY DEF TasksNext, taskVars, SnapshotBeads, EnterGuest, Hydrate, VerifyImport,
         BootstrapFails, AgentChangesTasks, BeginCommit, ExportTasks, EndGuest
<1>2. inCommit' = jsonl /\ SafeExport(backup, Of(jsonl))
  BY <1>1 DEF CheckExport
<1>3. IsFiniteSet(Of(jsonl) \cap Memories) /\ IsFiniteSet(backup \cap Memories)
  BY TasksAssumption, FS_Intersection
<1>4. /\ Cardinality(Of(jsonl) \cap Memories) \in Nat
      /\ Cardinality(backup \cap Memories) \in Nat
  BY <1>3, FS_CardinalityType
<1> QED
  BY <1>2, <1>4 DEF SafeExport

\* A bootstrap that was cut off at any time, and repeated, leaves no issue of the
\* file out of the guest that answers (verify_import); a commit has every issue
\* and as many memories as the file had when the hook began (the pre-commit
\* hook), whatever agents do beside it: for any number of records and steps.
THEOREM TasksAreKept == TasksSpec => TasksKept
<1>1. TasksInv /\ [TasksNext]_taskVars => [Hydrated' /\ CommitKeepsTasks]_taskVars
  BY TasksStep, CommitsWereCompared DEF TasksInv
<1> QED
  BY <1>1, TasksBegin, TasksStep, PTL DEF TasksSpec, TasksKept

\* The files, the database and the hook's copy hold records of tasks.
THEOREM TaskTypesCorrect == TasksSpec => []TasksTypeOK
<1>1. TasksInv => TasksTypeOK
  BY DEF TasksInv
<1> QED
  BY <1>1, TasksBegin, TasksStep, PTL DEF TasksSpec

-----------------------------------------------------------------------------
(***************************************************************************)
(* GuestMounts: paths                                                      *)
(***************************************************************************)
Word == STRING \cup {"home", "jbox", ".git", ".local", "share", "jcode", ".ssh",
                   "authorized_keys", ".jcode", "config.toml", "AGENTS.md",
                   ".agents", "id_ed25519", ".config", "gh", "hosts.yml"}

Names == Seq(Word)

\* The assumptions on the constants, of paths that may have the code's names too.
LEMMA PathsAreNamed ==
  /\ HostTree \subseteq Names /\ HostStart \subseteq HostTree
  /\ DOMAIN Links \subseteq Names
  /\ \A link \in DOMAIN Links : Links[link] \in HostStart
  /\ \A one, other \in DOMAIN Links : IsPrefix(one, other) => one = other
  /\ Protected \subseteq Names
  /\ \A c \in MountConfigs :
       /\ \A m \in c.mounts : "source" \in DOMAIN m /\ m.source \in Names
       /\ \A i \in DOMAIN c.repos : c.repos[i].source \in Names
<1>1. \A path \in Seq(STRING) : path \in Names
  BY SeqMonotonic DEF Names, Word
<1>2. \A c \in MountConfigs : \A m \in c.mounts :
        "source" \in DOMAIN m /\ m.source \in Seq(STRING)
  BY MountsAssumption
<1> QED
  BY <1>1, <1>2, MountsAssumption


LEMMA PrefixIs ==
  ASSUME NEW s \in Names, NEW t \in Names
  PROVE  IsPrefix(s, t) <=> Len(s) <= Len(t) /\ \A i \in 1 .. Len(s) : s[i] = t[i]
<1> USE DEF Names
<1>1. ASSUME IsPrefix(s, t)
      PROVE  Len(s) <= Len(t) /\ \A i \in 1 .. Len(s) : s[i] = t[i]
  <2>1. Len(s) <= Len(t) /\ SubSeq(s, 1, Len(s)) = SubSeq(t, 1, Len(s))
    BY <1>1 DEF IsPrefix
  <2>2. ASSUME NEW i \in 1 .. Len(s) PROVE s[i] = t[i]
    <3>1. SubSeq(s, 1, Len(s))[i] = s[i] /\ SubSeq(t, 1, Len(s))[i] = t[i]
      BY <2>1
    <3> QED
      BY <2>1, <3>1
  <2> QED
    BY <2>1, <2>2
<1>2. ASSUME Len(s) <= Len(t), \A i \in 1 .. Len(s) : s[i] = t[i]
      PROVE  IsPrefix(s, t)
  <2>1. SubSeq(s, 1, Len(s)) = [i \in 1 .. Len(s) |-> s[i]]
    BY SubSeqProperties
  <2>2. SubSeq(t, 1, Len(s)) = [i \in 1 .. Len(s) |-> t[i]]
    BY <1>2
  <2> QED
    BY <1>2, <2>1, <2>2 DEF IsPrefix
<1> QED
  BY <1>1, <1>2

LEMMA PrefixesCompare ==
  ASSUME NEW a \in Names, NEW b \in Names, NEW c \in Names,
         IsPrefix(a, c), IsPrefix(b, c)
  PROVE  IsPrefix(a, b) \/ IsPrefix(b, a)
<1>1. /\ Len(a) \in Nat /\ Len(b) \in Nat
      /\ \A i \in 1 .. Len(a) : a[i] = c[i]
      /\ \A i \in 1 .. Len(b) : b[i] = c[i]
  BY PrefixIs DEF Names
<1>2. CASE Len(a) <= Len(b)
  <2>1. \A i \in 1 .. Len(a) : a[i] = b[i]
    BY <1>1, <1>2
  <2> QED
    BY <1>2, <2>1, PrefixIs
<1>3. CASE Len(b) <= Len(a)
  <2>1. \A i \in 1 .. Len(b) : b[i] = a[i]
    BY <1>1, <1>3
  <2> QED
    BY <1>3, <2>1, PrefixIs
<1> QED
  BY <1>1, <1>2, <1>3

LEMMA PrefixesChain ==
  ASSUME NEW a \in Names, NEW b \in Names, NEW c \in Names,
         IsPrefix(a, b), IsPrefix(b, c)
  PROVE  IsPrefix(a, c)
<1>1. /\ Len(a) \in Nat /\ Len(b) \in Nat /\ Len(c) \in Nat
      /\ Len(a) <= Len(b) /\ Len(b) <= Len(c)
      /\ \A i \in 1 .. Len(a) : a[i] = b[i]
      /\ \A i \in 1 .. Len(b) : b[i] = c[i]
  BY PrefixIs DEF Names
<1>2. \A i \in 1 .. Len(a) : a[i] = c[i]
  BY <1>1
<1> QED
  BY <1>1, <1>2, PrefixIs

\* Parts of a path.
LEMMA PartOfPath ==
  ASSUME NEW path \in Names, NEW n \in 0 .. Len(path)
  PROVE  /\ SubSeq(path, 1, n) \in Names /\ Len(SubSeq(path, 1, n)) = n
         /\ \A i \in 1 .. n : SubSeq(path, 1, n)[i] = path[i]
         /\ SubSeq(path, n + 1, Len(path)) \in Names
         /\ Len(SubSeq(path, n + 1, Len(path))) = Len(path) - n
         /\ \A i \in 1 .. Len(path) - n : SubSeq(path, n + 1, Len(path))[i] = path[n + i]
         /\ IsPrefix(SubSeq(path, 1, n), path)
<1>1. /\ SubSeq(path, 1, n) \in Names /\ Len(SubSeq(path, 1, n)) = n
      /\ \A i \in 1 .. n : SubSeq(path, 1, n)[i] = path[i]
  BY DEF Names
<1>2. /\ SubSeq(path, n + 1, Len(path)) \in Names
      /\ Len(SubSeq(path, n + 1, Len(path))) = Len(path) - n
      /\ \A i \in 1 .. Len(path) - n : SubSeq(path, n + 1, Len(path))[i] = path[n + i]
  BY DEF Names
<1>3. IsPrefix(SubSeq(path, 1, n), path)
  <2> DEFINE piece == SubSeq(path, 1, n)
  <2>1. piece \in Names /\ Len(piece) = n /\ \A i \in 1 .. n : piece[i] = path[i]
    BY <1>1
  <2>2. n <= Len(path)
    BY DEF Names
  <2> HIDE DEF piece
  <2>3. IsPrefix(piece, path)
    BY <2>1, <2>2, PrefixIs
  <2> QED
    BY <2>3 DEF piece
<1> QED
  BY <1>1, <1>2, <1>3

\* Two parts that meet make a longer part.
LEMMA PartsJoin ==
  ASSUME NEW path \in Names, NEW m \in 1 .. Len(path) + 1, NEW n \in m - 1 .. Len(path)
  PROVE  SubSeq(path, m, n) \o SubSeq(path, n + 1, Len(path)) = SubSeq(path, m, Len(path))
<1>1. Len(path) \in n .. Len(path)
  BY DEF Names
<1> QED
  BY <1>1, ConcatAdjacentSubSeq DEF Names

LEMMA NamesJoin ==
  ASSUME NEW s \in Names, NEW t \in Names, NEW u \in Names
  PROVE  (s \o t) \o u = s \o (t \o u)
BY ConcatAssociative DEF Names

LEMMA SameNames ==
  ASSUME NEW s \in Names, NEW t \in Names, Len(s) = Len(t),
         \A i \in 1 .. Len(s) : s[i] = t[i]
  PROVE  s = t
BY SeqEqual DEF Names

\* The links of a path: one at most.
LEMMA OneLink ==
  ASSUME NEW path \in Names, NEW link \in DOMAIN Links, IsPrefix(link, path)
  PROVE  /\ Real(path) = Links[link] \o SubSeq(path, Len(link) + 1, Len(path))
         /\ link \in Names /\ Links[link] \in Names /\ Len(link) \in 0 .. Len(path)
<1>1. /\ DOMAIN Links \subseteq Names /\ Links[link] \in Names
      /\ \A one, other \in DOMAIN Links : IsPrefix(one, other) => one = other
  BY PathsAreNamed DEF Names
<1>2. \A other \in DOMAIN Links : IsPrefix(other, path) => other = link
  BY <1>1, PrefixesCompare
<1>3. (CHOOSE l \in DOMAIN Links : IsPrefix(l, path)) = link
  BY <1>2
<1>4. Real(path) = Links[link] \o SubSeq(path, Len(link) + 1, Len(path))
  BY <1>3 DEF Real
<1>5. Len(link) \in 0 .. Len(path)
  BY <1>1, PrefixIs DEF Names
<1> QED
  BY <1>1, <1>4, <1>5

LEMMA NoLink ==
  ASSUME NEW path, \A link \in DOMAIN Links : ~IsPrefix(link, path)
  PROVE  Real(path) = path
BY DEF Real

LEMMA RealIsNames ==
  ASSUME NEW path \in Names
  PROVE  Real(path) \in Names
<1>1. CASE \E link \in DOMAIN Links : IsPrefix(link, path)
  <2>1. PICK link \in DOMAIN Links : IsPrefix(link, path)
    BY <1>1
  <2>2. /\ Real(path) = Links[link] \o SubSeq(path, Len(link) + 1, Len(path))
        /\ Links[link] \in Names /\ Len(link) \in 0 .. Len(path)
    BY <2>1, OneLink
  <2>3. SubSeq(path, Len(link) + 1, Len(path)) \in Names
    BY <2>2, PartOfPath
  <2> QED
    BY <2>2, <2>3 DEF Names
<1>2. CASE ~\E link \in DOMAIN Links : IsPrefix(link, path)
  BY <1>2, NoLink
<1> QED
  BY <1>1, <1>2

\* A number up to a bound has a greatest one of its kind.
LEMMA GreatestNumber ==
  ASSUME NEW n \in Nat, NEW S \in SUBSET (0 .. n), NEW k \in S
  PROVE  Max(S) \in S /\ \A j \in S : Max(S) >= j
<1> DEFINE T == {n - j : j \in S}
<1>1. T \in SUBSET Nat /\ n - k \in T
  OBVIOUS
<1>2. PICK t \in T : \A u \in T : t <= u
  <2> HIDE DEF T
  <2> QED
    BY <1>1, LeastNumber
<1>3. PICK m \in S : t = n - m
  OBVIOUS
<1>4. \A j \in S : m >= j
  <2> TAKE j \in S
  <2>1. n - j \in T
    OBVIOUS
  <2>2. n - m <= n - j
    BY <1>2, <1>3, <2>1
  <2> HIDE DEF T
  <2> QED
    BY <2>2
<1> QED
  BY <1>3, <1>4 DEF Max

\* With its links leading somewhere, a path that does not exist yet is resolved
\* to the path that it will have: the nearest ancestor that exists is not above
\* the link.
LEMMA ResolvedIsReal ==
  ASSUME HostStart \subseteq hostPaths, NEW path \in Names
  PROVE  CanonicalizeExistingAncestor(path) = Real(path)
<1> DEFINE There == {i \in 0 .. Len(path) : OnHost(SubSeq(path, 1, i))}
           n == Max(There)
<1>1. Len(path) \in Nat
  BY DEF Names
<1>2. 0 \in There
  <2>1. SubSeq(path, 1, 0) = <<>>
    BY SubSeqEmpty DEF Names
  <2> QED
    BY <1>1, <2>1 DEF OnHost
<1>3. There \in SUBSET (0 .. Len(path))
  OBVIOUS
<1>4. CanonicalizeExistingAncestor(path)
        = Real(SubSeq(path, 1, n)) \o SubSeq(path, n + 1, Len(path))
  BY DEF CanonicalizeExistingAncestor
<1>5. n \in There /\ \A i \in There : n >= i
  <2> HIDE DEF There
  <2> QED
    BY <1>1, <1>2, <1>3, GreatestNumber
<1> HIDE DEF n
<1>6. n \in 0 .. Len(path)
  BY <1>5
<1> DEFINE upper == SubSeq(path, 1, n)
           lower == SubSeq(path, n + 1, Len(path))
<1>7. /\ upper \in Names /\ Len(upper) = n /\ \A i \in 1 .. n : upper[i] = path[i]
      /\ lower \in Names /\ Len(lower) = Len(path) - n
      /\ \A i \in 1 .. Len(path) - n : lower[i] = path[n + i]
      /\ IsPrefix(upper, path)
  BY <1>6, PartOfPath
<1> HIDE DEF upper, lower
<1>8. CASE ~\E link \in DOMAIN Links : IsPrefix(link, path)
  <2>1. ~\E link \in DOMAIN Links : IsPrefix(link, upper)
    BY <1>7, <1>8, PrefixesChain, PathsAreNamed DEF Names
  <2>2. Real(path) = path /\ Real(upper) = upper
    BY <1>8, <2>1, NoLink
  <2>3. upper \o lower = path
    <3>1. 1 \in 1 .. Len(path) + 1 /\ n \in 1 - 1 .. Len(path)
      BY <1>1, <1>6
    <3>2. upper \o lower = SubSeq(path, 1, Len(path))
      BY <3>1, PartsJoin DEF upper, lower
    <3>3. SubSeq(path, 1, Len(path)) = path
      BY SubSeqFull DEF Names
    <3> QED
      BY <3>2, <3>3
  <2> QED
    BY <1>4, <2>2, <2>3 DEF upper, lower
<1>9. CASE \E link \in DOMAIN Links : IsPrefix(link, path)
  <2>1. PICK link \in DOMAIN Links : IsPrefix(link, path)
    BY <1>9
  <2>2. /\ Real(path) = Links[link] \o SubSeq(path, Len(link) + 1, Len(path))
        /\ link \in Names /\ Links[link] \in Names /\ Len(link) \in 0 .. Len(path)
    BY <2>1, OneLink
  <2>3. SubSeq(path, 1, Len(link)) = link
    <3>1. \A i \in 1 .. Len(link) : link[i] = path[i]
      BY <2>1, <2>2, PrefixIs
    <3> QED
      BY <2>2, <3>1 DEF Names
  <2>4. Real(link) = Links[link]
    <3>1. IsPrefix(link, link)
      BY <2>2, PrefixIs DEF Names
    <3>2. Real(link) = Links[link] \o SubSeq(link, Len(link) + 1, Len(link))
      BY <2>2, <3>1, OneLink
    <3>3. SubSeq(link, Len(link) + 1, Len(link)) = <<>>
      BY <2>2, SubSeqEmpty DEF Names
    <3> QED
      BY <2>2, <3>2, <3>3 DEF Names
  <2>5. Len(link) \in There
    BY <2>2, <2>3, <2>4, PathsAreNamed DEF OnHost
  <2>6. n >= Len(link)
    BY <1>5, <2>5
  <2>7. IsPrefix(link, upper)
    <3>1. \A i \in 1 .. Len(link) : link[i] = path[i]
      BY <2>1, <2>2, PrefixIs
    <3>2. \A i \in 1 .. Len(link) : link[i] = upper[i]
      BY <1>6, <1>7, <2>2, <2>6, <3>1
    <3> QED
      BY <1>6, <1>7, <2>2, <2>6, <3>2, PrefixIs
  <2>8. Real(upper) = Links[link] \o SubSeq(upper, Len(link) + 1, Len(upper))
    BY <1>7, <2>7, OneLink
  <2> DEFINE middle == SubSeq(upper, Len(link) + 1, Len(upper))
             rest == SubSeq(path, Len(link) + 1, Len(path))
  <2>9. /\ middle \in Names /\ Len(middle) = n - Len(link)
        /\ \A i \in 1 .. n - Len(link) : middle[i] = upper[Len(link) + i]
    BY <1>6, <1>7, <2>2, <2>6, PartOfPath
  <2>10. middle = SubSeq(path, Len(link) + 1, n)
    <3> DEFINE between == SubSeq(path, Len(link) + 1, n)
    <3>1. /\ between \in Names /\ Len(between) = n - Len(link)
          /\ \A i \in 1 .. n - Len(link) : between[i] = path[Len(link) + i]
      <4>1. \A i \in Len(link) + 1 .. n : path[i] \in Word
        BY <1>1, <1>6, <2>2 DEF Names
      <4>2. /\ between \in Seq(Word)
            /\ Len(between) = IF Len(link) + 1 <= n THEN n - (Len(link) + 1) + 1 ELSE 0
            /\ \A i \in 1 .. n - (Len(link) + 1) + 1 : between[i] = path[(Len(link) + 1) + i - 1]
        BY <1>6, <2>2, <4>1, SubSeqProperties
      <4> HIDE DEF between
      <4>3. \A i \in 1 .. n - Len(link) : (Len(link) + 1) + i - 1 = Len(link) + i
        BY <1>6, <2>2
      <4>4. n - (Len(link) + 1) + 1 = n - Len(link)
        BY <1>6, <2>2
      <4> QED
        BY <1>6, <2>2, <2>6, <4>2, <4>3, <4>4 DEF Names
    <3> HIDE DEF between, middle
    <3>2. ASSUME NEW i \in 1 .. n - Len(link) PROVE middle[i] = between[i]
      <4>1. Len(link) + i \in 1 .. n
        BY <1>6, <2>2 DEF Names
      <4>2. upper[Len(link) + i] = path[Len(link) + i]
        BY <1>7, <4>1
      <4> QED
        BY <2>9, <3>1, <4>2
    <3>3. middle = between
      BY <2>9, <3>1, <3>2, SameNames
    <3> QED
      BY <3>3 DEF between
  <2>11. middle \o lower = rest
    <3>1. Len(link) + 1 \in 1 .. Len(path) + 1 /\ n \in (Len(link) + 1) - 1 .. Len(path)
      BY <1>1, <1>6, <2>2, <2>6
    <3> QED
      BY <2>10, <3>1, PartsJoin DEF lower, rest
  <2> HIDE DEF middle, rest
  <2>12. (Links[link] \o middle) \o lower = Links[link] \o (middle \o lower)
    BY <1>7, <2>2, <2>9, NamesJoin
  <2> QED
    BY <1>4, <2>2, <2>8, <2>11, <2>12 DEF upper, lower, middle, rest
<1> QED
  BY <1>8, <1>9

-----------------------------------------------------------------------------
(***************************************************************************)
(* GuestMounts: what was checked, and what the guest has                   *)
(***************************************************************************)

\* What validate_extra_mount checks, of real paths: nothing of the host's state.
SafeSource(source, writable, repos) ==
  /\ \A i \in DOMAIN repos :
       LET repo == Real(repos[i].source)
       IN  /\ ~IsPrefix(source, repo)
           /\ IsPrefix(repo, source) =>
                /\ ~writable
                /\ ".git" \notin ToSet(SubSeq(source, Len(repo) + 1, Len(source)))
  /\ \A p \in Protected : ~IsPrefix(Real(p), source) /\ ~IsPrefix(source, Real(p))

ReposAreNamed(repos) == \A i \in DOMAIN repos : repos[i].source \in Names

\* A launch or resume that has loaded the configuration, and one that has checked it.
LoadedStart(s) ==
  /\ DOMAIN s = {"at", "extra", "repos", "features"}
  /\ s.at # "idle" => /\ ReposAreNamed(s.repos)
                      /\ \A m \in s.extra : m.source \in Names

SafeStart(s) ==
  s.at \in {"checked", "prepared"} =>
    /\ \A i \in DOMAIN s.repos : ValidGuestPath(s.repos[i].mount)
    /\ \A m \in s.extra :
         ValidGuestPath(m.target) /\ SafeSource(m.source, m.writable, s.repos)

\* Each mount of the guest was checked, with the repositories that the session has.
GuestIsSafe ==
  \A m \in guestMounts :
    /\ ~IsPrefix(m.target, GuestHome)
    /\ m.extra => m.source \in Names /\ SafeSource(m.source, m.writable, retained)

MountsInv ==
  /\ HostStart \subseteq hostPaths /\ hostPaths \subseteq HostTree
  /\ mountConfig \in MountConfigs
  /\ LoadedStart(starting)
  /\ SafeStart(starting)
  /\ ReposAreNamed(retained)
  /\ GuestIsSafe

\* A source that was checked shows nothing of what is protected, nor of a
\* checkout's root or Git metadata, whatever appears below it.
LEMMA SafeSourceHides ==
  ASSUME NEW source \in Names, NEW writable, NEW repos, ReposAreNamed(repos),
         SafeSource(source, writable, repos),
         NEW path \in Names, IsPrefix(source, path)
  PROVE  /\ \A p \in Protected : ~IsPrefix(Real(p), path)
         /\ \A i \in DOMAIN repos :
              LET repo == Real(repos[i].source)
              IN  IsPrefix(repo, path) =>
                    ~writable /\ path # repo /\ ~IsPrefix(repo \o <<".git">>, path)
<1>1. ASSUME NEW p \in Protected, IsPrefix(Real(p), path)
      PROVE  FALSE
  <2>1. Real(p) \in Names
    BY RealIsNames, PathsAreNamed DEF Names
  <2>2. ~IsPrefix(Real(p), source) /\ ~IsPrefix(source, Real(p))
    BY DEF SafeSource
  <2> QED
    BY <1>1, <2>1, <2>2, PrefixesCompare
<1>2. ASSUME NEW i \in DOMAIN repos, IsPrefix(Real(repos[i].source), path)
      PROVE  /\ ~writable /\ path # Real(repos[i].source)
             /\ ~IsPrefix(Real(repos[i].source) \o <<".git">>, path)
  <2> DEFINE repo == Real(repos[i].source)
  <2>1. repo \in Names
    BY RealIsNames DEF ReposAreNamed
  <2>2. /\ ~IsPrefix(source, repo)
        /\ IsPrefix(repo, source) =>
             /\ ~writable
             /\ ".git" \notin ToSet(SubSeq(source, Len(repo) + 1, Len(source)))
    BY DEF SafeSource
  <2>3. IsPrefix(repo, path)
    BY <1>2
  <2> HIDE DEF repo
  <2>4. IsPrefix(repo, source)
    BY <2>1, <2>2, <2>3, PrefixesCompare
  <2>5. path # repo
    BY <2>2
  <2>6. ASSUME IsPrefix(repo \o <<".git">>, path)
        PROVE  FALSE
    <3> DEFINE git == repo \o <<".git">>
               below == SubSeq(source, Len(repo) + 1, Len(source))
    <3>1. git \in Names /\ Len(git) = Len(repo) + 1 /\ git[Len(repo) + 1] = ".git"
      BY <2>1 DEF Names, Word
    <3>2. IsPrefix(git, path)
      BY <2>6
    <3> HIDE DEF git
    <3>3. path[Len(repo) + 1] = ".git"
      <4>1. Len(repo) + 1 \in 1 .. Len(git)
        BY <2>1, <3>1 DEF Names
      <4> QED
        BY <3>1, <3>2, <4>1, PrefixIs
    <3>4. Len(repo) < Len(source)
      <4>1. /\ Len(repo) <= Len(source) /\ \A j \in 1 .. Len(repo) : repo[j] = source[j]
            /\ Len(repo) \in Nat /\ Len(source) \in Nat
        BY <2>1, <2>4, PrefixIs DEF Names
      <4>2. Len(repo) # Len(source)
        <5>1. SUFFICES ASSUME Len(repo) = Len(source) PROVE IsPrefix(source, repo)
          BY <2>2
        <5>2. \A j \in 1 .. Len(source) : source[j] = repo[j]
          BY <4>1, <5>1
        <5> QED
          BY <2>1, <4>1, <5>1, <5>2, PrefixIs
      <4> QED
        BY <4>1, <4>2
    <3>5. source[Len(repo) + 1] = ".git"
      <4>1. Len(repo) + 1 \in 1 .. Len(source)
        BY <2>1, <3>4 DEF Names
      <4>2. \A j \in 1 .. Len(source) : source[j] = path[j]
        BY PrefixIs
      <4> QED
        BY <3>3, <4>1, <4>2
    <3>6. /\ below \in Names /\ Len(below) = Len(source) - Len(repo)
          /\ \A j \in 1 .. Len(source) - Len(repo) : below[j] = source[Len(repo) + j]
      <4>1. Len(repo) \in 0 .. Len(source)
        BY <2>1, <3>4 DEF Names
      <4> QED
        BY <4>1, PartOfPath
    <3> HIDE DEF below
    <3>7. 1 \in 1 .. Len(source) - Len(repo)
      BY <2>1, <3>4 DEF Names
    <3>8. 1 \in DOMAIN below /\ below[1] = ".git"
      BY <3>5, <3>6, <3>7 DEF Names
    <3>9. ".git" \in ToSet(below)
      BY <3>8 DEF ToSet
    <3> QED
      BY <2>2, <2>4, <3>9 DEF below
  <2> QED
    BY <2>2, <2>4, <2>5, <2>6 DEF repo
<1> QED
  BY <1>1, <1>2

\* What is in the guest's home is not above it.
LEMMA BelowTheHome ==
  ASSUME NEW names \in Names, names # <<>>
  PROVE  ~IsPrefix(InGuestHome(names), GuestHome)
<1>1. GuestHome \in Names /\ Len(GuestHome) = 2
  BY DEF GuestHome, Names, Word
<1>2. InGuestHome(names) \in Names /\ Len(InGuestHome(names)) > 2
  <2> DEFINE above == GuestHome
  <2>1. above \in Names /\ Len(above) = 2
    BY <1>1
  <2> HIDE DEF above
  <2>2. above \o names \in Names /\ Len(above \o names) = Len(above) + Len(names)
    BY <2>1, ConcatProperties DEF Names
  <2>3. Len(names) \in Nat /\ Len(names) # 0
    BY EmptySeq DEF Names
  <2> QED
    BY <2>1, <2>2, <2>3 DEF InGuestHome, above
<1> QED
  BY <1>1, <1>2, PrefixIs

LEMMA OwnTargetsAreBelow ==
  ASSUME NEW features, NEW target \in OwnTargets(features)
  PROVE  ~IsPrefix(target, GuestHome)
<1> DEFINE Below == {<<".local", "share", "jcode">>, <<".ssh", "authorized_keys">>,
                     <<".jcode">>, <<".jcode", "config.toml">>, <<"AGENTS.md">>,
                     <<".agents">>, <<".ssh", "id_ed25519">>,
                     <<".config", "gh", "hosts.yml">>}
<1>1. PICK names \in Below : target = InGuestHome(names)
  BY DEF OwnTargets
<1>2. Below \subseteq Names /\ \A below \in Below : Len(below) > 0
  <2>1. {".local", "share", "jcode", ".ssh", "authorized_keys", ".jcode", "config.toml",
         "AGENTS.md", ".agents", "id_ed25519", ".config", "gh", "hosts.yml"} \subseteq Word
    BY DEF Word
  <2> HIDE DEF Below
  <2>2. <<".local", "share", "jcode">> \in Names /\ <<".ssh", "authorized_keys">> \in Names
    BY <2>1 DEF Names
  <2>3. <<".jcode">> \in Names /\ <<".jcode", "config.toml">> \in Names
    BY <2>1 DEF Names
  <2>4. <<"AGENTS.md">> \in Names /\ <<".agents">> \in Names
    BY <2>1 DEF Names
  <2>5. <<".ssh", "id_ed25519">> \in Names /\ <<".config", "gh", "hosts.yml">> \in Names
    BY <2>1 DEF Names
  <2> QED
    BY <2>2, <2>3, <2>4, <2>5 DEF Below
<1>3. names \in Names /\ names # <<>>
  BY <1>2
<1> QED
  BY <1>1, <1>3, BelowTheHome

-----------------------------------------------------------------------------
(***************************************************************************)
(* GuestMounts: the steps                                                  *)
(***************************************************************************)

\* What ValidMounts accepts is safe, whatever of the host exists now.
LEMMA CheckedIsSafe ==
  ASSUME HostStart \subseteq hostPaths, NEW s, ReposAreNamed(s.repos), ValidMounts(s)
  PROVE  /\ \A i \in DOMAIN s.repos : ValidGuestPath(s.repos[i].mount)
         /\ \A m \in s.extra :
              ValidGuestPath(m.target) /\ SafeSource(m.source, m.writable, s.repos)
<1>1. \A i \in DOMAIN s.repos :
        CanonicalizeExistingAncestor(s.repos[i].source) = Real(s.repos[i].source)
  BY ResolvedIsReal DEF ReposAreNamed
<1>2. \A p \in Protected : CanonicalizeExistingAncestor(p) = Real(p)
  BY ResolvedIsReal, PathsAreNamed DEF Names
<1>3. ASSUME NEW m \in s.extra
      PROVE  ValidGuestPath(m.target) /\ SafeSource(m.source, m.writable, s.repos)
  <2>1. ValidGuestPath(m.target) /\ ValidSource(m.source, m.writable, s.repos)
    BY DEF ValidMounts
  <2>2. ASSUME NEW i \in DOMAIN s.repos
        PROVE  LET repo == Real(s.repos[i].source)
               IN  /\ ~IsPrefix(m.source, repo)
                   /\ IsPrefix(repo, m.source) =>
                        /\ ~m.writable
                        /\ ".git" \notin ToSet(SubSeq(m.source, Len(repo) + 1, Len(m.source)))
    BY <1>1, <2>1 DEF ValidSource
  <2>3. \A p \in Protected : ~IsPrefix(Real(p), m.source) /\ ~IsPrefix(m.source, Real(p))
    BY <1>2, <2>1 DEF ValidSource
  <2> QED
    BY <2>1, <2>2, <2>3 DEF SafeSource
<1>4. \A i \in DOMAIN s.repos : ValidGuestPath(s.repos[i].mount)
  BY DEF ValidMounts
<1> QED
  BY <1>3, <1>4

\* The mounts of a checked start.
LEMMA SpecIsSafe ==
  ASSUME LoadedStart(starting), SafeStart(starting), starting.at = "prepared",
         NEW m \in ContainerSpec(starting)
  PROVE  /\ ~IsPrefix(m.target, GuestHome)
         /\ m.extra => m.source \in Names /\ SafeSource(m.source, m.writable, starting.repos)
<1>1. CASE \E target \in OwnTargets(starting.features) :
             m = [source |-> <<>>, target |-> target, writable |-> TRUE, extra |-> FALSE]
  BY <1>1, OwnTargetsAreBelow
<1>2. CASE \E target \in ToSet(Targets(starting)) :
             m = [source |-> <<>>, target |-> Components(target), writable |-> TRUE,
                  extra |-> FALSE]
  <2>1. PICK target \in ToSet(Targets(starting)) :
          m = [source |-> <<>>, target |-> Components(target), writable |-> TRUE,
               extra |-> FALSE]
    BY <1>2
  <2>2. PICK i \in DOMAIN starting.repos : target = starting.repos[i].mount
    BY DEF ToSet, Targets
  <2>3. ValidGuestPath(target)
    BY <2>2 DEF SafeStart
  <2> QED
    BY <2>1, <2>3 DEF ValidGuestPath
<1>3. CASE \E n \in starting.extra :
             m = [source |-> n.source, target |-> Components(n.target),
                  writable |-> n.writable, extra |-> TRUE]
  <2>1. PICK n \in starting.extra :
             m = [source |-> n.source, target |-> Components(n.target),
                  writable |-> n.writable, extra |-> TRUE]
    BY <1>3
  <2>2. /\ ValidGuestPath(n.target) /\ n.source \in Names
        /\ SafeSource(n.source, n.writable, starting.repos)
    BY DEF SafeStart, LoadedStart
  <2> QED
    BY <2>1, <2>2 DEF ValidGuestPath
<1> QED
  BY <1>1, <1>2, <1>3 DEF ContainerSpec

LEMMA MountsBegin == MountsInit => MountsInv
<1> SUFFICES ASSUME MountsInit PROVE MountsInv
  OBVIOUS
<1>1. LoadedStart(starting) /\ SafeStart(starting)
  BY DEF MountsInit, NotStarting, LoadedStart, SafeStart
<1>2. retained = <<>> /\ guestMounts = {} /\ hostPaths = HostStart
  BY DEF MountsInit
<1>3. ReposAreNamed(retained)
  BY <1>2 DEF ReposAreNamed
<1> QED
  BY <1>1, <1>2, <1>3, PathsAreNamed DEF MountsInit, MountsInv, GuestIsSafe

LEMMA MountsStep ==
  ASSUME MountsInv, [MountsNext]_mountVars
  PROVE  MountsInv'
<1>0. /\ HostStart \subseteq hostPaths /\ hostPaths \subseteq HostTree
      /\ mountConfig \in MountConfigs /\ LoadedStart(starting) /\ SafeStart(starting)
      /\ ReposAreNamed(retained) /\ GuestIsSafe
  BY DEF MountsInv
<1>1. CASE LoadMounts
  <2> DEFINE extra == {[m EXCEPT !.source = Real(@)] : m \in mountConfig.mounts}
  <2>1. /\ starting' = [at |-> "loaded", repos |-> mountConfig.repos,
                        features |-> mountConfig.features, extra |-> extra]
        /\ UNCHANGED <<hostPaths, mountConfig, retained, skillsStaged, guestMounts>>
    BY <1>1 DEF LoadMounts
  <2>2. ReposAreNamed(mountConfig.repos)
    BY <1>0, PathsAreNamed DEF ReposAreNamed, Names
  <2>3. \A m \in extra : m.source \in Names
    <3>1. ASSUME NEW m \in mountConfig.mounts
          PROVE  [m EXCEPT !.source = Real(@)].source \in Names
      BY <1>0, RealIsNames, PathsAreNamed
    <3> QED
      BY <3>1
  <2> HIDE DEF extra
  <2>4. LoadedStart(starting') /\ SafeStart(starting')
    BY <2>1, <2>2, <2>3 DEF LoadedStart, SafeStart
  <2> QED
    BY <1>0, <2>1, <2>4 DEF MountsInv, GuestIsSafe
<1>2. CASE ValidateMounts
  <2>1. /\ starting.at = "loaded" /\ ValidMounts(starting)
        /\ starting' = [starting EXCEPT !.at = "checked"]
        /\ UNCHANGED <<hostPaths, mountConfig, retained, skillsStaged, guestMounts>>
    BY <1>2 DEF ValidateMounts
  <2>2. /\ DOMAIN starting' = DOMAIN starting /\ starting'.at = "checked"
        /\ starting'.repos = starting.repos /\ starting'.extra = starting.extra
    BY <1>0, <2>1 DEF LoadedStart
  <2>3. LoadedStart(starting')
    BY <1>0, <2>1, <2>2 DEF LoadedStart
  <2>4. SafeStart(starting')
    BY <1>0, <2>1, <2>2, CheckedIsSafe DEF LoadedStart, SafeStart
  <2> QED
    BY <1>0, <2>1, <2>3, <2>4 DEF MountsInv, GuestIsSafe
<1>3. CASE PrepareSession
  <2>1. /\ starting.at = "checked" /\ starting' = [starting EXCEPT !.at = "prepared"]
        /\ UNCHANGED <<hostPaths, mountConfig, retained, guestMounts>>
    BY <1>3 DEF PrepareSession
  <2>2. /\ DOMAIN starting' = DOMAIN starting /\ starting'.at = "prepared"
        /\ starting'.repos = starting.repos /\ starting'.extra = starting.extra
    BY <1>0, <2>1 DEF LoadedStart
  <2>3. LoadedStart(starting') /\ SafeStart(starting')
    BY <1>0, <2>1, <2>2 DEF LoadedStart, SafeStart
  <2> QED
    BY <1>0, <2>1, <2>3 DEF MountsInv, GuestIsSafe
<1>4. CASE StartGuestWithMounts
  <2>1. /\ starting.at = "prepared" /\ guestMounts' = ContainerSpec(starting)
        /\ retained' = starting.repos /\ starting' = NotStarting
        /\ UNCHANGED <<hostPaths, mountConfig, skillsStaged>>
    BY <1>4 DEF StartGuestWithMounts
  <2>2. LoadedStart(starting') /\ SafeStart(starting')
    BY <2>1 DEF NotStarting, LoadedStart, SafeStart
  <2>3. ReposAreNamed(retained')
    BY <1>0, <2>1 DEF LoadedStart
  <2>4. GuestIsSafe'
    BY <1>0, <2>1, SpecIsSafe DEF GuestIsSafe
  <2> QED
    BY <1>0, <2>1, <2>2, <2>3, <2>4 DEF MountsInv
<1>5. CASE StartFails
  <2>1. starting' = NotStarting /\ UNCHANGED <<hostPaths, mountConfig, retained, guestMounts>>
    BY <1>5 DEF StartFails
  <2>2. LoadedStart(starting') /\ SafeStart(starting')
    BY <2>1 DEF NotStarting, LoadedStart, SafeStart
  <2> QED
    BY <1>0, <2>1, <2>2 DEF MountsInv, GuestIsSafe
<1>6. CASE StopMountedGuest
  BY <1>0, <1>6 DEF StopMountedGuest, MountsInv, GuestIsSafe
<1>7. CASE CreateHostPath
  <2>1. /\ HostStart \subseteq hostPaths' /\ hostPaths' \subseteq HostTree
        /\ UNCHANGED <<mountConfig, starting, retained, skillsStaged, guestMounts>>
    BY <1>0, <1>7 DEF CreateHostPath
  <2> QED
    BY <1>0, <2>1 DEF MountsInv, GuestIsSafe
<1>8. CASE EditMountConfig
  BY <1>0, <1>8 DEF EditMountConfig, MountsInv, GuestIsSafe
<1>9. CASE UNCHANGED mountVars
  BY <1>0, <1>9 DEF mountVars, MountsInv, GuestIsSafe
<1> QED
  BY <1>1, <1>2, <1>3, <1>4, <1>5, <1>6, <1>7, <1>8, <1>9 DEF MountsNext

\* No further mount shows a guest a protected path, a checkout's root or its Git
\* metadata, or lets it write into a checkout (validate_extra_mount), and nothing
\* is mounted over its home or above it: for every tree of the host, whatever of
\* it appears after the checks.
THEOREM HostStaysHidden == MountsSpec => []MountsKeepTheHost
<1>1. MountsInv => MountsKeepTheHost
  <2> SUFFICES ASSUME MountsInv PROVE HostIsHidden /\ GuestHomeIsOwn
    BY DEF MountsKeepTheHost
  <2>1. GuestHomeIsOwn
    BY DEF MountsInv, GuestIsSafe, GuestHomeIsOwn
  <2>2. ASSUME NEW m \in guestMounts, m.extra, NEW path \in Shown(m)
        PROVE  /\ \A p \in Protected : ~IsPrefix(Real(p), path)
               /\ \A i \in DOMAIN retained :
                    LET repo == Real(retained[i].source)
                    IN  IsPrefix(repo, path) =>
                          ~m.writable /\ path # repo /\ ~IsPrefix(repo \o <<".git">>, path)
    <3>1. /\ m.source \in Names /\ SafeSource(m.source, m.writable, retained)
          /\ ReposAreNamed(retained)
      BY <2>2 DEF MountsInv, GuestIsSafe
    <3>2. path \in Names /\ IsPrefix(m.source, path)
      BY PathsAreNamed DEF MountsInv, Shown, Names
    <3> QED
      BY <3>1, <3>2, SafeSourceHides
  <2>3. HostIsHidden
    BY <2>2 DEF HostIsHidden
  <2> QED
    BY <2>1, <2>3
<1> QED
  BY <1>1, MountsBegin, MountsStep, PTL DEF MountsSpec

\* The real root is the root, or where a link in its place leads.
LEMMA RealRoot == Real(<<>>) \in HostTree \cup {<<>>}
<1>1. CASE \E link \in DOMAIN Links : IsPrefix(link, <<>>)
  <2> DEFINE link == CHOOSE link \in DOMAIN Links : IsPrefix(link, <<>>)
  <2>1. link \in DOMAIN Links /\ IsPrefix(link, <<>>)
    BY <1>1
  <2>2. Links[link] \in HostTree /\ Links[link] \in Names /\ link \in Names
    BY <2>1, PathsAreNamed, MountsAssumption
  <2>3. Real(<<>>) = Links[link] \o SubSeq(<<>>, Len(link) + 1, 0)
    BY <1>1 DEF Real
  <2> HIDE DEF link
  <2>4. Len(link) \in Nat /\ SubSeq(<<>>, Len(link) + 1, 0) = <<>>
    BY <2>2 DEF Names
  <2>5. Links[link] \o <<>> = Links[link]
    BY <2>2 DEF Names
  <2> QED
    BY <2>2, <2>3, <2>4, <2>5
<1>2. CASE ~ \E link \in DOMAIN Links : IsPrefix(link, <<>>)
  BY <1>2 DEF Real
<1> QED
  BY <1>1, <1>2

\* What was loaded was there, and stays among the paths of the host.
LoadedSources(s) ==
  /\ s.at \in {"idle", "loaded", "checked", "prepared"}
  /\ \A m \in s.extra : m.writable \in BOOLEAN /\ m.source \in HostTree \cup {<<>>}

LEMMA SourcesStep ==
  ASSUME MountsInv, LoadedSources(starting), [MountsNext]_mountVars
  PROVE  LoadedSources(starting')
<1>0. /\ hostPaths \subseteq HostTree /\ mountConfig \in MountConfigs
      /\ LoadedStart(starting)
  BY DEF MountsInv
<1>1. CASE LoadMounts
  <2> DEFINE extra == {[m EXCEPT !.source = Real(@)] : m \in mountConfig.mounts}
  <2>1. starting'.at = "loaded" /\ starting'.extra = extra
    BY <1>1 DEF LoadMounts
  <2>2. ASSUME NEW m \in mountConfig.mounts
        PROVE  /\ [m EXCEPT !.source = Real(@)].writable \in BOOLEAN
               /\ [m EXCEPT !.source = Real(@)].source \in HostTree \cup {<<>>}
    <3>1. m \in [source : Seq(STRING), target : Seq(STRING), writable : BOOLEAN]
      BY <1>0, MountsAssumption
    <3>2. m.source = <<>> \/ Real(m.source) \in HostTree
      BY <1>0, <1>1 DEF LoadMounts, OnHost
    <3>3. Real(m.source) \in HostTree \cup {<<>>}
      BY <3>2, RealRoot
    <3> QED
      BY <3>1, <3>3
  <2>3. \A m \in extra : m.writable \in BOOLEAN /\ m.source \in HostTree \cup {<<>>}
    BY <2>2
  <2> HIDE DEF extra
  <2> QED
    BY <2>1, <2>3 DEF LoadedSources
<1>2. CASE ValidateMounts \/ PrepareSession
  BY <1>0, <1>2 DEF ValidateMounts, PrepareSession, LoadedStart, LoadedSources
<1>3. CASE StartGuestWithMounts \/ StartFails
  BY <1>3 DEF StartGuestWithMounts, StartFails, NotStarting, LoadedSources
<1>4. CASE UNCHANGED starting
  BY <1>4
<1> QED
  BY <1>1, <1>2, <1>3, <1>4
  DEF MountsNext, mountVars, StopMountedGuest, CreateHostPath, EditMountConfig

\* What a launch or resume carries along, and what the guest has, has its type:
\* sources are paths of the host or its root, also when paths appear meanwhile.
THEOREM MountTypesCorrect == MountsSpec => []GuestMountsTypeOK
<1> DEFINE Flagged == \A m \in guestMounts : m.extra \in BOOLEAN
<1>1. MountsInit => LoadedSources(starting) /\ Flagged
  BY DEF MountsInit, NotStarting, LoadedSources
<1>2. Flagged /\ [MountsNext]_mountVars => Flagged'
  <2> SUFFICES ASSUME Flagged, [MountsNext]_mountVars PROVE Flagged'
    OBVIOUS
  <2>1. CASE StartGuestWithMounts
    <3>1. ASSUME NEW m \in ContainerSpec(starting)
          PROVE  m.extra \in BOOLEAN
      <4>1. \/ \E target : m = [source |-> <<>>, target |-> target, writable |-> TRUE,
                                extra |-> FALSE]
            \/ \E n : m = [source |-> n.source, target |-> Components(n.target),
                           writable |-> n.writable, extra |-> TRUE]
        BY <3>1 DEF ContainerSpec
      <4>2. ASSUME NEW target, m = [source |-> <<>>, target |-> target, writable |-> TRUE,
                                    extra |-> FALSE]
            PROVE  m.extra \in BOOLEAN
        BY <4>2
      <4>3. ASSUME NEW n, m = [source |-> n.source, target |-> Components(n.target),
                               writable |-> n.writable, extra |-> TRUE]
            PROVE  m.extra \in BOOLEAN
        BY <4>3
      <4> QED
        BY <4>1, <4>2, <4>3
    <3> QED
      BY <2>1, <3>1 DEF StartGuestWithMounts
  <2>2. CASE StopMountedGuest
    BY <2>2 DEF StopMountedGuest
  <2>3. CASE UNCHANGED guestMounts
    BY <2>3
  <2> QED
    BY <2>1, <2>2, <2>3
    DEF MountsNext, mountVars, LoadMounts, ValidateMounts, PrepareSession, StartFails,
        CreateHostPath, EditMountConfig
<1>3. MountsInv /\ LoadedSources(starting) /\ Flagged => GuestMountsTypeOK
  BY DEF MountsInv, LoadedSources, GuestMountsTypeOK
<1>4. MountsInv /\ LoadedSources(starting) /\ [MountsNext]_mountVars
        => LoadedSources(starting)'
  BY SourcesStep DEF LoadedSources
<1> HIDE DEF Flagged
<1> QED
  BY <1>1, <1>2, <1>3, <1>4, MountsBegin, MountsStep, PTL DEF MountsSpec

-----------------------------------------------------------------------------
(***************************************************************************)
(* BeadsBaseline: what a guest was given, and what it wrote                *)
(***************************************************************************)
\* The guest is being started for the first time.
Early == life \in {"new", "booting", "checked"}

\* The agent has no file yet, and nothing was reset.
UntouchedInv ==
  Early =>
    /\ committed = Base /\ staged = Base /\ history = {}
    /\ mine = [p \in Paths |-> "none"]
    /\ DOMAIN baseline = {}
    /\ \A p \in Paths : Base[p] # "none" => onDisk[p] # "none"
    /\ \A p \in Paths : onDisk[p] \in {Base[p], "export", "generated"}
    /\ life = "new" => onDisk = Base /\ snapshot = "none"
    /\ life = "booting" => \A p \in Paths \ {Tracker} : onDisk[p] = Base[p]

\* Only the guest stages, and a clean goes on with nothing that is someone's.
SettledInv ==
  /\ ~Early /\ life # "up" => staged = committed
  /\ life = "clearing" => ~ForeignServer

\* Where the export and what the bootstrap generates can be.
Has(c, p) == c \in {onDisk[p], staged[p], committed[p]}

PlacedInv ==
  /\ \A p \in Paths :
       /\ Has("export", p) => p = Tracker /\ snapshot = "export"
       /\ Has("generated", p) => p \in Baselines \cup {GateLock, ServerConfig}
  /\ \A p \in DOMAIN baseline :
       /\ baseline[p] = "export" => p = Tracker /\ snapshot = "export"
       /\ baseline[p] = "generated" => p \in Baselines
  \* Beads generates no file where the project has its own
  /\ \A p \in {GateLock, ServerConfig} : Has("generated", p) => ~Has("base", p)

\* What is committed or recorded of the agent's is in the history.
RecordedInv ==
  /\ \A p \in Paths : committed[p] \in Edits => <<p, committed[p]>> \in history
  /\ \A p \in DOMAIN baseline : baseline[p] \in Edits => <<p, baseline[p]>> \in history

\* The files of a worktree that was reset.
ResetInv ==
  life \in {"reset", "rebooting"} =>
    \A p \in Captured :
      /\ onDisk[p] \in Edits => /\ <<p, onDisk[p]>> \in history
                                /\ onDisk[p] = mine[p] => committed[p] = onDisk[p]
      /\ committed[p] # "none" => onDisk[p] # "none"
      /\ committed[p] = "generated" => onDisk[p] = "generated"

\* An edit that is recorded as a baseline is the committed one.
ShownInv ==
  \A p \in DOMAIN baseline :
    mine[p] = baseline[p] /\ mine[p] \in Edits =>
      /\ onDisk[p] = mine[p] => committed[p] = mine[p] /\ staged[p] = mine[p]
      /\ life = "up" => onDisk[p] = mine[p]

\* What the bootstrap generated is recorded when the agent gets the guest.
GeneratedIsRecorded ==
  HasBaseline =>
    \A p \in Captured :
      Has("generated", p) => p \in DOMAIN baseline /\ baseline[p] = "generated"

CoveredInv == life = "up" => GeneratedIsRecorded

\* Without a baseline there is nothing of Beads but what the agent wrote,
BareInv ==
  ~Early /\ ~HasBaseline =>
    \A c \in {"base", "export", "generated"} : ~Has(c, Tracker)

\* and in a project without an export nothing is generated before the agent
\* commits one.
UnaskedInv ==
  snapshot = "none" /\ Tracker \notin Shipped /\ history = {} =>
    /\ \A p \in Paths : ~Has("generated", p)
    /\ \A p \in DOMAIN baseline : baseline[p] # "generated"
    /\ \A c \in {"base", "export", "generated"} : ~Has(c, Tracker)
    /\ Tracker \in DOMAIN baseline => baseline[Tracker] \in Edits

BaselineInv ==
  /\ BaselineTypeOK
  /\ UntouchedInv /\ SettledInv /\ PlacedInv /\ RecordedInv /\ ResetInv
  /\ ShownInv /\ CoveredInv /\ BareInv /\ UnaskedInv
  /\ AgentEditsKept /\ PristineIsClean

-----------------------------------------------------------------------------
\* Kinds of paths.
LEMMA PathKinds ==
  /\ Tracker \in Captured /\ Captured \subseteq Paths /\ Baselines \subseteq Captured
  /\ \A p \in Captured : p = Tracker \/ p \in Baselines
  /\ GateLock \in Paths \ Captured /\ ServerConfig \in Paths \ Captured
  /\ GateLock # ServerConfig /\ Tracker \notin Baselines
  /\ GateLock \notin Caches /\ Captured \cap Caches = {}
BY BaselineAssumption DEF Captured, Paths, Tracker, GateLock, ServerConfig

LEMMA ContentKinds ==
  /\ \A c \in {"none", "base", "export", "generated"} : c \in Content /\ c \notin Edits
  /\ Edits \subseteq Content
  /\ Base \in [Paths -> Content] /\ \A p \in Paths : Base[p] \in {"none", "base"}
BY BaselineAssumption DEF Content, Base

\* With no lookalikes a file is hidden under its own name.
LEMMA HiddenIs ==
  ASSUME DOMAIN Lookalikes = {}, NEW p \in Paths
  PROVE  Hidden(p) <=> /\ HasBaseline
                       /\ \/ p = Tracker /\ SnapshotUnchanged
                          \/ BaselineUnchanged(p)
                          \/ p = GateLock /\ LockIsEmpty
                          \/ p = ServerConfig /\ ServerGenerated
<1>1. EndsLike(p) = {p}
  BY DEF EndsLike
<1> QED
  BY <1>1 DEF Hidden

\* An edit that is in no commit shows as a change.
LEMMA LostIsShown ==
  ASSUME DOMAIN Lookalikes = {}, RecordedInv, BaselineTypeOK,
         NEW p \in (Paths \ Caches) \cup {q \in {ServerConfig} : HasBaseline},
         onDisk[p] \in Edits, <<p, onDisk[p]>> \notin history
  PROVE  p \in Uncommitted
<1>1. p \in Paths
  BY PathKinds
<1>2. onDisk[p] \notin {"none", "base", "export", "generated"} /\ onDisk[p] # committed[p]
  BY <1>1, ContentKinds DEF RecordedInv
<1>3. ~Hidden(p)
  <2>1. ~(p = Tracker /\ SnapshotUnchanged)
    BY <1>2 DEF SnapshotUnchanged, BaselineTypeOK
  <2>2. ~BaselineUnchanged(p)
    BY DEF BaselineUnchanged, RecordedInv
  <2>3. ~(p = GateLock /\ LockIsEmpty) /\ ~(p = ServerConfig /\ ServerGenerated)
    BY <1>2 DEF LockIsEmpty, ServerGenerated
  <2> QED
    BY <1>1, <2>1, <2>2, <2>3, HiddenIs
<1>4. CASE Listed(p)
  BY <1>1, <1>3, <1>4 DEF Uncommitted
<1>5. CASE ~Listed(p)
  <2>1. Untracked(p) /\ p \in Caches
    BY <1>2, <1>5 DEF Listed, StagedChange
  <2>2. p = ServerConfig /\ HasBaseline
    BY <2>1
  <2>3. IgnoredFile(ServerConfig) /\ ~ServerGenerated
    BY <1>2, <2>1, <2>2 DEF IgnoredFile, ServerGenerated
  <2> QED
    BY <2>2, <2>3 DEF ForeignServer, Uncommitted
<1> QED
  BY <1>4, <1>5

-----------------------------------------------------------------------------
LEMMA BaselineTypesBegin == BaselineInit => BaselineTypeOK
BY ContentKinds, BaselineAssumption DEF BaselineInit, BaselineTypeOK, Stages

LEMMA BootstrapsTypes ==
  ASSUME onDisk \in [Paths -> Content], NEW then, Bootstraps(then)
  PROVE  onDisk' \in [Paths -> Content]
BY ContentKinds DEF Bootstraps

LEMMA CaptureTypes ==
  ASSUME onDisk \in [Paths -> Content], CaptureBaseline
  PROVE  /\ DOMAIN baseline' \subseteq Captured
         /\ \A p \in DOMAIN baseline' : baseline'[p] \in Content \ {"none"}
BY PathKinds DEF CaptureBaseline

LEMMA CommitsTypes ==
  ASSUME BaselineTypeOK, NEW checkout \in [Paths -> Content], Commits(checkout)
  PROVE  committed' \in [Paths -> Content] /\ staged' \in [Paths -> Content]
         /\ history' \subseteq Paths \X Edits
BY DEF Commits, BaselineTypeOK

LEMMA BaselineTypesStep ==
  ASSUME BaselineTypeOK, [BaselineNext]_baselineVars
  PROVE  BaselineTypeOK'
<1> USE DEF BaselineTypeOK
<1>1. CASE SnapshotExport
  BY <1>1, ContentKinds, PathKinds DEF SnapshotExport, Stages
<1>2. CASE BootGuest
  BY <1>2, BootstrapsTypes DEF BootGuest, Bootstraps, Stages
<1>3. CASE HandOver
  BY <1>3, CaptureTypes DEF HandOver, Stages
<1>4. ASSUME NEW p \in Paths, AgentWrites(p)
      PROVE  BaselineTypeOK'
  BY <1>4, ContentKinds, BaselineAssumption DEF AgentWrites, AgentStep
<1>5. ASSUME NEW p \in Paths, AgentTakesBack(p)
      PROVE  BaselineTypeOK'
  <2>1. PICK c \in {"none", committed[p]} \cup {baseline[q] : q \in DOMAIN baseline \cap {p}} :
          onDisk' = [onDisk EXCEPT ![p] = c]
    BY <1>5 DEF AgentTakesBack
  <2>2. c \in Content
    BY ContentKinds
  <2>3. mine' \in [Paths -> {"none"} \cup Edits]
    BY <1>5 DEF AgentTakesBack
  <2> QED
    BY <1>5, <2>1, <2>2, <2>3, BaselineAssumption DEF AgentTakesBack, AgentStep
<1>6. ASSUME NEW p \in Paths, AgentStages(p)
      PROVE  BaselineTypeOK'
  BY <1>6, BaselineAssumption DEF AgentStages, AgentStep
<1>7. CASE AgentCommits
  BY <1>7, CommitsTypes, BaselineAssumption DEF AgentCommits, AgentStep
<1>8. CASE PublishCommit
  BY <1>8 DEF PublishCommit
<1>9. CASE StopAgentSession \/ CleanStops
  BY <1>9 DEF StopAgentSession, CleanStops, StopsGuest, Stages
<1>10. CASE CheckpointWorktree
  <2> DEFINE checkout == [p \in Paths |-> IF p \in ExcludedPaths \/ IgnoredFile(p)
                                      THEN committed[p] ELSE onDisk[p]]
  <2>1. checkout \in [Paths -> Content]
    OBVIOUS
  <2>2. Commits(checkout)
    BY <1>10 DEF CheckpointWorktree
  <2> HIDE DEF checkout
  <2>3. committed' \in [Paths -> Content] /\ staged' \in [Paths -> Content]
         /\ history' \subseteq Paths \X Edits
    BY <2>1, <2>2, CommitsTypes
  <2> QED
    BY <1>10, <2>3, BaselineAssumption DEF CheckpointWorktree, Stages
<1>11. CASE BeginResume
  BY <1>11, BaselineAssumption DEF BeginResume, Stages
<1>12. CASE PrepareRetained
  BY <1>12 DEF PrepareRetained, Stages
<1>13. CASE RebootGuest
  BY <1>13, BootstrapsTypes DEF RebootGuest, Bootstraps, Stages
<1>14. CASE ResumeStopsShort
  BY <1>14 DEF ResumeStopsShort, Stages
<1>15. CASE RefreshBaseline
  BY <1>15, CaptureTypes DEF RefreshBaseline, Stages
<1>16. CASE CleanStopped
  BY <1>16 DEF CleanStopped, Stages
<1>17. CASE CleanWorktree
  BY <1>17, ContentKinds DEF CleanWorktree, Stages
<1>18. CASE UNCHANGED baselineVars
  BY <1>18 DEF baselineVars
<1> QED
  BY <1>1, <1>2, <1>3, <1>4, <1>5, <1>6, <1>7, <1>8, <1>9, <1>10, <1>11, <1>12, <1>13,
     <1>14, <1>15, <1>16, <1>17, <1>18 DEF BaselineNext

-----------------------------------------------------------------------------
\* What counts as a change depends on the files and the records only.
LEMMA SameChanges ==
  ASSUME UNCHANGED <<committed, staged, onDisk, snapshot, baseline>>
  PROVE  /\ Uncommitted' = Uncommitted /\ HasBaseline' = HasBaseline
         /\ ForeignServer' = ForeignServer
<1>1. HasBaseline' = HasBaseline
  BY DEF HasBaseline
<1>2. \A p : Listed(p)' = Listed(p) /\ IgnoredFile(p)' = IgnoredFile(p)
             /\ Untracked(p)' = Untracked(p)
  BY DEF Listed, IgnoredFile, Untracked, StagedChange
<1>3. SnapshotUnchanged' = SnapshotUnchanged
  BY DEF SnapshotUnchanged, StagedChange
<1>4. \A p : BaselineUnchanged(p)' = BaselineUnchanged(p)
  BY DEF BaselineUnchanged, StagedChange
<1>5. LockIsEmpty' = LockIsEmpty /\ ServerGenerated' = ServerGenerated
  BY <1>1, <1>2 DEF LockIsEmpty, ServerGenerated
<1>6. ForeignServer' = ForeignServer
  BY <1>1, <1>2, <1>5 DEF ForeignServer
<1>7. \A p : Hidden(p)' = Hidden(p)
  BY <1>1, <1>3, <1>4, <1>5 DEF Hidden, EndsLike
<1> QED
  BY <1>1, <1>2, <1>6, <1>7 DEF Uncommitted

Pristine == \A p \in Paths : onDisk[p] \in {Base[p], "export", "generated"}

\* With what was generated on record, a worktree that nobody touched is clean.
LEMMA RecordedIsClean ==
  (/\ DOMAIN Lookalikes = {} /\ BaselineTypeOK /\ PlacedInv /\ GeneratedIsRecorded
   /\ BareInv /\ UnaskedInv /\ ~Early
   /\ committed = Base /\ staged = Base /\ Pristine /\ (HasBaseline \/ history = {}))
  => Uncommitted = {}
<1> SUFFICES ASSUME DOMAIN Lookalikes = {}, BaselineTypeOK, PlacedInv,
                    GeneratedIsRecorded, BareInv, UnaskedInv, ~Early,
                    committed = Base, staged = Base, Pristine,
                    HasBaseline \/ history = {}
             PROVE  Uncommitted = {}
  OBVIOUS
<1>1. \A p \in Paths : ~StagedChange(p) /\ (Untracked(p) <=> Base[p] = "none")
  BY ContentKinds DEF StagedChange, Untracked
<1>2. CASE HasBaseline
  <2>1. ASSUME NEW p \in Paths, Listed(p)
        PROVE  Hidden(p)
    <3>1. onDisk[p] \in {"export", "generated"}
      BY <1>1, <2>1, ContentKinds DEF Listed, Pristine
    <3>2. CASE onDisk[p] = "export"
      <4>1. p = Tracker /\ snapshot = "export"
        BY <3>2 DEF PlacedInv, Has
      <4>2. SnapshotUnchanged
        BY <1>1, <3>2, <4>1 DEF SnapshotUnchanged
      <4> QED
        BY <1>2, <4>1, <4>2, HiddenIs
    <3>3. CASE onDisk[p] = "generated" /\ p \in Captured
      <4>1. p \in DOMAIN baseline /\ baseline[p] = "generated"
        BY <1>2, <3>3 DEF GeneratedIsRecorded, Has
      <4>2. BaselineUnchanged(p)
        BY <1>1, <3>3, <4>1 DEF BaselineUnchanged
      <4> QED
        BY <1>2, <4>2, HiddenIs
    <3>4. CASE onDisk[p] = "generated" /\ p = GateLock
      BY <1>2, <3>4, HiddenIs DEF LockIsEmpty
    <3>5. CASE onDisk[p] = "generated" /\ p = ServerConfig
      <4>1. Base[p] # "base"
        BY <3>5 DEF PlacedInv, Has
      <4>2. ServerGenerated
        BY <1>1, <1>2, <3>5, <4>1, ContentKinds DEF ServerGenerated
      <4> QED
        BY <1>2, <3>5, <4>2, HiddenIs
    <3> QED
      BY <3>1, <3>2, <3>3, <3>4, <3>5, PathKinds DEF PlacedInv, Has
  <2>2. ~ForeignServer
    <3>1. SUFFICES ASSUME IgnoredFile(ServerConfig) PROVE ServerGenerated
      BY DEF ForeignServer
    <3>2. Untracked(ServerConfig) /\ onDisk[ServerConfig] # "none"
      BY <3>1 DEF IgnoredFile
    <3>3. onDisk[ServerConfig] \in {"export", "generated"}
      BY <1>1, <3>2, PathKinds DEF Pristine
    <3>4. onDisk[ServerConfig] # "export"
      BY PathKinds DEF PlacedInv, Has
    <3> QED
      BY <1>2, <3>2, <3>3, <3>4 DEF ServerGenerated
  <2> QED
    BY <2>1, <2>2 DEF Uncommitted
<1>3. CASE ~HasBaseline
  <2>1. snapshot = "none" /\ history = {}
    BY <1>3 DEF HasBaseline
  <2>2. Tracker \notin Shipped
    <3>1. Base[Tracker] # "base"
      BY <1>3, PathKinds DEF BareInv, Has
    <3> QED
      BY <3>1, PathKinds DEF Base
  <2>3. \A p \in Paths : ~Has("generated", p) /\ ~Has("export", p)
    BY <2>1, <2>2 DEF UnaskedInv, PlacedInv
  <2>4. \A p \in Paths : onDisk[p] = Base[p]
    BY <2>3 DEF Pristine, Has
  <2>5. \A p \in Paths : ~Listed(p)
    BY <1>1, <2>4 DEF Listed
  <2> QED
    BY <1>3, <2>5 DEF Uncommitted, ForeignServer
<1> QED
  BY <1>2, <1>3

\* The parts of the invariant, but for the two properties.
BaselineParts ==
  /\ BaselineTypeOK
  /\ UntouchedInv /\ SettledInv /\ PlacedInv /\ RecordedInv /\ ResetInv
  /\ ShownInv /\ CoveredInv /\ BareInv /\ UnaskedInv

LEMMA UpIsClean ==
  DOMAIN Lookalikes = {} /\ BaselineParts /\ GeneratedIsRecorded /\ ~Early => PristineIsClean
BY RecordedIsClean DEF BaselineParts, PristineIsClean, Pristine

LEMMA BaselineBegins == BaselineInit => BaselineInv
<1> SUFFICES ASSUME BaselineInit PROVE BaselineInv
  OBVIOUS
<1>1. BaselineTypeOK
  BY BaselineTypesBegin
<1>2. /\ committed = Base /\ staged = Base /\ onDisk = Base /\ snapshot = "none"
      /\ DOMAIN baseline = {} /\ life = "new" /\ history = {}
      /\ mine = [p \in Paths |-> "none"]
  BY DEF BaselineInit
<1>3. UntouchedInv /\ SettledInv /\ RecordedInv /\ ResetInv /\ ShownInv /\ CoveredInv
  BY <1>2, ContentKinds DEF UntouchedInv, SettledInv, RecordedInv, ResetInv, ShownInv,
     CoveredInv, Early
<1>4. PlacedInv
  BY <1>2, ContentKinds, PathKinds DEF PlacedInv, Has
<1>5. BareInv /\ UnaskedInv
  BY <1>2, ContentKinds, PathKinds DEF BareInv, UnaskedInv, Has, Early, Base
<1>6. AgentEditsKept /\ PristineIsClean
  BY <1>2, PathKinds DEF AgentEditsKept, PristineIsClean
<1> QED
  BY <1>1, <1>3, <1>4, <1>5, <1>6 DEF BaselineInv

-----------------------------------------------------------------------------
\* The launch.
LEMMA SnapshotExportKeeps ==
  ASSUME BaselineInv, SnapshotExport, BaselineTypeOK'
  PROVE  BaselineInv'
<1>1. /\ life = "new" /\ life' = "booting" /\ Early /\ Early'
      /\ UNCHANGED <<committed, staged, baseline, published, history, mine>>
      /\ onDisk = Base /\ snapshot = "none" /\ committed = Base /\ staged = Base
      /\ history = {} /\ DOMAIN baseline = {} /\ mine = [p \in Paths |-> "none"]
  BY DEF SnapshotExport, BaselineInv, UntouchedInv, Early
<1>2. /\ Tracker \in Paths /\ onDisk \in [Paths -> Content]
      /\ \A p \in Paths \ {Tracker} : onDisk'[p] = Base[p]
      /\ \/ snapshot' = "none" /\ onDisk'[Tracker] = Base[Tracker]
         \/ snapshot' = "export" /\ onDisk'[Tracker] = "export"
  BY <1>1, PathKinds DEF SnapshotExport, BaselineInv, BaselineTypeOK
<1>3. UntouchedInv' /\ SettledInv' /\ RecordedInv' /\ ResetInv' /\ ShownInv' /\ CoveredInv'
  BY <1>1, <1>2, ContentKinds DEF UntouchedInv, SettledInv, RecordedInv, ResetInv, ShownInv,
     CoveredInv, Early
<1>4. PlacedInv'
  BY <1>1, <1>2, ContentKinds, PathKinds DEF PlacedInv, Has
<1>5. BareInv' /\ UnaskedInv'
  BY <1>1, <1>2, ContentKinds, PathKinds DEF BareInv, UnaskedInv, Has, Base
<1>6. AgentEditsKept' /\ PristineIsClean'
  BY <1>1, PathKinds DEF AgentEditsKept, PristineIsClean
<1> QED
  BY <1>3, <1>4, <1>5, <1>6 DEF BaselineInv

\* What a bootstrap does to the files.
LEMMA BootstrapFiles ==
  ASSUME NEW then, Bootstraps(then), onDisk \in [Paths -> Content]
  PROVE  /\ \A p \in Paths : onDisk'[p] # onDisk[p] =>
              /\ onDisk'[p] = "generated" /\ onDisk[Tracker] # "none"
              /\ \/ p \in Baselines
                 \/ p \in {GateLock, ServerConfig} /\ Untracked(p) /\ onDisk[p] = "none"
         /\ onDisk'[Tracker] = onDisk[Tracker]
         /\ \A p \in Paths : onDisk[p] # "none" => onDisk'[p] # "none"
         /\ \A p \in Paths : onDisk[p] = "generated" => onDisk'[p] = "generated"
<1>1. PICK Rewritten \in SUBSET Baselines, extra \in SUBSET {GateLock, ServerConfig} :
       onDisk' = [p \in Paths |->
         IF onDisk[Tracker] # "none"
              /\ (p \in Rewritten
                  \/ (p \in extra /\ Untracked(p) /\ onDisk[p] = "none"))
         THEN "generated" ELSE onDisk[p]]
  BY DEF Bootstraps
<1>2. \A p \in Paths : onDisk'[p] = 
         IF onDisk[Tracker] # "none"
              /\ (p \in Rewritten
                  \/ (p \in extra /\ Untracked(p) /\ onDisk[p] = "none"))
         THEN "generated" ELSE onDisk[p]
  BY <1>1
<1>3. \A p \in Paths : onDisk'[p] # onDisk[p] =>
              /\ onDisk'[p] = "generated" /\ onDisk[Tracker] # "none"
              /\ \/ p \in Baselines
                 \/ p \in {GateLock, ServerConfig} /\ Untracked(p) /\ onDisk[p] = "none"
  <2> SUFFICES ASSUME NEW p \in Paths, onDisk'[p] # onDisk[p]
               PROVE  /\ onDisk'[p] = "generated" /\ onDisk[Tracker] # "none"
                      /\ \/ p \in Baselines
                         \/ p \in {GateLock, ServerConfig} /\ Untracked(p)
                              /\ onDisk[p] = "none"
    OBVIOUS
  <2>1. /\ onDisk[Tracker] # "none" /\ onDisk'[p] = "generated"
        /\ p \in Rewritten \/ (p \in extra /\ Untracked(p) /\ onDisk[p] = "none")
    BY <1>2
  <2>2. CASE p \in Rewritten
    BY <1>1, <2>1, <2>2
  <2>3. CASE p \in extra /\ Untracked(p) /\ onDisk[p] = "none"
    BY <1>1, <2>1, <2>3
  <2> QED
    BY <2>1, <2>2, <2>3
<1> QED
  BY <1>2, <1>3, PathKinds

LEMMA BootGuestKeeps ==
  ASSUME BaselineInv, BootGuest, BaselineTypeOK'
  PROVE  BaselineInv'
<1>1. /\ life = "booting" /\ life' = "checked" /\ Early /\ Early'
      /\ UNCHANGED <<committed, staged, snapshot, baseline, history, mine>>
      /\ committed = Base /\ staged = Base
      /\ history = {} /\ DOMAIN baseline = {} /\ mine = [p \in Paths |-> "none"]
      /\ \A p \in Paths : Base[p] # "none" => onDisk[p] # "none"
      /\ \A p \in Paths : onDisk[p] \in {Base[p], "export", "generated"}
      /\ \A p \in Paths \ {Tracker} : onDisk[p] = Base[p]
      /\ onDisk \in [Paths -> Content]
  BY DEF BootGuest, Bootstraps, BaselineInv, BaselineTypeOK, UntouchedInv, Early
<1>2. /\ \A p \in Paths : onDisk'[p] # onDisk[p] =>
              /\ onDisk'[p] = "generated" /\ onDisk[Tracker] # "none"
              /\ \/ p \in Baselines
                 \/ p \in {GateLock, ServerConfig} /\ Untracked(p) /\ onDisk[p] = "none"
      /\ onDisk'[Tracker] = onDisk[Tracker]
      /\ \A p \in Paths : onDisk[p] # "none" => onDisk'[p] # "none"
  BY <1>1, BootstrapFiles DEF BootGuest
<1>3. UntouchedInv' /\ SettledInv' /\ RecordedInv' /\ ResetInv' /\ ShownInv' /\ CoveredInv'
  BY <1>1, <1>2, ContentKinds DEF UntouchedInv, SettledInv, RecordedInv, ResetInv, ShownInv,
     CoveredInv, Early
<1>4. PlacedInv'
  BY <1>1, <1>2, ContentKinds, PathKinds DEF BaselineInv, PlacedInv, Has, Untracked
<1>5. BareInv'
  BY <1>1 DEF BareInv
<1>6. UnaskedInv'
  <2>1. ASSUME snapshot = "none", Tracker \notin Shipped
        PROVE  \A p \in Paths : onDisk'[p] = onDisk[p]
    <3>1. Base[Tracker] = "none"
      BY <2>1, PathKinds DEF Base
    <3>2. onDisk[Tracker] = "none"
      BY <1>1, <2>1, <3>1, PathKinds DEF BaselineInv, UnaskedInv, Has
    <3> QED
      BY <1>2, <3>2
  <2> QED
    BY <1>1, <2>1, PathKinds DEF BaselineInv, UnaskedInv, Has
<1>7. AgentEditsKept' /\ PristineIsClean'
  BY <1>1, PathKinds DEF AgentEditsKept, PristineIsClean
<1> QED
  BY <1>3, <1>4, <1>5, <1>6, <1>7 DEF BaselineInv

\* What is on disk of the captured files is recorded.
LEMMA CaptureIs ==
  ASSUME CaptureBaseline
  PROVE  /\ \A p \in DOMAIN baseline' : p \in Captured /\ baseline'[p] = onDisk[p]
         /\ \A p \in Captured : onDisk[p] # "none" <=> p \in DOMAIN baseline'
BY DEF CaptureBaseline

LEMMA HandOverKeeps ==
  ASSUME DOMAIN Lookalikes = {}, BaselineInv, HandOver, BaselineTypeOK'
  PROVE  BaselineInv'
<1>1. /\ life = "checked" /\ life' = "up" /\ ~Early'
      /\ UNCHANGED <<committed, staged, onDisk, snapshot, history, mine>>
      /\ committed = Base /\ staged = Base
      /\ history = {} /\ mine = [p \in Paths |-> "none"]
      /\ \A p \in Paths : Base[p] # "none" => onDisk[p] # "none"
      /\ \A p \in Paths : onDisk[p] \in {Base[p], "export", "generated"}
  BY DEF HandOver, BaselineInv, BaselineTypeOK, UntouchedInv, Early
<1>2. /\ \A p \in DOMAIN baseline' : p \in Captured /\ baseline'[p] = onDisk[p]
      /\ \A p \in Captured : onDisk[p] # "none" <=> p \in DOMAIN baseline'
  BY CaptureIs DEF HandOver
<1>3. UntouchedInv' /\ SettledInv' /\ RecordedInv' /\ ResetInv' /\ ShownInv' /\ CoveredInv'
  <2>1. UntouchedInv' /\ SettledInv' /\ ResetInv'
    BY <1>1 DEF UntouchedInv, SettledInv, ResetInv
  <2>2. RecordedInv'
    BY <1>1, <1>2, ContentKinds, PathKinds DEF RecordedInv
  <2>3. ShownInv'
    BY <1>1, <1>2, ContentKinds, PathKinds DEF ShownInv
  <2>4. CoveredInv'
    <3>1. ASSUME NEW p \in Captured, Has("generated", p)'
          PROVE  p \in DOMAIN baseline' /\ baseline'[p] = "generated"
      <4>1. onDisk[p] = "generated"
        BY <1>1, <3>1, ContentKinds, PathKinds DEF Has
      <4> QED
        BY <1>2, <4>1
    <3> QED
      BY <3>1 DEF CoveredInv, GeneratedIsRecorded
  <2> QED
    BY <2>1, <2>2, <2>3, <2>4
<1>4. PlacedInv'
  BY <1>1, <1>2, PathKinds DEF BaselineInv, PlacedInv, Has
<1>5. BareInv'
  <2>1. SUFFICES ASSUME ~HasBaseline'
                 PROVE  \A c \in {"base", "export", "generated"} : ~Has(c, Tracker)'
    BY DEF BareInv
  <2>2. onDisk[Tracker] = "none"
    BY <1>2, <2>1, PathKinds DEF HasBaseline
  <2>3. Base[Tracker] = "none"
    BY <1>1, <2>2, PathKinds
  <2> QED
    BY <1>1, <2>2, <2>3 DEF Has
<1>6. UnaskedInv'
  <2>1. ASSUME snapshot = "none", Tracker \notin Shipped
        PROVE  Tracker \notin DOMAIN baseline' /\ \A p \in Captured : onDisk[p] # "generated"
    <3>1. UnaskedInv
      BY DEF BaselineInv
    <3>2. onDisk[Tracker] = "none"
      BY <1>1, <2>1, <3>1, ContentKinds, PathKinds DEF UnaskedInv, Has
    <3> QED
      BY <1>1, <1>2, <2>1, <3>1, <3>2, PathKinds DEF UnaskedInv, Has
  <2> QED
    BY <1>1, <1>2, <2>1, PathKinds DEF BaselineInv, UnaskedInv, Has
<1>7. AgentEditsKept'
  BY <1>1, PathKinds DEF AgentEditsKept
<1>8. PristineIsClean'
  <2>1. (DOMAIN Lookalikes = {} /\ BaselineParts /\ GeneratedIsRecorded /\ ~Early
           => PristineIsClean)'
    BY UpIsClean, PTL
  <2> QED
    BY <1>1, <1>3, <1>4, <1>5, <1>6, <2>1 DEF BaselineParts, CoveredInv
<1> QED
  BY <1>3, <1>4, <1>5, <1>6, <1>7, <1>8 DEF BaselineInv

-----------------------------------------------------------------------------
\* The agent: what stays as it is while the guest is up.
LEMMA UpKeeps ==
  ASSUME life = "up", life' = "up", UNCHANGED <<snapshot, baseline>>, history \subseteq history'
  PROVE  /\ ~Early /\ ~Early' /\ UntouchedInv' /\ SettledInv' /\ ResetInv'
         /\ HasBaseline' = HasBaseline
BY DEF Early, UntouchedInv, SettledInv, ResetInv, HasBaseline

\* No content comes from elsewhere than the same path, but edits.
LEMMA ShufflesKeep ==
  ASSUME BaselineInv, life = "up", life' = "up", UNCHANGED <<snapshot, baseline>>,
         history \subseteq history',
         \A c \in {"base", "export", "generated"}, p \in Paths :
           Has(c, p)' => Has(c, p) \/ (p \in DOMAIN baseline /\ baseline[p] = c)
  PROVE  PlacedInv' /\ CoveredInv' /\ BareInv' /\ UnaskedInv'
<1>1. ~Early /\ ~Early' /\ HasBaseline' = HasBaseline
  BY UpKeeps
<1>2. \A p \in DOMAIN baseline : p \in Captured
  BY DEF BaselineInv, BaselineTypeOK
<1>3. PlacedInv'
  <2>1. PlacedInv
    BY DEF BaselineInv
  <2>2. ASSUME NEW p \in Paths
        PROVE  /\ Has("export", p)' => p = Tracker /\ snapshot' = "export"
               /\ Has("generated", p)' => p \in Baselines \cup {GateLock, ServerConfig}
    <3>1. Has("export", p)' => p = Tracker /\ snapshot' = "export"
      BY <2>1 DEF PlacedInv
    <3>2. Has("generated", p)' => p \in Baselines \cup {GateLock, ServerConfig}
      BY <2>1 DEF PlacedInv
    <3> QED
      BY <3>1, <3>2
  <2>3. ASSUME NEW p \in {GateLock, ServerConfig}, Has("generated", p)'
        PROVE  ~Has("base", p)'
    <3>1. p \in Paths \ Captured
      BY PathKinds
    <3>2. Has("generated", p)
      BY <1>2, <2>3, <3>1
    <3>3. ~Has("base", p)
      BY <2>1, <3>2 DEF PlacedInv
    <3> QED
      BY <1>2, <3>1, <3>3
  <2>4. \A p \in DOMAIN baseline' :
          /\ baseline'[p] = "export" => p = Tracker /\ snapshot' = "export"
          /\ baseline'[p] = "generated" => p \in Baselines
    BY <2>1 DEF PlacedInv
  <2> QED
    BY <2>2, <2>3, <2>4 DEF PlacedInv
<1>4. CoveredInv'
  <2>1. GeneratedIsRecorded
    BY DEF BaselineInv, CoveredInv
  <2>2. ASSUME HasBaseline, NEW p \in Captured, Has("generated", p)'
        PROVE  p \in DOMAIN baseline /\ baseline[p] = "generated"
    BY <2>1, <2>2, PathKinds DEF GeneratedIsRecorded
  <2> QED
    BY <1>1, <2>2 DEF CoveredInv, GeneratedIsRecorded
<1>5. BareInv'
  <2>1. SUFFICES ASSUME ~HasBaseline, NEW c \in {"base", "export", "generated"}
                 PROVE  ~Has(c, Tracker)'
    BY <1>1 DEF BareInv
  <2>2. ~Has(c, Tracker) /\ DOMAIN baseline = {}
    BY <1>1, <2>1 DEF BaselineInv, BareInv, HasBaseline
  <2> QED
    BY <2>2, PathKinds
<1>6. UnaskedInv'
  <2>1. ASSUME snapshot = "none", Tracker \notin Shipped, history' = {}
        PROVE  /\ \A p \in Paths : ~Has("generated", p)'
               /\ \A c \in {"base", "export", "generated"} : ~Has(c, Tracker)'
               /\ \A p \in DOMAIN baseline : baseline[p] # "generated"
               /\ Tracker \in DOMAIN baseline => baseline[Tracker] \in Edits
    <3>1. /\ \A p \in Paths : ~Has("generated", p)
          /\ \A p \in DOMAIN baseline : baseline[p] # "generated"
          /\ \A c \in {"base", "export", "generated"} : ~Has(c, Tracker)
          /\ Tracker \in DOMAIN baseline => baseline[Tracker] \in Edits
      BY <2>1 DEF BaselineInv, UnaskedInv
    <3> QED
      BY <3>1, PathKinds, ContentKinds
  <2> QED
    BY <2>1 DEF UnaskedInv
<1> QED
  BY <1>3, <1>4, <1>5, <1>6

\* While the guest is up, the rest of the invariant makes a pristine one clean.
LEMMA UpStaysClean ==
  ASSUME DOMAIN Lookalikes = {}, BaselineParts', life' = "up"
  PROVE  PristineIsClean'
<1>1. (DOMAIN Lookalikes = {} /\ BaselineParts /\ GeneratedIsRecorded /\ ~Early
         => PristineIsClean)'
  BY UpIsClean, PTL
<1> QED
  BY <1>1 DEF BaselineParts, CoveredInv, Early

LEMMA AgentWritesKeeps ==
  ASSUME DOMAIN Lookalikes = {}, BaselineInv, BaselineTypeOK',
         NEW p \in Paths, AgentWrites(p)
  PROVE  BaselineInv'
<1>1. PICK e \in Edits \ ({onDisk[q] : q \in Paths} \cup {staged[q] : q \in Paths}
                           \cup {h[2] : h \in history}) :
        onDisk' = [onDisk EXCEPT ![p] = e] /\ mine' = [mine EXCEPT ![p] = e]
  BY DEF AgentWrites
<1>2. /\ life = "up" /\ life' = "up"
      /\ UNCHANGED <<committed, staged, snapshot, baseline, history>>
  BY DEF AgentWrites, AgentStep
<1>3. /\ onDisk'[p] = e /\ mine'[p] = e /\ e \in Edits
      /\ \A q \in Paths \ {p} : onDisk'[q] = onDisk[q] /\ mine'[q] = mine[q]
  BY <1>1 DEF BaselineInv, BaselineTypeOK
<1>4. \A q \in DOMAIN baseline : baseline[q] # e /\ q \in Paths
  <2>1. \A h \in history : h[2] # e
    BY <1>1
  <2>2. \A q \in DOMAIN baseline : baseline[q] \in Edits => <<q, baseline[q]>> \in history
    BY DEF BaselineInv, RecordedInv
  <2>3. \A q \in DOMAIN baseline : baseline[q] \in Edits => <<q, baseline[q]>>[2] # e
    BY <2>1, <2>2
  <2> QED
    BY <1>3, <2>3, PathKinds DEF BaselineInv, BaselineTypeOK
<1>5. UntouchedInv' /\ SettledInv' /\ ResetInv' /\ HasBaseline' = HasBaseline
  BY <1>2, UpKeeps
<1>6. RecordedInv'
  BY <1>2 DEF BaselineInv, RecordedInv
<1>7. ShownInv'
  BY <1>2, <1>3, <1>4 DEF BaselineInv, ShownInv
<1>8. PlacedInv' /\ CoveredInv' /\ BareInv' /\ UnaskedInv'
  <2>1. \A c \in {"base", "export", "generated"}, q \in Paths : Has(c, q)' => Has(c, q)
    BY <1>2, <1>3, ContentKinds DEF Has
  <2> QED
    BY <1>2, <2>1, ShufflesKeep
<1>9. AgentEditsKept'
  BY <1>2, <1>3, <1>5, PathKinds DEF BaselineInv, AgentEditsKept
<1>10. BaselineParts'
  BY <1>5, <1>6, <1>7, <1>8 DEF BaselineParts
<1> QED
  BY <1>2, <1>9, <1>10, UpStaysClean DEF BaselineParts, BaselineInv

LEMMA AgentTakesBackKeeps ==
  ASSUME DOMAIN Lookalikes = {}, BaselineInv, BaselineTypeOK',
         NEW p \in Paths, AgentTakesBack(p)
  PROVE  BaselineInv'
<1>1. PICK c \in {"none", committed[p]} \cup {baseline[q] : q \in DOMAIN baseline \cap {p}} :
        onDisk' = [onDisk EXCEPT ![p] = c]
  BY DEF AgentTakesBack
<1>2. /\ life = "up" /\ life' = "up" /\ onDisk' # onDisk
      /\ UNCHANGED <<committed, staged, snapshot, baseline, history>>
      /\ mine' = [mine EXCEPT ![p] = IF onDisk'[p] = @ THEN @ ELSE "none"]
  BY DEF AgentTakesBack, AgentStep
<1>3. /\ onDisk'[p] = c /\ c # onDisk[p]
      /\ \A q \in Paths \ {p} : onDisk'[q] = onDisk[q] /\ mine'[q] = mine[q]
      /\ c = mine[p] => mine'[p] = mine[p]
      /\ c # mine[p] => mine'[p] = "none"
  BY <1>1, <1>2 DEF BaselineInv, BaselineTypeOK
<1>4. \A q \in DOMAIN baseline : q \in Paths
  BY PathKinds DEF BaselineInv, BaselineTypeOK
<1>5. UntouchedInv' /\ SettledInv' /\ ResetInv' /\ HasBaseline' = HasBaseline
  BY <1>2, UpKeeps
<1>6. RecordedInv'
  BY <1>2 DEF BaselineInv, RecordedInv
<1>7. ShownInv'
  BY <1>2, <1>3, <1>4, ContentKinds DEF BaselineInv, ShownInv
<1>8. PlacedInv' /\ CoveredInv' /\ BareInv' /\ UnaskedInv'
  <2>1. \A d \in {"base", "export", "generated"}, q \in Paths :
          Has(d, q)' => Has(d, q) \/ (q \in DOMAIN baseline /\ baseline[q] = d)
    BY <1>1, <1>2, <1>3 DEF Has
  <2> QED
    BY <1>2, <2>1, ShufflesKeep
<1>9. AgentEditsKept'
  BY <1>2, <1>3, <1>5, PathKinds DEF BaselineInv, AgentEditsKept
<1>10. BaselineParts'
  BY <1>5, <1>6, <1>7, <1>8 DEF BaselineParts
<1> QED
  BY <1>2, <1>9, <1>10, UpStaysClean DEF BaselineParts, BaselineInv

LEMMA AgentStagesKeeps ==
  ASSUME DOMAIN Lookalikes = {}, BaselineInv, BaselineTypeOK',
         NEW p \in Paths, AgentStages(p)
  PROVE  BaselineInv'
<1>1. /\ life = "up" /\ life' = "up"
      /\ UNCHANGED <<committed, onDisk, snapshot, baseline, history, mine>>
      /\ staged' = [staged EXCEPT ![p] = onDisk[p]]
  BY DEF AgentStages, AgentStep
<1>2. /\ staged'[p] = onDisk[p] /\ \A q \in Paths \ {p} : staged'[q] = staged[q]
      /\ \A q \in DOMAIN baseline : q \in Paths
  BY <1>1, PathKinds DEF BaselineInv, BaselineTypeOK
<1>5. UntouchedInv' /\ SettledInv' /\ ResetInv' /\ HasBaseline' = HasBaseline
  BY <1>1, UpKeeps
<1>6. RecordedInv'
  BY <1>1 DEF BaselineInv, RecordedInv
<1>7. ShownInv'
  BY <1>1, <1>2 DEF BaselineInv, ShownInv
<1>8. PlacedInv' /\ CoveredInv' /\ BareInv' /\ UnaskedInv'
  <2>1. \A d \in {"base", "export", "generated"}, q \in Paths : Has(d, q)' => Has(d, q)
    BY <1>1, <1>2 DEF Has
  <2> QED
    BY <1>1, <2>1, ShufflesKeep
<1>9. AgentEditsKept'
  BY <1>1, <1>5 DEF BaselineInv, AgentEditsKept
<1>10. BaselineParts'
  BY <1>5, <1>6, <1>7, <1>8 DEF BaselineParts
<1> QED
  BY <1>1, <1>9, <1>10, UpStaysClean DEF BaselineParts, BaselineInv

\* A commit has what it commits in the history.
LEMMA CommitsAreRecorded ==
  ASSUME RecordedInv, NEW checkout, Commits(checkout), UNCHANGED baseline
  PROVE  /\ RecordedInv' /\ committed' = checkout /\ staged' = checkout
         /\ history \subseteq history'
<1>1. /\ committed' = checkout /\ staged' = checkout
      /\ history' = history \cup {<<p, checkout[p]>> : p \in {q \in Paths : checkout[q] \in Edits}}
  BY DEF Commits
<1> QED
  BY <1>1 DEF RecordedInv

LEMMA AgentCommitsKeeps ==
  ASSUME DOMAIN Lookalikes = {}, BaselineInv, BaselineTypeOK', AgentCommits
  PROVE  BaselineInv'
<1>1. /\ life = "up" /\ life' = "up" /\ Commits(staged) /\ RecordedInv
      /\ UNCHANGED <<onDisk, snapshot, baseline, mine>>
  BY DEF AgentCommits, AgentStep, BaselineInv
<1>2. /\ RecordedInv' /\ committed' = staged /\ staged' = staged /\ history \subseteq history'
  BY <1>1, CommitsAreRecorded
<1>3. \A q \in DOMAIN baseline : q \in Paths
  BY PathKinds DEF BaselineInv, BaselineTypeOK
<1>5. UntouchedInv' /\ SettledInv' /\ ResetInv' /\ HasBaseline' = HasBaseline
  BY <1>1, <1>2, UpKeeps
<1>7. ShownInv'
  BY <1>1, <1>2 DEF BaselineInv, ShownInv
<1>8. PlacedInv' /\ CoveredInv' /\ BareInv' /\ UnaskedInv'
  <2>1. \A d \in {"base", "export", "generated"}, q \in Paths : Has(d, q)' => Has(d, q)
    BY <1>1, <1>2 DEF Has
  <2> QED
    BY <1>1, <1>2, <2>1, ShufflesKeep
<1>9. AgentEditsKept'
  BY <1>1, <1>2, <1>5 DEF BaselineInv, AgentEditsKept
<1>10. BaselineParts'
  BY <1>2, <1>5, <1>7, <1>8 DEF BaselineParts
<1> QED
  BY <1>1, <1>9, <1>10, UpStaysClean DEF BaselineParts, BaselineInv

-----------------------------------------------------------------------------
\* Steps that touch neither files nor records.
LEMMA QuietKeeps ==
  ASSUME BaselineInv, BaselineTypeOK',
         UNCHANGED <<committed, staged, onDisk, snapshot, baseline, history, mine>>,
         \/ life' = life
         \/ /\ ~Early /\ life # "up" /\ life' \in {"recheck", "clearing", "unready"}
            /\ life' # "unready" => Uncommitted = {}
  PROVE  BaselineInv'
<1>1. /\ Uncommitted' = Uncommitted /\ HasBaseline' = HasBaseline
      /\ ForeignServer' = ForeignServer
      /\ \A c, p : Has(c, p)' = Has(c, p)
  BY SameChanges DEF Has
<1>2. UntouchedInv' /\ SettledInv' /\ ResetInv'
  <2>1. UntouchedInv'
    BY DEF BaselineInv, UntouchedInv, Early
  <2>2. SettledInv'
    BY <1>1 DEF BaselineInv, SettledInv, Early, Uncommitted
  <2>3. ResetInv'
    BY DEF BaselineInv, ResetInv
  <2> QED
    BY <2>1, <2>2, <2>3
<1>3. PlacedInv' /\ RecordedInv' /\ ShownInv' /\ CoveredInv'
  <2>1. PlacedInv' /\ RecordedInv'
    BY <1>1 DEF BaselineInv, PlacedInv, RecordedInv
  <2>2. ShownInv' /\ CoveredInv'
    BY <1>1 DEF BaselineInv, ShownInv, CoveredInv, GeneratedIsRecorded
  <2> QED
    BY <2>1, <2>2
<1>4. BareInv' /\ UnaskedInv'
  <2>1. BareInv'
    BY <1>1 DEF BaselineInv, BareInv, Early
  <2>2. UnaskedInv'
    BY <1>1 DEF BaselineInv, UnaskedInv
  <2> QED
    BY <2>1, <2>2
<1>5. AgentEditsKept'
  BY <1>1 DEF BaselineInv, AgentEditsKept
<1>6. PristineIsClean'
  BY <1>1 DEF BaselineInv, PristineIsClean
<1> QED
  BY <1>2, <1>3, <1>4, <1>5, <1>6 DEF BaselineInv

\* The guest is stopped.
LEMMA StopsKeep ==
  ASSUME DOMAIN Lookalikes = {}, BaselineInv, BaselineTypeOK',
         NEW then \in {"stopped", "clearing"}, StopsGuest(then),
         then = "clearing" => Uncommitted = {}
  PROVE  BaselineInv'
<1>1. /\ life = "up" /\ life' = then /\ ~Early /\ ~Early' /\ staged' = committed
      /\ UNCHANGED <<committed, onDisk, snapshot, baseline, history, mine>>
      /\ HasBaseline' = HasBaseline
  BY DEF StopsGuest, Early, HasBaseline
<1>2. \A c, p : Has(c, p)' => Has(c, p)
  BY <1>1 DEF Has
<1>3. \A q \in DOMAIN baseline : q \in Paths
  BY PathKinds DEF BaselineInv, BaselineTypeOK
<1>4. UntouchedInv' /\ SettledInv' /\ ResetInv' /\ RecordedInv' /\ CoveredInv'
  <2>1. UntouchedInv' /\ ResetInv' /\ CoveredInv'
    BY <1>1 DEF UntouchedInv, ResetInv, CoveredInv
  <2>2. RecordedInv'
    BY <1>1 DEF BaselineInv, RecordedInv
  <2>3. ASSUME then = "clearing", ForeignServer'
        PROVE  FALSE
    <3>1. /\ HasBaseline /\ Untracked(ServerConfig)' /\ ~ServerGenerated'
          /\ ServerConfig \in Caches /\ onDisk[ServerConfig] # "none"
          /\ committed[ServerConfig] = "none"
      BY <1>1, <2>3 DEF ForeignServer, IgnoredFile, Untracked
    <3>2. onDisk[ServerConfig] # "generated"
      BY <1>1, <3>1 DEF ServerGenerated
    <3>3. CASE staged[ServerConfig] = "none"
      <4>1. ForeignServer
        BY <3>1, <3>2, <3>3 DEF ForeignServer, IgnoredFile, Untracked, ServerGenerated
      <4> QED
        BY <2>3, <4>1 DEF Uncommitted
    <3>4. CASE staged[ServerConfig] # "none"
      <4>1. Listed(ServerConfig) /\ ServerConfig \in Paths
        BY <3>1, <3>4, PathKinds DEF Listed, Untracked, StagedChange
      <4>2. ServerConfig \notin DOMAIN baseline /\ ServerConfig # Tracker
        BY PathKinds DEF BaselineInv, BaselineTypeOK
      <4>3. ~Hidden(ServerConfig)
        BY <3>4, <4>1, <4>2, PathKinds, HiddenIs
           DEF BaselineUnchanged, ServerGenerated, Untracked
      <4> QED
        BY <2>3, <4>1, <4>3 DEF Uncommitted
    <3> QED
      BY <3>3, <3>4
  <2>4. SettledInv'
    BY <1>1, <2>3 DEF SettledInv
  <2> QED
    BY <2>1, <2>2, <2>4
<1>5. PlacedInv'
  BY <1>1, <1>2 DEF BaselineInv, PlacedInv
<1>6. ShownInv'
  BY <1>1 DEF BaselineInv, ShownInv
<1>7. BareInv' /\ UnaskedInv'
  <2>1. BareInv'
    BY <1>1, <1>2 DEF BaselineInv, BareInv
  <2>2. UnaskedInv'
    BY <1>1, <1>2 DEF BaselineInv, UnaskedInv
  <2> QED
    BY <2>1, <2>2
<1>8. AgentEditsKept'
  BY <1>1 DEF BaselineInv, AgentEditsKept
<1>9. GeneratedIsRecorded'
  BY <1>1, <1>2 DEF BaselineInv, CoveredInv, GeneratedIsRecorded
<1>10. BaselineParts'
  BY <1>4, <1>5, <1>6, <1>7 DEF BaselineParts
<1>11. PristineIsClean'
  <2>1. (DOMAIN Lookalikes = {} /\ BaselineParts /\ GeneratedIsRecorded /\ ~Early
           => PristineIsClean)'
    BY UpIsClean, PTL
  <2> QED
    BY <1>1, <1>9, <1>10, <2>1
<1> QED
  BY <1>8, <1>10, <1>11 DEF BaselineParts, BaselineInv

\* A checkpoint leaves out what is hidden, and that stays hidden.
LEMMA CheckpointKeeps ==
  ASSUME DOMAIN Lookalikes = {}, BaselineInv, BaselineTypeOK', CheckpointWorktree
  PROVE  BaselineInv'
<1> DEFINE checkout == [p \in Paths |-> IF p \in ExcludedPaths \/ IgnoredFile(p)
                                    THEN committed[p] ELSE onDisk[p]]
<1>1. /\ life \in {"stopped", "unready"} /\ life' = "recheck" /\ ~Early /\ ~Early'
      /\ ~ForeignServer /\ Commits(checkout) /\ staged = committed
      /\ UNCHANGED <<onDisk, snapshot, baseline, mine>>
      /\ HasBaseline' = HasBaseline
  BY DEF CheckpointWorktree, Stopped, Early, HasBaseline, BaselineInv, SettledInv
<1>2. \A p \in Paths : \/ checkout[p] = onDisk[p]
                       \/ checkout[p] = committed[p] /\ (p \in ExcludedPaths \/ IgnoredFile(p))
  OBVIOUS
<1> HIDE DEF checkout
<1>3. RecordedInv' /\ committed' = checkout /\ staged' = checkout /\ history \subseteq history'
  BY <1>1, CommitsAreRecorded DEF BaselineInv
<1>4. \A c, p : p \in Paths /\ Has(c, p)' => Has(c, p)
  BY <1>1, <1>2, <1>3 DEF Has
<1>5. UntouchedInv' /\ SettledInv' /\ ResetInv' /\ CoveredInv'
  BY <1>1, <1>3 DEF UntouchedInv, SettledInv, ResetInv, CoveredInv
<1>6. PlacedInv'
  BY <1>1, <1>4, PathKinds DEF BaselineInv, PlacedInv
<1>7. ShownInv'
  <2>1. \A q \in DOMAIN baseline : q \in Paths
    BY PathKinds DEF BaselineInv, BaselineTypeOK
  <2> QED
    BY <1>1, <1>2, <1>3, <2>1 DEF BaselineInv, ShownInv
<1>8. BareInv' /\ UnaskedInv'
  <2>1. BareInv'
    BY <1>1, <1>4, PathKinds DEF BaselineInv, BareInv
  <2>2. UnaskedInv'
    BY <1>1, <1>3, <1>4, PathKinds DEF BaselineInv, UnaskedInv
  <2> QED
    BY <2>1, <2>2
<1>9. AgentEditsKept'
  BY <1>1, <1>3 DEF BaselineInv, AgentEditsKept
<1>10. PristineIsClean'
  <2> SUFFICES ASSUME checkout = Base, Pristine
               PROVE  Uncommitted' = {}
    BY <1>1, <1>3 DEF PristineIsClean, Pristine
  <2>1. \A p \in Paths : ~StagedChange(p)' /\ (Untracked(p)' <=> Base[p] = "none")
    BY <1>3 DEF StagedChange, Untracked
  <2>2. LockIsEmpty' <=> LockIsEmpty
    BY <1>1 DEF LockIsEmpty
  <2>3. ASSUME NEW p \in Paths, Listed(p)'
        PROVE  Hidden(p)'
    <3>1. onDisk[p] # checkout[p] /\ onDisk[p] \in {"export", "generated"}
      BY <1>1, <1>3, <2>1, <2>3, ContentKinds DEF Listed, Pristine
    <3>2. checkout[p] = committed[p] /\ (p \in ExcludedPaths \/ IgnoredFile(p))
      BY <1>2, <3>1
    <3>3. DOMAIN Lookalikes = {} /\ EndsLike(p)' = {p}
      BY DEF EndsLike
    <3>4. CASE p = Tracker /\ SnapshotUnchanged
      <4>1. HasBaseline' /\ SnapshotUnchanged'
        BY <1>1, <2>1, <3>4 DEF SnapshotUnchanged, HasBaseline
      <4> QED
        BY <3>3, <3>4, <4>1 DEF Hidden
    <3>5. CASE p \in DOMAIN baseline /\ BaselineUnchanged(p)
      <4>1. HasBaseline' /\ BaselineUnchanged(p)'
        BY <1>1, <2>1, <3>5 DEF BaselineUnchanged, HasBaseline
      <4> QED
        BY <3>3, <4>1 DEF Hidden
    <3>6. CASE p = GateLock /\ HasBaseline
      <4>1. onDisk[GateLock] # "export"
        BY PathKinds DEF BaselineInv, PlacedInv, Has
      <4>2. HasBaseline' /\ LockIsEmpty'
        BY <1>1, <3>1, <3>6, <4>1 DEF LockIsEmpty
      <4> QED
        BY <3>3, <3>6, <4>2 DEF Hidden
    <3>7. CASE p = ServerConfig /\ ServerGenerated
      <4>1. HasBaseline' /\ Untracked(p)' /\ onDisk'[ServerConfig] = "generated"
        BY <1>1, <1>3, <3>2, <3>7 DEF ServerGenerated, Untracked
      <4> QED
        BY <3>3, <3>7, <4>1 DEF Hidden, ServerGenerated
    <3>8. CASE IgnoredFile(p)
      <4>1. Untracked(p)' /\ p \in Caches
        BY <1>3, <3>2, <3>8 DEF IgnoredFile, Untracked
      <4> QED
        BY <2>3, <4>1 DEF Listed
    <3> QED
      BY <3>2, <3>4, <3>5, <3>6, <3>7, <3>8 DEF ExcludedPaths
  <2>4. ~ForeignServer'
    <3>1. SUFFICES ASSUME HasBaseline', IgnoredFile(ServerConfig)'
                   PROVE  ServerGenerated'
      BY DEF ForeignServer
    <3>2. Untracked(ServerConfig)' /\ onDisk[ServerConfig] # "none"
      BY <1>1, <3>1 DEF IgnoredFile
    <3>3. onDisk[ServerConfig] = "generated"
      <4>1. onDisk[ServerConfig] # "export"
        BY PathKinds DEF BaselineInv, PlacedInv, Has
      <4>2. onDisk[ServerConfig] \in {Base[ServerConfig], "export", "generated"}
        BY PathKinds DEF Pristine
      <4> QED
        BY <2>1, <3>2, <4>1, <4>2, PathKinds
    <3> QED
      BY <1>1, <3>1, <3>2, <3>3 DEF ServerGenerated
  <2> QED
    BY <2>3, <2>4 DEF Uncommitted
<1> QED
  BY <1>3, <1>5, <1>6, <1>7, <1>8, <1>9, <1>10 DEF BaselineInv

-----------------------------------------------------------------------------
\* Before a reset nothing is left that only the files have.
LEMMA NothingIsLost ==
  ASSUME DOMAIN Lookalikes = {}, BaselineInv, Uncommitted = {},
         NEW p \in (Paths \ Caches) \cup {q \in {ServerConfig} : HasBaseline}
  PROVE  mine[p] = "none" \/ <<p, mine[p]>> \in history
<1> SUFFICES ASSUME mine[p] # "none", <<p, mine[p]>> \notin history
             PROVE  FALSE
  OBVIOUS
<1>1. onDisk[p] = mine[p]
  BY DEF BaselineInv, AgentEditsKept
<1>2. mine[p] \in Edits
  BY PathKinds DEF BaselineInv, BaselineTypeOK
<1> QED
  BY <1>1, <1>2, LostIsShown DEF BaselineInv

LEMMA PrepareKeeps ==
  ASSUME DOMAIN Lookalikes = {}, BaselineInv, BaselineTypeOK', PrepareRetained
  PROVE  BaselineInv'
<1>1. /\ life = "recheck" /\ ~Early /\ ~Early' /\ staged' = committed /\ staged = committed
      /\ UNCHANGED <<committed, snapshot, baseline, history, mine>>
      /\ HasBaseline' = HasBaseline
      /\ life' \in {"reset", "stopped"}
  BY DEF PrepareRetained, Early, HasBaseline, BaselineInv, SettledInv
<1>2. CASE Uncommitted # {}
  <2>1. onDisk' = onDisk /\ life' = "stopped"
    BY <1>2 DEF PrepareRetained
  <2>2. UNCHANGED <<committed, staged, onDisk, snapshot, baseline>>
    BY <1>1, <2>1
  <2>3. Uncommitted' = Uncommitted /\ \A c, p : Has(c, p)' = Has(c, p)
    BY <2>2, SameChanges DEF Has
  <2>4. UntouchedInv' /\ SettledInv' /\ ResetInv' /\ CoveredInv'
    BY <1>1, <2>1 DEF UntouchedInv, SettledInv, ResetInv, CoveredInv
  <2>5. PlacedInv' /\ RecordedInv' /\ ShownInv'
    <3>1. PlacedInv' /\ RecordedInv'
      BY <1>1, <2>3 DEF BaselineInv, PlacedInv, RecordedInv
    <3>2. ShownInv'
      BY <1>1, <2>1, <2>2 DEF BaselineInv, ShownInv
    <3> QED
      BY <3>1, <3>2
  <2>6. BareInv' /\ UnaskedInv'
    <3>1. BareInv'
      BY <1>1, <2>3 DEF BaselineInv, BareInv
    <3>2. UnaskedInv'
      BY <1>1, <2>3 DEF BaselineInv, UnaskedInv
    <3> QED
      BY <3>1, <3>2
  <2>7. AgentEditsKept'
    BY <1>1, <2>1 DEF BaselineInv, AgentEditsKept
  <2>8. PristineIsClean'
    BY <1>1, <2>1, <2>2, <2>3 DEF BaselineInv, PristineIsClean
  <2> QED
    BY <2>4, <2>5, <2>6, <2>7, <2>8 DEF BaselineInv
<1>3. CASE Uncommitted = {}
  <2>1. /\ life' = "reset"
        /\ onDisk' = [p \in Paths |-> IF Untracked(p) THEN onDisk[p] ELSE committed[p]]
    BY <1>3 DEF PrepareRetained
  <2>2. \A p \in Paths : \/ onDisk'[p] = committed[p]
                         \/ onDisk'[p] = onDisk[p] /\ committed[p] = "none"
    BY <2>1 DEF Untracked
  <2>3. \A c, p : p \in Paths /\ Has(c, p)' => Has(c, p)
    BY <1>1, <2>2 DEF Has
  <2>4. UntouchedInv' /\ SettledInv' /\ CoveredInv' /\ PristineIsClean'
    BY <1>1, <2>1 DEF UntouchedInv, SettledInv, CoveredInv, PristineIsClean
  <2>5. PlacedInv'
    BY <1>1, <2>3, PathKinds DEF BaselineInv, PlacedInv
  <2>6. RecordedInv'
    BY <1>1 DEF BaselineInv, RecordedInv
  <2>7. ShownInv'
    <3>1. \A q \in DOMAIN baseline : q \in Paths
      BY PathKinds DEF BaselineInv, BaselineTypeOK
    <3> QED
      BY <1>1, <2>1, <2>2, <3>1 DEF BaselineInv, ShownInv
  <2>8. BareInv' /\ UnaskedInv'
    <3>1. BareInv'
      BY <1>1, <2>3, PathKinds DEF BaselineInv, BareInv
    <3>2. UnaskedInv'
      BY <1>1, <2>3, PathKinds DEF BaselineInv, UnaskedInv
    <3> QED
      BY <3>1, <3>2
  <2>9. AgentEditsKept'
    <3>1. \A p \in (Paths \ Caches) \cup {q \in {ServerConfig} : HasBaseline} :
            mine[p] = "none" \/ <<p, mine[p]>> \in history
      BY <1>3, NothingIsLost
    <3> QED
      BY <1>1, <3>1 DEF AgentEditsKept
  <2>10. ResetInv'
    <3>1. SUFFICES ASSUME NEW p \in Captured
          PROVE  /\ onDisk'[p] \in Edits =>
                      /\ <<p, onDisk'[p]>> \in history
                      /\ onDisk'[p] = mine[p] => committed[p] = onDisk'[p]
                 /\ committed[p] # "none" => onDisk'[p] # "none"
                 /\ committed[p] = "generated" => onDisk'[p] = "generated"
      BY <1>1 DEF ResetInv
    <3>2. p \in Paths \ Caches
      BY PathKinds
    <3>3. CASE onDisk'[p] = committed[p]
      BY <3>2, <3>3 DEF BaselineInv, RecordedInv
    <3>4. CASE onDisk'[p] = onDisk[p] /\ committed[p] = "none"
      <4>1. ASSUME onDisk[p] \in Edits
            PROVE  <<p, onDisk[p]>> \in history
        BY <1>3, <3>2, <4>1, LostIsShown DEF BaselineInv
      <4>2. ASSUME onDisk[p] \in Edits, onDisk[p] = mine[p]
            PROVE  FALSE
        <5>1. onDisk[p] # "none" /\ onDisk[p] # "export"
          BY <4>2, ContentKinds
        <5>2. Listed(p)
          BY <1>1, <3>2, <3>4, <5>1 DEF Listed, Untracked, StagedChange
        <5>3. Hidden(p)
          BY <1>3, <3>2, <5>2 DEF Uncommitted
        <5>4. ~(p = Tracker /\ SnapshotUnchanged)
          BY <5>1 DEF SnapshotUnchanged, BaselineInv, BaselineTypeOK
        <5>5. BaselineUnchanged(p)
          BY <3>2, <5>3, <5>4, HiddenIs, PathKinds
        <5>6. committed[p] = mine[p]
          BY <4>2, <5>5 DEF BaselineUnchanged, BaselineInv, ShownInv
        <5> QED
          BY <3>4, <4>2, <5>1, <5>6
      <4> QED
        BY <3>4, <4>1, <4>2, ContentKinds
    <3> QED
      BY <2>2, <3>2, <3>3, <3>4
  <2> QED
    BY <2>4, <2>5, <2>6, <2>7, <2>8, <2>9, <2>10 DEF BaselineInv
<1> QED
  BY <1>2, <1>3

LEMMA RebootKeeps ==
  ASSUME DOMAIN Lookalikes = {}, BaselineInv, BaselineTypeOK', RebootGuest
  PROVE  BaselineInv'
<1>1. /\ life = "reset" /\ life' = "rebooting" /\ ~Early /\ ~Early' /\ staged = committed
      /\ UNCHANGED <<committed, staged, snapshot, baseline, history, mine>>
      /\ HasBaseline' = HasBaseline
      /\ onDisk \in [Paths -> Content]
  BY DEF RebootGuest, Bootstraps, Early, HasBaseline, BaselineInv, SettledInv, BaselineTypeOK
<1>2. /\ \A p \in Paths : onDisk'[p] # onDisk[p] =>
              /\ onDisk'[p] = "generated" /\ onDisk[Tracker] # "none"
              /\ \/ p \in Baselines
                 \/ p \in {GateLock, ServerConfig} /\ Untracked(p) /\ onDisk[p] = "none"
      /\ onDisk'[Tracker] = onDisk[Tracker]
      /\ \A p \in Paths : onDisk[p] # "none" => onDisk'[p] # "none"
      /\ \A p \in Paths : onDisk[p] = "generated" => onDisk'[p] = "generated"
  BY <1>1, BootstrapFiles DEF RebootGuest
<1>3. \A c, p : p \in Paths /\ Has(c, p)' /\ c # "generated" => Has(c, p)
  BY <1>1, <1>2 DEF Has
<1>4. UntouchedInv' /\ SettledInv' /\ CoveredInv' /\ PristineIsClean'
  BY <1>1 DEF UntouchedInv, SettledInv, CoveredInv, PristineIsClean, BaselineInv
<1>5. RecordedInv'
  BY <1>1 DEF BaselineInv, RecordedInv
<1>6. ResetInv'
  BY <1>1, <1>2, ContentKinds, PathKinds DEF BaselineInv, ResetInv
<1>7. PlacedInv'
  <2>1. PlacedInv
    BY DEF BaselineInv
  <2>2. ASSUME NEW p \in Paths
        PROVE  /\ Has("export", p)' => p = Tracker /\ snapshot' = "export"
               /\ Has("generated", p)' => p \in Baselines \cup {GateLock, ServerConfig}
    BY <1>1, <1>2, <1>3, <2>1 DEF PlacedInv, Has
  <2>3. ASSUME NEW p \in {GateLock, ServerConfig}, Has("generated", p)'
        PROVE  ~Has("base", p)'
    <3>1. p \in Paths /\ p \notin Baselines
      BY PathKinds
    <3>2. CASE Has("generated", p)
      BY <1>3, <2>1, <3>1, <3>2 DEF PlacedInv
    <3>3. CASE ~Has("generated", p)
      <4>1. onDisk'[p] = "generated" /\ onDisk'[p] # onDisk[p]
        BY <1>1, <2>3, <3>3 DEF Has
      <4>2. Untracked(p)
        BY <1>2, <3>1, <4>1
      <4> QED
        BY <1>1, <4>1, <4>2 DEF Has, Untracked
    <3> QED
      BY <3>2, <3>3
  <2> QED
    BY <1>1, <2>1, <2>2, <2>3 DEF PlacedInv
<1>8. ShownInv'
  <2>1. \A q \in DOMAIN baseline : q \in Paths
    BY PathKinds DEF BaselineInv, BaselineTypeOK
  <2> QED
    BY <1>1, <1>2, <2>1, ContentKinds DEF BaselineInv, ShownInv
<1>9. BareInv'
  BY <1>1, <1>2 DEF BaselineInv, BareInv, Has
<1>10. UnaskedInv'
  <2>1. ASSUME snapshot = "none", Tracker \notin Shipped, history = {}
        PROVE  \A p \in Paths : onDisk'[p] = onDisk[p]
    <3>1. onDisk[Tracker] \notin {"base", "export", "generated"}
      BY <2>1 DEF BaselineInv, UnaskedInv, Has
    <3>2. onDisk[Tracker] \notin Edits
      BY <1>1, <2>1, PathKinds DEF BaselineInv, ResetInv
    <3>3. onDisk[Tracker] = "none"
      BY <1>1, <3>1, <3>2, PathKinds DEF Content
    <3> QED
      BY <1>2, <3>3
  <2> QED
    BY <1>1, <2>1, PathKinds DEF BaselineInv, UnaskedInv, Has
<1>11. AgentEditsKept'
  <2>1. ASSUME NEW p \in (Paths \ Caches) \cup {q \in {ServerConfig} : HasBaseline},
               onDisk'[p] # onDisk[p], mine[p] # "none"
        PROVE  <<p, mine[p]>> \in history
    <3>1. p \in Paths
      BY PathKinds
    <3>2. onDisk[p] = mine[p] \/ <<p, mine[p]>> \in history
      BY <2>1 DEF BaselineInv, AgentEditsKept
    <3>3. mine[p] \in Edits
      BY <2>1, <3>1 DEF BaselineInv, BaselineTypeOK
    <3>4. CASE p \in Baselines
      BY <1>1, <3>2, <3>3, <3>4, PathKinds DEF BaselineInv, ResetInv
    <3>5. CASE onDisk[p] = "none"
      BY <2>1, <3>2, <3>5
    <3> QED
      BY <1>2, <2>1, <3>1, <3>4, <3>5
  <2> QED
    BY <1>1, <2>1 DEF BaselineInv, AgentEditsKept
<1> QED
  BY <1>4, <1>5, <1>6, <1>7, <1>8, <1>9, <1>10, <1>11 DEF BaselineInv

LEMMA RefreshKeeps ==
  ASSUME DOMAIN Lookalikes = {}, BaselineInv, BaselineTypeOK', RefreshBaseline
  PROVE  BaselineInv'
<1>1. /\ life = "rebooting" /\ life' = "up" /\ ~Early /\ ~Early' /\ staged = committed
      /\ UNCHANGED <<committed, staged, onDisk, snapshot, history, mine>>
      /\ \A c, p : Has(c, p)' = Has(c, p)
  BY DEF RefreshBaseline, Early, BaselineInv, SettledInv, Has
<1>2. \A p \in DOMAIN baseline : p \in Captured
  BY DEF BaselineInv, BaselineTypeOK
<1>3. CASE ~HasBaseline
  <2>1. UNCHANGED baseline /\ DOMAIN baseline = {} /\ ~HasBaseline'
    BY <1>1, <1>3 DEF RefreshBaseline, HasBaseline
  <2>2. UntouchedInv' /\ SettledInv' /\ ResetInv' /\ CoveredInv' /\ ShownInv'
    BY <1>1, <2>1 DEF UntouchedInv, SettledInv, ResetInv, CoveredInv, GeneratedIsRecorded,
       ShownInv
  <2>3. PlacedInv' /\ RecordedInv'
    BY <1>1, <2>1 DEF BaselineInv, PlacedInv, RecordedInv
  <2>4. BareInv' /\ UnaskedInv'
    BY <1>1, <1>3, <2>1 DEF BaselineInv, BareInv, UnaskedInv
  <2>5. AgentEditsKept'
    BY <1>1, <1>3, <2>1 DEF BaselineInv, AgentEditsKept
  <2>6. BaselineParts'
    BY <2>2, <2>3, <2>4 DEF BaselineParts
  <2> QED
    BY <1>1, <2>5, <2>6, UpStaysClean DEF BaselineParts, BaselineInv
<1>4. CASE HasBaseline
  <2>1. /\ \A p \in DOMAIN baseline' : p \in Captured /\ baseline'[p] = onDisk[p]
        /\ \A p \in Captured : onDisk[p] # "none" <=> p \in DOMAIN baseline'
    BY <1>4, CaptureIs DEF RefreshBaseline
  <2>2. \A p \in Captured :
          /\ onDisk[p] \in Edits => /\ <<p, onDisk[p]>> \in history
                                    /\ onDisk[p] = mine[p] => committed[p] = onDisk[p]
          /\ committed[p] # "none" => onDisk[p] # "none"
          /\ committed[p] = "generated" => onDisk[p] = "generated"
    BY <1>1 DEF BaselineInv, ResetInv
  <2>3. UntouchedInv' /\ SettledInv' /\ ResetInv'
    BY <1>1 DEF UntouchedInv, SettledInv, ResetInv
  <2>4. RecordedInv'
    BY <1>1, <2>1, <2>2 DEF BaselineInv, RecordedInv
  <2>5. PlacedInv'
    <3>1. \A p \in DOMAIN baseline' : p \in Paths /\ Has(baseline'[p], p)
      BY <2>1, PathKinds DEF Has
    <3> QED
      BY <1>1, <2>1, <3>1, PathKinds DEF BaselineInv, PlacedInv
  <2>6. ShownInv'
    BY <1>1, <2>1, <2>2 DEF ShownInv
  <2>7. CoveredInv'
    <3>1. ASSUME NEW p \in Captured, Has("generated", p)
          PROVE  p \in DOMAIN baseline' /\ baseline'[p] = "generated"
      <4>1. onDisk[p] = "generated"
        BY <1>1, <2>2, <3>1 DEF Has
      <4> QED
        BY <2>1, <4>1
    <3> QED
      BY <1>1, <3>1 DEF CoveredInv, GeneratedIsRecorded
  <2>8. BareInv'
    <3>1. SUFFICES ASSUME ~HasBaseline', NEW c \in {"base", "export", "generated"}
                   PROVE  ~Has(c, Tracker)
      BY <1>1 DEF BareInv
    <3>2. Tracker \in Captured /\ onDisk[Tracker] = "none"
      BY <2>1, <3>1, PathKinds DEF HasBaseline
    <3> QED
      BY <1>1, <2>2, <3>2 DEF Has
  <2>9. UnaskedInv'
    <3>1. ASSUME snapshot = "none", Tracker \notin Shipped, history = {}
          PROVE  Tracker \notin DOMAIN baseline' /\ \A p \in Captured : onDisk[p] # "generated"
      <4>1. Tracker \in Captured /\ Captured \subseteq Paths
        BY PathKinds
      <4>2. onDisk[Tracker] \notin {"base", "export", "generated"}
        BY <3>1 DEF BaselineInv, UnaskedInv, Has
      <4>3. onDisk[Tracker] \notin Edits
        BY <2>2, <3>1, <4>1
      <4>4. onDisk[Tracker] = "none"
        BY <4>1, <4>2, <4>3 DEF Content, BaselineInv, BaselineTypeOK
      <4> QED
        BY <2>1, <3>1, <4>1, <4>4 DEF BaselineInv, UnaskedInv, Has
    <3> QED
      BY <1>1, <2>1, <3>1 DEF BaselineInv, UnaskedInv
  <2>10. AgentEditsKept'
    BY <1>1, <1>4 DEF BaselineInv, AgentEditsKept
  <2>11. BaselineParts'
    BY <2>3, <2>4, <2>5, <2>6, <2>7, <2>8, <2>9 DEF BaselineParts
  <2> QED
    BY <1>1, <2>10, <2>11, UpStaysClean DEF BaselineParts, BaselineInv
<1> QED
  BY <1>3, <1>4

LEMMA CleanWorktreeKeeps ==
  ASSUME DOMAIN Lookalikes = {}, BaselineInv, BaselineTypeOK', CleanWorktree
  PROVE  BaselineInv'
<1>1. /\ life = "clearing" /\ ~Early /\ ~Early' /\ staged = committed
      /\ life' \in {"gone", "stopped"}
      /\ UNCHANGED <<committed, staged, snapshot, baseline, history, mine>>
      /\ HasBaseline' = HasBaseline
      /\ onDisk \in [Paths -> Content]
  BY DEF CleanWorktree, Early, HasBaseline, BaselineInv, SettledInv, BaselineTypeOK
<1>2. \/ /\ life' = "gone" /\ onDisk' = [p \in Paths |-> "none"]
         /\ SafeForce \/ \A p \in Paths : ~Listed(p)
      \/ /\ life' = "stopped" /\ ~SafeForce /\ \E p \in Paths : Listed(p)
         /\ \A p \in Paths : \/ onDisk'[p] = onDisk[p]
                             \/ p = GateLock /\ LockIsEmpty /\ onDisk'[p] = "none"
  BY DEF CleanWorktree
<1>3. \A p \in Paths : onDisk'[p] = onDisk[p] \/ onDisk'[p] = "none"
  BY <1>2
<1>4. \A c, p : p \in Paths /\ Has(c, p)' /\ c # "none" => Has(c, p)
  BY <1>1, <1>3 DEF Has
<1>5. UntouchedInv' /\ SettledInv' /\ ResetInv' /\ CoveredInv'
  BY <1>1 DEF UntouchedInv, SettledInv, ResetInv, CoveredInv
<1>6. RecordedInv'
  BY <1>1 DEF BaselineInv, RecordedInv
<1>7. PlacedInv'
  BY <1>1, <1>4, PathKinds DEF BaselineInv, PlacedInv
<1>8. ShownInv'
  <2>1. \A q \in DOMAIN baseline : q \in Paths
    BY PathKinds DEF BaselineInv, BaselineTypeOK
  <2> QED
    BY <1>1, <1>3, <2>1, ContentKinds DEF BaselineInv, ShownInv
<1>9. BareInv' /\ UnaskedInv'
  <2>1. BareInv'
    BY <1>1, <1>4, PathKinds DEF BaselineInv, BareInv
  <2>2. UnaskedInv'
    BY <1>1, <1>4, PathKinds DEF BaselineInv, UnaskedInv
  <2> QED
    BY <2>1, <2>2
<1>10. CASE life' = "gone"
  <2>1. Uncommitted = {}
    <3>1. CASE SafeForce
      BY <3>1 DEF SafeForce
    <3>2. CASE \A p \in Paths : ~Listed(p)
      BY <1>1, <3>2 DEF Uncommitted, BaselineInv, SettledInv
    <3> QED
      BY <1>1, <1>2, <1>10, <3>1, <3>2
  <2>2. \A p \in (Paths \ Caches) \cup {q \in {ServerConfig} : HasBaseline} :
          mine[p] = "none" \/ <<p, mine[p]>> \in history
    BY <2>1, NothingIsLost
  <2>3. AgentEditsKept'
    BY <1>1, <2>2 DEF AgentEditsKept
  <2>4. PristineIsClean'
    BY <1>10 DEF PristineIsClean
  <2> QED
    BY <1>5, <1>6, <1>7, <1>8, <1>9, <2>3, <2>4 DEF BaselineInv
<1>11. CASE life' = "stopped"
  <2>1. Uncommitted # {}
    <3>1. ~SafeForce /\ \E p \in Paths : Listed(p)
      BY <1>2, <1>11
    <3> QED
      BY <3>1 DEF SafeForce
  <2>2. \A p \in Paths : onDisk'[p] # onDisk[p] =>
          p = GateLock /\ onDisk[p] = "generated" /\ onDisk'[p] = "none"
    BY <1>2, <1>11 DEF LockIsEmpty
  <2>3. AgentEditsKept'
    <3>1. ASSUME NEW p \in (Paths \ Caches) \cup {q \in {ServerConfig} : HasBaseline},
                 onDisk'[p] # onDisk[p], mine[p] # "none"
          PROVE  <<p, mine[p]>> \in history
      <4>1. p \in Paths /\ onDisk[p] = "generated"
        BY <2>2, <3>1, PathKinds
      <4>2. mine[p] # "generated"
        BY <3>1, <4>1, ContentKinds DEF BaselineInv, BaselineTypeOK
      <4> QED
        BY <3>1, <4>1, <4>2 DEF BaselineInv, AgentEditsKept
    <3> QED
      BY <1>1, <3>1 DEF BaselineInv, AgentEditsKept
  <2>4. PristineIsClean'
    <3>1. SUFFICES ASSUME committed = Base, HasBaseline \/ history = {},
                          \A p \in Paths : onDisk'[p] \in {Base[p], "export", "generated"}
                   PROVE  FALSE
      BY <1>1 DEF PristineIsClean
    <3>2. \A p \in Paths : onDisk[p] \in {Base[p], "export", "generated"}
      BY <2>2, <3>1
    <3>3. Uncommitted = {}
      BY <1>1, <3>1, <3>2 DEF BaselineInv, PristineIsClean
    <3> QED
      BY <2>1, <3>3
  <2> QED
    BY <1>5, <1>6, <1>7, <1>8, <1>9, <2>3, <2>4 DEF BaselineInv
<1> QED
  BY <1>1, <1>10, <1>11

LEMMA BaselineStep ==
  DOMAIN Lookalikes = {} =>
    (BaselineInv /\ [BaselineNext]_baselineVars => BaselineInv')
<1> SUFFICES ASSUME DOMAIN Lookalikes = {}, BaselineInv, [BaselineNext]_baselineVars
             PROVE  BaselineInv'
  OBVIOUS
<1>0. BaselineTypeOK'
  BY BaselineTypesStep DEF BaselineInv
<1>1. CASE SnapshotExport
  BY <1>0, <1>1, SnapshotExportKeeps
<1>2. CASE BootGuest
  BY <1>0, <1>2, BootGuestKeeps
<1>3. CASE HandOver
  BY <1>0, <1>3, HandOverKeeps
<1>4. CASE \E p \in Paths : AgentWrites(p) \/ AgentTakesBack(p) \/ AgentStages(p)
  BY <1>0, <1>4, AgentWritesKeeps, AgentTakesBackKeeps, AgentStagesKeeps
<1>5. CASE AgentCommits
  BY <1>0, <1>5, AgentCommitsKeeps
<1>6. CASE PublishCommit
  <2>1. UNCHANGED <<committed, staged, onDisk, snapshot, baseline, history, mine, life>>
    BY <1>6 DEF PublishCommit
  <2> QED
    BY <1>0, <2>1, QuietKeeps
<1>7. CASE StopAgentSession
  BY <1>0, <1>7, StopsKeep DEF StopAgentSession
<1>8. CASE CleanStops
  BY <1>0, <1>8, StopsKeep DEF CleanStops, HasChanges
<1>9. CASE CheckpointWorktree
  BY <1>0, <1>9, CheckpointKeeps
<1>10. CASE BeginResume \/ CleanStopped \/ ResumeStopsShort
  <2>1. UNCHANGED <<committed, staged, onDisk, snapshot, baseline, history, mine>>
    BY <1>10 DEF BeginResume, CleanStopped, ResumeStopsShort
  <2>2. /\ ~Early /\ life # "up" /\ life' \in {"recheck", "clearing", "unready"}
        /\ life' # "unready" => Uncommitted = {}
    BY <1>10 DEF BeginResume, CleanStopped, ResumeStopsShort, Stopped, HasChanges, Early
  <2> QED
    BY <1>0, <2>1, <2>2, QuietKeeps
<1>11. CASE PrepareRetained
  BY <1>0, <1>11, PrepareKeeps
<1>12. CASE RebootGuest
  BY <1>0, <1>12, RebootKeeps
<1>13. CASE RefreshBaseline
  BY <1>0, <1>13, RefreshKeeps
<1>14. CASE CleanWorktree
  BY <1>0, <1>14, CleanWorktreeKeeps
<1>15. CASE UNCHANGED baselineVars
  <2>1. UNCHANGED <<committed, staged, onDisk, snapshot, baseline, history, mine, life>>
    BY <1>15 DEF baselineVars
  <2> QED
    BY <1>0, <2>1, QuietKeeps
<1> QED
  BY <1>1, <1>2, <1>3, <1>4, <1>5, <1>6, <1>7, <1>8, <1>9, <1>10, <1>11, <1>12, <1>13,
     <1>14, <1>15 DEF BaselineNext

\* Jbox tells the agent's work from its own and the bootstrap's, both ways, for any
\* files of any project, any edits and any number of resumes: whatever is hidden
\* (`is_unchanged_bootstrap_line`) is never the only copy of work, every edit
\* shows, and a worktree that nobody touched is clean.  Only a file whose path
\* ends in a hidden one's is left out: with one, all of it is false.
THEOREM WorkStaysExact ==
  ASSUME DOMAIN Lookalikes = {}
  PROVE  BaselineSpec => []WorkIsExact
<1>1. BaselineInv => AgentEditsShow
  <2> SUFFICES ASSUME BaselineInv, NEW p \in Paths \ Caches,
                      mine[p] # "none", onDisk[p] = mine[p], committed[p] # mine[p]
               PROVE  p \in Uncommitted
    BY DEF AgentEditsShow
  <2>1. mine[p] \in Edits
    BY DEF BaselineInv, BaselineTypeOK
  <2>2. Listed(p)
    BY <2>1, ContentKinds DEF Listed, Untracked, StagedChange
  <2>3. ~(p = Tracker /\ SnapshotUnchanged)
    BY <2>1, ContentKinds DEF SnapshotUnchanged, BaselineInv, BaselineTypeOK
  <2>4. ~BaselineUnchanged(p)
    BY <2>1 DEF BaselineUnchanged, BaselineInv, ShownInv
  <2>5. ~(p = GateLock /\ LockIsEmpty) /\ ~(p = ServerConfig /\ ServerGenerated)
    BY <2>1, ContentKinds DEF LockIsEmpty, ServerGenerated
  <2>6. ~Hidden(p)
    BY <2>3, <2>4, <2>5, HiddenIs
  <2> QED
    BY <2>2, <2>6 DEF Uncommitted
<1>2. BaselineInv => WorkIsExact
  BY <1>1 DEF BaselineInv, WorkIsExact
<1>3. BaselineInv /\ [BaselineNext]_baselineVars => BaselineInv'
  BY BaselineStep
<1> QED
  BY <1>2, <1>3, BaselineBegins, PTL DEF BaselineSpec

\* The files, the index, the commits and the records hold contents that there are,
\* the baseline only files that can be captured.
THEOREM BaselineTypesCorrect == BaselineSpec => []BaselineTypeOK
BY BaselineTypesBegin, BaselineTypesStep, PTL DEF BaselineSpec

-----------------------------------------------------------------------------
(***************************************************************************)
(* Conversations: what is on record for a mount                            *)
(***************************************************************************)
\* A resume of s is in progress in u.
ResumesIn(u, s) == attachment[u].session = s /\ attachment[u].at \in {"forget", "spec", "start"}

TalkOrNone == Talk \cup {NoTalk}

Attachments ==
  [at : {"idle", "attach", "open", "forget", "spec", "start"},
   session : Sessions \cup {"none"}, mount : AllMounts \cup {"none"},
   chosen : TalkOrNone, keeps : BOOLEAN, attaches : BOOLEAN]

ConversationTypes ==
  /\ DOMAIN marker = Sessions /\ DOMAIN latest = Sessions
  /\ \A s \in Sessions : marker[s] \in [MountsOf(s) -> TalkOrNone]
                         /\ latest[s] \in [MountsOf(s) -> TalkOrNone]
  /\ shared \in [Sessions -> TalkOrNone]
  /\ hook \in [Sessions -> {"none", "shared", "scoped"}]
  /\ guestUp \in [Sessions -> BOOLEAN]
  /\ home \in [Sessions -> {"store", "tmpfs"}]
  /\ persistent \in BOOLEAN /\ toggled \in BOOLEAN
  /\ talks \subseteq Talk
  /\ begun \in 0 .. Talks
  /\ recovered \in [Sessions -> SUBSET Talk]
  /\ attachment \in [Users -> Attachments]
  /\ \A u \in Users : attachment[u].at # "idle" =>
       attachment[u].session \in Sessions /\ attachment[u].mount \in MountsOf(attachment[u].session)

\* One resume of a session at a time, while its guest is down.
ResumesInv ==
  \A u \in Users, s \in Sessions : ResumesIn(u, s) =>
    /\ ~guestUp[s]
    /\ \A v \in Users : ResumesIn(v, s) => v = u
    /\ attachment[u].at \in {"spec", "start"} /\ ~attachment[u].keeps =>
         /\ \A mount \in MountsOf(s) : marker[s][mount] = NoTalk
         /\ shared[s] = NoTalk

\* A record, and the choice of an attachment, belong to their mount.
ApartInv ==
  /\ \A s \in Sessions : \A mount \in MountsOf(s) : Belongs(s, mount, marker[s][mount])
  /\ \A s \in Sessions : shared[s] = NoTalk \/ shared[s] \in recovered[s] \/ shared[s].session = s
  /\ \A u \in Users : UserAt(u, "open") =>
       Belongs(attachment[u].session, attachment[u].mount, attachment[u].chosen)

\* A record is saved while the guest is up, and in a store also when it is not.
SavedInv ==
  \A s \in Sessions \ stale : guestUp[s] \/ home[s] = "store" =>
    /\ \A mount \in MountsOf(s) : marker[s][mount] \in Saved(s) \cup {NoTalk}
    /\ shared[s] \in Saved(s) \cup {NoTalk}

\* Conversations are numbered; one in a tmpfs is of that guest, and ends with it.
TalksInv ==
  /\ \A t \in talks : t.number <= begun
  /\ \A s \in Sessions : \A mount \in MountsOf(s) :
       /\ latest[s][mount].number <= begun
       /\ latest[s][mount].kept = "tmpfs" => latest[s][mount].session = s
  /\ \A t \in talks : t.kept = "tmpfs" => guestUp[t.session]

\* What the configuration says is said once more at most, and what a resume read
\* is what the home becomes.
Home(keeps) == IF keeps THEN "store" ELSE "tmpfs"

SettingsInv ==
  /\ ~toggled =>
       /\ \A s \in Sessions : home[s] = Home(persistent)
       /\ \A s \in Sessions : \A mount \in MountsOf(s) :
            latest[s][mount].kept \in {"none", Home(persistent)}
       /\ \A u \in Users, s \in Sessions : ResumesIn(u, s) => attachment[u].keeps = persistent
  /\ toggled /\ persistent =>
       \A s \in Sessions :
         /\ \A mount \in MountsOf(s) : latest[s][mount].kept = "store" => home[s] = "store"
         /\ home[s] = "store" => \A u \in Users : ResumesIn(u, s) => attachment[u].keeps

\* A conversation that is not on record any more is gone, or in a store that no guest
\* of the session will have again.
ForgottenInv ==
  \A s \in Sessions : \A mount \in MountsOf(s) :
    latest[s][mount] # marker[s][mount] =>
      \/ latest[s][mount] \notin talks
      \/ /\ latest[s][mount].kept = "store" /\ toggled /\ ~persistent
         /\ home[s] = "tmpfs" \/ ~guestUp[s]
         /\ \A u \in Users : ResumesIn(u, s) => ~attachment[u].keeps

ConversationsInv ==
  /\ ConversationTypes /\ ResumesInv /\ ApartInv /\ SavedInv /\ TalksInv
  /\ SettingsInv /\ ForgottenInv
-----------------------------------------------------------------------------
LEMMA NoTalkIs ==
  /\ NoTalk \notin Talk /\ NoTalk.number = 0 /\ NoTalk.kept = "none"
  /\ \A t \in Talk : t.number \in 1 .. Talks /\ t.session \in Sessions
                     /\ t.kept \in {"store", "tmpfs"}
<1>1. NoTalk.number = 0 /\ NoTalk.kept = "none"
  BY DEF NoTalk
<1>2. \A t \in Talk : t.number \in 1 .. Talks /\ t.session \in Sessions
                     /\ t.kept \in {"store", "tmpfs"}
  BY DEF Talk
<1>3. NoTalk \notin Talk
  BY <1>1, <1>2, ConversationsAssumption
<1> QED
  BY <1>1, <1>2, <1>3

LEMMA MountsAre ==
  ASSUME NEW s \in Sessions
  PROVE  /\ MountsOf(s) \subseteq AllMounts
         /\ 1 \in DOMAIN Repositories[s] /\ Repositories[s][1].mount \in MountsOf(s)
         /\ IsSingle(s) => \A m, n \in MountsOf(s) : m = n
<1>1. /\ Repositories[s] \in Seq([source : STRING, mount : STRING])
      /\ Repositories[s] # <<>>
  BY ConversationsAssumption
<1>2. Len(Repositories[s]) \in Nat \ {0} /\ DOMAIN Repositories[s] = 1 .. Len(Repositories[s])
  BY <1>1, EmptySeq
<1> QED
  BY <1>2 DEF MountsOf, AllMounts, IsSingle

\* An attachment goes to a mount of its session.
LEMMA AttachmentIsMounted ==
  ASSUME NEW s \in Sessions, NEW source
  PROVE  AttachmentMount(s, source) \in MountsOf(s)
<1> DEFINE here == {i \in DOMAIN Repositories[s] : Repositories[s][i].source = source}
<1>1. DOMAIN Repositories[s] \subseteq Nat
  BY ConversationsAssumption
<1>2. CASE here = {}
  BY <1>2, MountsAre DEF AttachmentMount
<1>3. CASE here # {}
  <2>1. PICK n \in here : TRUE
    BY <1>3
  <2>2. here \in SUBSET Nat
    BY <1>1
  <2>3. \E i \in here : \A j \in here : i <= j
    <3> HIDE DEF here
    <3> QED
      BY <2>1, <2>2, LeastNumber
  <2>4. Min(here) \in here
    <3> HIDE DEF here
    <3> QED
      BY <2>3 DEF Min
  <2>5. AttachmentMount(s, source) = Repositories[s][Min(here)].mount
    BY <1>3 DEF AttachmentMount
  <2> QED
    BY <2>4, <2>5 DEF MountsOf
<1> QED
  BY <1>2, <1>3

LEMMA TheTalkOfMount ==
  ASSUME NEW s \in Sessions, NEW mount \in MountsOf(s)
  PROVE  \/ RepositoryTalk(s, mount) = marker[s][mount]
         \/ IsSingle(s) /\ marker[s][mount] = NoTalk /\ RepositoryTalk(s, mount) = shared[s]
BY DEF RepositoryTalk

\* What is on record for a mount belongs to it.
LEMMA RecordBelongs ==
  ASSUME ConversationsInv, NEW s \in Sessions, NEW mount \in MountsOf(s)
  PROVE  /\ Belongs(s, mount, RepositoryTalk(s, mount))
         /\ RepositoryTalk(s, mount) \in TalkOrNone
<1>1. CASE RepositoryTalk(s, mount) = marker[s][mount]
  BY <1>1 DEF ConversationsInv, ApartInv, ConversationTypes
<1>2. CASE IsSingle(s) /\ RepositoryTalk(s, mount) = shared[s]
  BY <1>2 DEF ConversationsInv, ApartInv, ConversationTypes, Belongs
<1> QED
  BY <1>1, <1>2, TheTalkOfMount

-----------------------------------------------------------------------------
LEMMA ConversationsBegin == ConversationsInit => ConversationsInv
<1> SUFFICES ASSUME ConversationsInit PROVE ConversationsInv
  OBVIOUS
<1>1. /\ marker = [s \in Sessions |-> [mount \in MountsOf(s) |-> NoTalk]] /\ latest = marker
      /\ shared = [s \in Sessions |-> NoTalk]
      /\ hook \in Hooks /\ guestUp = [s \in Sessions |-> TRUE]
      /\ persistent \in BOOLEAN /\ toggled = FALSE /\ talks = {} /\ begun = 0
      /\ home = [s \in Sessions |-> IF persistent THEN "store" ELSE "tmpfs"]
      /\ recovered = [s \in Sessions |-> {}]
      /\ attachment = [u \in Users |-> Unattached]
  BY DEF ConversationsInit
<1>2. \A s \in Sessions : \A mount \in MountsOf(s) :
        marker[s][mount] = NoTalk /\ latest[s][mount] = NoTalk
  BY <1>1
<1>3. \A u \in Users : attachment[u].at = "idle" /\ attachment[u] \in Attachments
  <2>1. Unattached.at = "idle" /\ Unattached \in Attachments
    BY DEF Unattached, Attachments, TalkOrNone
  <2> QED
    BY <1>1, <2>1
<1>4. ConversationTypes
  <2>1. DOMAIN marker = Sessions /\ DOMAIN latest = Sessions
        /\ \A s \in Sessions : marker[s] \in [MountsOf(s) -> TalkOrNone]
                               /\ latest[s] \in [MountsOf(s) -> TalkOrNone]
    BY <1>1 DEF TalkOrNone
  <2>2. shared \in [Sessions -> TalkOrNone] /\ recovered \in [Sessions -> SUBSET Talk]
        /\ home \in [Sessions -> {"store", "tmpfs"}] /\ guestUp \in [Sessions -> BOOLEAN]
    BY <1>1 DEF TalkOrNone
  <2>3. hook \in [Sessions -> {"none", "shared", "scoped"}] /\ begun \in 0 .. Talks
    BY <1>1, ConversationsAssumption
  <2> QED
    BY <1>1, <1>3, <2>1, <2>2, <2>3 DEF ConversationTypes
<1>5. \A u \in Users, s \in Sessions : ~ResumesIn(u, s)
  BY <1>3 DEF ResumesIn
<1>6. ResumesInv /\ ApartInv /\ SavedInv
  BY <1>1, <1>2, <1>3, <1>5 DEF ResumesInv, ApartInv, SavedInv, Belongs, UserAt
<1>7. TalksInv
  BY <1>1, <1>2, NoTalkIs DEF TalksInv
<1>8. SettingsInv
  BY <1>1, <1>2, <1>5, NoTalkIs DEF SettingsInv, Home
<1>9. ForgottenInv
  BY <1>2 DEF ForgottenInv
<1> QED
  BY <1>4, <1>6, <1>7, <1>8, <1>9 DEF ConversationsInv
-----------------------------------------------------------------------------
(***************************************************************************)
(* The steps of a command                                                  *)
(***************************************************************************)

RecordsOf(s) == {marker[s][mount] : mount \in MountsOf(s)} \cup {shared[s]}

\* a is a stage that a command may go to: of a resume, its first stage, or a
\* further one of the same.
MayGoTo(u, a) ==
  /\ a \in Attachments
  /\ a.at # "idle" => a.session \in Sessions /\ a.mount \in MountsOf(a.session)
  /\ a.at = "open" => Belongs(a.session, a.mount, a.chosen)
  /\ a.at \in {"forget", "spec", "start"} =>
       \/ /\ ~guestUp[a.session] /\ ~Resuming(a.session)
          /\ a.at = "forget" /\ a.keeps = persistent
       \/ /\ ResumesIn(u, a.session) /\ a.keeps = attachment[u].keeps
          /\ a.at # "forget" /\ ~a.keeps => RecordsOf(a.session) = {NoTalk}

LEMMA ResumesOfOthers ==
  ASSUME ConversationTypes, NEW u \in Users, NEW a, MayGoTo(u, a),
         attachment' = [attachment EXCEPT ![u] = a]
  PROVE  /\ attachment'[u] = a
         /\ \A v \in Users \ {u} : attachment'[v] = attachment[v]
         /\ \A v \in Users, s \in Sessions : ResumesIn(v, s)' =>
              \/ v # u /\ ResumesIn(v, s)
              \/ v = u /\ a.session = s /\ a.at \in {"forget", "spec", "start"}
<1>1. /\ attachment'[u] = a
      /\ \A v \in Users \ {u} : attachment'[v] = attachment[v]
  BY DEF ConversationTypes
<1> QED
  BY <1>1 DEF ResumesIn

LEMMA RecordsAreNone ==
  ASSUME NEW s, RecordsOf(s) = {NoTalk}
  PROVE  /\ \A mount \in MountsOf(s) : marker[s][mount] = NoTalk
         /\ shared[s] = NoTalk
BY DEF RecordsOf

LEMMA UserSteps ==
  ASSUME ConversationsInv, NEW u \in Users, NEW a, MayGoTo(u, a),
         attachment' = [attachment EXCEPT ![u] = a],
         hook' \in [Sessions -> {"none", "shared", "scoped"}],
         UNCHANGED <<marker, shared, guestUp, home, persistent, toggled, stale, talks,
                     begun, latest, recovered>>
  PROVE  ConversationsInv'
<1>1. /\ marker' = marker /\ shared' = shared /\ guestUp' = guestUp /\ home' = home
      /\ persistent' = persistent /\ toggled' = toggled /\ stale' = stale /\ talks' = talks
      /\ begun' = begun /\ latest' = latest /\ recovered' = recovered
  OBVIOUS
<1>2. /\ ConversationTypes /\ ResumesInv /\ ApartInv /\ SavedInv /\ TalksInv
      /\ SettingsInv /\ ForgottenInv
  BY DEF ConversationsInv
<1>3. /\ attachment'[u] = a
      /\ \A v \in Users \ {u} : attachment'[v] = attachment[v]
      /\ \A v \in Users, s \in Sessions : ResumesIn(v, s)' =>
           \/ v # u /\ ResumesIn(v, s)
           \/ v = u /\ a.session = s /\ a.at \in {"forget", "spec", "start"}
  BY <1>2, ResumesOfOthers
<1>4. ConversationTypes'
  <2>1. attachment' \in [Users -> Attachments]
    BY <1>2 DEF ConversationTypes, MayGoTo
  <2>2. \A v \in Users : attachment'[v].at # "idle" =>
          /\ attachment'[v].session \in Sessions
          /\ attachment'[v].mount \in MountsOf(attachment'[v].session)
    BY <1>2, <1>3 DEF ConversationTypes, MayGoTo
  <2> QED
    BY <1>1, <1>2, <2>1, <2>2 DEF ConversationTypes
<1>5. ASSUME a.at \in {"forget", "spec", "start"}, a.session \in Sessions
      PROVE  /\ ~guestUp[a.session]
             /\ \A v \in Users : ResumesIn(v, a.session) => v = u
             /\ a.at \in {"spec", "start"} /\ ~a.keeps =>
                  RecordsOf(a.session) = {NoTalk}
             /\ \/ a.keeps = persistent
                \/ ResumesIn(u, a.session) /\ a.keeps = attachment[u].keeps
  <2>1. CASE /\ ~guestUp[a.session] /\ ~Resuming(a.session)
             /\ a.at = "forget" /\ a.keeps = persistent
    BY <2>1 DEF Resuming, ResumesIn
  <2>2. CASE /\ ResumesIn(u, a.session) /\ a.keeps = attachment[u].keeps
             /\ a.at # "forget" /\ ~a.keeps => RecordsOf(a.session) = {NoTalk}
    BY <1>2, <1>5, <2>2 DEF ResumesInv
  <2> QED
    BY <1>5, <2>1, <2>2 DEF MayGoTo
<1>6. ResumesInv'
  <2> SUFFICES ASSUME NEW v \in Users, NEW s \in Sessions, ResumesIn(v, s)'
               PROVE  /\ ~guestUp[s]
                      /\ \A w \in Users : ResumesIn(w, s)' => w = v
                      /\ attachment'[v].at \in {"spec", "start"} /\ ~attachment'[v].keeps =>
                           /\ \A mount \in MountsOf(s) : marker[s][mount] = NoTalk
                           /\ shared[s] = NoTalk
    BY <1>1 DEF ResumesInv
  <2>1. CASE v # u /\ ResumesIn(v, s)
    <3>1. ~(a.session = s /\ a.at \in {"forget", "spec", "start"})
      BY <1>5, <2>1
    <3> QED
      BY <1>2, <1>3, <2>1, <3>1 DEF ResumesInv
  <2>2. CASE v = u /\ a.session = s /\ a.at \in {"forget", "spec", "start"}
    <3>1. /\ ~guestUp[s] /\ \A w \in Users : ResumesIn(w, s)' => w = v
      BY <1>3, <1>5, <2>2
    <3>2. a.at \in {"spec", "start"} /\ ~a.keeps => RecordsOf(s) = {NoTalk}
      BY <1>5, <2>2
    <3> QED
      BY <1>3, <2>2, <3>1, <3>2, RecordsAreNone
  <2> QED
    BY <1>3, <2>1, <2>2
<1>7. ApartInv'
  <2>1. \A v \in Users : attachment'[v].at = "open" =>
          Belongs(attachment'[v].session, attachment'[v].mount, attachment'[v].chosen)
    BY <1>2, <1>3 DEF ApartInv, UserAt, MayGoTo
  <2> QED
    BY <1>1, <1>2, <2>1 DEF ApartInv, UserAt, Belongs
<1>8. SavedInv' /\ TalksInv'
  BY <1>1, <1>2 DEF SavedInv, Saved, TalksInv
<1>9. SettingsInv'
  <2>1. ASSUME ~toggled, NEW v \in Users, NEW s \in Sessions, ResumesIn(v, s)'
        PROVE  attachment'[v].keeps = persistent
    BY <1>2, <1>3, <1>5, <2>1 DEF SettingsInv
  <2>2. ASSUME toggled, persistent, NEW v \in Users, NEW s \in Sessions, home[s] = "store",
               ResumesIn(v, s)'
        PROVE  attachment'[v].keeps
    BY <1>2, <1>3, <1>5, <2>2 DEF SettingsInv
  <2> QED
    BY <1>1, <1>2, <2>1, <2>2 DEF SettingsInv
<1>10. ForgottenInv'
  <2>1. ASSUME NEW s \in Sessions, NEW v \in Users, ResumesIn(v, s)', ~persistent,
               \A w \in Users : ResumesIn(w, s) => ~attachment[w].keeps
        PROVE  ~attachment'[v].keeps
    BY <1>3, <1>5, <2>1
  <2> QED
    BY <1>1, <1>2, <2>1 DEF ForgottenInv
<1> QED
  BY <1>4, <1>6, <1>7, <1>8, <1>9, <1>10 DEF ConversationsInv

LEMMA CommandsGo ==
  ASSUME ConversationsInv, NEW u \in Users
  PROVE  /\ Attach(u) => ConversationsInv'
         /\ FindTalk(u) => ConversationsInv'
         /\ RefuseAttach(u) \/ JcodeFails(u) \/ RestartFails(u) => ConversationsInv'
         /\ ResumeById(u) => ConversationsInv'
         /\ ResumeFromRepository(u) => ConversationsInv'
         /\ WriteHook(u) => ConversationsInv'
<1>1. hook \in [Sessions -> {"none", "shared", "scoped"}] /\ attachment[u] \in Attachments
      /\ persistent \in BOOLEAN
      /\ (attachment[u].at # "idle" =>
            /\ attachment[u].session \in Sessions
            /\ attachment[u].mount \in MountsOf(attachment[u].session))
  BY DEF ConversationsInv, ConversationTypes
<1>2. Unattached \in Attachments /\ MayGoTo(u, Unattached)
  <2>1. Unattached.at = "idle" /\ Unattached \in Attachments
    BY DEF Unattached, Attachments, TalkOrNone
  <2> QED
    BY <2>1 DEF MayGoTo
<1>3. ASSUME NEW s \in Sessions, NEW source
      PROVE  MayGoTo(u, Attaching(s, source))
  <2> DEFINE a == Attaching(s, source)
  <2>1. a.at = "attach" /\ a.session = s /\ a.mount = AttachmentMount(s, source)
        /\ a \in Attachments
    BY AttachmentIsMounted, MountsAre DEF Attaching, Unattached, Attachments, TalkOrNone
  <2> HIDE DEF a
  <2>2. MayGoTo(u, a)
    BY <2>1, AttachmentIsMounted DEF MayGoTo
  <2> QED
    BY <2>2 DEF a
<1>4. ASSUME NEW s \in Sessions, NEW mount \in MountsOf(s), NEW attaches \in BOOLEAN,
             StartsResume(u, s, mount, attaches)
      PROVE  \E a : MayGoTo(u, a) /\ attachment' = [attachment EXCEPT ![u] = a]
  <2> DEFINE a == [at |-> "forget", session |-> s, mount |-> mount, chosen |-> NoTalk,
                   keeps |-> persistent, attaches |-> attaches]
  <2>1. a.at = "forget" /\ a.session = s /\ a.mount = mount /\ a.keeps = persistent
        /\ a \in Attachments
    BY <1>1, MountsAre DEF Attachments, TalkOrNone
  <2>2. attachment' = [attachment EXCEPT ![u] = a] /\ ~guestUp[s] /\ ~Resuming(s)
    BY <1>4 DEF StartsResume
  <2> HIDE DEF a
  <2>3. MayGoTo(u, a)
    BY <2>1, <2>2 DEF MayGoTo
  <2> QED
    BY <2>2, <2>3
<1>5. Attach(u) => ConversationsInv'
  BY <1>1, <1>3, UserSteps DEF Attach
<1>6. FindTalk(u) => ConversationsInv'
  <2> SUFFICES ASSUME FindTalk(u) PROVE ConversationsInv'
    OBVIOUS
  <2> DEFINE s == attachment[u].session
             t == RepositoryTalk(s, attachment[u].mount)
             a == [attachment[u] EXCEPT !.at = "open", !.chosen = t]
  <2>1. attachment[u].at = "attach" /\ s \in Sessions /\ attachment[u].mount \in MountsOf(s)
    BY <1>1 DEF FindTalk, UserAt
  <2>2. Belongs(s, attachment[u].mount, t) /\ t \in TalkOrNone
    BY <2>1, RecordBelongs
  <2>3. attachment' = [attachment EXCEPT ![u] = a]
    <3>1. attachment' = [attachment EXCEPT ![u].at = "open", ![u].chosen = t]
      BY DEF FindTalk, Chooses
    <3>2. attachment \in [Users -> Attachments]
      BY DEF ConversationsInv, ConversationTypes
    <3> QED
      BY <3>1, <3>2
  <2>4. a \in Attachments /\ a.at = "open" /\ a.session = s /\ a.mount = attachment[u].mount
        /\ a.chosen = t
    BY <1>1, <2>2 DEF Attachments
  <2>5. hook' = hook /\ UNCHANGED <<marker, shared, guestUp, home, persistent, toggled, stale,
                                    talks, begun, latest, recovered>>
    BY DEF FindTalk
  <2> HIDE DEF a, t, s
  <2>6. MayGoTo(u, a)
    BY <2>1, <2>2, <2>4 DEF MayGoTo
  <2> QED
    BY <1>1, <2>3, <2>5, <2>6, UserSteps
<1>7. RefuseAttach(u) \/ JcodeFails(u) \/ RestartFails(u) => ConversationsInv'
  BY <1>1, <1>2, UserSteps DEF RefuseAttach, JcodeFails, RestartFails, UserEnds
<1>8. ResumeById(u) => ConversationsInv'
  BY <1>1, <1>4, MountsAre, UserSteps DEF ResumeById
<1>9. ResumeFromRepository(u) => ConversationsInv'
  <2> SUFFICES ASSUME ResumeFromRepository(u) PROVE ConversationsInv'
    OBVIOUS
  <2>1. PICK source \in AllSources, s \in Sessions :
          IF guestUp[s] THEN attachment' = [attachment EXCEPT ![u] = Attaching(s, source)]
          ELSE StartsResume(u, s, AttachmentMount(s, source), TRUE)
    BY DEF ResumeFromRepository
  <2>2. \E a : MayGoTo(u, a) /\ attachment' = [attachment EXCEPT ![u] = a]
    BY <1>3, <1>4, <2>1, AttachmentIsMounted
  <2> QED
    BY <1>1, <2>2, UserSteps DEF ResumeFromRepository
<1>10. WriteHook(u) => ConversationsInv'
  <2> SUFFICES ASSUME WriteHook(u) PROVE ConversationsInv'
    OBVIOUS
  <2> DEFINE s == attachment[u].session
             a == [attachment[u] EXCEPT !.at = "start"]
  <2>1. attachment[u].at = "spec" /\ s \in Sessions
    BY <1>1 DEF WriteHook, UserAt
  <2>2. attachment' = [attachment EXCEPT ![u] = a]
    <3>1. attachment \in [Users -> Attachments]
      BY DEF ConversationsInv, ConversationTypes
    <3> QED
      BY <3>1 DEF WriteHook, UserGoes
  <2>3. a \in Attachments /\ a.at = "start" /\ a.session = s /\ a.mount = attachment[u].mount
        /\ a.keeps = attachment[u].keeps
    BY <1>1 DEF Attachments
  <2>4. ResumesIn(u, s) /\ (~attachment[u].keeps => RecordsOf(s) = {NoTalk})
    <3>1. ResumesIn(u, s)
      BY <2>1 DEF ResumesIn
    <3>2. ~attachment[u].keeps =>
            (\A mount \in MountsOf(s) : marker[s][mount] = NoTalk) /\ shared[s] = NoTalk
      BY <2>1, <3>1 DEF ConversationsInv, ResumesInv
    <3> QED
      BY <3>1, <3>2 DEF RecordsOf
  <2>5. hook' \in [Sessions -> {"none", "shared", "scoped"}]
        /\ UNCHANGED <<marker, shared, guestUp, home, persistent, toggled, stale,
                       talks, begun, latest, recovered>>
    BY <1>1 DEF WriteHook
  <2> HIDE DEF a, s
  <2>6. MayGoTo(u, a)
    BY <1>1, <2>1, <2>3, <2>4 DEF MayGoTo, s
  <2> QED
    BY <2>2, <2>5, <2>6, UserSteps
<1> QED
  BY <1>5, <1>6, <1>7, <1>8, <1>9, <1>10
-----------------------------------------------------------------------------
(***************************************************************************)
(* The steps of the hook in the guest                                      *)
(***************************************************************************)

\* The hook puts t on record for one mount, for the session, or nowhere.
LEMMA RecordsOne ==
  ASSUME ConversationTypes, NEW s \in Sessions, NEW place, NEW t \in Talk, Records(s, place, t)
  PROVE  /\ DOMAIN marker' = Sessions /\ DOMAIN latest' = Sessions
         /\ \A r \in Sessions : marker'[r] \in [MountsOf(r) -> TalkOrNone]
                                /\ latest'[r] \in [MountsOf(r) -> TalkOrNone]
         /\ shared' \in [Sessions -> TalkOrNone]
         /\ \A r \in Sessions : \A mount \in MountsOf(r) :
              \/ marker'[r][mount] = marker[r][mount] /\ latest'[r][mount] = latest[r][mount]
              \/ r = s /\ mount = place /\ marker'[r][mount] = t /\ latest'[r][mount] = t
         /\ \A r \in Sessions : shared'[r] = shared[r] \/ (r = s /\ shared'[r] = t)
<1>1. CASE /\ hook[s] = "scoped" /\ place \in MountsOf(s)
           /\ marker' = [marker EXCEPT ![s][place] = t]
           /\ latest' = [latest EXCEPT ![s][place] = t]
           /\ UNCHANGED shared
  <2>1. /\ marker'[s] = [marker[s] EXCEPT ![place] = t]
        /\ latest'[s] = [latest[s] EXCEPT ![place] = t]
        /\ \A r \in Sessions \ {s} : marker'[r] = marker[r] /\ latest'[r] = latest[r]
    BY <1>1 DEF ConversationTypes
  <2>2. DOMAIN marker' = Sessions /\ DOMAIN latest' = Sessions
    BY <1>1 DEF ConversationTypes
  <2>3. /\ marker'[s] \in [MountsOf(s) -> TalkOrNone]
        /\ latest'[s] \in [MountsOf(s) -> TalkOrNone]
    <3>1. /\ marker[s] \in [MountsOf(s) -> TalkOrNone]
          /\ latest[s] \in [MountsOf(s) -> TalkOrNone]
          /\ t \in TalkOrNone
      BY DEF ConversationTypes, TalkOrNone
    <3>2. /\ [marker[s] EXCEPT ![place] = t] \in [MountsOf(s) -> TalkOrNone]
          /\ [latest[s] EXCEPT ![place] = t] \in [MountsOf(s) -> TalkOrNone]
      BY <3>1
    <3> QED
      BY <2>1, <3>2
  <2>4. \A mount \in MountsOf(s) :
          IF mount = place THEN marker'[s][mount] = t /\ latest'[s][mount] = t
          ELSE marker'[s][mount] = marker[s][mount] /\ latest'[s][mount] = latest[s][mount]
    BY <2>1 DEF ConversationTypes
  <2> QED
    BY <1>1, <2>1, <2>2, <2>3, <2>4 DEF ConversationTypes
<1>2. CASE shared' = [shared EXCEPT ![s] = t] /\ UNCHANGED <<marker, latest>>
  BY <1>2 DEF ConversationTypes, TalkOrNone
<1>3. CASE UNCHANGED <<marker, shared, latest>>
  BY <1>3 DEF ConversationTypes
<1> QED
  <2>1. CASE hook[s] = "scoped" /\ place \in MountsOf(s)
    BY <1>1, <2>1, Zenon DEF Records
  <2>2. CASE hook[s] = "shared"
    BY <1>2, <2>2, Zenon DEF Records
  <2>3. CASE ~(hook[s] = "scoped" /\ place \in MountsOf(s)) /\ ~(hook[s] = "shared")
    BY <1>3, <2>3, Zenon DEF Records
  <2> QED
    BY <2>1, <2>2, <2>3

\* A saved conversation, perhaps a new one, is put on record; commands do as before,
\* or one of them ends.
LEMMA HookSteps ==
  ASSUME ConversationsInv, NEW s \in Sessions, NEW place \in AllMounts \cup {"elsewhere"},
         NEW t \in Talk, Records(s, place, t), guestUp[s],
         t \in recovered[s] \/ (t.session = s /\ (t.place = place \/ IsSingle(s))),
         \/ t \in Saved(s) /\ UNCHANGED <<talks, begun>>
         \/ /\ t.number = begun + 1 /\ t.session = s /\ t.kept = home[s]
            /\ begun' = begun + 1 /\ begun' <= Talks /\ talks' = talks \cup {t},
         \/ attachment' = attachment
         \/ \E u \in Users : UserEnds(u),
         UNCHANGED <<hook, guestUp, home, persistent, toggled, stale, recovered>>
  PROVE  ConversationsInv'
<1>1. /\ hook' = hook /\ guestUp' = guestUp /\ home' = home
      /\ persistent' = persistent /\ toggled' = toggled /\ stale' = stale
      /\ recovered' = recovered
  OBVIOUS
<1>2. /\ ConversationTypes /\ ResumesInv /\ ApartInv /\ SavedInv /\ TalksInv
      /\ SettingsInv /\ ForgottenInv
  BY DEF ConversationsInv
<1>3. /\ DOMAIN marker' = Sessions /\ DOMAIN latest' = Sessions
      /\ \A r \in Sessions : marker'[r] \in [MountsOf(r) -> TalkOrNone]
                             /\ latest'[r] \in [MountsOf(r) -> TalkOrNone]
      /\ shared' \in [Sessions -> TalkOrNone]
  BY <1>2, RecordsOne
<1>4. /\ \A r \in Sessions : \A mount \in MountsOf(r) :
           \/ marker'[r][mount] = marker[r][mount] /\ latest'[r][mount] = latest[r][mount]
           \/ r = s /\ mount = place /\ marker'[r][mount] = t /\ latest'[r][mount] = t
      /\ \A r \in Sessions : shared'[r] = shared[r] \/ (r = s /\ shared'[r] = t)
  BY <1>2, RecordsOne
<1>5. /\ talks' \subseteq Talk /\ begun' \in 0 .. Talks /\ begun <= begun'
      /\ talks' = talks \cup {t} /\ t.kept = home[s] /\ t.number <= begun'
      /\ (t.kept = "tmpfs" => t.session = s)
      /\ \/ t \in talks
         \/ \A q \in talks \cup {NoTalk} : q # t
      /\ \/ t \in talks
         \/ \A r \in Sessions : \A mount \in MountsOf(r) : latest[r][mount] # t
  <2>1. begun \in 0 .. Talks /\ talks \subseteq Talk /\ Talks \in Nat
        /\ home[s] \in {"store", "tmpfs"}
        /\ (\A q \in talks : q.number <= begun)
        /\ (\A r \in Sessions : \A mount \in MountsOf(r) : latest[r][mount].number <= begun)
    BY <1>2, ConversationsAssumption DEF ConversationTypes, TalksInv
  <2>2. CASE t \in Saved(s) /\ UNCHANGED <<talks, begun>>
    BY <2>1, <2>2 DEF Saved
  <2>3. CASE /\ t.number = begun + 1 /\ t.session = s /\ t.kept = home[s]
             /\ begun' = begun + 1 /\ begun' <= Talks /\ talks' = talks \cup {t}
    <3>1. begun \in Int /\ ~(t.number <= begun) /\ NoTalk.number <= begun
      BY <2>1, <2>3, NoTalkIs
    <3>2. begun' \in 0 .. Talks /\ begun <= begun' /\ t.number <= begun'
      BY <2>1, <2>3
    <3> QED
      BY <2>1, <2>3, <3>1, <3>2
  <2> QED
    BY <2>2, <2>3
<1>6. /\ attachment' \in [Users -> Attachments]
      /\ \A v \in Users : attachment'[v] = attachment[v] \/ attachment'[v].at = "idle"
  <2>1. Unattached.at = "idle" /\ Unattached \in Attachments
    BY DEF Unattached, Attachments, TalkOrNone
  <2>2. attachment \in [Users -> Attachments]
    BY <1>2 DEF ConversationTypes
  <2>3. CASE attachment' = attachment
    BY <2>2, <2>3
  <2>4. ASSUME NEW u \in Users, UserEnds(u)
        PROVE  /\ attachment' \in [Users -> Attachments]
               /\ \A v \in Users : attachment'[v] = attachment[v] \/ attachment'[v].at = "idle"
    BY <2>1, <2>2, <2>4 DEF UserEnds
  <2> QED
    BY <2>3, <2>4
<1>7. \A v \in Users, r \in Sessions : ResumesIn(v, r)' =>
        ResumesIn(v, r) /\ attachment'[v] = attachment[v]
  BY <1>6 DEF ResumesIn
<1>8. \A u \in Users : ~ResumesIn(u, s)
  BY <1>2 DEF ResumesInv
<1>9. ConversationTypes'
  BY <1>1, <1>2, <1>3, <1>5, <1>6 DEF ConversationTypes
<1>10. ResumesInv'
  BY <1>1, <1>2, <1>4, <1>7, <1>8 DEF ResumesInv
<1>11. ApartInv'
  <2>1. \A r \in Sessions : \A mount \in MountsOf(r) : Belongs(r, mount, marker'[r][mount])
    BY <1>2, <1>4 DEF ApartInv, Belongs
  <2>2. \A r \in Sessions :
          shared'[r] = NoTalk \/ shared'[r] \in recovered[r] \/ shared'[r].session = r
    BY <1>2, <1>4 DEF ApartInv
  <2>3. \A v \in Users : attachment'[v].at = "open" =>
          Belongs(attachment'[v].session, attachment'[v].mount, attachment'[v].chosen)
    BY <1>2, <1>6 DEF ApartInv, UserAt
  <2> QED
    BY <1>1, <2>1, <2>2, <2>3 DEF ApartInv, UserAt, Belongs
<1>12. SavedInv'
  <2>1. \A r \in Sessions : Saved(r) \subseteq Saved(r)'
    BY <1>1, <1>5 DEF Saved
  <2>2. t \in Saved(s)'
    BY <1>1, <1>2, <1>5 DEF Saved, ConversationTypes
  <2>3. \A r \in Sessions \ stale : guestUp[r] \/ home[r] = "store" =>
          /\ \A mount \in MountsOf(r) : marker'[r][mount] \in (Saved(r))' \cup {NoTalk}
          /\ shared'[r] \in (Saved(r))' \cup {NoTalk}
    BY <1>2, <1>4, <2>1, <2>2 DEF SavedInv
  <2> QED
    BY <1>1, <2>3 DEF SavedInv
<1>13. TalksInv'
  <2>1. begun \in Int /\ begun' \in Int /\ begun <= begun' /\ t.number <= begun'
        /\ (\A q \in talks : q.number \in Int)
        /\ (\A r \in Sessions : \A mount \in MountsOf(r) : latest[r][mount].number \in Int)
    BY <1>2, <1>5, NoTalkIs, ConversationsAssumption DEF ConversationTypes, TalkOrNone
  <2>2. \A q \in talks' : q.number <= begun'
    BY <1>2, <1>5, <2>1 DEF TalksInv
  <2>3. \A r \in Sessions : \A mount \in MountsOf(r) :
          /\ latest'[r][mount].number <= begun'
          /\ latest'[r][mount].kept = "tmpfs" => latest'[r][mount].session = r
    BY <1>2, <1>4, <1>5, <2>1 DEF TalksInv
  <2>4. \A q \in talks' : q.kept = "tmpfs" => guestUp[q.session]
    BY <1>2, <1>5 DEF TalksInv
  <2> QED
    BY <1>1, <2>2, <2>3, <2>4 DEF TalksInv
<1>14. SettingsInv'
  <2>1. ~toggled => \A r \in Sessions : \A mount \in MountsOf(r) :
          latest'[r][mount].kept \in {"none", Home(persistent)}
    BY <1>2, <1>4, <1>5 DEF SettingsInv
  <2>2. toggled /\ persistent => \A r \in Sessions : \A mount \in MountsOf(r) :
          latest'[r][mount].kept = "store" => home[r] = "store"
    BY <1>2, <1>4, <1>5 DEF SettingsInv
  <2> QED
    BY <1>1, <1>2, <1>7, <2>1, <2>2 DEF SettingsInv
<1>15. ForgottenInv'
  <2> SUFFICES ASSUME NEW r \in Sessions, NEW mount \in MountsOf(r),
                      latest'[r][mount] # marker'[r][mount]
               PROVE  \/ latest'[r][mount] \notin talks'
                      \/ /\ latest'[r][mount].kept = "store" /\ toggled /\ ~persistent
                         /\ home[r] = "tmpfs" \/ ~guestUp[r]
                         /\ \A u \in Users : ResumesIn(u, r)' => ~attachment'[u].keeps
    BY <1>1 DEF ForgottenInv
  <2>1. marker'[r][mount] = marker[r][mount] /\ latest'[r][mount] = latest[r][mount]
    BY <1>4
  <2>2. \/ latest[r][mount] \notin talks
        \/ /\ latest[r][mount].kept = "store" /\ toggled /\ ~persistent
           /\ home[r] = "tmpfs" \/ ~guestUp[r]
           /\ \A u \in Users : ResumesIn(u, r) => ~attachment[u].keeps
    BY <1>2, <2>1 DEF ForgottenInv
  <2>3. latest[r][mount] \notin talks => latest[r][mount] \notin talks'
    BY <1>5
  <2> QED
    BY <1>7, <2>1, <2>2, <2>3
<1> QED
  BY <1>9, <1>10, <1>11, <1>12, <1>13, <1>14, <1>15 DEF ConversationsInv
LEMMA TalksBegin ==
  ASSUME ConversationsInv, NEW s \in Sessions, NEW place \in MountsOf(s) \cup {"elsewhere"},
         guestUp[s], BeginsTalk(s, place),
         attachment' = attachment \/ \E u \in Users : UserEnds(u),
         UNCHANGED <<hook, guestUp, home, persistent, toggled, stale, recovered>>
  PROVE  ConversationsInv'
<1> DEFINE t == [number |-> begun + 1, session |-> s, place |-> place, kept |-> home[s]]
<1>1. begun \in 0 .. Talks /\ Talks \in Nat /\ home[s] \in {"store", "tmpfs"}
      /\ begun < Talks /\ begun' = begun + 1
  BY ConversationsAssumption DEF ConversationsInv, ConversationTypes, BeginsTalk
<1>2. begun + 1 \in 1 .. Talks /\ begun' <= Talks
  BY <1>1
<1>3. place \in AllMounts \cup {"elsewhere"}
  BY MountsAre
<1>4. t \in Talk /\ t.number = begun + 1 /\ t.session = s /\ t.place = place /\ t.kept = home[s]
  BY <1>1, <1>2, <1>3 DEF Talk
<1>5. Records(s, place, t) /\ talks' = talks \cup {t}
  BY DEF BeginsTalk
<1> HIDE DEF t
<1> QED
  BY <1>1, <1>2, <1>3, <1>4, <1>5, HookSteps

LEMMA HooksRecord ==
  ASSUME ConversationsInv
  PROVE  /\ \A s \in Sessions : BeginTalk(s) => ConversationsInv'
         /\ \A u \in Users : OpenJcode(u) => ConversationsInv'
<1>1. ASSUME NEW s \in Sessions, BeginTalk(s) PROVE ConversationsInv'
  BY <1>1, TalksBegin DEF BeginTalk
<1>2. ASSUME NEW u \in Users, OpenJcode(u) PROVE ConversationsInv'
  <2> DEFINE s == attachment[u].session
             mount == attachment[u].mount
             t == attachment[u].chosen
  <2>1. /\ guestUp[s] /\ UserEnds(u)
        /\ UNCHANGED <<hook, guestUp, home, persistent, toggled, stale, recovered>>
        /\ IF t = NoTalk THEN BeginsTalk(s, mount)
           ELSE t \in Saved(s) /\ Records(s, mount, t) /\ UNCHANGED <<talks, begun>>
    BY <1>2 DEF OpenJcode
  <2>2. attachment[u].at = "open" /\ s \in Sessions /\ mount \in MountsOf(s)
    BY <1>2 DEF OpenJcode, UserAt, ConversationsInv, ConversationTypes
  <2>3. Belongs(s, mount, t)
    BY <2>2 DEF ConversationsInv, ApartInv, UserAt
  <2>4. talks \subseteq Talk
    BY DEF ConversationsInv, ConversationTypes
  <2> HIDE DEF s, mount, t
  <2>5. CASE t = NoTalk
    BY <2>1, <2>2, <2>5, TalksBegin
  <2>6. CASE t # NoTalk
    <3>1. t \in Talk /\ t \in Saved(s)
      BY <2>1, <2>4, <2>6 DEF Saved
    <3>2. t \in recovered[s] \/ (t.session = s /\ (t.place = mount \/ IsSingle(s)))
      BY <2>3, <2>6 DEF Belongs
    <3>3. mount \in AllMounts \cup {"elsewhere"}
      BY <2>2, MountsAre
    <3> QED
      BY <2>1, <2>2, <2>6, <3>1, <3>2, <3>3, HookSteps
  <2> QED
    BY <2>5, <2>6
<1> QED
  BY <1>1, <1>2

\* A conversation that the guest has is chosen for the mount of an older session.
LEMMA TalksAreRecovered ==
  ASSUME ConversationsInv, NEW u \in Users, RecoverLegacyTalk(u)
  PROVE  ConversationsInv'
<1> DEFINE s == attachment[u].session
           here == attachment[u].mount
<1>1. /\ attachment[u].at = "attach" /\ guestUp[s]
      /\ UNCHANGED <<shared, hook, guestUp, home, persistent, toggled, stale, talks, begun>>
  BY DEF RecoverLegacyTalk, UserAt
<1>2. /\ s \in Sessions /\ here \in MountsOf(s) /\ attachment[u] \in Attachments
      /\ attachment \in [Users -> Attachments] /\ talks \subseteq Talk
      /\ hook \in [Sessions -> {"none", "shared", "scoped"}]
  BY <1>1 DEF ConversationsInv, ConversationTypes
<1>3. ASSUME NEW t \in TalkOrNone, Chooses(u, t), t = NoTalk \/ t \in recovered[s]
      PROVE  \E a : /\ attachment' = [attachment EXCEPT ![u] = a]
                    /\ MayGoTo(u, a)
  <2> DEFINE a == [attachment[u] EXCEPT !.at = "open", !.chosen = t]
  <2>1. attachment' = [attachment EXCEPT ![u] = a]
    BY <1>2, <1>3 DEF Chooses
  <2>2. a \in Attachments /\ a.at = "open" /\ a.session = s /\ a.mount = here
        /\ a.chosen = t
    BY <1>2 DEF Attachments
  <2> HIDE DEF a, s, here
  <2>3. MayGoTo(u, a)
    BY <1>2, <1>3, <2>2 DEF MayGoTo, Belongs
  <2> QED
    BY <2>1, <2>3
<1>4. CASE Chooses(u, NoTalk) /\ UNCHANGED <<marker, latest, recovered>>
  BY <1>1, <1>2, <1>3, <1>4, UserSteps DEF TalkOrNone
<1>5. ASSUME NEW t \in Saved(s),
             /\ Chooses(u, t)
             /\ marker' = [marker EXCEPT ![s][here] = t]
             /\ latest' = [latest EXCEPT ![s][here] = t]
             /\ recovered' = [recovered EXCEPT ![s] = @ \cup {t}]
      PROVE  ConversationsInv'
  <2> DEFINE a == [attachment[u] EXCEPT !.at = "open", !.chosen = t]
  <2>1. attachment' = [attachment EXCEPT ![u] = a]
    BY <1>2, <1>5 DEF Chooses
  <2>2. t \in Talk /\ t \in talks /\ t.kept = home[s] /\ (t.kept = "tmpfs" => t.session = s)
    BY <1>2 DEF Saved
  <2>3. a \in Attachments /\ a.at = "open" /\ a.session = s /\ a.mount = here
        /\ a.chosen = t
    BY <1>2, <2>2 DEF Attachments, TalkOrNone
  <2>4. /\ attachment'[u] = a /\ \A v \in Users \ {u} : attachment'[v] = attachment[v]
        /\ attachment' \in [Users -> Attachments]
    BY <1>2, <2>1, <2>3
  <2>5. /\ ConversationTypes /\ ResumesInv /\ ApartInv /\ SavedInv /\ TalksInv
        /\ SettingsInv /\ ForgottenInv
    BY DEF ConversationsInv
  <2>6. /\ DOMAIN marker' = Sessions /\ DOMAIN latest' = Sessions
        /\ \A r \in Sessions : marker'[r] \in [MountsOf(r) -> TalkOrNone]
                               /\ latest'[r] \in [MountsOf(r) -> TalkOrNone]
        /\ \A r \in Sessions : \A mount \in MountsOf(r) :
             \/ marker'[r][mount] = marker[r][mount] /\ latest'[r][mount] = latest[r][mount]
             \/ r = s /\ mount = here /\ marker'[r][mount] = t /\ latest'[r][mount] = t
    <3>1. /\ marker'[s] = [marker[s] EXCEPT ![here] = t]
          /\ latest'[s] = [latest[s] EXCEPT ![here] = t]
          /\ \A r \in Sessions \ {s} : marker'[r] = marker[r] /\ latest'[r] = latest[r]
          /\ DOMAIN marker' = Sessions /\ DOMAIN latest' = Sessions
      BY <1>2, <1>5, <2>5 DEF ConversationTypes
    <3>2. /\ marker'[s] \in [MountsOf(s) -> TalkOrNone]
          /\ latest'[s] \in [MountsOf(s) -> TalkOrNone]
      <4>1. /\ marker[s] \in [MountsOf(s) -> TalkOrNone]
            /\ latest[s] \in [MountsOf(s) -> TalkOrNone]
            /\ t \in TalkOrNone
        BY <1>2, <2>2, <2>5 DEF ConversationTypes, TalkOrNone
      <4> HIDE DEF s, here
      <4>2. /\ [marker[s] EXCEPT ![here] = t] \in [MountsOf(s) -> TalkOrNone]
            /\ [latest[s] EXCEPT ![here] = t] \in [MountsOf(s) -> TalkOrNone]
        BY <4>1
      <4> QED
        BY <3>1, <4>2
    <3>3. \A mount \in MountsOf(s) :
            IF mount = here THEN marker'[s][mount] = t /\ latest'[s][mount] = t
            ELSE marker'[s][mount] = marker[s][mount] /\ latest'[s][mount] = latest[s][mount]
      BY <1>2, <2>5, <3>1 DEF ConversationTypes
    <3> HIDE DEF s, here
    <3> QED
      BY <2>5, <3>1, <3>2, <3>3 DEF ConversationTypes
  <2>7. /\ \A r \in Sessions : recovered[r] \subseteq recovered'[r]
        /\ t \in recovered'[s] /\ recovered' \in [Sessions -> SUBSET Talk]
    BY <1>2, <1>5, <2>2, <2>5 DEF ConversationTypes
  <2> HIDE DEF s, here, a
  <2>8. \A v \in Users, r \in Sessions : ResumesIn(v, r)' =>
          ResumesIn(v, r) /\ attachment'[v] = attachment[v]
    BY <2>3, <2>4 DEF ResumesIn
  <2>9. \A v \in Users : ~ResumesIn(v, s)
    BY <1>1, <1>2, <2>5 DEF ResumesInv
  <2>10. ConversationTypes'
    BY <1>1, <1>2, <2>3, <2>4, <2>5, <2>6, <2>7 DEF ConversationTypes
  <2>11. ResumesInv'
    BY <1>1, <2>5, <2>6, <2>8, <2>9 DEF ResumesInv
  <2>12. ApartInv'
    <3>1. \A r \in Sessions : \A mount \in MountsOf(r) : (Belongs(r, mount, marker[r][mount]))'
      BY <2>5, <2>6, <2>7 DEF ApartInv, Belongs
    <3>2. \A r \in Sessions :
            shared[r] = NoTalk \/ shared[r] \in recovered'[r] \/ shared[r].session = r
      BY <2>5, <2>7 DEF ApartInv
    <3>3. ASSUME NEW v \in Users, attachment'[v].at = "open"
          PROVE  (Belongs(attachment[v].session, attachment[v].mount, attachment[v].chosen))'
      <4>1. CASE v = u
        BY <2>3, <2>4, <2>7, <4>1 DEF Belongs
      <4>2. CASE v # u
        <5>1. attachment'[v] = attachment[v] /\ attachment[v].session \in Sessions
          BY <2>4, <2>5, <3>3, <4>2 DEF ConversationTypes
        <5>2. Belongs(attachment[v].session, attachment[v].mount, attachment[v].chosen)
          BY <2>5, <3>3, <5>1 DEF ApartInv, UserAt
        <5> QED
          BY <2>7, <5>1, <5>2 DEF Belongs
      <4> QED
        BY <4>1, <4>2
    <3> QED
      BY <1>1, <3>1, <3>2, <3>3 DEF ApartInv, UserAt
  <2>13. SavedInv'
    <3>1. \A r \in Sessions : (Saved(r))' = Saved(r)
      BY <1>1 DEF Saved
    <3> QED
      BY <1>1, <1>5, <2>5, <2>6, <3>1 DEF SavedInv
  <2>14. TalksInv'
    BY <1>1, <2>2, <2>5, <2>6 DEF TalksInv
  <2>15. SettingsInv'
    BY <1>1, <1>2, <2>2, <2>5, <2>6, <2>8 DEF SettingsInv
  <2>16. ForgottenInv'
    BY <1>1, <2>5, <2>6, <2>8 DEF ForgottenInv
  <2> QED
    BY <2>10, <2>11, <2>12, <2>13, <2>14, <2>15, <2>16 DEF ConversationsInv
<1> QED
  BY <1>4, <1>5 DEF RecoverLegacyTalk
-----------------------------------------------------------------------------
(***************************************************************************)
(* The steps of stop, resume and the configuration                         *)
(***************************************************************************)

\* A tmpfs ends with its guest; the records of its conversations stay.
LEMMA GuestsStop ==
  ASSUME ConversationsInv, NEW s \in Sessions, StopGuestOf(s)
  PROVE  ConversationsInv'
<1>1. /\ marker' = marker /\ shared' = shared /\ hook' = hook /\ home' = home
      /\ persistent' = persistent /\ toggled' = toggled /\ stale' = stale
      /\ begun' = begun /\ latest' = latest /\ recovered' = recovered
      /\ attachment' = attachment
      /\ guestUp' = [guestUp EXCEPT ![s] = FALSE]
      /\ talks' = {t \in talks : t.kept = "store" \/ t.session # s}
  BY DEF StopGuestOf
<1>2. /\ ConversationTypes /\ ResumesInv /\ ApartInv /\ SavedInv /\ TalksInv
      /\ SettingsInv /\ ForgottenInv
  BY DEF ConversationsInv
<1>3. ~guestUp'[s] /\ \A r \in Sessions \ {s} : guestUp'[r] = guestUp[r]
  BY <1>1, <1>2 DEF ConversationTypes
<1>4. talks' \subseteq talks
  BY <1>1
<1>5. ConversationTypes'
  BY <1>1, <1>2, <1>4 DEF ConversationTypes
<1>6. ResumesInv'
  BY <1>1, <1>2, <1>3 DEF ResumesInv, ResumesIn
<1>7. ApartInv'
  BY <1>1, <1>2 DEF ApartInv, Belongs, UserAt
<1>8. SavedInv'
  <2>1. ASSUME NEW r \in Sessions, guestUp'[r] \/ home[r] = "store"
        PROVE  Saved(r) \subseteq (Saved(r))' /\ (guestUp[r] \/ home[r] = "store")
    <3>1. guestUp[r] \/ home[r] = "store"
      BY <1>3, <2>1
    <3>2. ASSUME NEW t \in talks, t.kept = home[r], t.kept = "store" \/ t.session = r
          PROVE  t.kept = "store" \/ t.session # s
      BY <1>3, <2>1, <3>2
    <3> QED
      BY <1>1, <3>1, <3>2 DEF Saved
  <2> QED
    BY <1>1, <1>2, <2>1 DEF SavedInv
<1>9. TalksInv'
  <2>1. \A t \in talks' : t.kept = "tmpfs" => guestUp'[t.session]
    <3> SUFFICES ASSUME NEW t \in talks', t.kept = "tmpfs" PROVE guestUp'[t.session]
      OBVIOUS
    <3>1. t \in talks /\ t.session # s /\ t.session \in Sessions
      BY <1>1, <1>2, NoTalkIs DEF ConversationTypes
    <3> QED
      BY <1>2, <1>3, <3>1 DEF TalksInv
  <2> QED
    BY <1>1, <1>2, <1>4, <2>1 DEF TalksInv
<1>10. SettingsInv'
  BY <1>1, <1>2 DEF SettingsInv, ResumesIn
<1>11. ForgottenInv'
  BY <1>1, <1>2, <1>3, <1>4 DEF ForgottenInv, ResumesIn
<1> QED
  BY <1>5, <1>6, <1>7, <1>8, <1>9, <1>10, <1>11 DEF ConversationsInv

\* The stages of a resume under way, one after the other.
LEMMA ResumeGoes ==
  ASSUME ConversationTypes, NEW u \in Users, NEW stage \in {"spec", "attach"},
         attachment[u].at # "idle", UserGoes(u, stage)
  PROVE  /\ attachment' \in [Users -> Attachments]
         /\ \A v \in Users \ {u} : attachment'[v] = attachment[v]
         /\ attachment'[u].at = stage /\ attachment'[u].session = attachment[u].session
         /\ attachment'[u].mount = attachment[u].mount
         /\ attachment'[u].keeps = attachment[u].keeps
<1> DEFINE a == [attachment[u] EXCEPT !.at = stage]
<1>1. attachment \in [Users -> Attachments] /\ attachment[u] \in Attachments
  BY DEF ConversationTypes
<1>2. attachment' = [attachment EXCEPT ![u] = a]
  BY <1>1 DEF UserGoes
<1>3. a \in Attachments /\ a.at = stage /\ a.session = attachment[u].session
      /\ a.mount = attachment[u].mount /\ a.keeps = attachment[u].keeps
  BY <1>1 DEF Attachments
<1> HIDE DEF a
<1> QED
  BY <1>1, <1>2, <1>3

\* The records of a session are removed when its home ended with the guest.
LEMMA TalksAreForgotten ==
  ASSUME ConversationsInv, NEW u \in Users, ForgetTalks(u)
  PROVE  ConversationsInv'
<1> DEFINE s == attachment[u].session
           keeps == attachment[u].keeps
<1>1. /\ attachment[u].at = "forget" /\ UserGoes(u, "spec")
      /\ hook' = hook /\ guestUp' = guestUp /\ home' = home /\ persistent' = persistent
      /\ toggled' = toggled /\ stale' = stale /\ talks' = talks /\ begun' = begun
      /\ latest' = latest /\ recovered' = recovered
      /\ IF keeps THEN UNCHANGED <<marker, shared>>
         ELSE /\ marker' = [marker EXCEPT ![s] = [mount \in MountsOf(s) |-> NoTalk]]
              /\ shared' = [shared EXCEPT ![s] = NoTalk]
  BY DEF ForgetTalks, UserAt
<1>2. /\ ConversationTypes /\ ResumesInv /\ ApartInv /\ SavedInv /\ TalksInv
      /\ SettingsInv /\ ForgottenInv
  BY DEF ConversationsInv
<1>3. /\ attachment' \in [Users -> Attachments]
      /\ \A v \in Users \ {u} : attachment'[v] = attachment[v]
      /\ attachment'[u].at = "spec" /\ attachment'[u].session = s
      /\ attachment'[u].mount = attachment[u].mount
      /\ attachment'[u].keeps = keeps
  BY <1>1, <1>2, ResumeGoes
<1>4. s \in Sessions /\ attachment[u].mount \in MountsOf(s)
  BY <1>1, <1>2 DEF ConversationTypes
<1>5. ResumesIn(u, s) /\ ~guestUp[s] /\ \A v \in Users : ResumesIn(v, s) => v = u
  BY <1>1, <1>2, <1>4 DEF ResumesInv, ResumesIn
<1>6. /\ \A r \in Sessions : \A mount \in MountsOf(r) :
           \/ marker'[r][mount] = marker[r][mount] /\ (r = s => keeps)
           \/ r = s /\ ~keeps /\ marker'[r][mount] = NoTalk
      /\ \A r \in Sessions : \/ shared'[r] = shared[r] /\ (r = s => keeps)
                             \/ r = s /\ ~keeps /\ shared'[r] = NoTalk
      /\ DOMAIN marker' = Sessions /\ shared' \in [Sessions -> TalkOrNone]
      /\ \A r \in Sessions : marker'[r] \in [MountsOf(r) -> TalkOrNone]
  <2>1. CASE keeps
    <3>1. marker' = marker /\ shared' = shared
      BY <1>1, <2>1
    <3> HIDE DEF s, keeps
    <3> QED
      BY <1>2, <2>1, <3>1 DEF ConversationTypes
  <2>2. CASE ~keeps
    <3>1. /\ marker' = [marker EXCEPT ![s] = [mount \in MountsOf(s) |-> NoTalk]]
          /\ shared' = [shared EXCEPT ![s] = NoTalk]
      BY <1>1, <2>2
    <3> HIDE DEF s, keeps
    <3>2. /\ marker'[s] = [mount \in MountsOf(s) |-> NoTalk]
          /\ \A r \in Sessions \ {s} : marker'[r] = marker[r]
          /\ DOMAIN marker' = Sessions
      BY <1>2, <1>4, <3>1 DEF ConversationTypes
    <3>3. marker'[s] \in [MountsOf(s) -> TalkOrNone]
      BY <3>2 DEF TalkOrNone
    <3>4. shared' \in [Sessions -> TalkOrNone] /\ shared'[s] = NoTalk
          /\ \A r \in Sessions \ {s} : shared'[r] = shared[r]
      BY <1>2, <1>4, <3>1 DEF ConversationTypes, TalkOrNone
    <3>5. \A r \in Sessions : marker'[r] \in [MountsOf(r) -> TalkOrNone]
      BY <1>2, <3>2, <3>3 DEF ConversationTypes
    <3>6. \A r \in Sessions : \A mount \in MountsOf(r) :
            \/ marker'[r][mount] = marker[r][mount] /\ (r = s => keeps)
            \/ r = s /\ ~keeps /\ marker'[r][mount] = NoTalk
      BY <2>2, <3>2
    <3>7. \A r \in Sessions : \/ shared'[r] = shared[r] /\ (r = s => keeps)
                              \/ r = s /\ ~keeps /\ shared'[r] = NoTalk
      BY <2>2, <3>4
    <3> QED
      BY <3>2, <3>4, <3>5, <3>6, <3>7
  <2> QED
    BY <2>1, <2>2
<1>7. keeps \in BOOLEAN
  BY <1>2 DEF ConversationTypes, Attachments
<1> HIDE DEF s, keeps
<1>8. \A v \in Users, r \in Sessions :
        ResumesIn(v, r)' => ResumesIn(v, r) /\ attachment'[v].keeps = attachment[v].keeps
  BY <1>1, <1>3, <1>4 DEF ResumesIn, s, keeps
<1>9. ConversationTypes'
  BY <1>1, <1>2, <1>3, <1>4, <1>6 DEF ConversationTypes
<1>10. ResumesInv'
  <2> SUFFICES ASSUME NEW v \in Users, NEW r \in Sessions, ResumesIn(v, r)'
               PROVE  /\ ~guestUp[r]
                      /\ \A w \in Users : ResumesIn(w, r)' => w = v
                      /\ attachment'[v].at \in {"spec", "start"} /\ ~attachment'[v].keeps =>
                           /\ \A mount \in MountsOf(r) : marker'[r][mount] = NoTalk
                           /\ shared'[r] = NoTalk
    BY <1>1 DEF ResumesInv
  <2>1. ResumesIn(v, r)
    BY <1>8
  <2>2. ~guestUp[r] /\ \A w \in Users : ResumesIn(w, r)' => w = v
    BY <1>2, <1>8, <2>1 DEF ResumesInv
  <2>3. CASE v = u
    <3>1. r = s
      BY <1>3, <2>3 DEF ResumesIn
    <3> QED
      BY <1>3, <1>6, <2>2, <2>3, <3>1
  <2>4. CASE v # u
    <3>1. r # s /\ attachment'[v] = attachment[v]
      BY <1>3, <1>5, <2>1, <2>4
    <3>2. attachment[v].at \in {"spec", "start"} /\ ~attachment[v].keeps =>
            (\A mount \in MountsOf(r) : marker[r][mount] = NoTalk) /\ shared[r] = NoTalk
      BY <1>2, <2>1 DEF ResumesInv
    <3> QED
      BY <1>6, <2>2, <3>1, <3>2
  <2> QED
    BY <2>3, <2>4
<1>11. ApartInv'
  <2>1. \A r \in Sessions : \A mount \in MountsOf(r) : Belongs(r, mount, marker'[r][mount])
    BY <1>2, <1>6 DEF ApartInv, Belongs
  <2>2. \A r \in Sessions :
          shared'[r] = NoTalk \/ shared'[r] \in recovered[r] \/ shared'[r].session = r
    BY <1>2, <1>6 DEF ApartInv
  <2>3. \A v \in Users : attachment'[v].at = "open" =>
          Belongs(attachment'[v].session, attachment'[v].mount, attachment'[v].chosen)
    BY <1>2, <1>3 DEF ApartInv, UserAt
  <2> QED
    BY <1>1, <2>1, <2>2, <2>3 DEF ApartInv, UserAt, Belongs
<1>12. SavedInv'
  <2>1. \A r \in Sessions : (Saved(r))' = Saved(r)
    BY <1>1 DEF Saved
  <2> QED
    BY <1>1, <1>2, <1>6, <2>1 DEF SavedInv
<1>13. TalksInv'
  BY <1>1, <1>2 DEF TalksInv
<1>14. SettingsInv'
  BY <1>1, <1>2, <1>8 DEF SettingsInv
<1>15. ForgottenInv'
  <2> SUFFICES ASSUME NEW r \in Sessions, NEW mount \in MountsOf(r),
                      latest[r][mount] # marker'[r][mount]
               PROVE  \/ latest[r][mount] \notin talks
                      \/ /\ latest[r][mount].kept = "store" /\ toggled /\ ~persistent
                         /\ home[r] = "tmpfs" \/ ~guestUp[r]
                         /\ \A v \in Users : ResumesIn(v, r)' => ~attachment'[v].keeps
    BY <1>1 DEF ForgottenInv
  <2>1. CASE latest[r][mount] # marker[r][mount]
    BY <1>2, <1>8, <2>1 DEF ForgottenInv
  <2>2. CASE latest[r][mount] = marker[r][mount]
    <3>1. r = s /\ ~keeps
      BY <1>6, <2>2
    <3> SUFFICES ASSUME latest[r][mount] \in talks
                 PROVE  /\ latest[r][mount].kept = "store" /\ toggled /\ ~persistent
                        /\ \A v \in Users : ResumesIn(v, r)' => ~attachment'[v].keeps
      BY <1>5, <3>1
    <3>2. latest[r][mount].kept = "store"
      <4>1. latest[r][mount] \in Talk
        BY <1>2 DEF ConversationTypes
      <4>2. latest[r][mount].kept # "tmpfs"
        BY <1>2, <1>5, <3>1 DEF TalksInv
      <4> QED
        BY <4>1, <4>2, NoTalkIs
    <3>3. attachment[u].keeps = FALSE /\ ResumesIn(u, r) /\ persistent \in BOOLEAN
      BY <1>2, <1>5, <1>7, <3>1 DEF keeps, ConversationTypes
    <3>4. toggled
      <4> SUFFICES ASSUME ~toggled PROVE FALSE
        OBVIOUS
      <4>1. persistent = FALSE
        BY <1>2, <3>3 DEF SettingsInv
      <4>2. latest[r][mount].kept \in {"none", Home(persistent)}
        BY <1>2 DEF SettingsInv
      <4> QED
        BY <3>2, <4>1, <4>2 DEF Home
    <3>5. ~persistent
      BY <1>2, <3>2, <3>3, <3>4 DEF SettingsInv
    <3>6. \A v \in Users : ResumesIn(v, r)' => ~attachment'[v].keeps
      BY <1>5, <1>8, <3>1, <3>3
    <3> QED
      BY <3>2, <3>4, <3>5, <3>6
  <2> QED
    BY <2>1, <2>2
<1> QED
  BY <1>9, <1>10, <1>11, <1>12, <1>13, <1>14, <1>15 DEF ConversationsInv
\* The guest comes back with the home that the resume read about.
LEMMA GuestsResume ==
  ASSUME ConversationsInv, NEW u \in Users, StartResumedGuest(u)
  PROVE  ConversationsInv'
<1> DEFINE s == attachment[u].session
           keeps == attachment[u].keeps
<1>1. /\ attachment[u].at = "start"
      /\ marker' = marker /\ shared' = shared /\ hook' = hook /\ persistent' = persistent
      /\ toggled' = toggled /\ talks' = talks /\ begun' = begun
      /\ latest' = latest /\ recovered' = recovered
      /\ guestUp' = [guestUp EXCEPT ![s] = TRUE]
      /\ home' = [home EXCEPT ![s] = Home(keeps)]
      /\ stale' = IF keeps /\ home[s] = "tmpfs" THEN stale \cup {s} ELSE stale
      /\ UserGoes(u, "attach") \/ UserEnds(u)
  BY DEF StartResumedGuest, UserAt, Home
<1>2. /\ ConversationTypes /\ ResumesInv /\ ApartInv /\ SavedInv /\ TalksInv
      /\ SettingsInv /\ ForgottenInv
  BY DEF ConversationsInv
<1>3. s \in Sessions /\ attachment[u].mount \in MountsOf(s) /\ keeps \in BOOLEAN
      /\ attachment \in [Users -> Attachments]
  BY <1>1, <1>2 DEF ConversationTypes, Attachments
<1>4. /\ attachment' \in [Users -> Attachments]
      /\ \A v \in Users \ {u} : attachment'[v] = attachment[v]
      /\ attachment'[u].at = "idle"
         \/ (attachment'[u].at = "attach" /\ attachment'[u].session = s
             /\ attachment'[u].mount = attachment[u].mount)
  <2>1. CASE UserGoes(u, "attach")
    BY <1>1, <1>2, <2>1, ResumeGoes
  <2>2. CASE UserEnds(u)
    <3>1. Unattached.at = "idle" /\ Unattached \in Attachments
      BY DEF Unattached, Attachments, TalkOrNone
    <3> QED
      BY <1>3, <2>2, <3>1 DEF UserEnds
  <2> QED
    BY <1>1, <2>1, <2>2
<1>5. ResumesIn(u, s) /\ \A v \in Users : ResumesIn(v, s) => v = u
  BY <1>1, <1>2, <1>3 DEF ResumesInv, ResumesIn
<1>6. ~keeps => (\A mount \in MountsOf(s) : marker[s][mount] = NoTalk) /\ shared[s] = NoTalk
  BY <1>1, <1>2, <1>3, <1>5 DEF ResumesInv
<1>7. /\ guestUp'[s] /\ home'[s] = Home(keeps)
      /\ \A r \in Sessions \ {s} : guestUp'[r] = guestUp[r] /\ home'[r] = home[r]
      /\ guestUp' \in [Sessions -> BOOLEAN] /\ home' \in [Sessions -> {"store", "tmpfs"}]
      /\ \A r \in Sessions : guestUp[r] => guestUp'[r]
  BY <1>1, <1>2, <1>3 DEF ConversationTypes, Home
<1>8. \A v \in Users, r \in Sessions :
        ResumesIn(v, r)' => ResumesIn(v, r) /\ attachment'[v] = attachment[v] /\ r # s
  BY <1>4, <1>5 DEF ResumesIn
<1>9. ConversationTypes'
  BY <1>1, <1>2, <1>3, <1>4, <1>7 DEF ConversationTypes
<1>10. /\ ~toggled => keeps = persistent
       /\ toggled /\ persistent /\ home[s] = "store" => keeps
       /\ (toggled /\ ~persistent /\ \A v \in Users : ResumesIn(v, s) => ~attachment[v].keeps)
            => ~keeps
  BY <1>2, <1>3, <1>5 DEF SettingsInv
<1> HIDE DEF s, keeps
<1>11. ResumesInv'
  BY <1>1, <1>2, <1>7, <1>8 DEF ResumesInv
<1>12. ApartInv'
  <2>1. \A v \in Users : attachment'[v].at = "open" =>
          Belongs(attachment'[v].session, attachment'[v].mount, attachment'[v].chosen)
    BY <1>2, <1>4 DEF ApartInv, UserAt
  <2> QED
    BY <1>1, <1>2, <2>1 DEF ApartInv, UserAt, Belongs
<1>13. SavedInv'
  <2> SUFFICES ASSUME NEW r \in Sessions \ stale', guestUp'[r] \/ home'[r] = "store"
               PROVE  /\ \A mount \in MountsOf(r) : marker[r][mount] \in (Saved(r))' \cup {NoTalk}
                      /\ shared[r] \in (Saved(r))' \cup {NoTalk}
    BY <1>1 DEF SavedInv
  <2>1. r \notin stale
    BY <1>1
  <2>2. CASE r # s
    <3>1. (Saved(r))' = Saved(r)
      BY <1>1, <1>7, <2>2 DEF Saved
    <3> QED
      BY <1>2, <1>7, <2>1, <2>2, <3>1 DEF SavedInv
  <2>3. CASE r = s /\ ~keeps
    BY <1>6, <2>3
  <2>4. CASE r = s /\ keeps
    <3>1. home[r] = "store" /\ home'[r] = "store"
      BY <1>1, <1>2, <1>3, <1>7, <2>4 DEF ConversationTypes, Home
    <3>2. (Saved(r))' = Saved(r)
      BY <1>1, <3>1 DEF Saved
    <3> QED
      BY <1>2, <2>1, <2>4, <3>1, <3>2 DEF SavedInv
  <2> QED
    BY <2>2, <2>3, <2>4
<1>14. TalksInv'
  <2>1. \A t \in talks : t.session \in Sessions
    BY <1>2, NoTalkIs DEF ConversationTypes
  <2> QED
    BY <1>1, <1>2, <1>7, <2>1 DEF TalksInv
<1>15. SettingsInv'
  <2>1. ~toggled =>
          /\ \A r \in Sessions : home'[r] = Home(persistent)
          /\ \A v \in Users, r \in Sessions : ResumesIn(v, r)' => attachment'[v].keeps = persistent
    BY <1>2, <1>7, <1>8, <1>10 DEF SettingsInv
  <2>2. ASSUME toggled, persistent, NEW r \in Sessions
        PROVE  /\ \A mount \in MountsOf(r) : latest[r][mount].kept = "store" => home'[r] = "store"
               /\ home'[r] = "store" =>
                    \A v \in Users : ResumesIn(v, r)' => attachment'[v].keeps
    BY <1>2, <1>7, <1>8, <1>10, <2>2 DEF SettingsInv, Home
  <2> QED
    BY <1>1, <1>2, <2>1, <2>2 DEF SettingsInv
<1>16. ForgottenInv'
  <2> SUFFICES ASSUME NEW r \in Sessions, NEW mount \in MountsOf(r),
                      latest[r][mount] # marker[r][mount], latest[r][mount] \in talks
               PROVE  /\ latest[r][mount].kept = "store" /\ toggled /\ ~persistent
                      /\ home'[r] = "tmpfs" \/ ~guestUp'[r]
                      /\ \A v \in Users : ResumesIn(v, r)' => ~attachment'[v].keeps
    BY <1>1 DEF ForgottenInv
  <2>1. /\ latest[r][mount].kept = "store" /\ toggled /\ ~persistent
        /\ home[r] = "tmpfs" \/ ~guestUp[r]
        /\ \A v \in Users : ResumesIn(v, r) => ~attachment[v].keeps
    BY <1>2 DEF ForgottenInv
  <2>2. \A v \in Users : ResumesIn(v, r)' => ~attachment'[v].keeps
    BY <1>8, <2>1
  <2>3. home'[r] = "tmpfs" \/ ~guestUp'[r]
    <3>1. CASE r = s
      <4>1. ~keeps
        BY <1>10, <2>1, <3>1
      <4> QED
        BY <1>7, <3>1, <4>1 DEF Home
    <3>2. CASE r # s
      BY <1>7, <2>1, <3>2
    <3> QED
      BY <3>1, <3>2
  <2> QED
    BY <2>1, <2>2, <2>3
<1> QED
  BY <1>9, <1>11, <1>12, <1>13, <1>14, <1>15, <1>16 DEF ConversationsInv

LEMMA SettingsChange ==
  ASSUME ConversationsInv, TogglePersistence
  PROVE  ConversationsInv'
<1>1. /\ marker' = marker /\ shared' = shared /\ hook' = hook /\ guestUp' = guestUp
      /\ home' = home /\ stale' = stale /\ talks' = talks
      /\ begun' = begun /\ latest' = latest /\ recovered' = recovered
      /\ attachment' = attachment
      /\ ~toggled /\ toggled' = TRUE /\ persistent' = ~persistent
  BY DEF TogglePersistence
<1>2. /\ ConversationTypes /\ ResumesInv /\ ApartInv /\ SavedInv /\ TalksInv
      /\ SettingsInv /\ ForgottenInv
  BY DEF ConversationsInv
<1>3. ConversationTypes' /\ ResumesInv' /\ ApartInv' /\ SavedInv' /\ TalksInv'
  BY <1>1, <1>2
     DEF ConversationTypes, ResumesInv, ResumesIn, ApartInv, Belongs, UserAt, SavedInv, Saved,
         TalksInv
<1>4. SettingsInv'
  <2>1. persistent' => \A s \in Sessions :
          home[s] = "tmpfs" /\ \A mount \in MountsOf(s) : latest[s][mount].kept # "store"
    BY <1>1, <1>2 DEF SettingsInv, Home
  <2> QED
    BY <1>1, <2>1 DEF SettingsInv
<1>5. ForgottenInv'
  BY <1>1, <1>2 DEF ForgottenInv
<1> QED
  BY <1>3, <1>4, <1>5 DEF ConversationsInv

-----------------------------------------------------------------------------
LEMMA ConversationsGo ==
  ConversationsInv /\ [ConversationsNext]_conversationVars => ConversationsInv'
<1> SUFFICES ASSUME ConversationsInv, [ConversationsNext]_conversationVars
             PROVE  ConversationsInv'
  OBVIOUS
<1>1. CASE UNCHANGED conversationVars
  BY <1>1 DEF conversationVars, ConversationsInv, ConversationTypes, ResumesInv, ResumesIn,
              ApartInv, Belongs, UserAt, SavedInv, Saved, TalksInv, SettingsInv, ForgottenInv
<1>2. ASSUME NEW s \in Sessions, BeginTalk(s) \/ StopGuestOf(s)
      PROVE  ConversationsInv'
  BY <1>2, HooksRecord, GuestsStop
<1>3. ASSUME NEW u \in Users,
             \/ Attach(u) \/ FindTalk(u) \/ RefuseAttach(u) \/ JcodeFails(u)
             \/ ResumeById(u) \/ ResumeFromRepository(u) \/ WriteHook(u) \/ RestartFails(u)
      PROVE  ConversationsInv'
  BY <1>3, CommandsGo
<1>4. ASSUME NEW u \in Users,
             \/ RecoverLegacyTalk(u) \/ OpenJcode(u)
             \/ ForgetTalks(u) \/ StartResumedGuest(u)
      PROVE  ConversationsInv'
  BY <1>4, TalksAreRecovered, HooksRecord, TalksAreForgotten, GuestsResume
<1> QED
  BY <1>1, <1>2, <1>3, <1>4, SettingsChange DEF ConversationsNext

LEMMA InvariantHolds == ConversationsSpec => []ConversationsInv
<1> QED
  BY ConversationsBegin, ConversationsGo, PTL DEF ConversationsSpec

\* Types of the records, homes and commands.
THEOREM ConversationTypesCorrect == ConversationsSpec => []ConversationsTypeOK
<1>1. ConversationsInv => ConversationsTypeOK
  BY DEF ConversationsInv, ConversationTypes, ConversationsTypeOK, TalkOrNone, Attachments
<1> QED
  BY <1>1, InvariantHolds, PTL

\* Whatever commands run and whatever hooks the sessions had, an attachment resumes
\* no conversation of another repository or session (but a recovered one), none that
\* its guest does not have (but after the store was turned on), and the last one of
\* its mount when the guest has it.
THEOREM TalksResume == ConversationsSpec => []ConversationsContinue
<1>1. ConversationsInv => ConversationsApart
  <2> SUFFICES ASSUME ConversationsInv PROVE ConversationsApart
    OBVIOUS
  <2>1. \A s \in Sessions : \A mount \in MountsOf(s) :
          Belongs(s, mount, RepositoryTalk(s, mount))
    BY RecordBelongs
  <2> QED
    BY <2>1 DEF ConversationsApart, ConversationsInv, ApartInv
<1>2. ConversationsInv => RecordsAreSaved
  <2> SUFFICES ASSUME ConversationsInv, NEW s \in Sessions \ stale, NEW mount \in MountsOf(s),
                      guestUp[s]
               PROVE  RepositoryTalk(s, mount) \in Saved(s) \cup {NoTalk}
    BY DEF RecordsAreSaved
  <2>1. marker[s][mount] \in Saved(s) \cup {NoTalk} /\ shared[s] \in Saved(s) \cup {NoTalk}
    BY DEF ConversationsInv, SavedInv
  <2> QED
    BY <2>1, TheTalkOfMount
<1>3. ConversationsInv => TalksContinue
  <2> SUFFICES ASSUME ConversationsInv, NEW s \in Sessions, NEW mount \in MountsOf(s),
                      guestUp[s], latest[s][mount] \in Saved(s)
               PROVE  RepositoryTalk(s, mount) = latest[s][mount]
    BY DEF TalksContinue
  <2>1. latest[s][mount] \in talks /\ latest[s][mount].kept = home[s]
    BY DEF Saved
  <2>2. latest[s][mount] = marker[s][mount]
    BY <2>1 DEF ConversationsInv, ForgottenInv
  <2>3. marker[s][mount] # NoTalk
    BY <2>1, <2>2, NoTalkIs DEF ConversationsInv, ConversationTypes
  <2> QED
    BY <2>2, <2>3 DEF RepositoryTalk
<1> QED
  BY <1>1, <1>2, <1>3, InvariantHolds, PTL DEF ConversationsContinue
-----------------------------------------------------------------------------
(***************************************************************************)
(* The parts side by side: a behaviour of them all is one of each          *)
(***************************************************************************)
LEMMA PartsBegin ==
  ASSUME PartsInit
  PROVE  /\ part \in Parts
         /\ Init /\ BaselineInit /\ TasksInit /\ AccessInit /\ RefreshInit
         /\ ImageInit /\ ConversationsInit /\ MountsInit /\ RebasesInit
BY DEF PartsInit

\* A step of one part leaves the variables of the others alone.
LEMMA PartsKeepApart ==
  ASSUME [PartsNext]_allVars
  PROVE  /\ part' = part
         /\ [Next]_vars /\ [BaselineNext]_baselineVars /\ [TasksNext]_taskVars
         /\ [AccessNext]_accessVars /\ [RefreshNext]_configVars
         /\ [ImageNext]_imageVars /\ [ConversationsNext]_conversationVars
         /\ [MountsNext]_mountVars /\ [RebasesNext]_rebaseVars
<1>1. CASE Others("launch") /\ Next
  BY <1>1 DEF Others
<1>2. CASE Others("baseline") /\ BaselineNext
  BY <1>2 DEF Others
<1>3. CASE Others("tasks") /\ TasksNext
  BY <1>3 DEF Others
<1>4. CASE Others("access") /\ AccessNext
  BY <1>4 DEF Others
<1>5. CASE Others("config") /\ RefreshNext
  BY <1>5 DEF Others
<1>6. CASE Others("images") /\ ImageNext
  BY <1>6 DEF Others
<1>7. CASE Others("conversations") /\ ConversationsNext
  BY <1>7 DEF Others
<1>8. CASE Others("mounts") /\ MountsNext
  BY <1>8 DEF Others
<1>9. CASE Others("rebases") /\ RebasesNext
  BY <1>9 DEF Others
<1>10. CASE UNCHANGED allVars
  BY <1>10 DEF allVars
<1> QED
  BY <1>1, <1>2, <1>3, <1>4, <1>5, <1>6, <1>7, <1>8, <1>9, <1>10 DEF PartsNext

\* Every part has the behaviours of its own specification.
LEMMA PartsBehave ==
  PartsSpec => /\ Spec /\ BaselineSpec /\ TasksSpec /\ AccessSpec /\ ConfigRefreshSpec
               /\ ImageSpec /\ ConversationsSpec /\ MountsSpec /\ RebasesSpec
BY PartsBegin, PartsKeepApart, PTL
   DEF PartsSpec, Spec, BaselineSpec, TasksSpec, AccessSpec, ConfigRefreshSpec,
       ImageSpec, ConversationsSpec, MountsSpec, RebasesSpec

\* Every variable of the part a behaviour is of keeps its type: what jbox keeps
\* in records, journals, baselines and markers is what it writes there, whatever
\* fails, dies or is edited meanwhile (state.rs Session, the files of image.rs
\* and paths.rs), as long as no Dockerfile changes between its digest and its reading.
THEOREM PartsTypesCorrect ==
  ASSUME "projectBuild" \notin EditAt
  PROVE  PartsSpec => []PartsTypeOK
<1>1. PartsSpec => [](part \in Parts)
  <2>1. PartsInit => part \in Parts
    BY PartsBegin
  <2>2. part \in Parts /\ [PartsNext]_allVars => (part \in Parts)'
    BY PartsKeepApart
  <2> QED
    BY <2>1, <2>2, PTL DEF PartsSpec
<1>2. PartsSpec =>
        /\ []TypeOK /\ []BaselineTypeOK /\ []TasksTypeOK /\ []AccessTypeOK
        /\ []RefreshTypeOK /\ []ImageTypeOK /\ []ConversationsTypeOK
        /\ []GuestMountsTypeOK /\ []WorktreeRebasesTypeOK
  BY PartsBehave, TypeCorrect, BaselineTypesCorrect, TaskTypesCorrect, AccessTypesCorrect,
     RefreshTypesCorrect, ImageTypesCorrect, ConversationTypesCorrect, MountTypesCorrect,
     RebaseTypesCorrect, PTL
<1>3. /\ part \in Parts /\ TypeOK /\ BaselineTypeOK /\ TasksTypeOK /\ AccessTypeOK
      /\ RefreshTypeOK /\ ImageTypeOK /\ ConversationsTypeOK /\ GuestMountsTypeOK
      /\ WorktreeRebasesTypeOK
      => PartsTypeOK
  BY DEF PartsTypeOK, Parts
<1> QED
  BY <1>1, <1>2, <1>3, PTL
=============================================================================
