---------------------------- MODULE ConfigRefresh ----------------------------
(***************************************************************************)
(* `jbox init --update`: the parts of `.jbox.toml` that jbox manages are   *)
(* brought up to date in place.                                            *)
(*                                                                         *)
(* An updater locks the directory against other updaters, reads the file,  *)
(* computes a new one, stages it beside the old one, compares the file and *)
(* the directory with what it read, and renames.  Editors know nothing of  *)
(* the lock, and the directory itself can be replaced.                     *)
(***************************************************************************)
EXTENDS Naturals, Sequences, FiniteSets

CONSTANTS
  Updaters,      \* invocations of `jbox init --update`
  Files,         \* what people write in `.jbox.toml`: see IsFile
  Families,      \* family of models -> its provider and current version
  DefaultSkills, \* the sources of skills that jbox ships, as a list
  EditsAt,       \* bound: where an updater may be while an editor saves
  Saves          \* bound: edits, and replacements of the directory

VARIABLES
  toml,          \* what the file holds
  inode,         \* the file's identity
  folder,        \* the directory's identity
  lockHolder,    \* directory -> the updater that has locked it, or "nobody"
  updater,       \* what each updater is doing
  saves          \* how much of Saves is used

configVars == <<toml, inode, folder, lockHolder, updater, saves>>

IsRecord(r, fields) == r = [field \in fields |-> r[field]]

\* A source of skills; `managed` is a flag that can also be left out.
IsSource(s) ==
  /\ IsRecord(s, {"repository", "skill", "pin", "settings", "managed"})
  /\ s.managed \in {"yes", "no", "unset"}

IsSourceList(skills) ==
  /\ skills \in Seq({skills[i] : i \in DOMAIN skills})
  /\ \A i \in DOMAIN skills : IsSource(skills[i])

\* The file: the project's own settings (numbered by who wrote last), the model
\* with its provider and whether reasoning is low, the skills, the prompt, and
\* the prompt of earlier versions of jbox.
IsFile(f) ==
  /\ IsRecord(f, {"valid", "written", "provider", "family", "version",
                  "lowEffort", "skills", "prompt", "legacy"})
  /\ f.valid \in BOOLEAN
  /\ f.version \in Seq(Nat)
  /\ IsSourceList(f.skills)
  /\ f.prompt \in {"absent", "old", "current"}
  /\ f.legacy \in {"absent", "known", "edited"}

ASSUME RefreshAssumption ==
  /\ \A f \in Files : IsFile(f)
  /\ \A m \in DOMAIN Families : Families[m].newest \in Seq(Nat)
  /\ IsSourceList(DefaultSkills)
  /\ \A i \in DOMAIN DefaultSkills : DefaultSkills[i].managed = "yes"
  /\ "nobody" \notin Updaters
  /\ Saves \in Nat

-----------------------------------------------------------------------------
(***************************************************************************)
(* The new contents                                                        *)
(***************************************************************************)

\* Versions are compared number by number, missing numbers as zero; a longer
\* one is a dated variant that the project chose.
VersionAtMost(version, newest) ==
  /\ Len(version) <= Len(newest)
  /\ LET padded == [i \in DOMAIN newest |->
                      IF i <= Len(version) THEN version[i] ELSE 0]
     IN  \/ padded = newest
         \/ \E i \in DOMAIN newest :
              /\ padded[i] < newest[i]
              /\ \A j \in 1 .. i - 1 : padded[j] = newest[j]

\* A known family, from its own provider or from none named; the newest GPT
\* cannot reason as little as some projects ask for.
RefreshesModel(f) ==
  /\ f.family \in DOMAIN Families
  /\ f.provider \in {"any", Families[f.family].provider}
  /\ VersionAtMost(f.version, Families[f.family].newest)
  /\ ~(Families[f.family].reasons /\ f.lowEffort)

SameIdentity(s, t) == s.repository = t.repository /\ s.skill = t.skill

\* A source that jbox would ship itself, unpinned and listed once, becomes
\* managed when it does not say whether it is.
Adoptable(s, skills) ==
  /\ s.managed = "unset"
  /\ s.pin = "none"
  /\ \E i \in DOMAIN DefaultSkills :
       SameIdentity(s, DefaultSkills[i]) /\ s.settings = DefaultSkills[i].settings
  /\ Cardinality({i \in DOMAIN skills : SameIdentity(skills[i], s)}) = 1

Managed(skills) ==
  {i \in DOMAIN skills :
     skills[i].managed = "yes" \/ Adoptable(skills[i], skills)}

Marked(skills) ==
  [i \in DOMAIN skills |->
     IF i \in Managed(skills) THEN [skills[i] EXCEPT !.managed = "yes"]
     ELSE skills[i]]

\* The shipped sources of whose repository the list has nothing.
Missing(skills) ==
  {d \in DOMAIN DefaultSkills :
     \A i \in DOMAIN skills : skills[i].repository # DefaultSkills[d].repository}

\* The elements of a list at these places, in their order.
ElementsAt(list, places) ==
  [n \in 1 .. Cardinality(places) |->
     list[CHOOSE i \in places : Cardinality({j \in places : j <= i}) = n]]

\* New defaults only join a list that has a managed source.
RefreshSkills(skills) ==
  IF Managed(skills) = {} THEN skills
  ELSE Marked(skills) \o ElementsAt(DefaultSkills, Missing(skills))

Refresh(f) ==
  [f EXCEPT !.version = IF RefreshesModel(f) THEN Families[f.family].newest ELSE @,
            !.skills = RefreshSkills(@),
            !.legacy = "absent",
            !.prompt = "current"]

\* What no update changes: all of the project's settings, and its selection of
\* skills with their pins.
Selection(skills, n) ==
  [i \in 1 .. n |-> [skills[i] EXCEPT !.managed = "unset"]]
ProjectPreserved(f, g) ==
  /\ g.written = f.written
  /\ Len(g.skills) >= Len(f.skills)
  /\ Selection(g.skills, Len(f.skills)) = Selection(f.skills, Len(f.skills))

\* An edited legacy prompt is the project's to move.
Refreshable(f) ==
  f.valid /\ f.legacy # "edited" /\ ProjectPreserved(f, Refresh(f))

-----------------------------------------------------------------------------
Nobody == "nobody"
Idle == [at |-> "start", read |-> 0, inode |-> 0, folder |-> 0]
UpdaterStages == {"start", "read", "stage", "recheck", "identify", "persist",
                  "ended"}

RefreshTypeOK ==
  /\ toml.written \in 0 .. Saves
  /\ inode \in Nat /\ folder \in 0 .. Saves
  /\ lockHolder \in [0 .. Saves -> Updaters \cup {Nobody}]
  /\ \A u \in Updaters : updater[u].at \in UpdaterStages
  /\ saves \in 0 .. Saves

RefreshInit ==
  /\ toml \in {[f EXCEPT !.written = 0] : f \in Files}
  /\ inode = 0 /\ folder = 0
  /\ lockHolder = [d \in 0 .. Saves |-> Nobody]
  /\ updater = [u \in Updaters |-> Idle]
  /\ saves = 0

AtStage(u, stage) == updater[u].at = stage
Proceeds(u, stage) == updater' = [updater EXCEPT ![u].at = stage]

\* The lock goes with the process, whether it ends or dies.
EndsUpdate(u) ==
  /\ Proceeds(u, "ended")
  /\ lockHolder' = [d \in DOMAIN lockHolder |->
                      IF lockHolder[d] = u THEN Nobody ELSE lockHolder[d]]

LockFolder(u) ==
  /\ AtStage(u, "start")
  /\ IF lockHolder[folder] = Nobody
     THEN /\ lockHolder' = [lockHolder EXCEPT ![folder] = u]
          /\ updater' = [updater EXCEPT ![u] =
                           [@ EXCEPT !.at = "read", !.folder = folder]]
     ELSE EndsUpdate(u)
  /\ UNCHANGED <<toml, inode, folder, saves>>

\* The file is read and the new one computed; nothing is written when it cannot
\* be, or is the same.
ReadConfig(u) ==
  /\ AtStage(u, "read")
  /\ IF Refreshable(toml) /\ Refresh(toml) # toml
     THEN /\ updater' = [updater EXCEPT ![u] =
                           [@ EXCEPT !.at = "stage", !.read = toml, !.inode = inode]]
          /\ UNCHANGED lockHolder
     ELSE EndsUpdate(u)
  /\ UNCHANGED <<toml, inode, folder, saves>>

\* A temporary file in the project; its owner must be the old file's.
StageUpdate(u) ==
  /\ AtStage(u, "stage")
  /\ \/ Proceeds(u, "recheck") /\ UNCHANGED lockHolder
     \/ EndsUpdate(u)
  /\ UNCHANGED <<toml, inode, folder, saves>>

\* mutant: the file is not compared with what was read
SkipsRecheck(u) ==
  /\ AtStage(u, "recheck")
  /\ Proceeds(u, "identify")
  /\ UNCHANGED <<toml, inode, folder, lockHolder, saves>>

EnsureUnchanged(u) ==
  /\ AtStage(u, "recheck")
  /\ IF toml = updater[u].read /\ inode = updater[u].inode
     THEN Proceeds(u, "identify") /\ UNCHANGED lockHolder
     ELSE EndsUpdate(u)
  /\ UNCHANGED <<toml, inode, folder, saves>>

CheckFolder(u) ==
  /\ AtStage(u, "identify")
  /\ IF folder = updater[u].folder
     THEN Proceeds(u, "persist") /\ UNCHANGED lockHolder
     ELSE EndsUpdate(u)
  /\ UNCHANGED <<toml, inode, folder, saves>>

\* The rename fails where the temporary file is not in the directory any more.
PersistUpdate(u) ==
  /\ AtStage(u, "persist")
  /\ IF folder = updater[u].folder
     THEN toml' = Refresh(updater[u].read) /\ inode' = inode + 1
     ELSE UNCHANGED <<toml, inode>>
  /\ EndsUpdate(u)
  /\ UNCHANGED <<folder, saves>>

UpdateDies(u) ==
  /\ ~AtStage(u, "start") /\ ~AtStage(u, "ended")
  /\ EndsUpdate(u)
  /\ UNCHANGED <<toml, inode, folder, saves>>

\* People save the file, in place or by a rename, or put another checkout in the
\* directory's place.
EditorSaves ==
  /\ saves < Saves
  /\ \A u \in Updaters : updater[u].at \in EditsAt
  /\ saves' = saves + 1
  /\ toml' \in {[f EXCEPT !.written = saves + 1] : f \in Files}
  /\ inode' \in {inode, inode + 1}
  /\ folder' \in {folder, folder + 1}
  /\ UNCHANGED <<lockHolder, updater>>

RefreshNext ==
  \/ \E u \in Updaters :
       \/ LockFolder(u) \/ ReadConfig(u) \/ StageUpdate(u)
       \/ EnsureUnchanged(u) \/ CheckFolder(u) \/ PersistUpdate(u)
       \/ UpdateDies(u)
  \/ EditorSaves

ConfigRefreshSpec == RefreshInit /\ [][RefreshNext]_configVars

-----------------------------------------------------------------------------
(***************************************************************************)
(* What it implements                                                      *)
(***************************************************************************)

Unmarked(source) == [source EXCEPT !.managed = "unset"]
ShippedSources == {Unmarked(DefaultSkills[i]) : i \in DOMAIN DefaultSkills}
ListedSources(file) == {Unmarked(file.skills[i]) : i \in DOMAIN file.skills}

Revision(file) == file.written

\* The project's part: its settings, every repository of skills of which it has a
\* selection of its own, and models that are not jbox's to change.
OwnedPart(file) ==
  [written |-> file.written,
   skills |-> {s \in ListedSources(file) :
                 \E t \in ListedSources(file) \ ShippedSources : t.repository = s.repository},
   model |-> <<file.provider, file.family,
               IF RefreshesModel(file) THEN <<>> ELSE file.version>>]

UpToDate(file) == Refresh(file) = file /\ file.valid

Abstract == INSTANCE AtomicRefresh
  WITH Owned <- OwnedPart, Current <- UpToDate, contents <- toml

\* Updates are atomic: two updaters, crashes, and edits at any time before the
\* last comparison never lose an edit nor leave a file that is half updated, and
\* an update leaves nothing to update.
RefreshIsAtomic == Abstract!RefreshSpec
=============================================================================
