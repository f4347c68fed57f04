---------------------------- MODULE Conversations ----------------------------
(***************************************************************************)
(* Which Jcode conversation an attachment resumes.                         *)
(*                                                                         *)
(* A session has a worktree of each of its repositories, mounted in one    *)
(* guest.  A hook in the guest records the last conversation of each mount *)
(* in a marker.  Older sessions have one marker for all mounts (an older   *)
(* hook wrote it), or none.  Jcode's home, with the conversations, is a    *)
(* store that guests share (`persistent_credentials`), or a tmpfs that ends *)
(* with the guest.                                                         *)
(***************************************************************************)
EXTENDS Naturals, Sequences, FiniteSetsExt

CONSTANTS
  Sessions,      \* sessions of one project, the first repository of each
  Repositories,  \* of each session, in its order: [source, mount]
  Hooks,         \* the hooks that the sessions may have had from before
  Users,         \* commands that run at a time
  Talks          \* bound: how many conversations are begun

VARIABLES
  marker,        \* of each session and mount: the conversation on record
  shared,        \* of each session: the marker of all its mounts
  hook,          \* of each session: the hook on the host, as the guest sees it
  guestUp,       \* does the guest of a session run
  home,          \* of each session: the home of its (last) guest
  persistent,    \* what the project's configuration says now
  toggled,       \* was it changed
  stale,         \* sessions that resumed with a store after a guest without
  talks,         \* conversations that are saved in some home
  begun,         \* how many were begun
  latest,        \* of each session and mount: the last that the hook was told of
  recovered,     \* conversations chosen by a recovery, by session
  attachment     \* what each command is doing

conversationVars == <<marker, shared, hook, guestUp, home, persistent, toggled,
                      stale, talks, begun, latest, recovered, attachment>>

ASSUME ConversationsAssumption ==
  /\ \A s \in Sessions :
       Repositories[s] \in Seq([source : STRING, mount : STRING]) \ {<<>>}
  /\ Hooks \subseteq [Sessions -> {"none", "shared", "scoped"}]
  /\ Talks \in Nat

MountsOf(s) == {Repositories[s][i].mount : i \in DOMAIN Repositories[s]}
AllMounts == UNION {MountsOf(s) : s \in Sessions}
SourcesOf(s) == {Repositories[s][i].source : i \in DOMAIN Repositories[s]}
AllSources == UNION {SourcesOf(s) : s \in Sessions}
IsSingle(s) == Len(Repositories[s]) = 1

NoTalk == [number |-> 0, session |-> "none", place |-> "none",
           kept |-> "none"]
Talk == [number : 1 .. Talks, session : Sessions,
         place : AllMounts \cup {"elsewhere"}, kept : {"store", "tmpfs"}]

Unattached == [at |-> "idle", session |-> "none", mount |-> "none",
               chosen |-> NoTalk, keeps |-> FALSE, attaches |-> FALSE]

ConversationsTypeOK ==
  /\ \A s \in Sessions : \A mount \in MountsOf(s) : marker[s][mount] \in Talk \cup {NoTalk}
  /\ shared \in [Sessions -> Talk \cup {NoTalk}]
  /\ hook \in [Sessions -> {"none", "shared", "scoped"}]
  /\ guestUp \in [Sessions -> BOOLEAN]
  /\ home \in [Sessions -> {"store", "tmpfs"}]
  /\ talks \subseteq Talk
  /\ \A u \in Users : attachment[u].at \in
       {"idle", "attach", "open", "forget", "spec", "start"}

\* Sessions of this version have the hook; older ones may run on without.
ConversationsInit ==
  /\ marker = [s \in Sessions |-> [mount \in MountsOf(s) |-> NoTalk]]
  /\ shared = [s \in Sessions |-> NoTalk]
  /\ hook \in Hooks
  /\ guestUp = [s \in Sessions |-> TRUE]
  /\ persistent \in BOOLEAN
  /\ toggled = FALSE
  /\ stale = {}
  /\ home = [s \in Sessions |-> IF persistent THEN "store" ELSE "tmpfs"]
  /\ talks = {}
  /\ begun = 0
  /\ latest = marker
  /\ recovered = [s \in Sessions |-> {}]
  /\ attachment = [u \in Users |-> Unattached]

\* What the guest of s finds in its home.
Saved(s) ==
  {t \in talks : t.kept = home[s] /\ (t.kept = "store" \/ t.session = s)}

UserAt(u, stage) == attachment[u].at = stage
UserGoes(u, stage) == attachment' = [attachment EXCEPT ![u].at = stage]
UserEnds(u) == attachment' = [attachment EXCEPT ![u] = Unattached]

-----------------------------------------------------------------------------
(***************************************************************************)
(* In the guest                                                            *)
(***************************************************************************)

\* mutant: the marker of the session's first mount, wherever Jcode runs
RecordsFirst(s, place, t) ==
  CASE hook[s] = "scoped" /\ place \in MountsOf(s) ->
         /\ marker' = [marker EXCEPT ![s][Repositories[s][1].mount] = t]
         /\ latest' = [latest EXCEPT ![s][place] = t]
         /\ UNCHANGED shared
    [] hook[s] = "shared" -> shared' = [shared EXCEPT ![s] = t] /\ UNCHANGED <<marker, latest>>
    [] OTHER -> UNCHANGED <<marker, shared, latest>>

\* Jcode tells the hook of a conversation and its directory.  The hook of this
\* version knows the directories of the mounts, and no other.
Records(s, place, t) ==
  CASE hook[s] = "scoped" /\ place \in MountsOf(s) ->
         /\ marker' = [marker EXCEPT ![s][place] = t]
         /\ latest' = [latest EXCEPT ![s][place] = t]
         /\ UNCHANGED shared
    [] hook[s] = "shared" -> shared' = [shared EXCEPT ![s] = t] /\ UNCHANGED <<marker, latest>>
    [] OTHER -> UNCHANGED <<marker, shared, latest>>

\* Bound: Talks.
BeginsTalk(s, place) ==
  /\ begun < Talks
  /\ begun' = begun + 1
  /\ LET t == [number |-> begun + 1, session |-> s, place |-> place, kept |-> home[s]]
     IN  talks' = talks \cup {t} /\ Records(s, place, t)

\* From the TUI or a shell, in any directory.
BeginTalk(s) ==
  /\ guestUp[s]
  /\ \E place \in MountsOf(s) \cup {"elsewhere"} : BeginsTalk(s, place)
  /\ UNCHANGED <<hook, guestUp, home, persistent, toggled, stale, recovered, attachment>>

-----------------------------------------------------------------------------
(***************************************************************************)
(* attach                                                                  *)
(***************************************************************************)

\* The mount of the repository where the command runs, or the first.
AttachmentMount(s, source) ==
  LET here == {i \in DOMAIN Repositories[s] : Repositories[s][i].source = source}
  IN  IF here = {} THEN Repositories[s][1].mount ELSE Repositories[s][Min(here)].mount

Attaching(s, source) ==
  [Unattached EXCEPT !.at = "attach", !.session = s,
                     !.mount = AttachmentMount(s, source)]

\* jbox attach, with or without a session's id
Attach(u) ==
  /\ UserAt(u, "idle")
  /\ \E s \in Sessions, source \in AllSources \cup {"outside"} :
       /\ guestUp[s]
       /\ attachment' = [attachment EXCEPT ![u] = Attaching(s, source)]
  /\ UNCHANGED <<marker, shared, hook, guestUp, home, persistent, toggled, stale, talks, begun,
                 latest, recovered>>

RequiresRestart(s) == ~IsSingle(s) /\ hook[s] # "scoped"

\* The scoped marker; for a single repository also the older one.
RepositoryTalk(s, mount) ==
  IF marker[s][mount] # NoTalk \/ ~IsSingle(s) THEN marker[s][mount] ELSE shared[s]

Chooses(u, t) ==
  attachment' = [attachment EXCEPT ![u].at = "open", ![u].chosen = t]

FindTalk(u) ==
  LET s == attachment[u].session
      t == RepositoryTalk(s, attachment[u].mount)
  IN  /\ UserAt(u, "attach")
      /\ guestUp[s]
      /\ ~RequiresRestart(s)
      /\ t # NoTalk \/ ~IsSingle(s) \/ hook[s] # "none"
      /\ Chooses(u, t)
      /\ UNCHANGED <<marker, shared, hook, guestUp, home, persistent, toggled, stale, talks,
                     begun, latest, recovered>>

\* No hook was ever there: the guest is asked for the conversations of its home
\* that have an answer (some of them); a single one is taken, of several the user
\* chooses.
RecoverLegacyTalk(u) ==
  LET s == attachment[u].session
      mount == attachment[u].mount
  IN  /\ UserAt(u, "attach")
      /\ guestUp[s]
      /\ IsSingle(s) /\ hook[s] = "none" /\ RepositoryTalk(s, mount) = NoTalk
      /\ \/ Chooses(u, NoTalk) /\ UNCHANGED <<marker, latest, recovered>>
         \/ \E t \in Saved(s) :
              /\ Chooses(u, t)
              /\ marker' = [marker EXCEPT ![s][mount] = t]
              /\ latest' = [latest EXCEPT ![s][mount] = t]
              /\ recovered' = [recovered EXCEPT ![s] = @ \cup {t}]
      /\ UNCHANGED <<shared, hook, guestUp, home, persistent, toggled, stale, talks, begun>>

\* A stopped guest, an older hook for several mounts, another version of Jcode,
\* or no choice made.
RefuseAttach(u) ==
  /\ UserAt(u, "attach")
  /\ UserEnds(u)
  /\ UNCHANGED <<marker, shared, hook, guestUp, home, persistent, toggled, stale, talks, begun,
                 latest, recovered>>

\* The local Jcode is told of the mount, and of the conversation to resume.
OpenJcode(u) ==
  LET a == attachment[u]
  IN  /\ UserAt(u, "open")
      /\ guestUp[a.session]
      /\ IF a.chosen = NoTalk THEN BeginsTalk(a.session, a.mount)
         ELSE /\ a.chosen \in Saved(a.session)
              /\ Records(a.session, a.mount, a.chosen)
              /\ UNCHANGED <<talks, begun>>
      /\ UserEnds(u)
      /\ UNCHANGED <<hook, guestUp, home, persistent, toggled, stale, recovered>>

\* The guest, or what it had, is gone by now.
JcodeFails(u) ==
  /\ UserAt(u, "open")
  /\ LET a == attachment[u]
     IN  ~guestUp[a.session] \/ a.chosen \notin Saved(a.session) \cup {NoTalk}
  /\ UserEnds(u)
  /\ UNCHANGED <<marker, shared, hook, guestUp, home, persistent, toggled, stale, talks, begun,
                 latest, recovered>>

-----------------------------------------------------------------------------
(***************************************************************************)
(* stop and resume                                                         *)
(***************************************************************************)

\* A tmpfs ends with its guest.
StopGuestOf(s) ==
  /\ guestUp[s]
  /\ guestUp' = [guestUp EXCEPT ![s] = FALSE]
  /\ talks' = {t \in talks : t.kept = "store" \/ t.session # s}
  /\ UNCHANGED <<marker, shared, hook, home, persistent, toggled, stale, begun, latest,
                 recovered, attachment>>

\* Two resumes of one session at a time are SessionLifecycle's subject.
Resuming(s) ==
  \E u \in Users : attachment[u].session = s /\ attachment[u].at \in {"forget", "spec", "start"}

\* The configuration is read once.
StartsResume(u, s, mount, attaches) ==
  /\ ~guestUp[s] /\ ~Resuming(s)
  /\ attachment' = [attachment EXCEPT ![u] =
       [at |-> "forget", session |-> s, mount |-> mount, chosen |-> NoTalk,
        keeps |-> persistent, attaches |-> attaches]]

\* jbox resume with a session's id
ResumeById(u) ==
  /\ UserAt(u, "idle")
  /\ \E s \in Sessions : StartsResume(u, s, Repositories[s][1].mount, FALSE)
  /\ UNCHANGED <<marker, shared, hook, guestUp, home, persistent, toggled, stale, talks, begun,
                 latest, recovered>>

\* jbox resume, or jbox run, in a repository: one of its sessions, the user's
\* choice or the most recently active; it is attached when it runs.
ResumeFromRepository(u) ==
  /\ UserAt(u, "idle")
  /\ \E source \in AllSources, s \in Sessions :
       /\ source \in SourcesOf(s)
       /\ IF guestUp[s] THEN attachment' = [attachment EXCEPT ![u] = Attaching(s, source)]
          ELSE StartsResume(u, s, AttachmentMount(s, source), TRUE)
  /\ UNCHANGED <<marker, shared, hook, guestUp, home, persistent, toggled, stale, talks, begun,
                 latest, recovered>>

\* mutant: only the marker of the mount that the command attaches to
ForgetsOneTalk(u) ==
  LET s == attachment[u].session
  IN  /\ UserAt(u, "forget")
      /\ IF attachment[u].keeps THEN UNCHANGED <<marker, shared>>
         ELSE /\ marker' = [marker EXCEPT ![s][attachment[u].mount] = NoTalk]
              /\ shared' = [shared EXCEPT ![s] = NoTalk]
      /\ UserGoes(u, "spec")
      /\ UNCHANGED <<hook, guestUp, home, persistent, toggled, stale, talks, begun, latest,
                     recovered>>

\* What a tmpfs had cannot be resumed.  Each marker is removed by itself, and
\* a missing one is no error.
ForgetTalks(u) ==
  LET s == attachment[u].session
  IN  /\ UserAt(u, "forget")
      /\ IF attachment[u].keeps THEN UNCHANGED <<marker, shared>>
         ELSE /\ marker' = [marker EXCEPT ![s] = [mount \in MountsOf(s) |-> NoTalk]]
              /\ shared' = [shared EXCEPT ![s] = NoTalk]
      /\ UserGoes(u, "spec")
      /\ UNCHANGED <<hook, guestUp, home, persistent, toggled, stale, talks, begun, latest,
                     recovered>>

\* The hook of this version is written for the session's mounts.
WriteHook(u) ==
  /\ UserAt(u, "spec")
  /\ hook' = [hook EXCEPT ![attachment[u].session] = "scoped"]
  /\ UserGoes(u, "start")
  /\ UNCHANGED <<marker, shared, guestUp, home, persistent, toggled, stale, talks, begun, latest,
                 recovered>>

StartResumedGuest(u) ==
  LET a == attachment[u]
  IN  /\ UserAt(u, "start")
      /\ guestUp' = [guestUp EXCEPT ![a.session] = TRUE]
      /\ home' = [home EXCEPT ![a.session] = IF a.keeps THEN "store" ELSE "tmpfs"]
      /\ stale' = IF a.keeps /\ home[a.session] = "tmpfs" THEN stale \cup {a.session} ELSE stale
      /\ IF a.attaches THEN UserGoes(u, "attach") ELSE UserEnds(u)
      /\ UNCHANGED <<marker, shared, hook, persistent, toggled, talks, begun, latest, recovered>>

RestartFails(u) ==
  /\ attachment[u].at \in {"forget", "spec", "start"}
  /\ UserEnds(u)
  /\ UNCHANGED <<marker, shared, hook, guestUp, home, persistent, toggled, stale, talks, begun,
                 latest, recovered>>

\* The user edits the project's configuration, once (bound), while a guest is
\* down (it is read at a resume).
TogglePersistence ==
  /\ ~toggled
  /\ \E s \in Sessions : ~guestUp[s]
  /\ toggled' = TRUE
  /\ persistent' = ~persistent
  /\ UNCHANGED <<marker, shared, hook, guestUp, home, stale, talks, begun, latest,
                 recovered, attachment>>

ConversationsNext ==
  \/ \E s \in Sessions :
       BeginTalk(s) \/ StopGuestOf(s)
  \/ \E u \in Users :
       \/ Attach(u) \/ FindTalk(u) \/ RecoverLegacyTalk(u) \/ RefuseAttach(u)
       \/ OpenJcode(u) \/ JcodeFails(u)
       \/ ResumeById(u) \/ ResumeFromRepository(u)
       \/ ForgetTalks(u) \/ WriteHook(u) \/ StartResumedGuest(u) \/ RestartFails(u)
  \/ TogglePersistence

ConversationsSpec == ConversationsInit /\ [][ConversationsNext]_conversationVars

-----------------------------------------------------------------------------
Belongs(s, mount, t) ==
  \/ t = NoTalk \/ t \in recovered[s]
  \/ t.session = s /\ (t.place = mount \/ IsSingle(s))

\* Attaching from one repository resumes no conversation of a sibling or of
\* another session, whatever hooks wrote the markers (README: "reattaching from
\* one project repository never resumes an agent working in a sibling
\* repository").  Recovered conversations are exempt: they were chosen among all
\* that the guest's home has.
ConversationsApart ==
  /\ \A s \in Sessions : \A mount \in MountsOf(s) :
       Belongs(s, mount, RepositoryTalk(s, mount))
  /\ \A u \in Users : UserAt(u, "open") =>
       Belongs(attachment[u].session, attachment[u].mount, attachment[u].chosen)

\* While a guest runs, the conversation on record for a mount is one that it
\* still has: with a home that ended with the last guest, all records did
\* (lib.rs: "The old guest home lived on a tmpfs, so its Jcode session IDs
\* cannot be resumed").  Not so when `persistent_credentials` was turned on
\* while the guest was down: the records are judged by the new configuration.
RecordsAreSaved ==
  \A s \in Sessions \ stale : \A mount \in MountsOf(s) :
    guestUp[s] => RepositoryTalk(s, mount) \in Saved(s) \cup {NoTalk}

\* The conversation that the hook was last told of in a mount is what the next
\* attachment there resumes, across stops, failed resumes and other commands,
\* for as long as the guest has it (README: "Jcode's saved conversation survives
\* a guest restart").
TalksContinue ==
  \A s \in Sessions : \A mount \in MountsOf(s) :
    guestUp[s] /\ latest[s][mount] \in Saved(s) =>
      RepositoryTalk(s, mount) = latest[s][mount]

\* The three together: what a marker promises to the next attachment.
ConversationsContinue == ConversationsApart /\ RecordsAreSaved /\ TalksContinue
=============================================================================
