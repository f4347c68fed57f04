-------------------------- MODULE MCAcceptSnapshots --------------------------
(***************************************************************************)
(* Values of AcceptSnapshots's constants for its runs.                     *)
(***************************************************************************)
EXTENDS AcceptSnapshots

\* The user works in the host checkout whatever the invocations are doing.
AnyPhase == Phases

\* Not between the steps of an acceptance that judge and change a checkout,
\* where nothing could protect the user's files: only before the first, and
\* where a temporary stash is made and where it comes back.
BesideStashes == {"idle", "ask", "confirm", "note", "apply"}

\* Fast-forwards only, with the user's files in the way or put aside, and
\* every option at once.
NoneStashAll == {{}, {"stash-host"}, OptionNames}
=============================================================================
