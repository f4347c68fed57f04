------------------------- MODULE MCSessionLifecycle -------------------------
(***************************************************************************)
(* Values of SessionLifecycle's constants for its runs.                    *)
(***************************************************************************)
EXTENDS SessionLifecycle

\* A command can die wherever it is.
AnyPhase == Phases \ {"idle"}

\* It can die where a later command finds its way on.  Left out are the
\* steps whose interruption needs the user's own repair: between removing a
\* `.git` directory and copying its link, and between creating a guest and
\* saving that it runs.
RecoverablePhases ==
  AnyPhase \ {"link", "isolate", "start", "trust", "saveRunning"}

\* What the user may do to a session, beside its removal.
OfStopAndResume == {"resume", "attach", "stop"}
=============================================================================
