----------------------------- MODULE MCHostViews -----------------------------
(***************************************************************************)
(* Values of HostViews's constants for its runs.                           *)
(***************************************************************************)
EXTENDS HostViews

\* A command can die where the next one finds either the old or the new
\* view.  Left out are the three steps between two halves of one: a patch
\* that is saved and not applied, one that is reversed and not forgotten,
\* and a preview without the files it is to be filled with.
WholeViews == Phases \ {"idle", "begin", "applyPatch", "forget", "fill"}
=============================================================================
