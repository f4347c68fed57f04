---------------------------- MODULE AtomicRefresh ----------------------------
(***************************************************************************)
(* What `jbox init --update` promises of `.jbox.toml`: next to people who  *)
(* edit it, it is updated in one step, from what it holds at that moment,  *)
(* and without a change of what belongs to the project.                    *)
(***************************************************************************)
EXTENDS Naturals

CONSTANTS
  Revision(_),   \* how often people have written a file
  Owned(_),      \* the project's part of it
  Current(_)     \* whether jbox's part is what this version of jbox ships

VARIABLE contents  \* the file

\* Someone writes the file.
Edit ==
  /\ contents' # contents
  /\ Revision(contents') = Revision(contents) + 1

\* jbox brings its own part up to date; there is nothing to do after that.
Update ==
  /\ contents' # contents
  /\ Revision(contents') = Revision(contents)
  /\ Owned(contents') = Owned(contents)
  /\ ~Current(contents)
  /\ Current(contents')

RefreshSpec ==
  /\ Revision(contents) = 0
  /\ [][Edit \/ Update]_contents
=============================================================================
