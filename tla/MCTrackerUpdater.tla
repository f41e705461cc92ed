--------------------------- MODULE MCTrackerUpdater ---------------------------
(* A small instance of TrackerUpdater for TLC. *)
EXTENDS TrackerUpdater

CONSTANTS a, b, c

\* A list with a comment, junk and repeats; another one with a line in two; a
\* list that names no tracker.
SmallBodies ==
  { <<<<Hash, c>>, <<b, Junk, a>>, <<b>>>>,
    <<<<>>, <<c, Hash, b>>, <<a>>>>,
    <<<<Junk>>, <<Hash, a>>>> }

\* An option with a blank and a repeat, and one longer than the limit.
SmallUserOptions == {<<a, Junk, a>>, <<c, b, a>>}
=============================================================================
