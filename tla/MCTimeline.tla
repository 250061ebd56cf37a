----------------------------- MODULE MCTimeline -----------------------------
(***************************************************************************)
(* A small instance of Timeline: one layer, two inodes of which one has a  *)
(* name from before, two threads, and maps so small that they fill.        *)
(***************************************************************************)
EXTENDS Timeline

MCNamedBefore == [i \in Inodes |-> IF i = 1 THEN "old" ELSE NoName]
MCMapKeys == [t \in Tracers |-> IF t \in Layers THEN 2 ELSE 1]
=============================================================================
