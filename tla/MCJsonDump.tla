----------------------------- MODULE MCJsonDump -----------------------------
(***************************************************************************)
(* A small instance of JsonDump: four zones of two segments of two blocks, *)
(* with the collections of MCExtents, and keys of which 3 and all numbers  *)
(* above lose digits: zone 3 gets the key of zone 1.                       *)
(***************************************************************************)
EXTENDS JsonDump, MCExtents
=============================================================================
