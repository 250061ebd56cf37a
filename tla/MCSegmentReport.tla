-------------------------- MODULE MCSegmentReport --------------------------
(***************************************************************************)
(* A small instance of SegmentReport: three zones of two segments of two   *)
(* blocks, with the collections of MCExtents.                              *)
(***************************************************************************)
EXTENDS SegmentReport, MCExtents
=============================================================================
