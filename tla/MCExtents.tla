----------------------------- MODULE MCExtents -----------------------------
(***************************************************************************)
(* Collections of extents for small instances of SegmentReport and         *)
(* JsonDump: the extents of up to two files, wherever they lie.            *)
(***************************************************************************)
EXTENDS Segments

CONSTANT Lengths  (* the lengths of extents                                *)

MCNames == {"a", "b"}

MCType == <<"hot", "warm", "cold", "warm">>

Interval == {r \in ZnsBlocks \X Lengths : r[1] + r[2] <= NrZones * ZoneSize}

MCExtent(r, file, ext_nr) ==
  [phy_blk |-> r[1], len |-> r[2], zone |-> GetZoneNumber(r[1]), ext_nr |-> ext_nr,
   fileID |-> IF file = "a" THEN 0 ELSE 1, file |-> file,
   type |-> MCType[GetZoneNumber(r[1]) + 1], inline |-> r[2] = 0]

(* Two extents of one file or of two, in any order on the device.          *)
MCPairs ==
  {<<MCExtent(r, "a", 0), MCExtent(q, file, IF file = "a" THEN 1 ELSE 0)>> :
     r, q \in Interval, file \in MCNames}

(* Three extents, one of another file between those of a file.             *)
MCPlaces ==
  {<<0, 1>>, <<1, 4>>, <<3, 1>>, <<4, 2>>, <<5, 6>>, <<6, 6>>, <<8, 1>>, <<10, 1>>,
   <<12, 1>>, <<2, 0>>}

MCTriples ==
  {<<MCExtent(r, "a", 0), MCExtent(q, "a", 1), MCExtent(p, "b", 0)>> :
     r, q, p \in {r \in MCPlaces : r[1] + r[2] <= NrZones * ZoneSize}}

MCZoneMaps == {Collected(c) : c \in MCPairs \cup MCTriples}
=============================================================================
