--------------------------- MODULE MCFiemapReport ---------------------------
(***************************************************************************)
(* A small instance of FiemapReport: every pair of extents on three zones, *)
(* also overlapping ones and, as the first zone has no gap behind its      *)
(* capacity, ones that reach into the second; and three extents over one   *)
(* zone and the next.  Write pointers lie before, at and behind the        *)
(* capacity, and need not be those of the time of the first extent.        *)
(***************************************************************************)
EXTENDS FiemapReport

CONSTANT Lengths  (* the lengths of extents                                *)

MCZoneCap == [z \in Zones |-> IF z = 0 THEN ZoneSize ELSE ZoneSize - 1]

(* Blocks behind the capacity of a zone hold no data.                      *)
Usable == {b \in ZnsBlocks : b < ZoneLbae(GetZoneNumber(b))}

Interval == {r \in Usable \X Lengths : r[1] .. r[1] + r[2] - 1 \subseteq Usable}

WritePointers(z) == {ZoneLbas(z) + 2, ZoneLbae(z), ZoneLbas(z) + ZoneSize}

MCExtent(r, wp) ==
  [phy_blk |-> r[1], len |-> r[2], zone |-> GetZoneNumber(r[1]), zone_wp |-> wp]

MCExtents(intervals) ==
  UNION {{MCExtent(r, wp) : wp \in WritePointers(GetZoneNumber(r[1]))} : r \in intervals}

MCPairs == {<<d, e>> : d, e \in MCExtents(Interval)}

MCTriples ==
  {<<d, e, f>> : d, e, f \in MCExtents({<<0, 1>>, <<2, 1>>, <<5, 1>>, <<6, 1>>, <<9, 0>>})}

MCZoneMaps == {Collected(c) : c \in MCPairs \cup MCTriples}
=============================================================================
