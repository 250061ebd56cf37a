------------------------------ MODULE Segments ------------------------------
(***************************************************************************)
(* F2FS segments on the zoned device, as zns.segmap and its JSON dump cut  *)
(* extents into them, and the zones both are asked for.  The segment size  *)
(* is a power of two, so masking and shifting an address is dividing it.   *)
(***************************************************************************)
EXTENDS ZoneMap

CONSTANTS
  SegSize,     (* ctrl.f2fs_segment_sectors                                *)
  OptionValues (* the arguments of -s, -e and -z; 0 also when not given    *)

ASSUME SegmentAssumption ==
  /\ SegSize \in Nat \ {0}
  /\ OptionValues \subseteq Nat

SegmentOf(block) == block \div SegSize

SegmentStart(segment) == segment * SegSize

ExtentEnd(extent) == extent.phy_blk + extent.len

FirstSegment(extent) == SegmentOf(extent.phy_blk)

(* The segment the end lies in, which an extent that ends exactly where a  *)
(* segment ends does not touch.                                            *)
EndSegment(extent) == SegmentOf(ExtentEnd(extent))

StartsSegment(extent) == extent.phy_blk = SegmentStart(FirstSegment(extent))

EndsSegment(extent) == ExtentEnd(extent) = SegmentStart(EndSegment(extent))

InOneSegment(extent) ==
  \/ EndSegment(extent) = FirstSegment(extent)
  \/ ExtentEnd(extent) = SegmentStart(FirstSegment(extent) + 1)

(* There are segments between the first and that of the end.               *)
HasMiddle(extent) == EndSegment(extent) - FirstSegment(extent) > 1

(* The zones selected with -s, -e and -z are numbered from 1; with -z 0    *)
(* the end comes before every segment, and the wrapped start is not looked *)
(* at.                                                                     *)
BehindEnd(segment, end_zone) == SegmentStart(segment) >= end_zone * ZoneSize

(* Wrong on purpose: the first segment of the first zone is below it.      *)
NotAboveStart(segment, start_zone) ==
  SegmentStart(segment) + ZoneSize <= start_zone * ZoneSize

BelowStart(segment, start_zone) ==
  SegmentStart(segment) + ZoneSize < start_zone * ZoneSize

(* start_zone and end_zone after main: -z gives both, and only without it  *)
(* a zero becomes the first or the last zone.                              *)
Options ==
  {<<z, z>> : z \in OptionValues}
    \cup {<<IF s = 0 THEN 1 ELSE s, IF e = 0 THEN NrZones ELSE e>> :
            s, e \in OptionValues}

InZones(extent, start_zone, end_zone) ==
  /\ ~BehindEnd(FirstSegment(extent), end_zone)
  /\ ~BelowStart(FirstSegment(extent), start_zone)

(* The segments that hold a block of an extent.                            *)
SegmentsTouched(extent) ==
  {SegmentOf(extent.phy_blk + k) : k \in 0 .. extent.len - 1}
=============================================================================
