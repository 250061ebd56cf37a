----------------------------- MODULE FiemapReport -----------------------------
(***************************************************************************)
(* print_fiemap_report: the report of zns.fiemap, and of zns.segmap for    *)
(* file systems other than F2FS.  It walks the lists of the zone map, zone *)
(* by zone, and looks for holes before, between and behind the extents.    *)
(*                                                                         *)
(* An extent carries the write pointer its zone had when it was collected, *)
(* so the extents of a zone need not agree on it.                          *)
(***************************************************************************)
EXTENDS ZoneMap, Integers, FiniteSets

CONSTANTS
  ZoneCap,     (* the capacity of each zone, as the device reports it      *)
  Word64,      (* 2^64: the sizes of holes are uint64_t                    *)
  ZoneMaps     (* the zone maps that may have been collected               *)

ZoneLbas(z) == z * ZoneSize
ZoneLbae(z) == ZoneLbas(z) + ZoneCap[z]

Pbae(extent) == extent.phy_blk + extent.len

(* Data lies below the capacity of a zone, and a write pointer at most at  *)
(* the next zone.                                                          *)
HoldsData(block) == block % ZoneSize < ZoneCap[block \div ZoneSize]

OnTheDevice(map) ==
  /\ DOMAIN map = Zones
  /\ \A z \in Zones :
       /\ map[z].extents \in Seq(Range(map[z].extents))
       /\ \A e \in Range(map[z].extents) :
            /\ e.phy_blk \in ZnsBlocks
            /\ e.len \in Nat
            /\ Pbae(e) <= NrZones * ZoneSize
            /\ \A b \in {e.phy_blk} \cup e.phy_blk .. Pbae(e) - 1 : HoldsData(b)
            /\ e.zone_wp \in 0 .. ZoneLbas(z) + ZoneSize

ASSUME ReportAssumption ==
  /\ ZoneCap \in [Zones -> 1 .. ZoneSize]
  /\ Word64 \in Nat
  /\ NrZones * ZoneSize < Word64
  /\ \A map \in ZoneMaps : InDeviceOrder(map) /\ OnTheDevice(map)

VARIABLES
  zones,        (* zonemap->zones                                          *)
  show_holes,   (* ctrl.show_holes                                         *)
  zone,         (* i: the zone being reported                              *)
  position,     (* current, as a place in the list of the zone             *)
  shown,        (* the extents printed; prev is the last of them           *)
  holes,        (* the holes printed                                       *)
  hole_ctr,
  hole_cum_size

vars == <<zones, show_holes, zone, position, shown, holes, hole_ctr, hole_cum_size>>

Init ==
  /\ zones \in ZoneMaps
  /\ show_holes \in BOOLEAN
  /\ zone = 0
  /\ position = 1
  /\ shown = <<>>
  /\ holes = <<>>
  /\ hole_ctr = 0
  /\ hole_cum_size = 0

-----------------------------------------------------------------------------
List == zones[zone].extents
Current == List[position]
IsLastOfZone == position = Len(List)
Prev == Last(shown)

(* Wrong on purpose: the size is signed.                                   *)
SignedHole(from, to) == [from |-> from, to |-> to, size |-> to - from]

(* A hole as it is printed, with the size in 64 bits.                      *)
Hole(from, to) == [from |-> from, to |-> to, size |-> (to - from) % Word64]

(* Between the previous extent and this one, in the same zone.             *)
InnerHole ==
  IF /\ show_holes
     /\ shown # <<>>
     /\ Pbae(Prev) # Current.phy_blk
     /\ Prev.zone = Current.zone
  THEN <<Hole(Pbae(Prev), Current.phy_blk)>>
  ELSE <<>>

(* Wrong on purpose: shown before the very first extent too.               *)
AlsoBeforeFirst ==
  IF /\ show_holes
     /\ ~IsLastOfZone
     /\ ZoneLbas(Current.zone) # Current.phy_blk
     /\ shown # <<>> => Prev.zone # Current.zone
  THEN <<Hole(ZoneLbas(Current.zone), Current.phy_blk)>>
  ELSE <<>>

(* Between the start of the zone and its first extent, when another extent *)
(* follows in the zone and one was shown in an earlier zone.               *)
LeadingHole ==
  IF /\ show_holes
     /\ ~IsLastOfZone
     /\ shown # <<>>
     /\ ZoneLbas(Current.zone) # Current.phy_blk
     /\ Prev.zone # Current.zone
  THEN <<Hole(ZoneLbas(Current.zone), Current.phy_blk)>>
  ELSE <<>>

(* Wrong on purpose: the write pointer may lie before the end of the       *)
(* extent.                                                                 *)
BehindWritePointer ==
  IF /\ show_holes
     /\ IsLastOfZone
     /\ Pbae(Current) # ZoneLbae(Current.zone)
  THEN <<Hole(Pbae(Current), Min({Current.zone_wp, ZoneLbae(Current.zone)}))>>
  ELSE <<>>

(* Between the last extent of the zone and the write pointer, which is the *)
(* start of the next zone when the zone is full.                           *)
TrailingHole ==
  IF /\ show_holes
     /\ IsLastOfZone
     /\ Pbae(Current) # ZoneLbae(Current.zone)
     /\ Current.zone_wp > Pbae(Current)
  THEN <<Hole(Pbae(Current), Min({Current.zone_wp, ZoneLbae(Current.zone)}))>>
  ELSE <<>>

(* Of no hole or one.                                                      *)
SizeOf(found) == IF found = <<>> THEN 0 ELSE Head(found).size

(* One turn of the loop over the list of a zone.                           *)
ShowExtent ==
  /\ zone < NrZones
  /\ position <= Len(List)
  /\ LET found == InnerHole \o LeadingHole \o TrailingHole
     IN  /\ holes' = holes \o found
         /\ hole_ctr' = hole_ctr + Len(found)
  /\ hole_cum_size' =
       (hole_cum_size + SizeOf(InnerHole) + SizeOf(LeadingHole) + SizeOf(TrailingHole)) % Word64
  /\ shown' = Append(shown, Current)
  /\ position' = position + 1
  /\ UNCHANGED <<zones, show_holes, zone>>

(* The list is at its end, or was skipped for its counter of zero.         *)
NextZone ==
  /\ zone < NrZones
  /\ position > Len(List)
  /\ zone' = zone + 1
  /\ position' = 1
  /\ UNCHANGED <<zones, show_holes, shown, holes, hole_ctr, hole_cum_size>>

Done == zone = NrZones

Finished ==
  /\ Done
  /\ UNCHANGED vars

Next == ShowExtent \/ NextZone \/ Finished

Spec == Init /\ [][Next]_vars

-----------------------------------------------------------------------------
(* Properties.                                                             *)

Listed(z) == Range(zones[z].extents)

(* Every variable stays in its domain.  The part that is not bookkeeping:  *)
(* no sum of sizes leaves 64 bits, whatever the extents.                   *)
TypeOK ==
  /\ DOMAIN zones = Zones
  /\ show_holes \in BOOLEAN
  /\ zone \in 0 .. NrZones
  /\ position \in Nat \ {0}
  /\ Range(shown) \subseteq UNION {Listed(z) : z \in Zones}
  /\ Range(holes) \subseteq [from : 0 .. NrZones * ZoneSize, to : 0 .. NrZones * ZoneSize,
                              size : 0 .. Word64 - 1]
  /\ hole_ctr = Len(holes)
  /\ hole_cum_size \in 0 .. Word64 - 1

Blocks(extent) == extent.phy_blk .. Pbae(extent) - 1

HoleBlocks == UNION {h.from .. h.to - 1 : h \in Range(holes)}

Occupied == UNION {Blocks(e) : e \in UNION {Listed(z) : z \in Zones}}

(* The extents of files on a quiet file system: each within its zone and   *)
(* not shorter than a sector, as only inlined ones are, no block in two.   *)
Orderly ==
  \A z \in Zones :
    \A j \in 1 .. Len(zones[z].extents) :
      LET e == zones[z].extents[j]
      IN  /\ e.len > 0
          /\ Pbae(e) <= ZoneLbae(z)
          /\ \A k \in j + 1 .. Len(zones[z].extents) :
               Blocks(e) \cap Blocks(zones[z].extents[k]) = {}

(* A size wraps only between two extents of a zone that overlap.           *)
WrapsOnOverlap(h) ==
  h.size # h.to - h.from =>
    \E z \in Zones : \E j, k \in 1 .. Len(zones[z].extents) :
      /\ j < k
      /\ Pbae(zones[z].extents[j]) = h.from
      /\ zones[z].extents[k].phy_blk = h.to
      /\ h.to < h.from

HasExtent(z) == zones[z].extents # <<>>

PriorExtent(z) == \E y \in 0 .. z - 1 : HasExtent(y)
HigherExtent(z) == \E y \in z + 1 .. NrZones - 1 : HasExtent(y)

(* The blocks of a zone in front of its first extent, and those from there *)
(* to the end of the last one, or to the write pointer seen with it.       *)
Before(z) == ZoneLbas(z) .. Head(zones[z].extents).phy_blk - 1
Between(z) == Head(zones[z].extents).phy_blk .. Pbae(Last(zones[z].extents)) - 1
Behind(z) == Pbae(Last(zones[z].extents)) ..
               Min({Last(zones[z].extents).zone_wp, ZoneLbae(z)}) - 1

(* The three kinds of holes are found by three conditions on the previous, *)
(* the current and the next extent, one of them from an older write        *)
(* pointer: a hole is a range of blocks of one zone, none of them in an    *)
(* extent, no block is in two holes, and the sum is their number.  From    *)
(* the first extent of a zone to the end of the last one no block is       *)
(* passed over, and, when a higher zone has an extent, to the write        *)
(* pointer seen with the last one (cases 1 and 3 of zns.fiemap.md; behind  *)
(* the highest extent the document has no hole and the code shows one,     *)
(* which is left open here).                                               *)
(* The subtractions are of unsigned numbers.  With blocks that moved while *)
(* they were collected extents may overlap or end behind their write       *)
(* pointer; all that goes wrong then is the size of a hole between two     *)
(* that overlap.                                                           *)
HolesAreFree ==
  /\ Orderly =>
       /\ \A h \in Range(holes) :
            /\ h.from < h.to
            /\ h.size = h.to - h.from
            /\ \E z \in Zones : ZoneLbas(z) <= h.from /\ h.to <= ZoneLbae(z)
       /\ HoleBlocks \cap Occupied = {}
       /\ hole_cum_size = Cardinality(HoleBlocks)
       /\ Done /\ show_holes =>
            \A z \in {z \in Zones : HasExtent(z)} :
              /\ Between(z) \subseteq Occupied \cup HoleBlocks
              /\ HigherExtent(z) => Behind(z) \subseteq HoleBlocks
  /\ \A h \in Range(holes) : WrapsOnOverlap(h)

(* Case 2 of zns.fiemap.md, as far as the code goes: in front of the first *)
(* extent of a zone no hole is shown unless there is an extent in a prior  *)
(* zone, however many zones lie between; then the whole space is shown     *)
(* when the zone has a second extent.  In front of an extent alone in its  *)
(* zone the document has a hole and the code shows none, which is left     *)
(* open here.                                                              *)
LeadingHoles ==
  Done /\ show_holes /\ Orderly =>
    \A z \in {z \in Zones : HasExtent(z)} :
      /\ ~PriorExtent(z) => Before(z) \cap HoleBlocks = {}
      /\ PriorExtent(z) /\ Len(zones[z].extents) > 1 => Before(z) \subseteq HoleBlocks
=============================================================================
