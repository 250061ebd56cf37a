------------------------------ MODULE ZoneMap ------------------------------
(***************************************************************************)
(* The geometry of the ZNS device and the zone map that libzns-tools keeps *)
(* of the extents found on it: for every zone a singly linked list of      *)
(* extents, kept sorted by physical block, and a counter of its nodes.     *)
(*                                                                         *)
(* Addresses are in device sectors ("blocks"); a linked list is the        *)
(* sequence of the extents its nodes hold.                                 *)
(***************************************************************************)
EXTENDS Naturals, Sequences, SequencesExt

CONSTANTS
  NrZones,   (* ctrl.znsdev.nr_zones                                       *)
  ZoneSize,  (* ctrl.znsdev.zone_size, the same for every zone             *)
  Word       (* 2^32: zone_mask in get_zone_number is a uint32_t           *)

ASSUME GeometryAssumption ==
  /\ NrZones \in Nat \ {0}
  /\ ZoneSize \in Nat \ {0}
  /\ Word \in Nat \ {0}

(* Every address of the device survives the 32-bit zone mask.              *)
DeviceFitsWord == NrZones * ZoneSize <= Word

Zones == 0 .. NrZones - 1

ZnsBlocks == 0 .. NrZones * ZoneSize - 1

(* lba & ~(zone_size - 1), with the mask held in 32 bits and zero-extended *)
(* to 64, divided by zone_size (a power of two).                           *)
GetZoneNumber(lba) == (lba % Word) \div ZoneSize

-----------------------------------------------------------------------------

(* The places where the walk along the list may stop: the end of the list, *)
(* and every node that does not start below the new one.                   *)
StopPositions(list, extent) ==
  {i \in 1 .. Len(list) + 1 :
     i <= Len(list) => list[i].phy_blk >= extent.phy_blk}

(* Wrong on purpose: the comparison of the walk is turned around.          *)
LastStopPosition(list, extent) == Max(StopPositions(list, extent))

(* The walk stops at the first of them.                                    *)
InsertPosition(list, extent) == Min(StopPositions(list, extent))

(* Wrong on purpose: node->next is left NULL, the rest of the list is lost. *)
InsertWithoutNext(list, extent) ==
  Append(SubSeq(list, 1, InsertPosition(list, extent) - 1), extent)

SortedZoneListInsert(list, extent) ==
  InsertAt(list, InsertPosition(list, extent), extent)

(* Wrong on purpose: the counter of the zone is not increased.             *)
AddWithoutCounting(zone, extent) ==
  [extents    |-> IF zone.extent_ctr = 0
                  THEN <<extent>>
                  ELSE SortedZoneListInsert(zone.extents, extent),
   extent_ctr |-> zone.extent_ctr]

(* A zone with a zero counter gets the new node as its head, whatever its  *)
(* head was.                                                               *)
AddExtentToZoneList(zone, extent) ==
  [extents    |-> IF zone.extent_ctr = 0
                  THEN <<extent>>
                  ELSE SortedZoneListInsert(zone.extents, extent),
   extent_ctr |-> zone.extent_ctr + 1]

EmptyZone == [extents |-> <<>>, extent_ctr |-> 0]

(* Every extent of a collection, added to the list of its zone.            *)
Collected(extents) ==
  FoldLeft(LAMBDA map, e : [map EXCEPT ![e.zone] = AddExtentToZoneList(@, e)],
           [z \in Zones |-> EmptyZone], extents)

ExtentsIn(map) == UNION {Range(map[z].extents) : z \in Zones}

-----------------------------------------------------------------------------
(* What the collection leaves in the zone map and the reports take for     *)
(* granted.                                                                *)

(* An extent list is sorted by the physical block its extents start at.    *)
SortedByPhyBlk(list) ==
  \A i, j \in 1 .. Len(list) : i < j => list[i].phy_blk <= list[j].phy_blk

InDeviceOrder(map) ==
  \A z \in Zones :
    /\ map[z].extent_ctr = Len(map[z].extents)
    /\ SortedByPhyBlk(map[z].extents)
    /\ \A e \in Range(map[z].extents) : e.zone = z /\ GetZoneNumber(e.phy_blk) = z

NoneTwice(map) ==
  \A z \in Zones :
    \A i, j \in 1 .. Len(map[z].extents) :
      map[z].extents[i] = map[z].extents[j] => i = j

OneNameEach(map) ==
  \A d, e \in ExtentsIn(map) : d.fileID = e.fileID => d.file = e.file
=============================================================================
