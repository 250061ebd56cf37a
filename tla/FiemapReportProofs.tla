-------------------------- MODULE FiemapReportProofs --------------------------
(***************************************************************************)
(* Proofs about the report of zns.fiemap.                                  *)
(*                                                                         *)
(* The argument is about gaps.  The lists are in the order of the blocks,  *)
(* so those of orderly files leave gaps: before the first extent of a zone *)
(* and behind each.  Whatever condition finds a hole, it begins where a    *)
(* gap does and ends in it, and the walk comes to one gap after the other: *)
(* all holes shown lie before a frontier that only grows, hence no block   *)
(* is in two and the sum of the sizes is the number of blocks.  Nothing is *)
(* assumed of the write pointers but that each is in its zone or at the    *)
(* next, and nothing of the extents but that data lies below the capacity. *)
(***************************************************************************)
EXTENDS FiemapReport, FiniteSetTheorems, SequenceTheorems, TLAPS

(* Dividing by the zone size rounds down.                                  *)
LEMMA DivisionBounds ==
  ASSUME NEW x \in Nat, NEW d \in Nat \ {0}
  PROVE  /\ x \div d \in Nat
         /\ d * (x \div d) <= x
         /\ x < d * (x \div d) + d
  OBVIOUS

-----------------------------------------------------------------------------
(* The parts of the invariant.                                             *)

Ext(z, j) == zones[z].extents[j]
Count(z) == Len(zones[z].extents)

(* The gaps of a zone: before its first extent, behind each of them.       *)
GapStart(z, p) == IF p = 0 THEN ZoneLbas(z) ELSE Pbae(Ext(z, p))
GapEnd(z, p) == IF p = Count(z) THEN ZoneLbae(z) ELSE Ext(z, p + 1).phy_blk

WalkOK ==
  /\ zones \in ZoneMaps
  /\ show_holes \in BOOLEAN
  /\ zone \in 0 .. NrZones
  /\ position \in Nat \ {0}
  /\ zone = NrZones => position = 1
  /\ zone < NrZones => position <= Count(zone) + 1

(* What prev is.                                                           *)
ShownOK ==
  /\ shown \in Seq(UNION {Listed(z) : z \in Zones})
  /\ position > 1 => shown # <<>> /\ Prev = Ext(zone, position - 1)
  /\ shown = <<>> => \A y \in 0 .. zone - 1 : Count(y) = 0
  /\ shown # <<>> /\ position = 1 => \E y \in 0 .. zone - 1 : Prev \in Listed(y)

HoleType ==
  [from : 0 .. NrZones * ZoneSize, to : 0 .. NrZones * ZoneSize, size : 0 .. Word64 - 1]

SumsOK ==
  /\ holes \in Seq(HoleType)
  /\ hole_ctr = Len(holes)
  /\ hole_cum_size \in 0 .. Word64 - 1

(* A hole in one of the gaps, before the place the walk has come to.       *)
Frontier ==
  IF position = 1 THEN ZoneLbas(zone)
  ELSE IF position > Count(zone) THEN ZoneLbae(zone) ELSE Pbae(Ext(zone, position - 1))

InGap(h) ==
  /\ h.from < h.to
  /\ h.size = h.to - h.from
  /\ \E z \in Zones : \E p \in 0 .. Count(z) : h.from = GapStart(z, p) /\ h.to <= GapEnd(z, p)

HolesPlaced == \A h \in Range(holes) : InGap(h) /\ h.to <= Frontier

SumIsBlocks ==
  /\ IsFiniteSet(HoleBlocks)
  /\ hole_cum_size = Cardinality(HoleBlocks)

(* Where the report tiles a zone it has come to.                           *)
TiledTo(z, p) ==
  Ext(z, 1).phy_blk .. (IF \/ p < Count(z)
                           \/ Min({Ext(z, p).zone_wp, ZoneLbae(z)}) <= Pbae(Ext(z, p))
                        THEN Pbae(Ext(z, p))
                        ELSE Min({Ext(z, p).zone_wp, ZoneLbae(z)})) - 1
    \subseteq Occupied \cup HoleBlocks

Tiled ==
  show_holes =>
    /\ \A z \in 0 .. zone - 1 : Count(z) > 0 => TiledTo(z, Count(z))
    /\ position > 1 => TiledTo(zone, position - 1)

(* What is shown before the first extent of a zone.                        *)
Leading(z) == ZoneLbas(z) .. Ext(z, 1).phy_blk - 1
LeadingShown(z) == Count(z) > 1 /\ \E y \in 0 .. z - 1 : Count(y) > 0

LeadingOK ==
  \A z \in Zones : Count(z) > 0 =>
    /\ LeadingShown(z) /\ show_holes /\ (z < zone \/ (z = zone /\ position > 1)) =>
         Leading(z) \subseteq HoleBlocks
    /\ ~LeadingShown(z) => Leading(z) \cap HoleBlocks = {}

OrderlyInv == Orderly => HolesPlaced /\ SumIsBlocks /\ Tiled /\ LeadingOK

WrapsInv == \A h \in Range(holes) : WrapsOnOverlap(h)

-----------------------------------------------------------------------------
(* The zones and the extents in them.                                      *)

LEMMA ZoneBounds ==
  ASSUME NEW z \in Zones
  PROVE  /\ ZoneLbas(z) \in Nat
         /\ ZoneLbae(z) \in Nat
         /\ ZoneLbas(z) < ZoneLbae(z)
         /\ ZoneLbae(z) <= ZoneLbas(z) + ZoneSize
         /\ ZoneLbas(z) + ZoneSize = ZoneLbas(z + 1)
         /\ ZoneLbas(z + 1) <= NrZones * ZoneSize
<1>1. z \in Nat /\ z + 1 <= NrZones /\ NrZones \in Nat /\ ZoneSize \in Nat
  BY GeometryAssumption DEF Zones
<1>2. ZoneCap[z] \in 1 .. ZoneSize
  BY ReportAssumption
<1>3. z * ZoneSize \in Nat /\ z * ZoneSize + ZoneSize = (z + 1) * ZoneSize
  BY <1>1
<1>4. (z + 1) * ZoneSize <= NrZones * ZoneSize
  BY <1>1
<1>5. QED
  BY <1>1, <1>2, <1>3, <1>4 DEF ZoneLbas, ZoneLbae

LEMMA ZonesApart ==
  ASSUME NEW y \in Nat, NEW z \in Nat, y < z
  PROVE  ZoneLbas(y + 1) <= ZoneLbas(z)
<1>1. ZoneSize \in Nat
  BY GeometryAssumption
<1>2. (y + 1) * ZoneSize <= z * ZoneSize
  BY <1>1
<1>3. QED
  BY <1>2 DEF ZoneLbas

LEMMA BlockOfOneZone ==
  ASSUME NEW y \in Zones, NEW z \in Zones, NEW b \in Nat,
         ZoneLbas(y) <= b, b < ZoneLbae(y), ZoneLbas(z) <= b, b < ZoneLbae(z)
  PROVE  y = z
<1>1. y \in Nat /\ z \in Nat
  BY GeometryAssumption DEF Zones
<1>2. ASSUME NEW u \in Zones, NEW v \in Zones, u \in Nat, v \in Nat, u < v, b < ZoneLbae(u)
      PROVE  b < ZoneLbas(v)
  <2>1. /\ ZoneLbae(u) \in Nat /\ ZoneLbas(u) \in Nat /\ ZoneLbas(v) \in Nat
        /\ ZoneLbae(u) <= ZoneLbas(u + 1)
    BY ZoneBounds
  <2>2. ZoneLbas(u + 1) <= ZoneLbas(v)
    BY <1>2, ZonesApart
  <2>3. ZoneLbas(u + 1) \in Nat
    BY GeometryAssumption, <1>2 DEF ZoneLbas
  <2>4. QED
    BY <1>2, <2>1, <2>2, <2>3
<1>3. ZoneLbas(y) \in Nat /\ ZoneLbas(z) \in Nat
  BY ZoneBounds
<1>4. ~(y < z) /\ ~(z < y)
  BY <1>1, <1>2, <1>3
<1>5. QED
  BY <1>1, <1>4

(* An address whose zone number was cut to 32 bits lies in the zone or     *)
(* behind it.                                                              *)
LEMMA CutZoneNumber ==
  ASSUME NEW b \in Nat, NEW z \in Nat, GetZoneNumber(b) = z
  PROVE  ZoneLbas(z) <= b
<1>1. ZoneSize \in Nat \ {0} /\ Word \in Nat \ {0}
  BY GeometryAssumption
<1>2. PICK r \in Nat : r = b % Word
  BY <1>1
<1>3. r <= b
  BY <1>1, <1>2
<1>4. (r \div ZoneSize) * ZoneSize <= r
  BY <1>1, DivisionBounds
<1>5. z = r \div ZoneSize
  BY <1>2 DEF GetZoneNumber
<1>6. z * ZoneSize <= r
  BY <1>4, <1>5
<1>7. z * ZoneSize \in Nat
  BY <1>1
<1>8. QED
  BY <1>3, <1>6, <1>7 DEF ZoneLbas

LEMMA PartOfProduct ==
  ASSUME NEW z \in Nat, NEW a \in Nat \ {0}, NEW t \in 0 .. a - 1
  PROVE  (z * a + t) \div a = z /\ (z * a + t) % a = t
<1>1. (z * a + t) \div a = z
  BY SMT
<1>2. (z * a + t) % a = t
  BY SMT
<1>3. QED
  BY <1>1, <1>2

(* A block of a zone that holds data lies below the capacity.              *)
LEMMA DataInZone ==
  ASSUME NEW z \in Zones, NEW b \in Nat, ZoneLbas(z) <= b, b < ZoneLbas(z) + ZoneSize,
         HoldsData(b)
  PROVE  b < ZoneLbae(z)
<1>1. ZoneSize \in Nat \ {0} /\ z \in Nat
  BY GeometryAssumption DEF Zones
<1>2. PICK t \in 0 .. ZoneSize - 1 : b = ZoneLbas(z) + t
  <2>1. ZoneLbas(z) \in Nat
    BY ZoneBounds
  <2>2. b - ZoneLbas(z) \in 0 .. ZoneSize - 1 /\ b = ZoneLbas(z) + (b - ZoneLbas(z))
    BY <1>1, <2>1
  <2>3. QED
    BY <2>2
<1>3. b \div ZoneSize = z /\ b % ZoneSize = t
  <2>1. b = z * ZoneSize + t
    BY <1>2 DEF ZoneLbas
  <2>2. QED
    BY <1>1, <2>1, PartOfProduct
<1>4. t < ZoneCap[z]
  BY <1>3 DEF HoldsData
<1>5. ZoneCap[z] \in Nat /\ ZoneLbas(z) \in Nat
  BY <1>1, ReportAssumption, ZoneBounds
<1>6. QED
  BY <1>2, <1>4, <1>5 DEF ZoneLbae

LEMMA ListFacts ==
  ASSUME zones \in ZoneMaps, NEW z \in Zones
  PROVE  /\ zones[z].extents \in Seq(Listed(z))
         /\ Count(z) \in Nat
         /\ \A j \in 1 .. Count(z) : Ext(z, j) \in Listed(z)
         /\ \A e \in Listed(z) : \E j \in 1 .. Count(z) : e = Ext(z, j)
         /\ \A i, j \in 1 .. Count(z) : i < j => Ext(z, i).phy_blk <= Ext(z, j).phy_blk
<1>1. zones[z].extents \in Seq(Listed(z))
  BY ReportAssumption DEF OnTheDevice, Listed
<1>2. PICK list \in Seq(Listed(z)) : list = zones[z].extents
  BY <1>1
<1>3. Listed(z) = Range(list)
  BY <1>2 DEF Listed
<1>4. SortedByPhyBlk(list)
  BY <1>2, ReportAssumption DEF InDeviceOrder
<1>5. /\ Count(z) = Len(list)
      /\ \A j : Ext(z, j) = list[j]
  BY <1>2 DEF Count, Ext
<1>6. \A j \in 1 .. Len(list) : list[j] \in Listed(z)
  BY <1>2
<1>7. \A e \in Listed(z) : \E j \in 1 .. Len(list) : e = list[j]
  BY <1>2, <1>3 DEF Range
<1>8. \A i, j \in 1 .. Count(z) : i < j => Ext(z, i).phy_blk <= Ext(z, j).phy_blk
  <2>1. \A i, j \in 1 .. Len(list) : i < j => list[i].phy_blk <= list[j].phy_blk
    BY <1>4 DEF SortedByPhyBlk
  <2>2. QED
    BY <1>5, <2>1
<1>9. Count(z) \in Nat
  BY <1>2, <1>5
<1>10. QED
  BY <1>1, <1>5, <1>6, <1>7, <1>8, <1>9

LEMMA ExtentFacts ==
  ASSUME zones \in ZoneMaps, NEW z \in Zones, NEW e \in Listed(z)
  PROVE  /\ e.phy_blk \in Nat /\ e.len \in Nat
         /\ Pbae(e) \in Nat /\ Pbae(e) = e.phy_blk + e.len
         /\ ZoneLbas(z) <= e.phy_blk
         /\ Pbae(e) <= NrZones * ZoneSize
         /\ e.zone = z
         /\ e.zone_wp \in Nat
         /\ e.zone_wp > Pbae(e) => Pbae(e) <= ZoneLbae(z)
<1>1. e \in Range(zones[z].extents)
  BY DEF Listed
<1>2. /\ e.phy_blk \in ZnsBlocks
      /\ e.len \in Nat
      /\ Pbae(e) <= NrZones * ZoneSize
      /\ \A b \in {e.phy_blk} \cup e.phy_blk .. Pbae(e) - 1 : HoldsData(b)
      /\ e.zone_wp \in 0 .. ZoneLbas(z) + ZoneSize
  BY <1>1, ReportAssumption DEF OnTheDevice
<1>3. e.zone = z /\ GetZoneNumber(e.phy_blk) = z
  BY <1>1, ReportAssumption DEF InDeviceOrder
<1>4. z \in Nat
  BY GeometryAssumption DEF Zones
<1>5. PICK phy \in Nat : phy = e.phy_blk
  BY <1>2 DEF ZnsBlocks
<1>6. PICK end \in Nat : end = Pbae(e) /\ end = phy + e.len /\ phy <= end
  BY <1>2, <1>5 DEF Pbae
<1>7. PICK lbas \in Nat, lbae \in Nat, next \in Nat :
        /\ lbas = ZoneLbas(z) /\ lbae = ZoneLbae(z) /\ next = ZoneLbas(z) + ZoneSize
        /\ lbas < lbae /\ lbae <= next
  <2>1. ZoneLbas(z) + ZoneSize \in Nat
    BY ZoneBounds, GeometryAssumption
  <2>2. QED
    BY <2>1, ZoneBounds
<1>8. PICK wp \in Nat : wp = e.zone_wp /\ wp <= next
  BY <1>2, <1>7
<1>9. lbas <= phy
  BY <1>3, <1>4, <1>5, <1>7, CutZoneNumber
<1>10. ASSUME wp > end, end > lbae
       PROVE  FALSE
  <2>1. phy < next
    BY <1>6, <1>8, <1>10
  <2>2. phy < lbae
    BY <1>2, <1>5, <1>7, <1>9, <2>1, DataInZone
  <2>3. lbae \in e.phy_blk .. Pbae(e) - 1
    BY <1>5, <1>6, <1>10, <2>2
  <2>4. HoldsData(lbae)
    BY <1>2, <2>3
  <2>5. lbas <= lbae /\ lbae < next
    BY <1>7, <1>8, <1>10
  <2>6. lbae < lbae
    BY <1>7, <2>4, <2>5, DataInZone
  <2>7. QED
    BY <2>6
<1>11. QED
  BY <1>2, <1>3, <1>5, <1>6, <1>7, <1>8, <1>9, <1>10

(* The extents of orderly files lie one behind the other.                  *)
LEMMA OrderlyFacts ==
  ASSUME zones \in ZoneMaps, Orderly, NEW z \in Zones
  PROVE  /\ \A j \in 1 .. Count(z) :
              Ext(z, j).phy_blk < Pbae(Ext(z, j)) /\ Pbae(Ext(z, j)) <= ZoneLbae(z)
         /\ \A i, j \in 1 .. Count(z) : i < j => Pbae(Ext(z, i)) <= Ext(z, j).phy_blk
<1>1. ASSUME NEW j \in 1 .. Count(z)
      PROVE  /\ Ext(z, j).phy_blk < Pbae(Ext(z, j))
             /\ Pbae(Ext(z, j)) <= ZoneLbae(z)
             /\ \A k \in j + 1 .. Count(z) : Blocks(Ext(z, j)) \cap Blocks(Ext(z, k)) = {}
  <2>1. PICK e : e = Ext(z, j)
    OBVIOUS
  <2>2. /\ e.len > 0 /\ Pbae(e) <= ZoneLbae(z)
        /\ \A k \in j + 1 .. Count(z) : Blocks(e) \cap Blocks(Ext(z, k)) = {}
    BY <2>1 DEF Orderly, Ext, Count
  <2>3. e \in Listed(z)
    BY <2>1, ListFacts
  <2>4. e.phy_blk \in Nat /\ e.len \in Nat /\ Pbae(e) = e.phy_blk + e.len
    BY <2>3, ExtentFacts
  <2>5. e.phy_blk < Pbae(e)
    BY <2>2, <2>4
  <2>6. QED
    BY <2>1, <2>2, <2>5
<1>2. ASSUME NEW i \in 1 .. Count(z), NEW j \in 1 .. Count(z), i < j,
             Ext(z, j).phy_blk < Pbae(Ext(z, i))
      PROVE  FALSE
  <2>1. Ext(z, i).phy_blk <= Ext(z, j).phy_blk
    BY <1>2, ListFacts
  <2>2. j \in i + 1 .. Count(z)
    BY <1>2, ListFacts
  <2>3. Blocks(Ext(z, i)) \cap Blocks(Ext(z, j)) = {}
    BY <1>1, <2>2
  <2>4. PICK d, e : d = Ext(z, i) /\ e = Ext(z, j)
    OBVIOUS
  <2>5. d \in Listed(z) /\ e \in Listed(z)
    BY <2>4, ListFacts
  <2>6. /\ d.phy_blk \in Nat /\ Pbae(d) \in Nat
        /\ e.phy_blk \in Nat /\ Pbae(e) \in Nat
    BY <2>5, ExtentFacts
  <2>7. e.phy_blk < Pbae(e)
    BY <1>1, <2>4
  <2>8. e.phy_blk \in Blocks(e)
    BY <2>6, <2>7 DEF Blocks
  <2>9. e.phy_blk \in Blocks(d)
    BY <1>2, <2>1, <2>4, <2>6 DEF Blocks
  <2>10. QED
    BY <2>3, <2>4, <2>8, <2>9
<1>3. ASSUME NEW i \in 1 .. Count(z), NEW j \in 1 .. Count(z), i < j
      PROVE  Pbae(Ext(z, i)) <= Ext(z, j).phy_blk
  <2>1. Pbae(Ext(z, i)) \in Nat /\ Ext(z, j).phy_blk \in Nat
    BY ListFacts, ExtentFacts
  <2>2. QED
    BY <1>2, <1>3, <2>1
<1>4. QED
  BY <1>1, <1>3

(* A block in an extent is in its zone.                                    *)
LEMMA OccupiedBlock ==
  ASSUME zones \in ZoneMaps, Orderly, NEW b \in Occupied
  PROVE  \E z \in Zones : \E j \in 1 .. Count(z) :
           /\ b \in Nat
           /\ Ext(z, j).phy_blk <= b /\ b < Pbae(Ext(z, j))
           /\ ZoneLbas(z) <= b /\ b < ZoneLbae(z)
<1>1. PICK z \in Zones : \E e \in Listed(z) : b \in Blocks(e)
  BY DEF Occupied
<1>2. PICK e \in Listed(z) : b \in Blocks(e)
  BY <1>1
<1>3. PICK j \in 1 .. Count(z) : e = Ext(z, j)
  BY ListFacts
<1>4. /\ e.phy_blk \in Nat /\ Pbae(e) \in Nat /\ ZoneLbas(z) <= e.phy_blk
      /\ ZoneLbas(z) \in Nat /\ ZoneLbae(z) \in Nat
  BY ExtentFacts, ZoneBounds
<1>5. Pbae(e) <= ZoneLbae(z)
  BY <1>3, OrderlyFacts
<1>6. b \in Nat /\ e.phy_blk <= b /\ b < Pbae(e)
  BY <1>2, <1>4 DEF Blocks
<1>7. ZoneLbas(z) <= b /\ b < ZoneLbae(z)
  BY <1>4, <1>5, <1>6
<1>8. QED
  BY <1>3, <1>6, <1>7

LEMMA BlockOccupied ==
  ASSUME zones \in ZoneMaps, NEW z \in Zones, NEW j \in 1 .. Count(z), NEW b \in Nat,
         Ext(z, j).phy_blk <= b, b < Pbae(Ext(z, j))
  PROVE  b \in Occupied
<1>1. PICK e \in Listed(z) : e = Ext(z, j)
  BY ListFacts
<1>2. e.phy_blk \in Nat /\ Pbae(e) \in Nat
  BY ExtentFacts
<1>3. b \in Blocks(e)
  BY <1>1, <1>2 DEF Blocks
<1>4. QED
  BY <1>3 DEF Occupied

LEMMA GapFacts ==
  ASSUME zones \in ZoneMaps, Orderly, NEW z \in Zones, NEW p \in 0 .. Count(z)
  PROVE  /\ GapStart(z, p) \in Nat /\ GapEnd(z, p) \in Nat
         /\ ZoneLbas(z) <= GapStart(z, p)
         /\ GapStart(z, p) <= GapEnd(z, p)
         /\ GapEnd(z, p) <= ZoneLbae(z)
<1>1. /\ ZoneLbas(z) \in Nat /\ ZoneLbae(z) \in Nat /\ ZoneLbas(z) < ZoneLbae(z)
      /\ Count(z) \in Nat
  BY ZoneBounds, ListFacts
<1>2. ASSUME NEW j \in 1 .. Count(z)
      PROVE  /\ Ext(z, j).phy_blk \in Nat /\ Pbae(Ext(z, j)) \in Nat
             /\ ZoneLbas(z) <= Ext(z, j).phy_blk
             /\ Ext(z, j).phy_blk < Pbae(Ext(z, j))
             /\ Pbae(Ext(z, j)) <= ZoneLbae(z)
  BY ListFacts, ExtentFacts, OrderlyFacts
<1>3. ASSUME p # 0
      PROVE  p \in 1 .. Count(z)
  BY <1>1, <1>3
<1>4. ASSUME p # Count(z)
      PROVE  p + 1 \in 1 .. Count(z)
  BY <1>1, <1>4
<1>5. GapStart(z, p) \in Nat /\ ZoneLbas(z) <= GapStart(z, p) /\ GapStart(z, p) <= ZoneLbae(z)
  <2>1. CASE p = 0
    BY <1>1, <2>1 DEF GapStart
  <2>2. CASE p # 0
    <3>1. PICK e : e = Ext(z, p)
      OBVIOUS
    <3>2. e.phy_blk \in Nat /\ Pbae(e) \in Nat /\ ZoneLbas(z) <= e.phy_blk
          /\ e.phy_blk < Pbae(e) /\ Pbae(e) <= ZoneLbae(z)
      BY <1>2, <1>3, <2>2, <3>1
    <3>3. GapStart(z, p) = Pbae(e)
      BY <2>2, <3>1 DEF GapStart
    <3>4. QED
      BY <1>1, <3>2, <3>3
  <2>3. QED
    BY <2>1, <2>2
<1>6. GapEnd(z, p) \in Nat /\ GapEnd(z, p) <= ZoneLbae(z) /\ GapStart(z, p) <= GapEnd(z, p)
  <2>1. CASE p = Count(z)
    BY <1>1, <1>5, <2>1 DEF GapEnd
  <2>2. CASE p # Count(z)
    <3>1. PICK e : e = Ext(z, p + 1)
      OBVIOUS
    <3>2. e.phy_blk \in Nat /\ Pbae(e) \in Nat /\ ZoneLbas(z) <= e.phy_blk
          /\ e.phy_blk < Pbae(e) /\ Pbae(e) <= ZoneLbae(z)
      BY <1>2, <1>4, <2>2, <3>1
    <3>3. GapEnd(z, p) = e.phy_blk
      BY <2>2, <3>1 DEF GapEnd
    <3>4. GapStart(z, p) <= e.phy_blk
      <4>1. CASE p = 0
        BY <3>2, <4>1 DEF GapStart
      <4>2. CASE p # 0
        <5>1. Pbae(Ext(z, p)) <= Ext(z, p + 1).phy_blk
          <6>1. p < p + 1
            OBVIOUS
          <6>2. QED
            BY <1>3, <1>4, <2>2, <4>2, <6>1, OrderlyFacts
        <5>2. QED
          BY <3>1, <4>2, <5>1 DEF GapStart
      <4>3. QED
        BY <4>1, <4>2
    <3>5. QED
      BY <1>1, <3>2, <3>3, <3>4
  <2>3. QED
    BY <2>1, <2>2
<1>7. QED
  BY <1>5, <1>6

(* No extent reaches into a gap.                                           *)
LEMMA GapIsFree ==
  ASSUME zones \in ZoneMaps, Orderly, NEW z \in Zones, NEW p \in 0 .. Count(z),
         NEW b \in Nat, GapStart(z, p) <= b, b < GapEnd(z, p)
  PROVE  b \notin Occupied
<1> SUFFICES ASSUME b \in Occupied
             PROVE  FALSE
  OBVIOUS
<1>1. PICK y \in Zones : \E j \in 1 .. Count(y) :
        /\ Ext(y, j).phy_blk <= b /\ b < Pbae(Ext(y, j))
        /\ ZoneLbas(y) <= b /\ b < ZoneLbae(y)
  BY OccupiedBlock
<1>2. PICK j \in 1 .. Count(y) :
        /\ Ext(y, j).phy_blk <= b /\ b < Pbae(Ext(y, j))
        /\ ZoneLbas(y) <= b /\ b < ZoneLbae(y)
  BY <1>1
<1>3. ZoneLbas(z) <= b /\ b < ZoneLbae(z)
  <2>1. /\ GapStart(z, p) \in Nat /\ GapEnd(z, p) \in Nat
        /\ ZoneLbas(z) <= GapStart(z, p) /\ GapEnd(z, p) <= ZoneLbae(z)
        /\ ZoneLbas(z) \in Nat /\ ZoneLbae(z) \in Nat
    BY GapFacts, ZoneBounds
  <2>2. QED
    BY <2>1
<1>4. y = z
  BY <1>2, <1>3, BlockOfOneZone
<1>5. j \in 1 .. Count(z) /\ p \in Nat /\ Count(z) \in Nat
  BY <1>4, ListFacts
<1>6. CASE j <= p
  <2>1. p \in 1 .. Count(z) /\ p # 0
    BY <1>5, <1>6
  <2>2. b >= Pbae(Ext(z, p))
    BY <2>1 DEF GapStart
  <2>3. /\ Pbae(Ext(z, j)) \in Nat /\ Pbae(Ext(z, p)) \in Nat /\ Ext(z, p).phy_blk \in Nat
        /\ Ext(z, p).phy_blk < Pbae(Ext(z, p))
    BY <1>5, <2>1, ListFacts, ExtentFacts, OrderlyFacts
  <2>4. CASE j = p
    BY <1>2, <1>4, <2>2, <2>3, <2>4
  <2>5. CASE j < p
    <3>1. Pbae(Ext(z, j)) <= Ext(z, p).phy_blk
      BY <1>5, <2>1, <2>5, OrderlyFacts
    <3>2. QED
      BY <1>2, <1>4, <2>2, <2>3, <3>1
  <2>6. QED
    BY <1>5, <1>6, <2>4, <2>5
<1>7. CASE p < j
  <2>1. p # Count(z) /\ p + 1 \in 1 .. Count(z)
    BY <1>5, <1>7
  <2>2. b < Ext(z, p + 1).phy_blk
    BY <2>1 DEF GapEnd
  <2>3. Ext(z, p + 1).phy_blk <= Ext(z, j).phy_blk
    <3>1. p + 1 = j \/ p + 1 < j
      BY <1>5, <1>7
    <3>2. Ext(z, j).phy_blk \in Nat
      BY <1>5, ListFacts, ExtentFacts
    <3>3. CASE p + 1 = j
      BY <3>2, <3>3
    <3>4. CASE p + 1 < j
      BY <1>5, <2>1, <3>4, ListFacts
    <3>5. QED
      BY <3>1, <3>3, <3>4
  <2>4. Ext(z, p + 1).phy_blk \in Nat /\ Ext(z, j).phy_blk \in Nat
    BY <1>5, <2>1, ListFacts, ExtentFacts
  <2>5. QED
    BY <1>2, <1>4, <2>2, <2>3, <2>4
<1>8. QED
  BY <1>5, <1>6, <1>7

-----------------------------------------------------------------------------
(* One turn of the loop, in terms of the gaps.                             *)

HoleBefore == Hole(GapStart(zone, position - 1), Current.phy_blk)
HoleBehind == Hole(Pbae(Current), Min({Current.zone_wp, ZoneLbae(zone)}))

ShowsBefore ==
  /\ show_holes
  /\ GapStart(zone, position - 1) # Current.phy_blk
  /\ position = 1 => shown # <<>> /\ Count(zone) > 1

ShowsBehind ==
  /\ show_holes
  /\ position = Count(zone)
  /\ Pbae(Current) # ZoneLbae(zone)
  /\ Current.zone_wp > Pbae(Current)

Only(condition, hole) == IF condition THEN <<hole>> ELSE <<>>

LEMMA MinOfTwo ==
  ASSUME NEW a \in Nat, NEW b \in Nat
  PROVE  Min({a, b}) = IF a < b THEN a ELSE b
<1>1. /\ Min({a, b}) \in {a, b}
      /\ \A x \in {a, b} : Min({a, b}) <= x
  <2>1. \E m \in {a, b} : \A x \in {a, b} : m <= x
    OBVIOUS
  <2>2. QED
    BY <2>1 DEF Min
<1>2. PICK m : m = Min({a, b})
  OBVIOUS
<1>3. (m = a \/ m = b) /\ m <= a /\ m <= b
  BY <1>1, <1>2
<1>4. m = IF a < b THEN a ELSE b
  BY <1>3
<1>5. QED
  BY <1>2, <1>4

(* The extent at hand.                                                     *)
LEMMA CurrentFacts ==
  ASSUME WalkOK, zone < NrZones, position <= Len(List)
  PROVE  /\ zone \in Zones
         /\ position \in 1 .. Count(zone)
         /\ position - 1 \in 0 .. Count(zone) /\ position - 1 # Count(zone)
         /\ Current = Ext(zone, position)
         /\ Current \in Listed(zone)
         /\ Current.zone = zone
         /\ position - 1 + 1 = position
<1>1. zone \in Zones
  BY GeometryAssumption DEF WalkOK, Zones
<1>2. position \in Nat \ {0} /\ Count(zone) \in Nat /\ position <= Count(zone)
  BY <1>1, ListFacts DEF WalkOK, List, Count
<1>3. /\ position \in 1 .. Count(zone)
      /\ position - 1 \in 0 .. Count(zone) /\ position - 1 # Count(zone)
      /\ position - 1 + 1 = position
  BY <1>2
<1>4. Current = Ext(zone, position)
  BY DEF Current, List, Ext
<1>5. Current \in Listed(zone)
  BY <1>1, <1>3, <1>4, ListFacts DEF WalkOK
<1>6. Current.zone = zone
  BY <1>1, <1>5, ExtentFacts DEF WalkOK
<1>7. QED
  BY <1>1, <1>3, <1>4, <1>5, <1>6

(* The extent printed before is the one before in the list, or in another  *)
(* zone.                                                                   *)
LEMMA PrevFacts ==
  ASSUME WalkOK, ShownOK, zone < NrZones, position <= Len(List)
  PROVE  /\ position > 1 => /\ shown # <<>>
                            /\ Prev.zone = zone
                            /\ Pbae(Prev) = GapStart(zone, position - 1)
         /\ position = 1 /\ shown # <<>> => Prev.zone # zone
<1>1. /\ zone \in Zones /\ position \in 1 .. Count(zone)
      /\ position - 1 \in 0 .. Count(zone)
  BY CurrentFacts
<1>2. ASSUME position > 1
      PROVE  shown # <<>> /\ Prev.zone = zone /\ Pbae(Prev) = GapStart(zone, position - 1)
  <2>1. shown # <<>> /\ Prev = Ext(zone, position - 1)
    BY <1>2 DEF ShownOK
  <2>2. position - 1 \in 1 .. Count(zone) /\ position - 1 # 0
    BY <1>1, <1>2
  <2>3. Prev \in Listed(zone)
    BY <1>1, <2>1, <2>2, ListFacts DEF WalkOK
  <2>4. Prev.zone = zone
    BY <1>1, <2>3, ExtentFacts DEF WalkOK
  <2>5. QED
    BY <2>1, <2>2, <2>4 DEF GapStart
<1>3. ASSUME position = 1, shown # <<>>
      PROVE  Prev.zone # zone
  <2>1. PICK y \in 0 .. zone - 1 : Prev \in Listed(y)
    BY <1>3 DEF ShownOK
  <2>2. y \in Zones /\ y # zone
    BY <1>1, GeometryAssumption DEF Zones
  <2>3. Prev.zone = y
    BY <2>1, <2>2, ExtentFacts DEF WalkOK
  <2>4. QED
    BY <2>2, <2>3
<1>4. QED
  BY <1>2, <1>3

(* At most one hole is shown before the extent and one behind it.          *)
LEMMA HolesFound ==
  ASSUME WalkOK, ShownOK, zone < NrZones, position <= Len(List)
  PROVE  /\ InnerHole = Only(position > 1 /\ ShowsBefore, HoleBefore)
         /\ LeadingHole = Only(position = 1 /\ ShowsBefore, HoleBefore)
         /\ TrailingHole = Only(ShowsBehind, HoleBehind)
<1>1. /\ zone \in Zones /\ position \in 1 .. Count(zone) /\ Current.zone = zone
      /\ Count(zone) \in Nat
  BY CurrentFacts, ListFacts DEF WalkOK
<1>2. /\ position > 1 => /\ shown # <<>>
                         /\ Prev.zone = zone
                         /\ Pbae(Prev) = GapStart(zone, position - 1)
      /\ position = 1 /\ shown # <<>> => Prev.zone # zone
  BY PrevFacts
<1>3. position = 1 \/ position > 1
  BY <1>1
<1>4. InnerHole = Only(position > 1 /\ ShowsBefore, HoleBefore)
  <2>1. CASE position > 1
    <3>1. ShowsBefore <=> show_holes /\ Pbae(Prev) # Current.phy_blk
      BY <1>2, <2>1 DEF ShowsBefore
    <3>2. HoleBefore = Hole(Pbae(Prev), Current.phy_blk)
      BY <1>2, <2>1 DEF HoleBefore
    <3>3. shown # <<>> /\ Prev.zone = Current.zone
      BY <1>1, <1>2, <2>1
    <3>4. QED
      BY <2>1, <3>1, <3>2, <3>3 DEF InnerHole, Only
  <2>2. CASE position = 1
    <3>1. ~(shown # <<>> /\ Prev.zone = Current.zone)
      BY <1>1, <1>2, <2>2
    <3>2. InnerHole = <<>>
      BY <3>1 DEF InnerHole
    <3>3. ~(position > 1)
      BY <2>2
    <3>4. QED
      BY <3>2, <3>3 DEF Only
  <2>3. QED
    BY <1>3, <2>1, <2>2
<1>5. LeadingHole = Only(position = 1 /\ ShowsBefore, HoleBefore)
  <2>1. CASE position > 1
    <3>1. ~(Prev.zone # Current.zone) /\ ~(position = 1)
      BY <1>1, <1>2, <2>1
    <3>2. LeadingHole = <<>>
      BY <3>1 DEF LeadingHole
    <3>3. QED
      BY <3>1, <3>2 DEF Only
  <2>2. CASE position = 1
    <3>1. GapStart(zone, position - 1) = ZoneLbas(Current.zone)
      BY <1>1, <2>2 DEF GapStart
    <3>2. ~IsLastOfZone <=> Count(zone) > 1
      <4>1. IsLastOfZone <=> position = Count(zone)
        BY DEF IsLastOfZone, Count, List
      <4>2. QED
        BY <1>1, <2>2, <4>1
    <3>3. shown # <<>> => Prev.zone # Current.zone
      BY <1>1, <1>2, <2>2
    <3>4. ShowsBefore <=> /\ show_holes
                          /\ ~IsLastOfZone
                          /\ shown # <<>>
                          /\ ZoneLbas(Current.zone) # Current.phy_blk
                          /\ Prev.zone # Current.zone
      BY <2>2, <3>1, <3>2, <3>3 DEF ShowsBefore
    <3>5. HoleBefore = Hole(ZoneLbas(Current.zone), Current.phy_blk)
      BY <3>1 DEF HoleBefore
    <3>6. QED
      BY <2>2, <3>4, <3>5 DEF LeadingHole, Only
  <2>3. QED
    BY <1>3, <2>1, <2>2
<1>6. TrailingHole = Only(ShowsBehind, HoleBehind)
  <2>1. IsLastOfZone <=> position = Count(zone)
    BY DEF IsLastOfZone, Count, List
  <2>2. QED
    BY <1>1, <2>1 DEF TrailingHole, ShowsBehind, HoleBehind, Only
<1>7. QED
  BY <1>4, <1>5, <1>6

(* The holes after a turn of the loop.                                     *)
NewHoles ==
  (IF ShowsBefore THEN {HoleBefore} ELSE {}) \cup (IF ShowsBehind THEN {HoleBehind} ELSE {})

LEMMA RangeOfConcat ==
  ASSUME NEW S, NEW s \in Seq(S), NEW t \in Seq(S)
  PROVE  Range(s \o t) = Range(s) \cup Range(t)
<1>1. s \o t \in Seq(S) /\ Len(s \o t) = Len(s) + Len(t)
  OBVIOUS
<1>2. ASSUME NEW k \in 1 .. Len(s)
      PROVE  k \in 1 .. Len(s) + Len(t) /\ (s \o t)[k] = s[k]
  OBVIOUS
<1>3. ASSUME NEW k \in 1 .. Len(t)
      PROVE  Len(s) + k \in 1 .. Len(s) + Len(t) /\ (s \o t)[Len(s) + k] = t[k]
  OBVIOUS
<1>4. ASSUME NEW k \in 1 .. Len(s) + Len(t)
      PROVE  k \in 1 .. Len(s) \/ \E j \in 1 .. Len(t) : k = Len(s) + j
  <2>1. CASE k <= Len(s)
    BY <2>1
  <2>2. CASE k > Len(s)
    <3>1. k - Len(s) \in 1 .. Len(t) /\ k = Len(s) + (k - Len(s))
      BY <2>2
    <3>2. QED
      BY <3>1
  <2>3. QED
    BY <2>1, <2>2
<1>5. /\ DOMAIN s = 1 .. Len(s) /\ DOMAIN t = 1 .. Len(t)
      /\ DOMAIN (s \o t) = 1 .. Len(s) + Len(t)
  BY <1>1
<1>6. ASSUME NEW x \in Range(s \o t)
      PROVE  x \in Range(s) \cup Range(t)
  <2>1. PICK k \in 1 .. Len(s) + Len(t) : x = (s \o t)[k]
    BY <1>5 DEF Range
  <2>2. CASE k \in 1 .. Len(s)
    BY <1>2, <1>5, <2>1, <2>2 DEF Range
  <2>3. CASE \E j \in 1 .. Len(t) : k = Len(s) + j
    BY <1>3, <1>5, <2>1, <2>3 DEF Range
  <2>4. QED
    BY <1>4, <2>2, <2>3
<1>7. Range(s) \subseteq Range(s \o t)
  BY <1>2, <1>5 DEF Range
<1>8. Range(t) \subseteq Range(s \o t)
  BY <1>3, <1>5 DEF Range
<1>9. QED
  BY <1>6, <1>7, <1>8

LEMMA OnlyFacts ==
  ASSUME NEW condition \in BOOLEAN, NEW hole
  PROVE  /\ Only(condition, hole) \in Seq({hole})
         /\ Range(Only(condition, hole)) = IF condition THEN {hole} ELSE {}
         /\ SizeOf(Only(condition, hole)) = IF condition THEN hole.size ELSE 0
         /\ Len(Only(condition, hole)) \in {0, 1}
<1>1. CASE condition
  <2>1. PICK s : s = <<hole>>
    OBVIOUS
  <2>2. s \in Seq({hole}) /\ s # <<>> /\ Head(s) = hole /\ DOMAIN s = {1} /\ s[1] = hole
        /\ Len(s) = 1
    BY <2>1
  <2>3. Only(condition, hole) = s
    BY <1>1, <2>1 DEF Only
  <2>4. Range(s) = {hole}
    BY <2>2 DEF Range
  <2>5. SizeOf(s) = hole.size
    BY <2>2 DEF SizeOf
  <2>6. QED
    BY <1>1, <2>2, <2>3, <2>4, <2>5
<1>2. CASE ~condition
  <2>1. Only(condition, hole) = <<>>
    BY <1>2 DEF Only
  <2>2. Range(<<>>) = {}
    BY DEF Range
  <2>3. SizeOf(<<>>) = 0
    BY DEF SizeOf
  <2>4. <<>> \in Seq({hole}) /\ Len(<<>>) = 0
    OBVIOUS
  <2>5. QED
    BY <1>2, <2>1, <2>2, <2>3, <2>4
<1>3. QED
  BY <1>1, <1>2

(* The ends of the holes are addresses of the device, and only a hole      *)
(* between extents may have its end first.                                 *)
LEMMA NewHoleBounds ==
  ASSUME WalkOK, zone < NrZones, position <= Len(List)
  PROVE  /\ GapStart(zone, position - 1) \in 0 .. NrZones * ZoneSize
         /\ Current.phy_blk \in 0 .. NrZones * ZoneSize
         /\ position = 1 => GapStart(zone, position - 1) <= Current.phy_blk
         /\ ShowsBehind =>
              /\ Pbae(Current) \in 0 .. NrZones * ZoneSize
              /\ Min({Current.zone_wp, ZoneLbae(zone)}) \in 0 .. NrZones * ZoneSize
              /\ Pbae(Current) < Min({Current.zone_wp, ZoneLbae(zone)})
              /\ Min({Current.zone_wp, ZoneLbae(zone)}) <= ZoneLbae(zone)
<1>1. /\ zone \in Zones /\ position \in 1 .. Count(zone)
      /\ Current \in Listed(zone)
      /\ zones \in ZoneMaps
  BY CurrentFacts DEF WalkOK
<1>2. PICK size \in Nat : size = NrZones * ZoneSize
  BY GeometryAssumption
<1>3. PICK phy \in Nat, end \in Nat, wp \in Nat :
        /\ phy = Current.phy_blk /\ end = Pbae(Current) /\ wp = Current.zone_wp
        /\ phy <= end /\ end <= size
        /\ ZoneLbas(zone) <= phy
        /\ wp > end => end <= ZoneLbae(zone)
  <2>1. /\ Current.phy_blk \in Nat /\ Pbae(Current) \in Nat /\ Current.zone_wp \in Nat
        /\ Current.phy_blk <= Pbae(Current) /\ Pbae(Current) <= size
        /\ ZoneLbas(zone) <= Current.phy_blk
        /\ Current.zone_wp > Pbae(Current) => Pbae(Current) <= ZoneLbae(zone)
    BY <1>1, <1>2, ExtentFacts
  <2>2. QED
    BY <2>1
<1>4. PICK lbas \in Nat, lbae \in Nat :
        /\ lbas = ZoneLbas(zone) /\ lbae = ZoneLbae(zone) /\ lbas < lbae /\ lbae <= size
  <2>1. /\ ZoneLbas(zone) \in Nat /\ ZoneLbae(zone) \in Nat
        /\ ZoneLbas(zone) < ZoneLbae(zone)
        /\ ZoneLbae(zone) <= ZoneLbas(zone + 1) /\ ZoneLbas(zone + 1) <= size
    BY <1>1, <1>2, ZoneBounds
  <2>2. ZoneLbas(zone + 1) \in Nat
    BY GeometryAssumption DEF WalkOK, ZoneLbas
  <2>3. ZoneLbae(zone) <= size
    BY <2>1, <2>2
  <2>4. QED
    BY <2>1, <2>3
<1>5. GapStart(zone, position - 1) \in 0 .. size
  <2>1. CASE position = 1
    <3>1. GapStart(zone, position - 1) = lbas
      BY <1>4, <2>1 DEF GapStart
    <3>2. QED
      BY <1>4, <3>1
  <2>2. CASE position # 1
    <3>1. position - 1 \in 1 .. Count(zone) /\ position - 1 # 0
      BY <1>1, <2>2, CurrentFacts
    <3>2. PICK e \in Listed(zone) : e = Ext(zone, position - 1)
      BY <1>1, <3>1, ListFacts
    <3>3. Pbae(e) \in Nat /\ Pbae(e) <= size
      BY <1>1, <1>2, ExtentFacts
    <3>4. GapStart(zone, position - 1) = Pbae(e)
      BY <3>1, <3>2 DEF GapStart
    <3>5. QED
      BY <3>3, <3>4
  <2>3. QED
    BY <2>1, <2>2
<1>6. phy \in 0 .. size
  BY <1>2, <1>3
<1>7. position = 1 => GapStart(zone, position - 1) <= phy
  BY <1>3 DEF GapStart
<1>8. ASSUME ShowsBehind
      PROVE  /\ end \in 0 .. size
             /\ Min({wp, lbae}) \in 0 .. size
             /\ end < Min({wp, lbae})
             /\ Min({wp, lbae}) <= lbae
  <2>1. end # lbae /\ wp > end
    BY <1>3, <1>4, <1>8 DEF ShowsBehind
  <2>2. end < lbae
    BY <1>3, <1>4, <2>1
  <2>3. PICK m \in Nat : m = Min({wp, lbae}) /\ m = IF wp < lbae THEN wp ELSE lbae
    <3>1. (IF wp < lbae THEN wp ELSE lbae) \in Nat
      OBVIOUS
    <3>2. QED
      BY <3>1, MinOfTwo
  <2>4. end < m /\ m <= lbae
    BY <1>4, <2>1, <2>2, <2>3
  <2>5. m \in 0 .. size /\ end \in 0 .. size
    BY <1>2, <1>3, <1>4, <2>4
  <2>6. QED
    BY <2>3, <2>4, <2>5
<1>9. QED
  BY <1>2, <1>3, <1>4, <1>5, <1>6, <1>7, <1>8

LEMMA HolesTyped ==
  ASSUME WalkOK, ShownOK, zone < NrZones, position <= Len(List)
  PROVE  /\ ShowsBefore => HoleBefore \in HoleType
         /\ ShowsBehind => HoleBehind \in HoleType
<1>1. ASSUME NEW a \in 0 .. NrZones * ZoneSize, NEW b \in 0 .. NrZones * ZoneSize
      PROVE  Hole(a, b) \in HoleType
  <2>1. Word64 \in Nat \ {0}
    BY GeometryAssumption, ReportAssumption
  <2>2. b - a \in Int
    BY GeometryAssumption
  <2>3. (b - a) % Word64 \in 0 .. Word64 - 1
    BY <2>1, <2>2
  <2>4. QED
    BY <2>3 DEF Hole, HoleType
<1>2. QED
  BY <1>1, NewHoleBounds DEF HoleBefore, HoleBehind

LEMMA ShowStep ==
  ASSUME WalkOK, ShownOK, SumsOK, ShowExtent
  PROVE  /\ holes' \in Seq(HoleType) /\ hole_ctr' = Len(holes')
         /\ Range(holes') = Range(holes) \cup NewHoles
         /\ hole_cum_size' = (hole_cum_size + (IF ShowsBefore THEN HoleBefore.size ELSE 0)
                              + (IF ShowsBehind THEN HoleBehind.size ELSE 0)) % Word64
<1>1. zone < NrZones /\ position <= Len(List)
  BY DEF ShowExtent
<1>2. /\ zone \in Zones /\ position \in 1 .. Count(zone)
  BY <1>1, CurrentFacts
<1>3. /\ InnerHole = Only(position > 1 /\ ShowsBefore, HoleBefore)
      /\ LeadingHole = Only(position = 1 /\ ShowsBefore, HoleBefore)
      /\ TrailingHole = Only(ShowsBehind, HoleBehind)
  BY <1>1, HolesFound
<1>4. PICK before, behind : /\ before = Only(ShowsBefore, HoleBefore)
                            /\ behind = Only(ShowsBehind, HoleBehind)
  OBVIOUS
<1>5. /\ before \in Seq(HoleType) /\ behind \in Seq(HoleType)
      /\ Range(before) \cup Range(behind) = NewHoles
  <2>1. ShowsBefore \in BOOLEAN /\ ShowsBehind \in BOOLEAN
    BY DEF ShowsBefore, ShowsBehind, WalkOK
  <2>2. before \in Seq(HoleType)
    BY <1>1, <1>4, HolesTyped DEF Only
  <2>3. behind \in Seq(HoleType)
    BY <1>1, <1>4, HolesTyped DEF Only
  <2>4. /\ Range(before) = IF ShowsBefore THEN {HoleBefore} ELSE {}
        /\ Range(behind) = IF ShowsBehind THEN {HoleBehind} ELSE {}
    BY <1>4, <2>1, OnlyFacts
  <2>5. QED
    BY <2>2, <2>3, <2>4 DEF NewHoles
<1>6. /\ InnerHole \o LeadingHole = before
      /\ SizeOf(InnerHole) + SizeOf(LeadingHole) = SizeOf(before)
  <2>1. SizeOf(<<>>) = 0
    BY DEF SizeOf
  <2>2. SizeOf(before) \in Int
    <3>1. ShowsBefore \in BOOLEAN
      BY DEF ShowsBefore, WalkOK
    <3>2. SizeOf(before) = IF ShowsBefore THEN HoleBefore.size ELSE 0
      BY <1>4, <3>1, OnlyFacts
    <3>3. ShowsBefore => HoleBefore.size \in Int
      BY <1>1, HolesTyped, ReportAssumption DEF HoleType
    <3>4. QED
      BY <3>2, <3>3
  <2>3. CASE position = 1
    <3>1. InnerHole = <<>> /\ LeadingHole = before
      <4>1. ~(position > 1)
        BY <2>3
      <4>2. QED
        BY <1>3, <1>4, <2>3, <4>1 DEF Only
    <3>2. QED
      BY <1>5, <2>1, <2>2, <3>1
  <2>4. CASE position > 1
    <3>1. LeadingHole = <<>> /\ InnerHole = before
      <4>1. ~(position = 1)
        BY <2>4
      <4>2. QED
        BY <1>3, <1>4, <2>4, <4>1 DEF Only
    <3>2. QED
      BY <1>5, <2>1, <2>2, <3>1
  <2>5. QED
    BY <1>2, <2>3, <2>4
<1>7. holes' = holes \o (before \o behind) /\ hole_ctr' = hole_ctr + Len(before \o behind)
  BY <1>3, <1>4, <1>6 DEF ShowExtent
<1>8. holes \in Seq(HoleType) /\ hole_ctr = Len(holes)
  BY DEF SumsOK
<1>9. before \o behind \in Seq(HoleType)
  BY <1>5
<1>10. holes' \in Seq(HoleType) /\ hole_ctr' = Len(holes')
  BY <1>7, <1>8, <1>9
<1>11. Range(holes') = Range(holes) \cup NewHoles
  <2>1. Range(before \o behind) = Range(before) \cup Range(behind)
    BY <1>5, RangeOfConcat
  <2>2. Range(holes') = Range(holes) \cup Range(before \o behind)
    <3>1. PICK new \in Seq(HoleType) : new = before \o behind
      BY <1>9
    <3>2. Range(holes \o new) = Range(holes) \cup Range(new)
      BY <1>8, RangeOfConcat
    <3>3. holes' = holes \o new
      BY <1>7, <3>1
    <3>4. QED
      BY <3>1, <3>2, <3>3
  <2>3. QED
    BY <1>5, <2>1, <2>2
<1>12. hole_cum_size' = (hole_cum_size + (IF ShowsBefore THEN HoleBefore.size ELSE 0)
                         + (IF ShowsBehind THEN HoleBehind.size ELSE 0)) % Word64
  <2>1. ShowsBefore \in BOOLEAN /\ ShowsBehind \in BOOLEAN
    BY DEF ShowsBefore, ShowsBehind, WalkOK
  <2>2. PICK x, y : x = SizeOf(before) /\ y = SizeOf(behind)
    OBVIOUS
  <2>3. /\ x = IF ShowsBefore THEN HoleBefore.size ELSE 0
        /\ y = IF ShowsBehind THEN HoleBehind.size ELSE 0
    BY <1>4, <2>1, <2>2, OnlyFacts
  <2>4. hole_cum_size' = (hole_cum_size + SizeOf(InnerHole) + SizeOf(LeadingHole)
                          + SizeOf(TrailingHole)) % Word64
    BY DEF ShowExtent
  <2>5. PICK u \in Int, v \in Int, sum \in Int :
          /\ u = SizeOf(InnerHole) /\ v = SizeOf(LeadingHole) /\ sum = hole_cum_size
    <3>1. SizeOf(InnerHole) \in Int /\ SizeOf(LeadingHole) \in Int
      <4>1. /\ (position > 1 /\ ShowsBefore) \in BOOLEAN
            /\ (position = 1 /\ ShowsBefore) \in BOOLEAN
        OBVIOUS
      <4>2. ShowsBefore => HoleBefore.size \in Int
        BY <1>1, HolesTyped, ReportAssumption DEF HoleType
      <4>3. /\ SizeOf(InnerHole)
                 = IF position > 1 /\ ShowsBefore THEN HoleBefore.size ELSE 0
            /\ SizeOf(LeadingHole)
                 = IF position = 1 /\ ShowsBefore THEN HoleBefore.size ELSE 0
        BY <1>3, <4>1, OnlyFacts
      <4>4. QED
        BY <4>2, <4>3
    <3>2. hole_cum_size \in Int
      BY ReportAssumption DEF SumsOK
    <3>3. QED
      BY <3>1, <3>2
  <2>6. u + v = x
    BY <1>6, <2>2, <2>5
  <2>7. hole_cum_size' = (sum + u + v + y) % Word64
    BY <1>3, <1>4, <2>2, <2>4, <2>5
  <2>8. PICK w \in Int : w = y
    <3>1. ShowsBehind => HoleBehind.size \in Int
      BY <1>1, HolesTyped, ReportAssumption DEF HoleType
    <3>2. QED
      BY <2>3, <3>1
  <2>9. sum + u + v + w = sum + x + w
    BY <2>5, <2>6
  <2>10. QED
    BY <2>3, <2>5, <2>7, <2>8, <2>9
<1>13. QED
  BY <1>10, <1>11, <1>12

-----------------------------------------------------------------------------
(* The walk.                                                               *)

LEMMA StepWalk ==
  ASSUME WalkOK, [Next]_vars
  PROVE  WalkOK' /\ UNCHANGED <<zones, show_holes>>
<1>1. CASE ShowExtent
  <2>1. /\ UNCHANGED <<zones, show_holes, zone>>
        /\ position' = position + 1
        /\ zone < NrZones /\ position <= Len(List)
    BY <1>1 DEF ShowExtent
  <2>2. position \in 1 .. Count(zone) /\ zone \in Zones
    BY <2>1, CurrentFacts
  <2>3. zone # NrZones /\ Count(zone) \in Nat
    BY <2>1, <2>2, GeometryAssumption, ListFacts DEF WalkOK
  <2>4. Count(zone)' = Count(zone)
    BY <2>1 DEF Count
  <2>5. position + 1 <= Count(zone) + 1 /\ position + 1 \in Nat \ {0}
    BY <2>2, <2>3
  <2>6. QED
    BY <2>1, <2>3, <2>4, <2>5 DEF WalkOK
<1>2. CASE NextZone
  <2>1. /\ UNCHANGED <<zones, show_holes>>
        /\ zone < NrZones /\ zone' = zone + 1 /\ position' = 1
    BY <1>2 DEF NextZone
  <2>2. zone' \in 0 .. NrZones
    BY <2>1, GeometryAssumption DEF WalkOK
  <2>3. zone' < NrZones => Count(zone)' \in Nat
    <3>1. SUFFICES ASSUME zone' < NrZones
                   PROVE  Count(zone)' \in Nat
      OBVIOUS
    <3>2. zone' \in Zones
      BY <2>2, <3>1, GeometryAssumption DEF Zones
    <3>3. PICK z \in Zones : z = zone'
      BY <3>2
    <3>4. Count(z) \in Nat
      BY ListFacts DEF WalkOK
    <3>5. QED
      BY <2>1, <3>3, <3>4 DEF Count
  <2>4. zone' < NrZones => position' <= Count(zone)' + 1
    BY <2>1, <2>3
  <2>5. QED
    BY <2>1, <2>2, <2>4 DEF WalkOK
<1>3. CASE Finished \/ UNCHANGED vars
  BY <1>3 DEF Finished, vars, WalkOK, Count
<1>4. QED
  BY <1>1, <1>2, <1>3 DEF Next

LEMMA AppendedLast ==
  ASSUME NEW S, NEW s \in Seq(S), NEW x
  PROVE  Append(s, x) # <<>> /\ Last(Append(s, x)) = x
<1>1. Len(Append(s, x)) = Len(s) + 1 /\ Append(s, x)[Len(s) + 1] = x /\ Len(s) \in Nat
  OBVIOUS
<1>2. Last(Append(s, x)) = x
  BY <1>1 DEF Last
<1>3. Append(s, x) # <<>>
  BY <1>1
<1>4. QED
  BY <1>2, <1>3

(* Nothing is left of the list of a zone that is left.                     *)
LEMMA EndOfList ==
  ASSUME WalkOK, NextZone
  PROVE  /\ zone \in Zones
         /\ Count(zone) \in Nat
         /\ position = Count(zone) + 1
<1>1. zone \in Zones
  BY GeometryAssumption DEF NextZone, WalkOK, Zones
<1>2. Count(zone) \in Nat
  BY <1>1, ListFacts DEF WalkOK
<1>3. position > Count(zone)
  BY DEF NextZone, List, Count
<1>4. position <= Count(zone) + 1 /\ position \in Nat
  BY DEF NextZone, WalkOK
<1>5. QED
  BY <1>1, <1>2, <1>3, <1>4

LEMMA StepShown ==
  ASSUME WalkOK, ShownOK, [Next]_vars
  PROVE  ShownOK'
<1>1. UNCHANGED zones /\ \A z : Count(z)' = Count(z) /\ Listed(z)' = Listed(z)
  BY StepWalk DEF Count, Listed
<1>2. CASE ShowExtent
  <2>1. /\ shown' = Append(shown, Current)
        /\ position' = position + 1 /\ zone' = zone
        /\ zone < NrZones /\ position <= Len(List)
    BY <1>2 DEF ShowExtent
  <2>2. /\ zone \in Zones /\ position \in 1 .. Count(zone)
        /\ Current = Ext(zone, position) /\ Current \in Listed(zone)
    BY <2>1, CurrentFacts
  <2>3. PICK S : S = UNION {Listed(z) : z \in Zones}
    OBVIOUS
  <2>4. shown \in Seq(S) /\ Current \in S
    BY <2>2, <2>3 DEF ShownOK
  <2>5. shown' \in Seq(S)
    BY <2>1, <2>4
  <2>6. shown' # <<>> /\ Prev' = Current
    BY <2>1, <2>4, AppendedLast DEF Prev
  <2>7. position' > 1 /\ position' - 1 = position
    BY <2>1, <2>2
  <2>8. Ext(zone, position - 1)' = Current
    BY <1>1, <2>1, <2>2, <2>7 DEF Ext
  <2>9. (UNION {Listed(z) : z \in Zones})' = S
    BY <1>1, <2>3
  <2>10. QED
    BY <2>5, <2>6, <2>7, <2>8, <2>9 DEF ShownOK
<1>3. CASE NextZone
  <2>1. UNCHANGED shown /\ position' = 1 /\ zone' = zone + 1 /\ Prev' = Prev
    BY <1>3 DEF NextZone, Prev
  <2>2. zone \in Zones /\ Count(zone) \in Nat /\ position = Count(zone) + 1
    BY <1>3, EndOfList
  <2>3. zone \in Nat /\ \A y \in 0 .. zone : y \in 0 .. zone - 1 \/ y = zone
    BY <2>2, GeometryAssumption DEF Zones
  <2>4. zone' - 1 = zone
    BY <2>1, <2>3
  <2>5. shown = <<>> => \A y \in 0 .. zone : Count(y) = 0
    <3>1. shown = <<>> => Count(zone) = 0
      BY <2>2 DEF ShownOK
    <3>2. QED
      BY <2>3, <3>1 DEF ShownOK
  <2>6. shown # <<>> => \E y \in 0 .. zone : Prev \in Listed(y)
    <3>1. CASE position = 1 /\ shown # <<>>
      <4>1. PICK y \in 0 .. zone - 1 : Prev \in Listed(y)
        BY <3>1 DEF ShownOK
      <4>2. y \in 0 .. zone
        BY <2>3
      <4>3. QED
        BY <4>1, <4>2
    <3>2. CASE position > 1
      <4>1. Prev = Ext(zone, position - 1)
        BY <3>2 DEF ShownOK
      <4>2. position - 1 \in 1 .. Count(zone)
        BY <2>2, <3>2
      <4>3. Prev \in Listed(zone)
        BY <2>2, <4>1, <4>2, ListFacts DEF WalkOK
      <4>4. zone \in 0 .. zone
        BY <2>3
      <4>5. QED
        BY <4>3, <4>4
    <3>3. QED
      BY <2>2, <3>1, <3>2
  <2>7. shown' \in Seq(UNION {Listed(z) : z \in Zones})'
    BY <1>1, <2>1 DEF ShownOK
  <2>8. ~(position' > 1)
    BY <2>1
  <2>9. QED
    BY <1>1, <2>1, <2>4, <2>5, <2>6, <2>7, <2>8 DEF ShownOK
<1>4. CASE Finished \/ UNCHANGED vars
  <2>1. UNCHANGED <<zones, zone, position, shown>>
    BY <1>4 DEF Finished, vars
  <2>2. Prev' = Prev /\ Ext(zone, position - 1)' = Ext(zone, position - 1)
    BY <2>1 DEF Prev, Ext
  <2>3. (UNION {Listed(z) : z \in Zones})' = UNION {Listed(z) : z \in Zones}
    BY <1>1
  <2>4. QED
    BY <1>1, <2>1, <2>2, <2>3 DEF ShownOK
<1>5. QED
  BY <1>2, <1>3, <1>4 DEF Next

LEMMA StepSums ==
  ASSUME WalkOK, ShownOK, SumsOK, [Next]_vars
  PROVE  SumsOK'
<1>1. CASE ShowExtent
  <2>1. /\ holes' \in Seq(HoleType) /\ hole_ctr' = Len(holes')
        /\ hole_cum_size' = (hole_cum_size + (IF ShowsBefore THEN HoleBefore.size ELSE 0)
                             + (IF ShowsBehind THEN HoleBehind.size ELSE 0)) % Word64
    BY <1>1, ShowStep
  <2>2. Word64 \in Nat \ {0}
    BY GeometryAssumption, ReportAssumption
  <2>3. PICK sum \in Int, x \in Int, y \in Int :
          /\ sum = hole_cum_size
          /\ x = IF ShowsBefore THEN HoleBefore.size ELSE 0
          /\ y = IF ShowsBehind THEN HoleBehind.size ELSE 0
    <3>1. hole_cum_size \in Int
      BY <2>2 DEF SumsOK
    <3>2. zone < NrZones /\ position <= Len(List)
      BY <1>1 DEF ShowExtent
    <3>3. (ShowsBefore => HoleBefore.size \in Int) /\ (ShowsBehind => HoleBehind.size \in Int)
      BY <2>2, <3>2, HolesTyped DEF HoleType
    <3>4. QED
      BY <3>1, <3>3
  <2>4. hole_cum_size' = (sum + x + y) % Word64
    BY <2>1, <2>3
  <2>5. (sum + x + y) % Word64 \in 0 .. Word64 - 1
    BY <2>2, <2>3
  <2>6. HoleType' = HoleType
    BY DEF HoleType
  <2>7. QED
    BY <2>1, <2>4, <2>5, <2>6 DEF SumsOK
<1>2. CASE NextZone \/ Finished \/ UNCHANGED vars
  BY <1>2 DEF NextZone, Finished, vars, SumsOK, HoleType
<1>3. QED
  BY <1>1, <1>2 DEF Next

(* What depends on the zones alone.                                        *)
LEMMA SameZones ==
  ASSUME UNCHANGED zones
  PROVE  /\ (Orderly' <=> Orderly) /\ Occupied' = Occupied
         /\ \A z : Count(z)' = Count(z) /\ Listed(z)' = Listed(z)
         /\ \A z, p : /\ Ext(z, p)' = Ext(z, p)
                      /\ GapStart(z, p)' = GapStart(z, p)
                      /\ GapEnd(z, p)' = GapEnd(z, p)
         /\ \A h : (InGap(h)' <=> InGap(h)) /\ (WrapsOnOverlap(h)' <=> WrapsOnOverlap(h))
<1>1. /\ \A z : Count(z)' = Count(z) /\ Listed(z)' = Listed(z)
      /\ \A z, p : Ext(z, p)' = Ext(z, p)
  BY DEF Count, Listed, Ext
<1>2. \A z, p : GapStart(z, p)' = GapStart(z, p) /\ GapEnd(z, p)' = GapEnd(z, p)
  BY <1>1 DEF GapStart, GapEnd
<1>3. \A h : InGap(h)' <=> InGap(h)
  BY <1>1, <1>2 DEF InGap
<1>4. \A h : WrapsOnOverlap(h)' <=> WrapsOnOverlap(h)
  BY DEF WrapsOnOverlap
<1>5. Orderly' <=> Orderly
  BY DEF Orderly
<1>6. Occupied' = Occupied
  BY DEF Occupied, Listed
<1>7. QED
  BY <1>1, <1>2, <1>3, <1>4, <1>5, <1>6

LEMMA SizeOfHole ==
  ASSUME NEW a \in 0 .. NrZones * ZoneSize, NEW b \in 0 .. NrZones * ZoneSize
  PROVE  /\ Hole(a, b).from = a /\ Hole(a, b).to = b
         /\ a <= b => Hole(a, b).size = b - a
<1>1. Word64 \in Nat \ {0} /\ NrZones * ZoneSize \in Nat /\ NrZones * ZoneSize < Word64
  BY GeometryAssumption, ReportAssumption
<1>2. a <= b => b - a \in 0 .. Word64 - 1
  BY <1>1
<1>3. a <= b => (b - a) % Word64 = b - a
  BY <1>1, <1>2
<1>4. QED
  BY <1>3 DEF Hole

LEMMA StepWraps ==
  ASSUME WalkOK, ShownOK, SumsOK, WrapsInv, [Next]_vars
  PROVE  WrapsInv'
<1>1. \A h : WrapsOnOverlap(h)' <=> WrapsOnOverlap(h)
  BY StepWalk, SameZones
<1>2. CASE ShowExtent
  <2>1. zone < NrZones /\ position <= Len(List)
    BY <1>2 DEF ShowExtent
  <2>2. Range(holes') = Range(holes) \cup NewHoles
    BY <1>2, ShowStep
  <2>3. /\ zone \in Zones /\ position \in 1 .. Count(zone)
        /\ Current = Ext(zone, position)
    BY <2>1, CurrentFacts
  <2>4. ASSUME ShowsBefore
        PROVE  WrapsOnOverlap(HoleBefore)
    <3>1. PICK a, b : a = GapStart(zone, position - 1) /\ b = Current.phy_blk
      OBVIOUS
    <3>2. /\ a \in 0 .. NrZones * ZoneSize /\ b \in 0 .. NrZones * ZoneSize
          /\ position = 1 => a <= b
      BY <2>1, <3>1, NewHoleBounds
    <3>3. HoleBefore = Hole(a, b)
      BY <3>1 DEF HoleBefore
    <3>4. /\ HoleBefore.from = a /\ HoleBefore.to = b
          /\ a <= b => HoleBefore.size = b - a
      BY <3>2, <3>3, SizeOfHole
    <3>5. ASSUME HoleBefore.size # HoleBefore.to - HoleBefore.from
          PROVE  /\ position - 1 \in 1 .. Count(zone) /\ position - 1 < position
                 /\ Pbae(Ext(zone, position - 1)) = HoleBefore.from
                 /\ Ext(zone, position).phy_blk = HoleBefore.to
                 /\ HoleBefore.to < HoleBefore.from
      <4>1. ~(a <= b)
        BY <3>4, <3>5
      <4>2. b < a
        BY <3>2, <4>1, GeometryAssumption
      <4>3. position # 1
        BY <3>2, <4>1
      <4>4. position - 1 \in 1 .. Count(zone) /\ position - 1 < position /\ position - 1 # 0
        <5>1. Count(zone) \in Nat
          BY <2>3, ListFacts DEF WalkOK
        <5>2. QED
          BY <2>3, <4>3, <5>1
      <4>5. Pbae(Ext(zone, position - 1)) = a
        BY <3>1, <4>4 DEF GapStart
      <4>6. QED
        BY <2>3, <3>1, <3>4, <4>2, <4>4, <4>5
    <3>6. QED
      BY <2>3, <3>5 DEF WrapsOnOverlap, Ext, Count
  <2>5. ASSUME ShowsBehind
        PROVE  WrapsOnOverlap(HoleBehind)
    <3>1. PICK a, b : /\ a = Pbae(Current)
                      /\ b = Min({Current.zone_wp, ZoneLbae(zone)})
      OBVIOUS
    <3>2. a \in 0 .. NrZones * ZoneSize /\ b \in 0 .. NrZones * ZoneSize /\ a < b
      BY <2>1, <2>5, <3>1, NewHoleBounds
    <3>3. a <= b
      BY <3>2, GeometryAssumption
    <3>4. HoleBehind = Hole(a, b)
      BY <3>1 DEF HoleBehind
    <3>5. HoleBehind.size = HoleBehind.to - HoleBehind.from
      BY <3>2, <3>3, <3>4, SizeOfHole
    <3>6. QED
      BY <3>5 DEF WrapsOnOverlap
  <2>6. \A h \in Range(holes') : WrapsOnOverlap(h)
    BY <2>2, <2>4, <2>5 DEF WrapsInv, NewHoles
  <2>7. QED
    BY <1>1, <2>6 DEF WrapsInv
<1>3. CASE NextZone \/ Finished \/ UNCHANGED vars
  <2>1. UNCHANGED holes
    BY <1>3 DEF NextZone, Finished, vars
  <2>2. QED
    BY <1>1, <2>1 DEF WrapsInv
<1>4. QED
  BY <1>2, <1>3 DEF Next

-----------------------------------------------------------------------------
(* Orderly files: the walk comes to one gap after the other.               *)

LEMMA FrontierStep ==
  ASSUME WalkOK, Orderly, ShowExtent
  PROVE  /\ Frontier = GapStart(zone, position - 1)
         /\ GapEnd(zone, position - 1) = Current.phy_blk
         /\ GapStart(zone, position) = Pbae(Current)
         /\ Frontier' = (IF position = Count(zone) THEN ZoneLbae(zone) ELSE Pbae(Current))
         /\ Frontier \in Nat /\ Current.phy_blk \in Nat /\ Pbae(Current) \in Nat
         /\ Frontier' \in Nat
         /\ ZoneLbas(zone) <= Frontier
         /\ Frontier <= Current.phy_blk
         /\ Current.phy_blk < Pbae(Current)
         /\ Pbae(Current) <= Frontier'
         /\ Frontier' <= ZoneLbae(zone)
<1>1. /\ zone < NrZones /\ position <= Len(List)
      /\ zone' = zone /\ position' = position + 1 /\ UNCHANGED zones
  BY DEF ShowExtent
<1>2. /\ zone \in Zones /\ position \in 1 .. Count(zone)
      /\ position - 1 \in 0 .. Count(zone) /\ position - 1 # Count(zone)
      /\ Current = Ext(zone, position)
      /\ position - 1 + 1 = position
  BY <1>1, CurrentFacts
<1>3. /\ Count(zone) \in Nat /\ ZoneLbae(zone) \in Nat /\ zones \in ZoneMaps
      /\ ~(position > Count(zone)) /\ position # 0
  BY <1>2, ListFacts, ZoneBounds DEF WalkOK
<1>4. Frontier = GapStart(zone, position - 1)
  <2>1. CASE position = 1
    BY <2>1 DEF Frontier, GapStart
  <2>2. CASE position # 1
    <3>1. position - 1 # 0
      BY <1>2, <2>2
    <3>2. QED
      BY <1>3, <2>2, <3>1 DEF Frontier, GapStart
  <2>3. QED
    BY <2>1, <2>2
<1>5. GapEnd(zone, position - 1) = Current.phy_blk
  BY <1>2 DEF GapEnd
<1>6. GapStart(zone, position) = Pbae(Current)
  BY <1>2, <1>3 DEF GapStart
<1>7. Frontier' = (IF position = Count(zone) THEN ZoneLbae(zone) ELSE Pbae(Current))
  <2>1. position' # 1 /\ position' - 1 = position
    BY <1>1, <1>2
  <2>2. position' > Count(zone) <=> position = Count(zone)
    BY <1>1, <1>2, <1>3
  <2>3. Count(zone)' = Count(zone) /\ Ext(zone, position - 1)' = Current
    BY <1>1, <1>2, <2>1 DEF Count, Ext
  <2>4. ZoneLbae(zone)' = ZoneLbae(zone) /\ Pbae(Ext(zone, position - 1))' = Pbae(Current)
    BY <1>1, <2>3 DEF ZoneLbae, ZoneLbas, Pbae
  <2>5. QED
    BY <2>1, <2>2, <2>3, <2>4 DEF Frontier
<1>8. /\ GapStart(zone, position - 1) \in Nat
      /\ ZoneLbas(zone) <= GapStart(zone, position - 1)
      /\ GapStart(zone, position - 1) <= Current.phy_blk
      /\ Current.phy_blk \in Nat
  BY <1>2, <1>3, <1>5, GapFacts
<1>9. /\ Pbae(Current) \in Nat
      /\ Current.phy_blk < Pbae(Current) /\ Pbae(Current) <= ZoneLbae(zone)
  <2>1. Pbae(Current) \in Nat
    BY <1>2, <1>3, ListFacts, ExtentFacts
  <2>2. QED
    BY <1>2, <1>3, <2>1, OrderlyFacts
<1>10. Frontier' \in Nat /\ Pbae(Current) <= Frontier' /\ Frontier' <= ZoneLbae(zone)
  BY <1>3, <1>7, <1>9
<1>11. QED
  BY <1>4, <1>5, <1>6, <1>7, <1>8, <1>9, <1>10

(* The new holes: one up to the extent, one behind the last.               *)
LEMMA NewHoleBefore ==
  ASSUME WalkOK, Orderly, ShowExtent, ShowsBefore
  PROVE  /\ InGap(HoleBefore)
         /\ HoleBefore.from = Frontier
         /\ HoleBefore.to = Current.phy_blk
         /\ HoleBefore.size = Current.phy_blk - Frontier
<1>1. zone < NrZones /\ position <= Len(List)
  BY DEF ShowExtent
<1>2. zone \in Zones /\ position - 1 \in 0 .. Count(zone)
  BY <1>1, CurrentFacts
<1>3. PICK a, b : a = Frontier /\ b = Current.phy_blk
  OBVIOUS
<1>4. /\ a = GapStart(zone, position - 1) /\ b = GapEnd(zone, position - 1)
      /\ a \in Nat /\ b \in Nat /\ a <= b
  BY <1>3, FrontierStep
<1>5. a < b
  BY <1>3, <1>4 DEF ShowsBefore
<1>6. HoleBefore = Hole(a, b)
  BY <1>3, <1>4 DEF HoleBefore
<1>7. a \in 0 .. NrZones * ZoneSize /\ b \in 0 .. NrZones * ZoneSize
  BY <1>1, <1>3, <1>4, NewHoleBounds
<1>8. HoleBefore.from = a /\ HoleBefore.to = b /\ HoleBefore.size = b - a
  BY <1>4, <1>6, <1>7, SizeOfHole
<1>9. HoleBefore.to <= GapEnd(zone, position - 1)
  BY <1>4, <1>8
<1>10. InGap(HoleBefore)
  BY <1>2, <1>4, <1>5, <1>8, <1>9 DEF InGap
<1>11. QED
  BY <1>3, <1>8, <1>10

LEMMA NewHoleBehind ==
  ASSUME WalkOK, Orderly, ShowExtent, ShowsBehind
  PROVE  /\ InGap(HoleBehind)
         /\ HoleBehind.from = Pbae(Current)
         /\ HoleBehind.to = Min({Current.zone_wp, ZoneLbae(zone)})
         /\ HoleBehind.to \in Nat
         /\ HoleBehind.to <= Frontier'
         /\ HoleBehind.size = HoleBehind.to - HoleBehind.from
<1>1. zone < NrZones /\ position <= Len(List)
  BY DEF ShowExtent
<1>2. zone \in Zones /\ position \in 0 .. Count(zone) /\ position = Count(zone)
  <2>1. zone \in Zones /\ position \in 1 .. Count(zone)
    BY <1>1, CurrentFacts
  <2>2. Count(zone) \in Nat
    BY <2>1, ListFacts DEF WalkOK
  <2>3. QED
    BY <2>1, <2>2 DEF ShowsBehind
<1>3. PICK a, b : a = Pbae(Current) /\ b = Min({Current.zone_wp, ZoneLbae(zone)})
  OBVIOUS
<1>4. /\ a \in 0 .. NrZones * ZoneSize /\ b \in 0 .. NrZones * ZoneSize
      /\ a < b /\ b <= ZoneLbae(zone)
  BY <1>1, <1>3, NewHoleBounds
<1>5. a \in Nat /\ b \in Nat /\ a <= b
  BY <1>4, GeometryAssumption
<1>6. HoleBehind = Hole(a, b)
  BY <1>3 DEF HoleBehind
<1>7. HoleBehind.from = a /\ HoleBehind.to = b /\ HoleBehind.size = b - a
  BY <1>4, <1>5, <1>6, SizeOfHole
<1>8. a = GapStart(zone, position) /\ Frontier' = ZoneLbae(zone)
  BY <1>2, <1>3, FrontierStep
<1>9. GapEnd(zone, position) = ZoneLbae(zone)
  BY <1>2 DEF GapEnd
<1>10. InGap(HoleBehind)
  BY <1>2, <1>4, <1>7, <1>8, <1>9 DEF InGap
<1>11. QED
  BY <1>3, <1>4, <1>5, <1>7, <1>8, <1>10

LEMMA FrontierNext ==
  ASSUME WalkOK, Orderly, NextZone
  PROVE  Frontier \in Nat /\ Frontier' \in Nat /\ Frontier <= Frontier'
<1>1. /\ zone \in Zones /\ Count(zone) \in Nat /\ position = Count(zone) + 1
      /\ zone' = zone + 1 /\ position' = 1
  BY EndOfList DEF NextZone
<1>2. Frontier' = ZoneLbas(zone + 1)
  BY <1>1 DEF Frontier, ZoneLbas
<1>3. /\ ZoneLbas(zone) \in Nat /\ ZoneLbae(zone) \in Nat
      /\ ZoneLbas(zone) < ZoneLbae(zone) /\ ZoneLbae(zone) <= ZoneLbas(zone) + ZoneSize
      /\ ZoneLbas(zone) + ZoneSize = ZoneLbas(zone + 1)
      /\ ZoneSize \in Nat
  BY <1>1, ZoneBounds, GeometryAssumption
<1>4. Frontier \in {ZoneLbas(zone), ZoneLbae(zone)}
  <2>1. position > Count(zone)
    BY <1>1
  <2>2. QED
    BY <2>1 DEF Frontier
<1>5. QED
  BY <1>2, <1>3, <1>4

LEMMA StepPlaced ==
  ASSUME WalkOK, ShownOK, SumsOK, Orderly, HolesPlaced, [Next]_vars
  PROVE  HolesPlaced'
<1>1. \A h : InGap(h)' <=> InGap(h)
  BY StepWalk, SameZones
<1>2. \A h \in Range(holes) : h.to \in Nat
  <2>1. Range(holes) \subseteq HoleType
    BY DEF SumsOK, Range
  <2>2. QED
    BY <2>1, GeometryAssumption DEF HoleType
<1>3. CASE ShowExtent
  <2>1. Range(holes') = Range(holes) \cup NewHoles
    BY <1>3, ShowStep
  <2>2. /\ Frontier \in Nat /\ Frontier' \in Nat /\ Frontier <= Frontier'
        /\ Current.phy_blk <= Frontier'
    <3>1. PICK a, b, c, d : /\ a = Frontier /\ b = Current.phy_blk /\ c = Pbae(Current)
                            /\ d = Frontier'
      OBVIOUS
    <3>2. a \in Nat /\ b \in Nat /\ c \in Nat /\ d \in Nat /\ a <= b /\ b < c /\ c <= d
      BY <1>3, <3>1, FrontierStep
    <3>3. a <= d /\ b <= d
      BY <3>2
    <3>4. QED
      BY <3>1, <3>2, <3>3
  <2>3. ASSUME NEW h \in Range(holes)
        PROVE  InGap(h) /\ h.to <= Frontier'
    <3>1. InGap(h) /\ h.to <= Frontier /\ h.to \in Nat
      BY <1>2 DEF HolesPlaced
    <3>2. QED
      BY <2>2, <3>1
  <2>4. ShowsBefore => InGap(HoleBefore) /\ HoleBefore.to <= Frontier'
    BY <1>3, <2>2, NewHoleBefore
  <2>5. ShowsBehind => InGap(HoleBehind) /\ HoleBehind.to <= Frontier'
    BY <1>3, NewHoleBehind
  <2>6. \A h \in Range(holes') : InGap(h) /\ h.to <= Frontier'
    BY <2>1, <2>3, <2>4, <2>5 DEF NewHoles
  <2>7. QED
    BY <1>1, <2>6 DEF HolesPlaced
<1>4. CASE NextZone
  <2>1. UNCHANGED holes
    BY <1>4 DEF NextZone
  <2>2. Frontier \in Nat /\ Frontier' \in Nat /\ Frontier <= Frontier'
    BY <1>4, FrontierNext
  <2>3. \A h \in Range(holes) : InGap(h) /\ h.to <= Frontier'
    BY <1>2, <2>2 DEF HolesPlaced
  <2>4. QED
    BY <1>1, <2>1, <2>3 DEF HolesPlaced
<1>5. CASE Finished \/ UNCHANGED vars
  <2>1. UNCHANGED <<zones, zone, position, holes>>
    BY <1>5 DEF Finished, vars
  <2>2. Frontier' = Frontier
    BY <2>1 DEF Frontier, Count, Ext
  <2>3. QED
    BY <1>1, <2>1, <2>2 DEF HolesPlaced
<1>6. QED
  BY <1>3, <1>4, <1>5 DEF Next

-----------------------------------------------------------------------------
(* The sum of the sizes is the number of the blocks.                       *)

BlocksOf(h) == h.from .. h.to - 1

Below(S, limit) == \A x \in S : x \in Nat /\ x < limit

LEMMA Grow ==
  ASSUME NEW S, IsFiniteSet(S), NEW a \in Nat, NEW b \in Nat, a <= b, Below(S, a)
  PROVE  /\ IsFiniteSet(S \cup a .. b - 1)
         /\ Cardinality(S \cup a .. b - 1) = Cardinality(S) + (b - a)
         /\ Below(S \cup a .. b - 1, b)
<1>1. IsFiniteSet(a .. b - 1) /\ Cardinality(a .. b - 1) = b - a
  <2>1. a \in Int /\ b - 1 \in Int
    OBVIOUS
  <2>2. /\ IsFiniteSet(a .. b - 1)
        /\ Cardinality(a .. b - 1) = IF a > b - 1 THEN 0 ELSE (b - 1) - a + 1
    BY <2>1, FS_Interval
  <2>3. QED
    BY <2>2
<1>2. S \cap a .. b - 1 = {}
  BY DEF Below
<1>3. /\ IsFiniteSet(S \cup a .. b - 1)
      /\ Cardinality(S \cup a .. b - 1)
           = Cardinality(S) + Cardinality(a .. b - 1) - Cardinality(S \cap a .. b - 1)
  BY <1>1, FS_Union
<1>4. Cardinality(S \cap a .. b - 1) = 0
  BY <1>2, FS_EmptySet
<1>5. Cardinality(S) \in Nat
  BY FS_CardinalityType
<1>6. Cardinality(S \cup a .. b - 1) = Cardinality(S) + (b - a)
  BY <1>1, <1>3, <1>4, <1>5
<1>7. Below(S \cup a .. b - 1, b)
  BY DEF Below
<1>8. QED
  BY <1>3, <1>6, <1>7

(* The blocks of a hole, or none.                                          *)
Span(low, size, blocks, p, q) ==
  /\ low <= p /\ p <= q
  /\ blocks = p .. q - 1
  /\ size = q - p

LEMMA SpanOfHole ==
  ASSUME NEW low \in Nat, NEW h,
         h.from \in Nat, h.to \in Nat, h.from <= h.to, low <= h.from,
         h.size = h.to - h.from
  PROVE  \E p, q \in Nat : Span(low, h.size, BlocksOf(h), p, q) /\ q = h.to
<1>1. PICK p \in Nat, q \in Nat :
        p = h.from /\ q = h.to /\ low <= p /\ p <= q /\ h.size = q - p
  OBVIOUS
<1>2. BlocksOf(h) = p .. q - 1
  BY <1>1 DEF BlocksOf
<1>3. QED
  BY <1>1, <1>2 DEF Span

LEMMA SpanOfNone ==
  ASSUME NEW low \in Nat
  PROVE  \E p, q \in Nat : Span(low, 0, {}, p, q) /\ q = low
<1>1. low <= low /\ low .. low - 1 = {} /\ low - low = 0
  OBVIOUS
<1>2. QED
  BY <1>1 DEF Span

LEMMA NewBlocks ==
  ASSUME WalkOK, ShownOK, SumsOK, ShowExtent
  PROVE  HoleBlocks' = (HoleBlocks \cup (IF ShowsBefore THEN BlocksOf(HoleBefore) ELSE {}))
                         \cup (IF ShowsBehind THEN BlocksOf(HoleBehind) ELSE {})
<1>1. Range(holes') = Range(holes) \cup NewHoles
  BY ShowStep
<1>2. HoleBlocks' = UNION {BlocksOf(h) : h \in Range(holes')}
  BY DEF HoleBlocks, BlocksOf
<1>3. HoleBlocks = UNION {BlocksOf(h) : h \in Range(holes)}
  BY DEF HoleBlocks, BlocksOf
<1>4. HoleBlocks' = HoleBlocks \cup UNION {BlocksOf(h) : h \in NewHoles}
  BY <1>1, <1>2, <1>3
<1>5. UNION {BlocksOf(h) : h \in NewHoles}
        = (IF ShowsBefore THEN BlocksOf(HoleBefore) ELSE {})
            \cup (IF ShowsBehind THEN BlocksOf(HoleBehind) ELSE {})
  BY DEF NewHoles
<1>6. QED
  BY <1>4, <1>5

LEMMA HoleBlockPlaced ==
  ASSUME WalkOK, Orderly, HolesPlaced, SumsOK, NEW b \in HoleBlocks
  PROVE  /\ b \in Nat
         /\ \E h \in Range(holes) : b < h.to
         /\ \E z \in Zones : \E p \in 0 .. Count(z) : GapStart(z, p) <= b /\ b < GapEnd(z, p)
<1>1. PICK h \in Range(holes) : b \in h.from .. h.to - 1
  BY DEF HoleBlocks
<1>2. PICK z \in Zones : \E p \in 0 .. Count(z) :
        h.from = GapStart(z, p) /\ h.to <= GapEnd(z, p)
  BY DEF HolesPlaced, InGap
<1>3. PICK p \in 0 .. Count(z) : h.from = GapStart(z, p) /\ h.to <= GapEnd(z, p)
  BY <1>2
<1>4. GapStart(z, p) \in Nat /\ GapEnd(z, p) \in Nat
  BY GapFacts DEF WalkOK
<1>5. h.to \in Nat
  <2>1. Range(holes) \subseteq HoleType
    BY DEF SumsOK, Range
  <2>2. QED
    BY <2>1, GeometryAssumption DEF HoleType
<1>6. b \in Nat /\ b < h.to /\ GapStart(z, p) <= b /\ b < GapEnd(z, p)
  BY <1>1, <1>3, <1>4, <1>5
<1>7. QED
  BY <1>6

LEMMA HoleBlocksBefore ==
  ASSUME WalkOK, Orderly, HolesPlaced, SumsOK, Frontier \in Nat
  PROVE  \A b \in HoleBlocks : b \in Nat /\ b < Frontier
<1> SUFFICES ASSUME NEW b \in HoleBlocks
             PROVE  b \in Nat /\ b < Frontier
  OBVIOUS
<1>1. PICK h \in Range(holes) : b < h.to
  BY HoleBlockPlaced
<1>2. b \in Nat
  BY HoleBlockPlaced
<1>3. h.to <= Frontier
  BY DEF HolesPlaced
<1>4. h.to \in Nat
  <2>1. Range(holes) \subseteq HoleType
    BY DEF SumsOK, Range
  <2>2. QED
    BY <2>1, GeometryAssumption DEF HoleType
<1>5. QED
  BY <1>1, <1>2, <1>3, <1>4

LEMMA StepSumIsBlocks ==
  ASSUME WalkOK, ShownOK, SumsOK, Orderly, HolesPlaced, SumIsBlocks, [Next]_vars
  PROVE  SumIsBlocks'
<1>1. CASE ShowExtent
  <2>1. PICK a \in Nat, b \in Nat, c \in Nat, d \in Nat :
          /\ a = Frontier /\ b = Current.phy_blk /\ c = Pbae(Current) /\ d = Frontier'
          /\ a <= b /\ b < c /\ c <= d /\ d <= ZoneLbae(zone)
    BY <1>1, FrontierStep
  <2>2. IsFiniteSet(HoleBlocks)
    BY DEF SumIsBlocks
  <2>3. ShowsBefore => /\ HoleBefore.from = a /\ HoleBefore.to = b
                       /\ HoleBefore.size = b - a
    BY <1>1, <2>1, NewHoleBefore
  <2>4. ShowsBehind => /\ HoleBehind.from = c /\ HoleBehind.to \in Nat
                       /\ HoleBehind.to <= d /\ HoleBehind.from < HoleBehind.to
                       /\ HoleBehind.size = HoleBehind.to - c
    BY <1>1, <2>1, NewHoleBehind DEF InGap
  <2>5. Below(HoleBlocks, a)
    BY <2>1, HoleBlocksBefore DEF Below
  <2>6. PICK S : S = HoleBlocks \cup (IF ShowsBefore THEN BlocksOf(HoleBefore) ELSE {})
    OBVIOUS
  <2>7. PICK x : x = IF ShowsBefore THEN HoleBefore.size ELSE 0
    OBVIOUS
  <2>8. PICK y : y = IF ShowsBehind THEN HoleBehind.size ELSE 0
    OBVIOUS
  <2>9. x \in Nat /\ y \in Nat
    BY <2>1, <2>3, <2>4, <2>7, <2>8
  <2>10. /\ IsFiniteSet(S) /\ Cardinality(S) = Cardinality(HoleBlocks) + x
         /\ Below(S, c)
    <3>1. ShowsBefore => /\ HoleBefore.from \in Nat /\ HoleBefore.to \in Nat
                         /\ HoleBefore.from <= HoleBefore.to /\ a <= HoleBefore.from
                         /\ HoleBefore.size = HoleBefore.to - HoleBefore.from
      BY <2>1, <2>3
    <3>2. PICK p \in Nat, q \in Nat :
            /\ a <= p /\ p <= q
            /\ (IF ShowsBefore THEN BlocksOf(HoleBefore) ELSE {}) = p .. q - 1
            /\ (IF ShowsBefore THEN HoleBefore.size ELSE 0) = q - p
            /\ (ShowsBefore => q = HoleBefore.to) /\ (~ShowsBefore => q = a)
      <4>1. CASE ShowsBefore
        <5>1. \E p, q \in Nat :
                /\ Span(a, HoleBefore.size, BlocksOf(HoleBefore), p, q)
                /\ q = HoleBefore.to
          BY <2>1, <3>1, <4>1, SpanOfHole
        <5>2. QED
          BY <4>1, <5>1 DEF Span
      <4>2. CASE ~ShowsBefore
        <5>1. \E p, q \in Nat : Span(a, 0, {}, p, q) /\ q = a
          BY <2>1, SpanOfNone
        <5>2. QED
          BY <4>2, <5>1 DEF Span
      <4>3. QED
        BY <4>1, <4>2
    <3>3. S = HoleBlocks \cup p .. q - 1 /\ x = q - p /\ q <= b
      BY <2>1, <2>3, <2>6, <2>7, <3>2
    <3>4. /\ p \in Nat /\ q \in Nat /\ p <= q
          /\ Below(HoleBlocks, p)
      BY <2>1, <2>5, <3>2 DEF Below
    <3>5. /\ IsFiniteSet(HoleBlocks \cup p .. q - 1)
          /\ Cardinality(HoleBlocks \cup p .. q - 1) = Cardinality(HoleBlocks) + (q - p)
          /\ Below(HoleBlocks \cup p .. q - 1, q)
      BY <2>2, <3>4, Grow
    <3>6. Below(S, c)
      BY <2>1, <3>2, <3>3, <3>5 DEF Below
    <3>7. QED
      BY <3>3, <3>5, <3>6
  <2>11. /\ IsFiniteSet(HoleBlocks') /\ Cardinality(HoleBlocks') = Cardinality(S) + y
         /\ Below(HoleBlocks', d)
    <3>1. ShowsBehind => /\ HoleBehind.from \in Nat /\ HoleBehind.to \in Nat
                         /\ HoleBehind.from <= HoleBehind.to /\ c <= HoleBehind.from
                         /\ HoleBehind.size = HoleBehind.to - HoleBehind.from
      BY <2>1, <2>4
    <3>2. PICK p \in Nat, q \in Nat :
            /\ c <= p /\ p <= q
            /\ (IF ShowsBehind THEN BlocksOf(HoleBehind) ELSE {}) = p .. q - 1
            /\ (IF ShowsBehind THEN HoleBehind.size ELSE 0) = q - p
            /\ (ShowsBehind => q = HoleBehind.to) /\ (~ShowsBehind => q = c)
      <4>1. CASE ShowsBehind
        <5>1. \E p, q \in Nat :
                /\ Span(c, HoleBehind.size, BlocksOf(HoleBehind), p, q)
                /\ q = HoleBehind.to
          BY <2>1, <3>1, <4>1, SpanOfHole
        <5>2. QED
          BY <4>1, <5>1 DEF Span
      <4>2. CASE ~ShowsBehind
        <5>1. \E p, q \in Nat : Span(c, 0, {}, p, q) /\ q = c
          BY <2>1, SpanOfNone
        <5>2. QED
          BY <4>2, <5>1 DEF Span
      <4>3. QED
        BY <4>1, <4>2
    <3>3. HoleBlocks' = S \cup (IF ShowsBehind THEN BlocksOf(HoleBehind) ELSE {})
      BY <1>1, <2>6, NewBlocks
    <3>4. HoleBlocks' = S \cup p .. q - 1 /\ y = q - p /\ q <= d
      BY <2>1, <2>4, <2>8, <3>2, <3>3
    <3>5. /\ p \in Nat /\ q \in Nat /\ p <= q
          /\ Below(S, p)
      BY <2>1, <2>10, <3>2 DEF Below
    <3>6. IsFiniteSet(S)
      BY <2>10
    <3>7. /\ IsFiniteSet(S \cup p .. q - 1)
          /\ Cardinality(S \cup p .. q - 1) = Cardinality(S) + (q - p)
          /\ Below(S \cup p .. q - 1, q)
      BY <3>5, <3>6, Grow
    <3>8. Below(HoleBlocks', d)
      BY <2>1, <3>2, <3>4, <3>7 DEF Below
    <3>9. QED
      BY <3>4, <3>7, <3>8
  <2>12. Cardinality(HoleBlocks') \in Nat /\ Cardinality(HoleBlocks') < Word64
    <3>1. PICK size \in Nat : size = NrZones * ZoneSize /\ size < Word64 /\ Word64 \in Nat
      BY GeometryAssumption, ReportAssumption
    <3>2. d <= size
      <4>1. zone \in Zones
        <5>1. zone < NrZones /\ position <= Len(List)
          BY <1>1 DEF ShowExtent
        <5>2. QED
          BY <5>1, CurrentFacts
      <4>2. ZoneLbas(zone + 1) \in Nat
        BY <4>1, GeometryAssumption DEF ZoneLbas, Zones
      <4>3. /\ ZoneLbae(zone) \in Nat /\ ZoneLbas(zone) \in Nat
            /\ ZoneLbae(zone) <= ZoneLbas(zone + 1) /\ ZoneLbas(zone + 1) <= size
        BY <3>1, <4>1, ZoneBounds
      <4>4. QED
        BY <2>1, <4>2, <4>3
    <3>3. HoleBlocks' \subseteq 0 .. size - 1
      BY <2>1, <2>11, <3>1, <3>2 DEF Below
    <3>4. IsFiniteSet(0 .. size - 1) /\ Cardinality(0 .. size - 1) = size
      <4>1. 0 \in Int /\ size - 1 \in Int
        OBVIOUS
      <4>2. /\ IsFiniteSet(0 .. size - 1)
            /\ Cardinality(0 .. size - 1) = IF 0 > size - 1 THEN 0 ELSE (size - 1) - 0 + 1
        BY <4>1, FS_Interval
      <4>3. QED
        BY <4>2
    <3>5. Cardinality(HoleBlocks') <= size
      BY <3>3, <3>4, FS_Subset
    <3>6. Cardinality(HoleBlocks') \in Nat
      BY <2>11, FS_CardinalityType
    <3>7. QED
      BY <3>1, <3>5, <3>6
  <2>13. hole_cum_size' = (hole_cum_size + x + y) % Word64
    BY <1>1, <2>7, <2>8, ShowStep
  <2>14. PICK sum \in Nat : sum = hole_cum_size /\ sum = Cardinality(HoleBlocks)
    BY FS_CardinalityType DEF SumIsBlocks
  <2>15. sum + x + y = Cardinality(HoleBlocks')
    BY <2>9, <2>10, <2>11, <2>14
  <2>16. Word64 \in Nat
    BY ReportAssumption
  <2>17. Cardinality(HoleBlocks') % Word64 = Cardinality(HoleBlocks')
    BY <2>12, <2>16
  <2>18. hole_cum_size' = Cardinality(HoleBlocks')
    BY <2>13, <2>14, <2>15, <2>17
  <2>19. Cardinality(HoleBlocks)' = Cardinality(HoleBlocks')
    OBVIOUS
  <2>20. QED
    BY <2>11, <2>18 DEF SumIsBlocks
<1>2. CASE NextZone \/ Finished \/ UNCHANGED vars
  BY <1>2 DEF NextZone, Finished, vars, SumIsBlocks, HoleBlocks
<1>3. QED
  BY <1>1, <1>2 DEF Next

-----------------------------------------------------------------------------
(* What the walk has passed it has shown.                                  *)

(* Between the last extent shown and the end of the hole behind this one.  *)
LEMMA ReachedBlocks ==
  ASSUME WalkOK, ShownOK, SumsOK, Orderly, ShowExtent, show_holes,
         NEW b \in Nat, Frontier <= b,
         position > 1 \/ Current.phy_blk <= b,
         b < (IF \/ position < Count(zone)
                 \/ Min({Current.zone_wp, ZoneLbae(zone)}) <= Pbae(Current)
              THEN Pbae(Current)
              ELSE Min({Current.zone_wp, ZoneLbae(zone)}))
  PROVE  b \in Occupied \cup HoleBlocks'
<1>1. /\ zone \in Zones /\ position \in 1 .. Count(zone)
      /\ Current = Ext(zone, position) /\ Current \in Listed(zone)
      /\ zones \in ZoneMaps /\ Count(zone) \in Nat
  <2>1. zone < NrZones /\ position <= Len(List)
    BY DEF ShowExtent
  <2>2. /\ zone \in Zones /\ position \in 1 .. Count(zone)
        /\ Current = Ext(zone, position) /\ Current \in Listed(zone)
    BY <2>1, CurrentFacts
  <2>3. QED
    BY <2>2, ListFacts DEF WalkOK
<1>2. PICK from \in Nat, phy \in Nat, end \in Nat :
        /\ from = Frontier /\ phy = Current.phy_blk /\ end = Pbae(Current)
        /\ from = GapStart(zone, position - 1)
        /\ from <= phy /\ phy < end
  BY FrontierStep
<1>3. PICK wp \in Nat, lbae \in Nat :
        wp = Current.zone_wp /\ lbae = ZoneLbae(zone)
  BY <1>1, ExtentFacts, ZoneBounds
<1>4. PICK top \in Nat : /\ top = Min({wp, lbae})
                         /\ top <= wp /\ top <= lbae
  <2>1. (IF wp < lbae THEN wp ELSE lbae) \in Nat
    OBVIOUS
  <2>2. PICK m \in Nat : m = IF wp < lbae THEN wp ELSE lbae
    BY <2>1
  <2>3. m <= wp /\ m <= lbae
    BY <2>2
  <2>4. QED
    BY <2>2, <2>3, MinOfTwo
<1>5. ShowsBefore => BlocksOf(HoleBefore) \subseteq HoleBlocks'
  BY NewBlocks
<1>6. ShowsBehind => BlocksOf(HoleBehind) \subseteq HoleBlocks'
  BY NewBlocks
<1>7. CASE b < phy
  <2>1. position > 1 /\ from # phy
    BY <1>2, <1>7
  <2>2. ShowsBefore
    <3>1. ~(position = 1)
      BY <1>1, <2>1
    <3>2. QED
      BY <1>2, <2>1, <3>1 DEF ShowsBefore
  <2>3. HoleBefore.from = from /\ HoleBefore.to = phy
    BY <1>2, <2>2, NewHoleBefore
  <2>4. b \in BlocksOf(HoleBefore)
    BY <1>2, <1>7, <2>3 DEF BlocksOf
  <2>5. QED
    BY <1>5, <2>2, <2>4
<1>8. CASE phy <= b /\ b < end
  <2>1. Ext(zone, position).phy_blk <= b /\ b < Pbae(Ext(zone, position))
    BY <1>1, <1>2, <1>8
  <2>2. QED
    BY <1>1, <2>1, BlockOccupied
<1>9. CASE end <= b
  <2>1. ~(position < Count(zone)) /\ b < top
    <3>1. position < Count(zone) => b < end
      BY <1>2
    <3>2. ~(position < Count(zone))
      BY <1>2, <1>9, <3>1
    <3>3. b < (IF top <= end THEN end ELSE top)
      BY <1>2, <1>3, <1>4, <3>2
    <3>4. b < top
      BY <1>2, <1>4, <1>9, <3>3
    <3>5. QED
      BY <3>2, <3>4
  <2>2. position = Count(zone)
    BY <1>1, <2>1
  <2>3. end # lbae /\ wp > end
    BY <1>4, <1>9, <2>1, <1>2, <1>3
  <2>4. ShowsBehind
    BY <1>2, <1>3, <2>2, <2>3 DEF ShowsBehind
  <2>5. HoleBehind.from = end /\ HoleBehind.to = top
    BY <1>2, <1>3, <1>4, <2>4, NewHoleBehind
  <2>6. b \in BlocksOf(HoleBehind)
    BY <1>2, <1>4, <1>9, <2>1, <2>5 DEF BlocksOf
  <2>7. QED
    BY <1>6, <2>4, <2>6
<1>10. QED
  BY <1>2, <1>7, <1>8, <1>9

LEMMA TiledToStep ==
  ASSUME UNCHANGED zones, HoleBlocks \subseteq HoleBlocks',
         NEW z, NEW p, TiledTo(z, p)
  PROVE  TiledTo(z, p)'
<1>1. /\ Count(z)' = Count(z) /\ Ext(z, 1)' = Ext(z, 1) /\ Ext(z, p)' = Ext(z, p)
      /\ Occupied' = Occupied
  BY SameZones
<1>2. Pbae(Ext(z, p))' = Pbae(Ext(z, p)) /\ ZoneLbae(z)' = ZoneLbae(z)
  BY <1>1 DEF Pbae, ZoneLbae, ZoneLbas
<1>3. QED
  BY <1>1, <1>2 DEF TiledTo

LEMMA TiledHere ==
  ASSUME WalkOK, ShownOK, SumsOK, Orderly, ShowExtent, show_holes,
         position > 1 => TiledTo(zone, position - 1),
         HoleBlocks \subseteq HoleBlocks',
         NEW z, z = zone, NEW p, p = position
  PROVE  TiledTo(z, p)'
<1>1. /\ zone \in Zones /\ position \in 1 .. Count(zone)
      /\ position - 1 \in 0 .. Count(zone) /\ position - 1 # Count(zone)
      /\ Current = Ext(zone, position)
      /\ Count(zone) \in Nat /\ 1 \in 1 .. Count(zone)
  <2>1. zone < NrZones /\ position <= Len(List)
    BY DEF ShowExtent
  <2>2. /\ zone \in Zones /\ position \in 1 .. Count(zone)
        /\ position - 1 \in 0 .. Count(zone) /\ position - 1 # Count(zone)
        /\ Current = Ext(zone, position)
    BY <2>1, CurrentFacts
  <2>3. Count(zone) \in Nat
    BY <2>2, ListFacts DEF WalkOK
  <2>4. 1 \in 1 .. Count(zone)
    BY <2>2, <2>3
  <2>5. QED
    BY <2>2, <2>3, <2>4
<1>2. PICK to : to = (IF \/ position < Count(zone)
                         \/ Min({Current.zone_wp, ZoneLbae(zone)}) <= Pbae(Current)
                      THEN Pbae(Current)
                      ELSE Min({Current.zone_wp, ZoneLbae(zone)}))
  OBVIOUS
<1>3. to \in Nat
  <2>1. /\ Pbae(Current) \in Nat /\ Current.zone_wp \in Nat /\ ZoneLbae(zone) \in Nat
    BY <1>1, ListFacts, ExtentFacts, ZoneBounds DEF WalkOK
  <2>2. Min({Current.zone_wp, ZoneLbae(zone)}) \in Nat
    BY <2>1, MinOfTwo
  <2>3. QED
    BY <1>2, <2>1, <2>2
<1>4. PICK first \in Nat : first = Ext(zone, 1).phy_blk
  BY <1>1, ListFacts, ExtentFacts DEF WalkOK
<1>5. PICK from \in Nat : from = Frontier
  BY FrontierStep
<1>6. ASSUME NEW b \in first .. to - 1
      PROVE  b \in Occupied \cup HoleBlocks'
  <2>1. b \in Nat /\ first <= b /\ b < to
    BY <1>3, <1>4
  <2>2. CASE position = 1
    <3>1. first = Current.phy_blk
      BY <1>1, <1>4, <2>2
    <3>2. Frontier <= b /\ Current.phy_blk <= b
      <4>1. from <= first
        BY <1>5, <3>1, FrontierStep
      <4>2. QED
        BY <1>4, <1>5, <2>1, <3>1, <4>1
    <3>3. QED
      BY <1>2, <2>1, <3>2, ReachedBlocks
  <2>3. CASE position > 1 /\ from <= b
    BY <1>2, <1>5, <2>1, <2>3, ReachedBlocks
  <2>4. CASE position > 1 /\ b < from
    <3>1. TiledTo(zone, position - 1) /\ position - 1 < Count(zone) /\ position - 1 # 0
      BY <1>1, <2>4
    <3>2. from = Pbae(Ext(zone, position - 1))
      BY <1>5, <3>1, FrontierStep DEF GapStart
    <3>3. first .. from - 1 \subseteq Occupied \cup HoleBlocks
      BY <1>4, <3>1, <3>2 DEF TiledTo
    <3>4. b \in first .. from - 1
      BY <1>4, <1>5, <2>1, <2>4
    <3>5. QED
      BY <3>3, <3>4
  <2>5. position = 1 \/ position > 1
    BY <1>1
  <2>6. QED
    BY <1>5, <2>1, <2>2, <2>3, <2>4, <2>5
<1>7. UNCHANGED <<zones, zone>>
  BY DEF ShowExtent
<1>8. z = zone /\ p = position
  OBVIOUS
<1>9. /\ Count(z)' = Count(z) /\ Ext(z, 1)' = Ext(z, 1) /\ Ext(z, p)' = Ext(z, p)
      /\ Occupied' = Occupied
  BY <1>7, SameZones
<1>10. Ext(z, p)' = Current /\ Ext(z, 1)'.phy_blk = first /\ Count(z)' = Count(zone)
  BY <1>1, <1>4, <1>8, <1>9
<1>11. Pbae(Ext(z, p))' = Pbae(Current) /\ ZoneLbae(z)' = ZoneLbae(zone)
  BY <1>8, <1>10 DEF Pbae, ZoneLbae, ZoneLbas
<1>12. QED
  BY <1>2, <1>6, <1>8, <1>9, <1>10, <1>11 DEF TiledTo

LEMMA StepTiled ==
  ASSUME WalkOK, ShownOK, SumsOK, Orderly, Tiled, [Next]_vars
  PROVE  Tiled'
<1>1. UNCHANGED <<zones, show_holes>>
  BY StepWalk
<1> SUFFICES ASSUME show_holes
             PROVE  /\ \A z \in 0 .. zone' - 1 : Count(z)' > 0 => TiledTo(z, Count(z))'
                    /\ position' > 1 => TiledTo(zone, position - 1)'
  BY <1>1 DEF Tiled
<1>2. \A z : Count(z)' = Count(z)
  BY <1>1, SameZones
<1>3. ASSUME HoleBlocks \subseteq HoleBlocks', NEW z, Count(z) > 0, TiledTo(z, Count(z))
      PROVE  TiledTo(z, Count(z))'
  <2>1. PICK n : n = Count(z)
    OBVIOUS
  <2>2. TiledTo(z, n)'
    BY <1>1, <1>3, <2>1, TiledToStep
  <2>3. QED
    BY <1>2, <2>1, <2>2 DEF TiledTo
<1>4. CASE ShowExtent
  <2>1. zone' = zone /\ position' = position + 1 /\ zone < NrZones /\ position <= Len(List)
    BY <1>4 DEF ShowExtent
  <2>2. HoleBlocks \subseteq HoleBlocks'
    BY <1>4, NewBlocks
  <2>3. \A z \in 0 .. zone' - 1 : Count(z)' > 0 => TiledTo(z, Count(z))'
    BY <1>2, <1>3, <2>1, <2>2 DEF Tiled
  <2>4. PICK z, p : z = zone /\ p = position
    OBVIOUS
  <2>5. position > 1 => TiledTo(zone, position - 1)
    BY DEF Tiled
  <2>6. TiledTo(z, p)'
    BY <1>4, <2>2, <2>4, <2>5, TiledHere
  <2>7. zone' = z /\ position' - 1 = p
    <3>1. position \in Nat
      BY DEF WalkOK
    <3>2. QED
      BY <2>1, <2>4, <3>1
  <2>8. TiledTo(zone, position - 1)'
    BY <2>6, <2>7 DEF TiledTo, Ext, Count, ZoneLbae, ZoneLbas
  <2>9. QED
    BY <2>3, <2>8
<1>5. CASE NextZone
  <2>1. zone' = zone + 1 /\ position' = 1 /\ UNCHANGED holes
    BY <1>5 DEF NextZone
  <2>2. zone \in Zones /\ Count(zone) \in Nat /\ position = Count(zone) + 1
    BY <1>5, EndOfList
  <2>3. HoleBlocks \subseteq HoleBlocks'
    BY <2>1 DEF HoleBlocks
  <2>4. ASSUME NEW z \in 0 .. zone' - 1, Count(z) > 0
        PROVE  TiledTo(z, Count(z))
    <3>1. z \in 0 .. zone - 1 \/ z = zone
      BY <2>1, <2>2, GeometryAssumption DEF Zones
    <3>2. CASE z \in 0 .. zone - 1
      BY <2>4, <3>2 DEF Tiled
    <3>3. CASE z = zone
      <4>1. position > 1 /\ position - 1 = Count(zone)
        BY <2>2, <2>4, <3>3
      <4>2. QED
        BY <3>3, <4>1 DEF Tiled
    <3>4. QED
      BY <3>1, <3>2, <3>3
  <2>5. ~(position' > 1)
    BY <2>1
  <2>6. QED
    BY <1>2, <1>3, <2>3, <2>4, <2>5
<1>6. CASE Finished \/ UNCHANGED vars
  <2>1. UNCHANGED <<zone, position, holes>>
    BY <1>6 DEF Finished, vars
  <2>2. HoleBlocks \subseteq HoleBlocks'
    BY <2>1 DEF HoleBlocks
  <2>3. \A z \in 0 .. zone' - 1 : Count(z)' > 0 => TiledTo(z, Count(z))'
    BY <1>2, <1>3, <2>1, <2>2 DEF Tiled
  <2>4. PICK z, p : z = zone /\ p = position - 1
    OBVIOUS
  <2>5. position > 1 => TiledTo(z, p)
    BY <2>4 DEF Tiled
  <2>6. position > 1 => TiledTo(z, p)'
    BY <1>1, <2>2, <2>5, TiledToStep
  <2>7. zone' = z /\ position' - 1 = p /\ position' = position
    BY <2>1, <2>4
  <2>8. position' > 1 => TiledTo(zone, position - 1)'
    BY <2>6, <2>7 DEF TiledTo, Ext, Count, ZoneLbae, ZoneLbas
  <2>9. QED
    BY <2>3, <2>8
<1>7. QED
  BY <1>4, <1>5, <1>6 DEF Next

(* A new hole that reaches before the first extent of a zone is shown in   *)
(* front of it, and an earlier zone has an extent.                         *)
LEMMA NewBlockBefore ==
  ASSUME WalkOK, ShownOK, SumsOK, Orderly, ShowExtent,
         NEW z \in Zones, Count(z) > 0,
         NEW b \in Leading(z), b \in HoleBlocks', b \notin HoleBlocks
  PROVE  LeadingShown(z)
<1>1. /\ zone \in Zones /\ position \in 1 .. Count(zone)
      /\ Current = Ext(zone, position) /\ Count(zone) \in Nat
      /\ zones \in ZoneMaps
  <2>1. zone < NrZones /\ position <= Len(List)
    BY DEF ShowExtent
  <2>2. /\ zone \in Zones /\ position \in 1 .. Count(zone)
        /\ Current = Ext(zone, position)
    BY <2>1, CurrentFacts
  <2>3. QED
    BY <2>2, ListFacts DEF WalkOK
<1>2. PICK from \in Nat, phy \in Nat, end \in Nat, far \in Nat :
        /\ from = Frontier /\ phy = Current.phy_blk /\ end = Pbae(Current) /\ far = Frontier'
        /\ ZoneLbas(zone) <= from /\ from <= phy /\ phy < end /\ end <= far
        /\ far <= ZoneLbae(zone)
        /\ from = GapStart(zone, position - 1)
  BY FrontierStep
<1>3. 1 \in 1 .. Count(z)
  BY <1>1, ListFacts
<1>4. PICK first \in Nat, lbas \in Nat, lbae \in Nat :
        /\ first = Ext(z, 1).phy_blk /\ lbas = ZoneLbas(z) /\ lbae = ZoneLbae(z)
        /\ first < lbae
  <2>1. /\ Ext(z, 1).phy_blk \in Nat /\ Pbae(Ext(z, 1)) \in Nat
        /\ Ext(z, 1).phy_blk < Pbae(Ext(z, 1)) /\ Pbae(Ext(z, 1)) <= ZoneLbae(z)
        /\ ZoneLbas(z) \in Nat /\ ZoneLbae(z) \in Nat
    BY <1>1, <1>3, ListFacts, ExtentFacts, OrderlyFacts, ZoneBounds
  <2>2. Ext(z, 1).phy_blk < ZoneLbae(z)
    BY <2>1
  <2>3. QED
    BY <2>1, <2>2
<1>5. b \in Nat /\ lbas <= b /\ b < first
  BY <1>4 DEF Leading
<1>6. (ShowsBefore /\ b \in BlocksOf(HoleBefore)) \/ (ShowsBehind /\ b \in BlocksOf(HoleBehind))
  BY NewBlocks
<1>7. ShowsBefore /\ b \in BlocksOf(HoleBefore) => from <= b /\ b < phy
  BY <1>2, <1>5, NewHoleBefore DEF BlocksOf
<1>8. ShowsBehind /\ b \in BlocksOf(HoleBehind) => end <= b /\ b < far
  <2>1. SUFFICES ASSUME ShowsBehind, b \in BlocksOf(HoleBehind)
                 PROVE  end <= b /\ b < far
    OBVIOUS
  <2>2. PICK to \in Nat : to = HoleBehind.to /\ to <= far /\ HoleBehind.from = end
    BY <1>2, <2>1, NewHoleBehind
  <2>3. b \in end .. to - 1
    BY <2>1, <2>2 DEF BlocksOf
  <2>4. QED
    BY <1>2, <1>5, <2>2, <2>3
<1>9. z = zone
  <2>1. from <= b /\ b < far
    BY <1>2, <1>5, <1>6, <1>7, <1>8
  <2>2. ZoneLbas(zone) <= b /\ b < ZoneLbae(zone)
    <3>1. ZoneLbas(zone) \in Nat /\ ZoneLbae(zone) \in Nat
      BY <1>1, ZoneBounds
    <3>2. QED
      BY <1>2, <1>5, <2>1, <3>1
  <2>3. ZoneLbas(z) <= b /\ b < ZoneLbae(z)
    BY <1>4, <1>5
  <2>4. QED
    BY <1>1, <1>5, <2>2, <2>3, BlockOfOneZone
<1>10. first <= phy
  <2>1. CASE position = 1
    BY <1>1, <1>2, <1>4, <1>9, <2>1
  <2>2. CASE 1 < position
    BY <1>1, <1>2, <1>3, <1>4, <1>9, <2>2, ListFacts
  <2>3. QED
    BY <1>1, <2>1, <2>2
<1>11. ShowsBefore /\ from <= b
  <2>1. ~(end <= b)
    BY <1>2, <1>5, <1>10
  <2>2. QED
    BY <1>6, <1>7, <1>8, <2>1
<1>12. position = 1
  <2>1. SUFFICES ASSUME 1 < position
                 PROVE  FALSE
    BY <1>1
  <2>2. position - 1 \in 1 .. Count(zone) /\ position - 1 # 0
    BY <1>1, <2>1
  <2>3. PICK e : e = Ext(zone, position - 1)
    OBVIOUS
  <2>4. e.phy_blk \in Nat /\ Pbae(e) \in Nat /\ e.phy_blk < Pbae(e) /\ from = Pbae(e)
    BY <1>1, <1>2, <2>2, <2>3, ListFacts, ExtentFacts, OrderlyFacts DEF GapStart
  <2>5. first <= e.phy_blk
    <3>1. CASE position - 1 = 1
      BY <1>4, <1>9, <2>3, <2>4, <3>1
    <3>2. CASE 1 < position - 1
      BY <1>1, <1>3, <1>4, <1>9, <2>2, <2>3, <3>2, ListFacts
    <3>3. position - 1 = 1 \/ 1 < position - 1
      BY <1>1, <2>1
    <3>4. QED
      BY <3>1, <3>2, <3>3
  <2>6. QED
    BY <1>4, <1>5, <1>11, <2>4, <2>5
<1>13. shown # <<>> /\ Count(zone) > 1
  BY <1>11, <1>12 DEF ShowsBefore
<1>14. PICK y \in 0 .. zone - 1 : Prev \in Listed(y)
  BY <1>12, <1>13 DEF ShownOK
<1>15. y \in Zones
  BY <1>1, <1>14, GeometryAssumption DEF Zones
<1>16. PICK j \in 1 .. Count(y) : Prev = Ext(y, j)
  BY <1>1, <1>14, <1>15, ListFacts
<1>17. Count(y) > 0
  BY <1>1, <1>15, <1>16, ListFacts
<1>18. QED
  BY <1>9, <1>13, <1>14, <1>17 DEF LeadingShown

(* The space before the first extent, when it is shown.                    *)
LEMMA LeadingHere ==
  ASSUME WalkOK, ShownOK, SumsOK, Orderly, ShowExtent, show_holes,
         position = 1, LeadingShown(zone)
  PROVE  Leading(zone) \subseteq HoleBlocks'
<1>1. Current = Ext(zone, 1) /\ Count(zone) > 1
  BY DEF Current, List, Ext, LeadingShown
<1>2. shown # <<>>
  BY DEF LeadingShown, ShownOK
<1>3. PICK from \in Nat, phy \in Nat :
        from = Frontier /\ phy = Current.phy_blk /\ from = GapStart(zone, position - 1)
  BY FrontierStep
<1>4. from = ZoneLbas(zone)
  BY <1>3 DEF GapStart
<1>5. Leading(zone) = from .. phy - 1
  BY <1>1, <1>3, <1>4 DEF Leading
<1>6. CASE from = phy
  <2>1. from .. phy - 1 = {}
    BY <1>6
  <2>2. QED
    BY <1>5, <2>1
<1>7. CASE from # phy
  <2>1. ShowsBefore
    BY <1>1, <1>2, <1>3, <1>7 DEF ShowsBefore
  <2>2. HoleBefore.from = from /\ HoleBefore.to = phy
    BY <1>3, <2>1, NewHoleBefore
  <2>3. BlocksOf(HoleBefore) = from .. phy - 1
    BY <2>2 DEF BlocksOf
  <2>4. QED
    BY <1>5, <2>1, <2>3, NewBlocks
<1>8. QED
  BY <1>6, <1>7

LEMMA StepLeading ==
  ASSUME WalkOK, ShownOK, SumsOK, Orderly, LeadingOK, [Next]_vars
  PROVE  LeadingOK'
<1>1. UNCHANGED <<zones, show_holes>>
  BY StepWalk
<1>2. /\ \A z : Count(z)' = Count(z)
      /\ \A z : Leading(z)' = Leading(z)
      /\ \A z : LeadingShown(z)' <=> LeadingShown(z)
  <2>1. /\ \A z : Count(z)' = Count(z) /\ Ext(z, 1)' = Ext(z, 1)
    BY <1>1, SameZones
  <2>2. QED
    BY <2>1 DEF Leading, ZoneLbas, LeadingShown
<1> SUFFICES ASSUME NEW z \in Zones, Count(z) > 0
             PROVE  /\ LeadingShown(z) /\ show_holes
                         /\ (z < zone' \/ (z = zone' /\ position' > 1)) =>
                         Leading(z) \subseteq HoleBlocks'
                    /\ ~LeadingShown(z) => Leading(z) \cap HoleBlocks' = {}
  BY <1>1, <1>2 DEF LeadingOK
<1>3. /\ LeadingShown(z) /\ show_holes /\ (z < zone \/ (z = zone /\ position > 1)) =>
           Leading(z) \subseteq HoleBlocks
      /\ ~LeadingShown(z) => Leading(z) \cap HoleBlocks = {}
  BY DEF LeadingOK
<1>4. z \in Nat /\ zone \in Nat /\ position \in Nat \ {0}
  BY GeometryAssumption DEF WalkOK, Zones
<1>5. CASE ShowExtent
  <2>1. zone' = zone /\ position' = position + 1 /\ HoleBlocks \subseteq HoleBlocks'
    BY <1>5, NewBlocks DEF ShowExtent
  <2>2. ASSUME LeadingShown(z), show_holes, z < zone \/ z = zone
        PROVE  Leading(z) \subseteq HoleBlocks'
    <3>1. CASE z < zone \/ (z = zone /\ position > 1)
      BY <1>3, <2>1, <2>2, <3>1
    <3>2. CASE z = zone /\ position = 1
      <4>1. Leading(zone) \subseteq HoleBlocks'
        BY <1>5, <2>2, <3>2, LeadingHere
      <4>2. QED
        BY <3>2, <4>1
    <3>3. QED
      BY <1>4, <2>2, <3>1, <3>2
  <2>3. ASSUME ~LeadingShown(z)
        PROVE  Leading(z) \cap HoleBlocks' = {}
    <3>1. ASSUME NEW b \in Leading(z), b \in HoleBlocks'
          PROVE  FALSE
      <4>1. b \notin HoleBlocks
        BY <1>3, <2>3, <3>1
      <4>2. LeadingShown(z)
        BY <1>5, <3>1, <4>1, NewBlockBefore
      <4>3. QED
        BY <2>3, <4>2
    <3>2. QED
      BY <3>1
  <2>4. QED
    BY <2>1, <2>2, <2>3
<1>6. CASE NextZone
  <2>1. zone' = zone + 1 /\ position' = 1 /\ HoleBlocks' = HoleBlocks
    BY <1>6 DEF NextZone, HoleBlocks
  <2>2. Count(zone) \in Nat /\ position = Count(zone) + 1
    BY <1>6, EndOfList
  <2>3. ASSUME z < zone' \/ (z = zone' /\ position' > 1)
        PROVE  z < zone \/ (z = zone /\ position > 1)
    <3>1. z < zone \/ z = zone
      BY <1>4, <2>1, <2>3
    <3>2. z = zone => position > 1
      BY <2>2
    <3>3. QED
      BY <3>1, <3>2
  <2>4. QED
    BY <1>3, <2>1, <2>3
<1>7. CASE Finished \/ UNCHANGED vars
  BY <1>3, <1>7 DEF Finished, vars, HoleBlocks
<1>8. QED
  BY <1>5, <1>6, <1>7 DEF Next

-----------------------------------------------------------------------------
(* The invariant.                                                          *)

ReportInv == WalkOK /\ ShownOK /\ SumsOK /\ WrapsInv /\ OrderlyInv

LEMMA InitHolds ==
  ASSUME Init
  PROVE  ReportInv
<1>1. /\ zones \in ZoneMaps /\ show_holes \in BOOLEAN
      /\ zone = 0 /\ position = 1 /\ shown = <<>> /\ holes = <<>>
      /\ hole_ctr = 0 /\ hole_cum_size = 0
  BY DEF Init
<1>2. 0 \in Zones
  BY GeometryAssumption DEF Zones
<1>3. WalkOK
  <2>1. Count(0) \in Nat
    BY <1>1, <1>2, ListFacts
  <2>2. zone < NrZones => position <= Count(zone) + 1
    BY <1>1, <2>1
  <2>3. zone \in 0 .. NrZones /\ zone # NrZones
    BY <1>1, GeometryAssumption
  <2>4. QED
    BY <1>1, <2>2, <2>3 DEF WalkOK
<1>4. 0 .. zone - 1 = {} /\ ~(position > 1)
  BY <1>1
<1>5. ShownOK
  <2>1. shown \in Seq(UNION {Listed(z) : z \in Zones})
    BY <1>1
  <2>2. QED
    BY <1>1, <1>4, <2>1 DEF ShownOK
<1>6. Range(holes) = {} /\ holes \in Seq(HoleType) /\ Len(holes) = 0
  BY <1>1 DEF Range
<1>7. SumsOK
  <2>1. 0 \in 0 .. Word64 - 1
    BY GeometryAssumption, ReportAssumption
  <2>2. QED
    BY <1>1, <1>6, <2>1 DEF SumsOK
<1>8. WrapsInv /\ HolesPlaced
  BY <1>6 DEF WrapsInv, HolesPlaced
<1>9. HoleBlocks = {}
  BY <1>6 DEF HoleBlocks
<1>10. SumIsBlocks
  <2>1. IsFiniteSet({}) /\ Cardinality({}) = 0
    BY FS_EmptySet
  <2>2. QED
    BY <1>1, <1>9, <2>1 DEF SumIsBlocks
<1>11. Tiled
  BY <1>4 DEF Tiled
<1>12. LeadingOK
  <2>1. \A z \in Zones : ~(z < zone \/ (z = zone /\ position > 1))
    BY <1>1, GeometryAssumption DEF Zones
  <2>2. \A z \in Zones : Leading(z) \cap HoleBlocks = {}
    BY <1>9
  <2>3. QED
    BY <2>1, <2>2 DEF LeadingOK
<1>13. QED
  BY <1>3, <1>5, <1>7, <1>8, <1>10, <1>11, <1>12 DEF ReportInv, OrderlyInv

LEMMA StepKeeps ==
  ASSUME ReportInv, [Next]_vars
  PROVE  ReportInv'
<1>1. WalkOK /\ ShownOK /\ SumsOK /\ WrapsInv /\ OrderlyInv
  BY DEF ReportInv
<1>2. WalkOK' /\ ShownOK' /\ SumsOK' /\ WrapsInv'
  BY <1>1, StepWalk, StepShown, StepSums, StepWraps
<1>3. ASSUME Orderly'
      PROVE  HolesPlaced' /\ SumIsBlocks' /\ Tiled' /\ LeadingOK'
  <2>1. Orderly
    BY <1>1, <1>3, StepWalk, SameZones
  <2>2. HolesPlaced /\ SumIsBlocks /\ Tiled /\ LeadingOK
    BY <1>1, <2>1 DEF OrderlyInv
  <2>3. HolesPlaced'
    BY <1>1, <2>1, <2>2, StepPlaced
  <2>4. SumIsBlocks'
    BY <1>1, <2>1, <2>2, StepSumIsBlocks
  <2>5. Tiled'
    BY <1>1, <2>1, <2>2, StepTiled
  <2>6. LeadingOK'
    BY <1>1, <2>1, <2>2, StepLeading
  <2>7. QED
    BY <2>3, <2>4, <2>5, <2>6
<1>4. QED
  BY <1>2, <1>3 DEF ReportInv, OrderlyInv

(* The walk stays in the lists, prev is the extent before, the holes lie   *)
(* in the gaps the walk has passed, their sizes sum to their blocks, and   *)
(* what was passed is tiled.                                               *)
THEOREM ReportInvariant == Spec => []ReportInv
<1>1. Init => ReportInv
  BY InitHolds
<1>2. ReportInv /\ [Next]_vars => ReportInv'
  BY StepKeeps
<1>3. QED
  BY <1>1, <1>2, PTL DEF Spec

(* TypeOK in every reachable state, for every zone map of the device: the  *)
(* walk never leaves the zones, a hole has its ends on the device, and no  *)
(* size or sum leaves 64 bits, whatever the extents.                       *)
THEOREM TypesOfReport == Spec => []TypeOK
<1>1. ReportInv => TypeOK
  <2>1. SUFFICES ASSUME ReportInv
                 PROVE  TypeOK
    OBVIOUS
  <2>2. WalkOK /\ ShownOK /\ SumsOK
    BY <2>1 DEF ReportInv
  <2>3. DOMAIN zones = Zones
    BY <2>2, ReportAssumption DEF WalkOK, OnTheDevice
  <2>4. Range(shown) \subseteq UNION {Listed(z) : z \in Zones}
    <3>1. PICK S : S = UNION {Listed(z) : z \in Zones}
      OBVIOUS
    <3>2. shown \in Seq(S)
      BY <2>2, <3>1 DEF ShownOK
    <3>3. Range(shown) \subseteq S
      BY <3>2 DEF Range
    <3>4. QED
      BY <3>1, <3>3
  <2>5. Range(holes) \subseteq HoleType
    BY <2>2 DEF SumsOK, Range
  <2>6. QED
    BY <2>2, <2>3, <2>4, <2>5 DEF TypeOK, WalkOK, SumsOK, HoleType
<1>2. QED
  BY <1>1, ReportInvariant, PTL

(* The extents of a list by their places.                                  *)
LEMMA EndsOfList ==
  ASSUME zones \in ZoneMaps, NEW z \in Zones, zones[z].extents # <<>>
  PROVE  /\ Count(z) \in Nat /\ Count(z) > 0
         /\ Head(zones[z].extents) = Ext(z, 1)
         /\ Last(zones[z].extents) = Ext(z, Count(z))
<1>1. PICK list \in Seq(Listed(z)) : list = zones[z].extents
  BY ListFacts
<1>2. list # <<>> => Len(list) \in Nat /\ Len(list) > 0 /\ Head(list) = list[1]
  OBVIOUS
<1>3. QED
  BY <1>1, <1>2 DEF Count, Ext, Last

LEMMA HolesAreOfNoExtent ==
  ASSUME WalkOK, SumsOK, Orderly, HolesPlaced
  PROVE  HoleBlocks \cap Occupied = {}
<1>1. ASSUME NEW b \in HoleBlocks
      PROVE  b \notin Occupied
  <2>1. b \in Nat
    BY HoleBlockPlaced
  <2>2. PICK z \in Zones : \E p \in 0 .. Count(z) : GapStart(z, p) <= b /\ b < GapEnd(z, p)
    BY HoleBlockPlaced
  <2>3. PICK p \in 0 .. Count(z) : GapStart(z, p) <= b /\ b < GapEnd(z, p)
    BY <2>2
  <2>4. QED
    BY <2>1, <2>3, GapIsFree DEF WalkOK
<1>2. QED
  BY <1>1

(* HolesAreFree: for every zone map of the device, the holes of an orderly *)
(* one lie in a zone and in no extent, they add up to hole_cum_size, and   *)
(* with the extents they tile each zone from its first extent to the end   *)
(* of its last, and to its write pointer when a higher zone has an extent; *)
(* and in any other, a size wraps only between two extents that overlap.   *)
THEOREM HolesOfReport == Spec => []HolesAreFree
<1>1. ReportInv => HolesAreFree
  <2>1. SUFFICES ASSUME ReportInv
                 PROVE  HolesAreFree
    OBVIOUS
  <2>2. WalkOK /\ SumsOK /\ WrapsInv /\ OrderlyInv
    BY <2>1 DEF ReportInv
  <2>3. ASSUME Orderly
        PROVE  /\ \A h \in Range(holes) :
                    /\ h.from < h.to
                    /\ h.size = h.to - h.from
                    /\ \E z \in Zones : ZoneLbas(z) <= h.from /\ h.to <= ZoneLbae(z)
               /\ HoleBlocks \cap Occupied = {}
               /\ hole_cum_size = Cardinality(HoleBlocks)
    <3>1. HolesPlaced /\ SumIsBlocks
      BY <2>2, <2>3 DEF OrderlyInv
    <3>2. ASSUME NEW h \in Range(holes)
          PROVE  /\ h.from < h.to
                 /\ h.size = h.to - h.from
                 /\ \E z \in Zones : ZoneLbas(z) <= h.from /\ h.to <= ZoneLbae(z)
      <4>1. InGap(h)
        BY <3>1 DEF HolesPlaced
      <4>2. PICK z \in Zones : \E p \in 0 .. Count(z) :
              h.from = GapStart(z, p) /\ h.to <= GapEnd(z, p)
        BY <4>1 DEF InGap
      <4>3. PICK p \in 0 .. Count(z) : h.from = GapStart(z, p) /\ h.to <= GapEnd(z, p)
        BY <4>2
      <4>4. /\ GapStart(z, p) \in Nat /\ GapEnd(z, p) \in Nat
            /\ ZoneLbas(z) <= GapStart(z, p) /\ GapEnd(z, p) <= ZoneLbae(z)
            /\ ZoneLbas(z) \in Nat /\ ZoneLbae(z) \in Nat
        BY <2>2, <2>3, GapFacts, ZoneBounds DEF WalkOK
      <4>5. h.to \in Nat
        <5>1. Range(holes) \subseteq HoleType
          BY <2>2 DEF SumsOK, Range
        <5>2. QED
          BY <5>1, GeometryAssumption DEF HoleType
      <4>6. ZoneLbas(z) <= h.from /\ h.to <= ZoneLbae(z)
        BY <4>3, <4>4, <4>5
      <4>7. QED
        BY <4>1, <4>6 DEF InGap
    <3>3. HoleBlocks \cap Occupied = {}
      BY <2>2, <2>3, <3>1, HolesAreOfNoExtent
    <3>4. QED
      BY <3>1, <3>2, <3>3 DEF SumIsBlocks
  <2>4. ASSUME Orderly, Done, show_holes,
               NEW z \in Zones, HasExtent(z)
        PROVE  /\ Between(z) \subseteq Occupied \cup HoleBlocks
               /\ Behind(z) \subseteq HoleBlocks
    <3>1. /\ Count(z) \in Nat /\ Count(z) > 0
          /\ Head(zones[z].extents) = Ext(z, 1)
          /\ Last(zones[z].extents) = Ext(z, Count(z))
          /\ 1 \in 1 .. Count(z) /\ Count(z) \in 0 .. Count(z)
      <4>1. /\ Count(z) \in Nat /\ Count(z) > 0
            /\ Head(zones[z].extents) = Ext(z, 1)
            /\ Last(zones[z].extents) = Ext(z, Count(z))
        BY <2>2, <2>4, EndsOfList DEF WalkOK, HasExtent
      <4>2. QED
        BY <4>1
    <3>2. z \in 0 .. zone - 1
      BY <2>4, GeometryAssumption DEF Done, Zones
    <3>3. Tiled
      BY <2>2, <2>4 DEF OrderlyInv
    <3>4. TiledTo(z, Count(z))
      BY <2>4, <3>1, <3>2, <3>3 DEF Tiled
    <3>5. PICK first \in Nat, end \in Nat, wp \in Nat, lbae \in Nat :
            /\ first = Ext(z, 1).phy_blk /\ end = Pbae(Ext(z, Count(z)))
            /\ first <= end
            /\ wp = Ext(z, Count(z)).zone_wp /\ lbae = ZoneLbae(z)
      <4>1. Ext(z, 1) \in Listed(z) /\ Ext(z, Count(z)) \in Listed(z)
        BY <2>2, <3>1, ListFacts DEF WalkOK
      <4>2. /\ Ext(z, 1).phy_blk \in Nat /\ Pbae(Ext(z, Count(z))) \in Nat
            /\ Ext(z, Count(z)).zone_wp \in Nat
            /\ Ext(z, Count(z)).phy_blk \in Nat /\ Ext(z, Count(z)).len \in Nat
            /\ Pbae(Ext(z, Count(z))) = Ext(z, Count(z)).phy_blk + Ext(z, Count(z)).len
        BY <2>2, <4>1, ExtentFacts DEF WalkOK
      <4>3. Ext(z, 1).phy_blk <= Ext(z, Count(z)).phy_blk
        <5>1. CASE Count(z) = 1
          BY <4>2, <5>1
        <5>2. CASE Count(z) # 1
          <6>1. 1 < Count(z) /\ Count(z) \in 1 .. Count(z)
            BY <3>1, <5>2
          <6>2. QED
            BY <2>2, <3>1, <6>1, ListFacts DEF WalkOK
        <5>3. QED
          BY <5>1, <5>2
      <4>4. ZoneLbae(z) \in Nat
        BY ZoneBounds
      <4>5. Ext(z, 1).phy_blk <= Pbae(Ext(z, Count(z)))
        BY <4>2, <4>3
      <4>6. QED
        BY <4>2, <4>4, <4>5
    <3>6. PICK top \in Nat : /\ top = Min({wp, lbae})
                             /\ top <= wp /\ top <= lbae
      <4>1. (IF wp < lbae THEN wp ELSE lbae) \in Nat
        OBVIOUS
      <4>2. PICK m \in Nat : m = IF wp < lbae THEN wp ELSE lbae
        BY <4>1
      <4>3. m <= wp /\ m <= lbae
        BY <4>2
      <4>4. QED
        BY <4>2, <4>3, MinOfTwo
    <3>7. first .. (IF top <= end THEN end ELSE top) - 1 \subseteq Occupied \cup HoleBlocks
      <4>1. ~(Count(z) < Count(z))
        BY <3>1
      <4>2. QED
        BY <3>4, <3>5, <3>6, <4>1 DEF TiledTo
    <3>8. ASSUME NEW b \in first .. end - 1
          PROVE  b \in Occupied \cup HoleBlocks
      <4>1. b \in first .. (IF top <= end THEN end ELSE top) - 1
        BY <3>5, <3>6, <3>8
      <4>2. QED
        BY <3>7, <4>1
    <3>9. ASSUME NEW b \in end .. top - 1
          PROVE  b \in HoleBlocks
      <4>1. b \in first .. (IF top <= end THEN end ELSE top) - 1
        BY <3>5, <3>6, <3>9
      <4>2. /\ b \in Nat /\ GapStart(z, Count(z)) <= b /\ b < GapEnd(z, Count(z))
        <5>1. GapStart(z, Count(z)) = end /\ GapEnd(z, Count(z)) = lbae
          BY <3>1, <3>5 DEF GapStart, GapEnd
        <5>2. b \in Nat /\ end <= b /\ b < lbae
          BY <3>5, <3>6, <3>9
        <5>3. QED
          BY <5>1, <5>2
      <4>3. b \notin Occupied
        BY <2>2, <2>4, <3>1, <4>2, GapIsFree DEF WalkOK
      <4>4. QED
        BY <3>7, <4>1, <4>3
    <3>10. Between(z) = first .. end - 1 /\ Behind(z) = end .. top - 1
      BY <3>1, <3>5, <3>6 DEF Between, Behind
    <3>11. QED
      BY <3>8, <3>9, <3>10
  <2>5. QED
    BY <2>2, <2>3, <2>4 DEF HolesAreFree, WrapsInv
<1>2. QED
  BY <1>1, ReportInvariant, PTL

(* LeadingHoles: no hole is shown before the first extent of a zone unless *)
(* an earlier zone has an extent, and then the whole space is shown when   *)
(* the zone has another extent.                                            *)
THEOREM LeadingHolesOfReport == Spec => []LeadingHoles
<1>1. ReportInv => LeadingHoles
  <2>1. SUFFICES ASSUME ReportInv, Done, show_holes, Orderly,
                        NEW z \in Zones, HasExtent(z)
                 PROVE  /\ ~PriorExtent(z) => Before(z) \cap HoleBlocks = {}
                        /\ PriorExtent(z) /\ Len(zones[z].extents) > 1 =>
                             Before(z) \subseteq HoleBlocks
    BY DEF LeadingHoles
  <2>2. WalkOK /\ LeadingOK
    BY <2>1 DEF ReportInv, OrderlyInv
  <2>3. Count(z) > 0 /\ Head(zones[z].extents) = Ext(z, 1)
    BY <2>1, <2>2, EndsOfList DEF WalkOK, HasExtent
  <2>4. z < zone
    BY <2>1, GeometryAssumption DEF Done, Zones
  <2>5. ASSUME NEW y \in 0 .. z - 1
        PROVE  HasExtent(y) <=> Count(y) > 0
    <3>1. y \in Zones
      BY <2>1, <2>5, GeometryAssumption DEF Zones
    <3>2. PICK list \in Seq(Listed(y)) : list = zones[y].extents
      BY <2>2, <3>1, ListFacts DEF WalkOK
    <3>3. list # <<>> <=> Len(list) > 0
      OBVIOUS
    <3>4. QED
      BY <3>2, <3>3 DEF Count, HasExtent
  <2>6. LeadingShown(z) <=> PriorExtent(z) /\ Len(zones[z].extents) > 1
    BY <2>5 DEF LeadingShown, Count, PriorExtent
  <2>7. Before(z) = Leading(z)
    BY <2>3 DEF Before, Leading
  <2>8. IF LeadingShown(z) THEN Leading(z) \subseteq HoleBlocks
        ELSE Leading(z) \cap HoleBlocks = {}
    BY <2>1, <2>2, <2>3, <2>4 DEF LeadingOK
  <2>9. QED
    BY <2>6, <2>7, <2>8
<1>2. QED
  BY <1>1, ReportInvariant, PTL
=============================================================================
