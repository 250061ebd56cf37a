--------------------------- MODULE ExtentMapProofs ---------------------------
(***************************************************************************)
(* The collection of extents is correct for any directory tree, device     *)
(* geometry, file contents and number of changes of the file system.       *)
(***************************************************************************)
EXTENDS ExtentMap, FiniteSetTheorems, SequenceTheorems, WellFoundedInduction, TLAPS

(* The operations on the zone map.                                         *)

(* A nonempty set of naturals has a least element, and Min is it.          *)
LEMMA MinProperties ==
  ASSUME NEW S, S \subseteq Nat, S # {}
  PROVE  /\ Min(S) \in S
         /\ \A x \in S : Min(S) <= x
<1>1. PICK m \in S : \A x \in S : ~(<<x, m>> \in OpToRel(<, Nat))
  BY NatLessThanWellFounded, WFMin
<1>2. ASSUME NEW x \in S, x < m
      PROVE  FALSE
  <2>1. <<x, m>> \in Nat \X Nat
    OBVIOUS
  <2>2. <<x, m>>[1] < <<x, m>>[2]
    BY <1>2
  <2>3. <<x, m>> \in OpToRel(<, Nat)
    BY <2>1, <2>2, Zenon DEF OpToRel
  <2>4. QED
    BY <1>1, <2>3, Zenon
<1>3. \A x \in S : m <= x
  BY <1>2
<1>4. QED
  BY <1>3 DEF Min

(* InsertAt makes room for one element and keeps the others in order.      *)
LEMMA InsertAtProperties ==
  ASSUME NEW S, NEW list \in Seq(S), NEW e \in S, NEW p \in 1 .. Len(list) + 1
  PROVE  /\ InsertAt(list, p, e) \in Seq(S)
         /\ Len(InsertAt(list, p, e)) = Len(list) + 1
         /\ \A i \in 1 .. Len(list) + 1 :
              InsertAt(list, p, e)[i] =
                IF i < p THEN list[i] ELSE IF i = p THEN e ELSE list[i - 1]
<1> DEFINE before == SubSeq(list, 1, p - 1)
           behind == SubSeq(list, p, Len(list))
<1>0. Len(list) \in Nat
  BY LenProperties
<1>1. /\ before \in Seq(S)
      /\ Len(before) = p - 1
      /\ \A i \in 1 .. p - 1 : before[i] = list[i]
  <2>1. \A i \in 1 .. p - 1 : list[i] \in S
    BY <1>0, ElementOfSeq
  <2>2. 1 \in Int /\ p - 1 \in Int
    BY <1>0
  <2>3. /\ before \in Seq(S)
        /\ Len(before) = IF 1 <= p - 1 THEN (p - 1) - 1 + 1 ELSE 0
        /\ \A i \in 1 .. (p - 1) - 1 + 1 : before[i] = list[1 + i - 1]
    BY <2>1, <2>2, SubSeqProperties
  <2>4. QED
    BY <1>0, <2>3
<1>2. /\ behind \in Seq(S)
      /\ Len(behind) = Len(list) + 1 - p
      /\ \A i \in 1 .. Len(list) + 1 - p : behind[i] = list[p + i - 1]
  <2>1. \A i \in p .. Len(list) : list[i] \in S
    BY <1>0, ElementOfSeq
  <2>2. /\ behind \in Seq(S)
        /\ Len(behind) = IF p <= Len(list) THEN Len(list) - p + 1 ELSE 0
        /\ \A i \in 1 .. Len(list) - p + 1 : behind[i] = list[p + i - 1]
    BY <1>0, <2>1, SubSeqProperties
  <2>3. QED
    BY <1>0, <2>2
<1>3. /\ <<e>> \in Seq(S)
      /\ Len(<<e>>) = 1
      /\ <<e>>[1] = e
  OBVIOUS
<1> DEFINE front == before \o <<e>>
<1>4. /\ front \in Seq(S)
      /\ Len(front) = p
      /\ \A i \in 1 .. p : front[i] = IF i < p THEN list[i] ELSE e
  <2>1. /\ front \in Seq(S)
        /\ Len(front) = Len(before) + 1
        /\ \A i \in 1 .. Len(before) + 1 :
             front[i] = IF i <= Len(before) THEN before[i] ELSE <<e>>[i - Len(before)]
    <3> HIDE DEF before
    <3> QED
      BY <1>1, <1>3, ConcatProperties
  <2> HIDE DEF front, before
  <2>2. QED
    BY <1>0, <1>1, <1>3, <2>1
<1>5. /\ front \o behind \in Seq(S)
      /\ Len(front \o behind) = Len(front) + Len(behind)
      /\ \A i \in 1 .. Len(front) + Len(behind) :
           (front \o behind)[i] =
             IF i <= Len(front) THEN front[i] ELSE behind[i - Len(front)]
  <2> HIDE DEF front, behind
  <2> QED
    BY <1>2, <1>4, ConcatProperties
<1>6. InsertAt(list, p, e) = front \o behind
  BY DEF InsertAt
<1> HIDE DEF front, behind, before
<1>7. QED
  BY <1>0, <1>2, <1>4, <1>5, <1>6

-----------------------------------------------------------------------------
(* A list whose nodes start at natural numbers.                            *)
PhyBlkIsNat(S) == \A e \in S : e.phy_blk \in Nat

(* The walk along the list stops, at a place before which every node       *)
(* starts below the new one, and the node there does not.                  *)
LEMMA InsertPositionProperties ==
  ASSUME NEW S, PhyBlkIsNat(S), NEW list \in Seq(S), NEW e \in S
  PROVE  /\ InsertPosition(list, e) \in 1 .. Len(list) + 1
         /\ \A i \in 1 .. Len(list) :
              /\ i < InsertPosition(list, e) => list[i].phy_blk < e.phy_blk
              /\ i = InsertPosition(list, e) => list[i].phy_blk >= e.phy_blk
<1> DEFINE stops == StopPositions(list, e)
           p == InsertPosition(list, e)
<1>1. Len(list) \in Nat
  BY LenProperties
<1>2. Len(list) + 1 \in stops
  BY <1>1 DEF StopPositions
<1>3. stops \subseteq Nat
  BY <1>1 DEF StopPositions
<1>4. p \in stops /\ \A i \in stops : p <= i
  BY <1>2, <1>3, MinProperties DEF InsertPosition
<1>5. p \in 1 .. Len(list) + 1
  BY <1>4 DEF StopPositions
<1>6. ASSUME NEW i \in 1 .. Len(list), i < p
      PROVE  list[i].phy_blk < e.phy_blk
  <2>1. i \notin stops
    BY <1>1, <1>4, <1>5, <1>6
  <2>2. ~(list[i].phy_blk >= e.phy_blk)
    BY <1>1, <2>1 DEF StopPositions
  <2>3. list[i].phy_blk \in Nat /\ e.phy_blk \in Nat
    BY ElementOfSeq DEF PhyBlkIsNat
  <2>4. QED
    BY <2>2, <2>3
<1>7. ASSUME NEW i \in 1 .. Len(list), i = p
      PROVE  list[i].phy_blk >= e.phy_blk
  BY <1>1, <1>4, <1>7 DEF StopPositions
<1>8. QED
  BY <1>5, <1>6, <1>7

(* Inserting into a sorted list gives a sorted list.                       *)
LEMMA SortedInsertKeepsSorted ==
  ASSUME NEW S, PhyBlkIsNat(S), NEW list \in Seq(S), NEW e \in S,
         SortedByPhyBlk(list)
  PROVE  SortedByPhyBlk(SortedZoneListInsert(list, e))
<1> DEFINE p == InsertPosition(list, e)
           result == SortedZoneListInsert(list, e)
<1>0. Len(list) \in Nat
  BY LenProperties
<1>1. /\ p \in 1 .. Len(list) + 1
      /\ \A i \in 1 .. Len(list) :
           /\ i < p => list[i].phy_blk < e.phy_blk
           /\ i = p => list[i].phy_blk >= e.phy_blk
  BY InsertPositionProperties
<1>2. /\ Len(result) = Len(list) + 1
      /\ \A i \in 1 .. Len(list) + 1 :
           result[i] = IF i < p THEN list[i] ELSE IF i = p THEN e ELSE list[i - 1]
  BY <1>1, InsertAtProperties DEF SortedZoneListInsert
<1>3. \A i \in 1 .. Len(list) : list[i].phy_blk \in Nat
  BY ElementOfSeq DEF PhyBlkIsNat
<1>4. e.phy_blk \in Nat
  BY DEF PhyBlkIsNat
<1>5. \A i \in 1 .. Len(list) : p <= i => list[i].phy_blk >= e.phy_blk
  <2> SUFFICES ASSUME NEW i \in 1 .. Len(list), p <= i
               PROVE  list[i].phy_blk >= e.phy_blk
    OBVIOUS
  <2>1. CASE p = i
    BY <2>1, <1>1
  <2>2. CASE p < i
    <3>1. p \in 1 .. Len(list)
      BY <1>0, <1>1
    <3>2. list[p].phy_blk <= list[i].phy_blk
      BY <2>2, <3>1 DEF SortedByPhyBlk
    <3>3. list[p].phy_blk >= e.phy_blk
      BY <1>1, <3>1
    <3> HIDE DEF p
    <3>4. QED
      BY <1>3, <1>4, <3>1, <3>2, <3>3
  <2>3. QED
    BY <1>0, <1>1, <2>1, <2>2
<1>6. ASSUME NEW i \in 1 .. Len(list) + 1, NEW j \in 1 .. Len(list) + 1, i < j
      PROVE  result[i].phy_blk <= result[j].phy_blk
  <2> HIDE DEF p, result
  <2>1. CASE j < p
    <3>1. result[i] = list[i] /\ result[j] = list[j]
      BY <1>0, <1>1, <1>2, <1>6, <2>1
    <3>2. i \in 1 .. Len(list) /\ j \in 1 .. Len(list)
      BY <1>0, <1>1, <1>6, <2>1
    <3>3. QED
      BY <1>6, <3>1, <3>2 DEF SortedByPhyBlk
  <2>2. CASE j = p
    <3>1. result[i] = list[i] /\ result[j] = e /\ i \in 1 .. Len(list)
      BY <1>0, <1>1, <1>2, <1>6, <2>2
    <3>2. QED
      BY <1>0, <1>1, <1>3, <1>4, <1>6, <2>2, <3>1
  <2>3. CASE j > p
    <3>1. result[j] = list[j - 1] /\ j - 1 \in 1 .. Len(list)
      BY <1>0, <1>1, <1>2, <1>6, <2>3
    <3>2. CASE i < p
      <4>1. result[i] = list[i] /\ i \in 1 .. Len(list)
        BY <1>0, <1>1, <1>2, <1>6, <3>2
      <4>2. i < j - 1
        BY <1>0, <1>1, <2>3, <3>2
      <4>3. QED
        BY <3>1, <4>1, <4>2 DEF SortedByPhyBlk
    <3>3. CASE i = p
      <4>1. result[i] = e
        BY <1>2, <3>3
      <4>2. p <= j - 1
        BY <1>0, <1>1, <2>3
      <4>3. QED
        BY <1>3, <1>4, <1>5, <3>1, <4>1, <4>2
    <3>4. CASE i > p
      <4>1. result[i] = list[i - 1] /\ i - 1 \in 1 .. Len(list)
        BY <1>0, <1>1, <1>2, <1>6, <3>4
      <4>2. i - 1 < j - 1
        BY <1>6
      <4>3. QED
        BY <3>1, <4>1, <4>2 DEF SortedByPhyBlk
    <3>5. QED
      BY <1>0, <1>1, <3>2, <3>3, <3>4
  <2>4. QED
    BY <1>0, <1>1, <2>1, <2>2, <2>3
<1>7. QED
  BY <1>2, <1>6 DEF SortedByPhyBlk

-----------------------------------------------------------------------------
(* Inserting into a list lengthens it by one and adds exactly the new      *)
(* node to the nodes it holds.                                             *)
LEMMA SortedInsertContents ==
  ASSUME NEW S, PhyBlkIsNat(S), NEW list \in Seq(S), NEW e \in S
  PROVE  LET result == SortedZoneListInsert(list, e)
         IN  /\ result \in Seq(S)
             /\ Len(result) = Len(list) + 1
             /\ Range(result) = Range(list) \cup {e}
<1> DEFINE p == InsertPosition(list, e)
           result == SortedZoneListInsert(list, e)
<1>1. Len(list) \in Nat /\ DOMAIN list = 1 .. Len(list)
  BY LenProperties
<1>2. p \in 1 .. Len(list) + 1
  BY InsertPositionProperties
<1>3. /\ result \in Seq(S)
      /\ Len(result) = Len(list) + 1
      /\ \A i \in 1 .. Len(list) + 1 :
           result[i] = IF i < p THEN list[i] ELSE IF i = p THEN e ELSE list[i - 1]
  <2>1. result = InsertAt(list, p, e)
    BY DEF SortedZoneListInsert
  <2> HIDE DEF p, result
  <2>2. QED
    BY <1>2, <2>1, InsertAtProperties, SMTT(30)
<1>4. DOMAIN result = 1 .. Len(list) + 1
  BY <1>3, LenProperties
<1> HIDE DEF p, result
<1>5. ASSUME NEW i \in 1 .. Len(list) + 1
      PROVE  result[i] \in Range(list) \cup {e}
  <2>1. CASE i < p
    BY <1>1, <1>2, <1>3, <2>1 DEF Range
  <2>2. CASE i = p
    BY <1>3, <2>2
  <2>3. CASE i > p
    BY <1>1, <1>2, <1>3, <2>3 DEF Range
  <2>4. QED
    BY <1>1, <1>2, <2>1, <2>2, <2>3
<1>6. ASSUME NEW i \in 1 .. Len(list)
      PROVE  list[i] \in Range(result)
  <2>1. CASE i < p
    <3>1. result[i] = list[i] /\ i \in 1 .. Len(list) + 1
      BY <1>1, <1>2, <1>3, <2>1
    <3>2. QED
      BY <1>4, <3>1 DEF Range
  <2>2. CASE i >= p
    <3>1. result[i + 1] = list[i] /\ i + 1 \in 1 .. Len(list) + 1
      BY <1>1, <1>2, <1>3, <2>2
    <3>2. QED
      BY <1>4, <3>1 DEF Range
  <2>3. QED
    BY <1>1, <1>2, <2>1, <2>2
<1>7. e \in Range(result)
  BY <1>2, <1>3, <1>4 DEF Range
<1>8. Range(list) = {list[i] : i \in 1 .. Len(list)}
  BY <1>1 DEF Range
<1>9. Range(result) = {result[i] : i \in 1 .. Len(list) + 1}
  BY <1>4 DEF Range
<1>10. Range(result) = Range(list) \cup {e}
  BY <1>5, <1>6, <1>7, <1>8, <1>9
<1>11. QED
  BY <1>3, <1>10 DEF result

-----------------------------------------------------------------------------
(* What one call of add_extent_to_zone_list does to a zone whose counter   *)
(* is the length of its list: the counter stays the length, the list stays *)
(* sorted and gains exactly the new extent.                                *)
LEMMA AddExtentProperties ==
  ASSUME NEW S, PhyBlkIsNat(S), NEW e \in S,
         NEW zone \in [extents : Seq(S), extent_ctr : Nat],
         zone.extent_ctr = Len(zone.extents),
         SortedByPhyBlk(zone.extents)
  PROVE  LET after == AddExtentToZoneList(zone, e)
         IN  /\ after \in [extents : Seq(S), extent_ctr : Nat]
             /\ after.extent_ctr = Len(after.extents)
             /\ SortedByPhyBlk(after.extents)
             /\ Range(after.extents) = Range(zone.extents) \cup {e}
<1> DEFINE list == zone.extents
           after == AddExtentToZoneList(zone, e)
<1>1. list \in Seq(S) /\ Len(list) \in Nat /\ DOMAIN list = 1 .. Len(list)
  BY LenProperties
<1>2. CASE zone.extent_ctr = 0
  <2>1. after = [extents |-> <<e>>, extent_ctr |-> 1]
    BY <1>2 DEF AddExtentToZoneList
  <2>2. Range(list) = {}
    BY <1>1, <1>2 DEF Range
  <2>3. <<e>> \in Seq(S) /\ Len(<<e>>) = 1 /\ Range(<<e>>) = {e}
    BY DEF Range
  <2>4. SortedByPhyBlk(<<e>>)
    BY <2>3 DEF SortedByPhyBlk
  <2>5. QED
    BY <2>1, <2>2, <2>3, <2>4
<1>3. CASE zone.extent_ctr # 0
  <2> DEFINE result == SortedZoneListInsert(list, e)
  <2>1. after = [extents |-> result, extent_ctr |-> zone.extent_ctr + 1]
    BY <1>3 DEF AddExtentToZoneList
  <2>2. /\ result \in Seq(S)
        /\ Len(result) = Len(list) + 1
        /\ Range(result) = Range(list) \cup {e}
    BY <1>1, SortedInsertContents
  <2>3. SortedByPhyBlk(result)
    BY <1>1, SortedInsertKeepsSorted
  <2> HIDE DEF result
  <2>4. QED
    BY <1>1, <2>1, <2>2, <2>3
<1>4. QED
  BY <1>2, <1>3

(* An extent that is new to a list without repetitions repeats nothing.    *)
LEMMA AddExtentOnce ==
  ASSUME NEW S, PhyBlkIsNat(S), NEW e \in S,
         NEW zone \in [extents : Seq(S), extent_ctr : Nat],
         zone.extent_ctr = Len(zone.extents),
         e \notin Range(zone.extents),
         \A i, j \in 1 .. Len(zone.extents) : zone.extents[i] = zone.extents[j] => i = j
  PROVE  LET after == AddExtentToZoneList(zone, e)
         IN  \A i, j \in 1 .. Len(after.extents) :
               after.extents[i] = after.extents[j] => i = j
<1> DEFINE list == zone.extents
           p == InsertPosition(list, e)
           result == SortedZoneListInsert(list, e)
           after == AddExtentToZoneList(zone, e)
<1>1. list \in Seq(S) /\ Len(list) \in Nat /\ DOMAIN list = 1 .. Len(list)
  BY LenProperties
<1>2. \A i \in 1 .. Len(list) : list[i] # e
  BY <1>1 DEF Range
<1>3. CASE zone.extent_ctr = 0
  <2>1. after.extents = <<e>>
    BY <1>3 DEF AddExtentToZoneList
  <2>2. QED
    BY <2>1
<1>4. CASE zone.extent_ctr # 0
  <2>1. after.extents = result
    BY <1>4 DEF AddExtentToZoneList
  <2>2. p \in 1 .. Len(list) + 1
    BY <1>1, InsertPositionProperties
  <2>3. /\ Len(result) = Len(list) + 1
        /\ \A i \in 1 .. Len(list) + 1 :
             result[i] = IF i < p THEN list[i] ELSE IF i = p THEN e ELSE list[i - 1]
    BY <1>1, <2>2, InsertAtProperties DEF SortedZoneListInsert
  <2> HIDE DEF p, result, after
  <2> DEFINE old(i) == IF i < p THEN i ELSE i - 1
  <2>4. \A i \in 1 .. Len(list) + 1 : i # p =>
          old(i) \in 1 .. Len(list) /\ result[i] = list[old(i)]
    BY <1>1, <2>2, <2>3
  <2>5. \A i, j \in 1 .. Len(list) + 1 : i # p /\ j # p /\ old(i) = old(j) => i = j
    BY <1>1, <2>2
  <2>6. result[p] = e
    BY <2>2, <2>3
  <2> HIDE DEF old
  <2>7. ASSUME NEW i \in 1 .. Len(list) + 1, NEW j \in 1 .. Len(list) + 1,
               result[i] = result[j]
        PROVE  i = j
    <3>1. CASE i = p \/ j = p
      BY <1>2, <2>4, <2>6, <2>7, <3>1
    <3>2. CASE i # p /\ j # p
      <4>1. list[old(i)] = list[old(j)]
        BY <2>4, <2>7, <3>2
      <4>2. old(i) = old(j)
        BY <2>4, <3>2, <4>1
      <4>3. QED
        BY <2>5, <3>2, <4>2
    <3>3. QED
      BY <3>1, <3>2
  <2>8. QED
    BY <2>1, <2>3, <2>7 DEF after
<1>5. QED
  BY <1>3, <1>4

-----------------------------------------------------------------------------
(* Dividing by the zone size rounds down.                                  *)
LEMMA DivisionBounds ==
  ASSUME NEW x \in Nat, NEW d \in Nat \ {0}
  PROVE  /\ x \div d \in Nat
         /\ d * (x \div d) <= x
         /\ x < d * (x \div d) + d
  OBVIOUS

(* A quotient lies below the number of parts.                              *)
LEMMA QuotientBound ==
  ASSUME NEW n \in Nat, NEW d \in Nat \ {0}, NEW q \in Nat, d * q < n * d
  PROVE  q < n
<1> SUFFICES ASSUME n <= q
             PROVE  FALSE
  OBVIOUS
<1>1. n * d <= q * d
  OBVIOUS
<1>2. QED
  BY <1>1

(* get_zone_number stays within the array of zones, whatever the mask cuts *)
(* off the address.                                                        *)
LEMMA ZoneNumberInRange ==
  ASSUME NEW lba \in ZnsBlocks
  PROVE  GetZoneNumber(lba) \in Zones
<1> DEFINE x == lba % Word
<1>1. /\ NrZones \in Nat \ {0}
      /\ ZoneSize \in Nat \ {0}
      /\ Word \in Nat \ {0}
  BY GeometryAssumption
<1>2. lba \in Nat /\ lba < NrZones * ZoneSize
  BY <1>1 DEF ZnsBlocks
<1>3. x \in Nat /\ x <= lba
  BY <1>1, <1>2
<1> HIDE DEF x
<1> DEFINE q == x \div ZoneSize
<1>4. q \in Nat /\ ZoneSize * q <= x
  BY <1>1, <1>3, DivisionBounds
<1> HIDE DEF q
<1>5. ZoneSize * q < NrZones * ZoneSize
  BY <1>1, <1>2, <1>3, <1>4
<1>6. q < NrZones
  BY <1>1, <1>4, <1>5, QuotientBound
<1>7. QED
  BY <1>1, <1>4, <1>6 DEF q, x, GetZoneNumber, Zones

(* On a device whose addresses fit the mask it is the zone the address is  *)
(* in.                                                                     *)
LEMMA ZoneNumberIsZone ==
  ASSUME DeviceFitsWord, NEW lba \in ZnsBlocks
  PROVE  /\ GetZoneNumber(lba) * ZoneSize <= lba
         /\ lba < (GetZoneNumber(lba) + 1) * ZoneSize
<1>1. /\ NrZones \in Nat \ {0}
      /\ ZoneSize \in Nat \ {0}
      /\ Word \in Nat \ {0}
  BY GeometryAssumption
<1>2. lba \in Nat /\ lba < Word
  BY <1>1 DEF ZnsBlocks, DeviceFitsWord
<1>3. lba % Word = lba
  BY <1>1, <1>2
<1> DEFINE q == lba \div ZoneSize
<1>4. q \in Nat /\ ZoneSize * q <= lba /\ lba < ZoneSize * q + ZoneSize
  BY <1>1, <1>2, DivisionBounds
<1>5. GetZoneNumber(lba) = q
  BY <1>3 DEF GetZoneNumber
<1> HIDE DEF q
<1>6. q * ZoneSize = ZoneSize * q /\ (q + 1) * ZoneSize = ZoneSize * q + ZoneSize
  BY <1>1, <1>4
<1>7. QED
  BY <1>4, <1>5, <1>6

-----------------------------------------------------------------------------
(* The collection.                                                         *)

(* Where the program is: a directory is open while the walk runs, a file   *)
(* is at hand while one is opened or scanned.                              *)
ControlOK ==
  /\ pc \in {"open", "fiemap", "scanned"} => cur \in Files
  /\ isdir /\ Running => Len(stack) >= 1
  /\ pc = "readdir" => isdir
  /\ pc = "fiemap" /\ cur \in Inline => fm_start = 0

ZonesOK == InDeviceOrder(zones) /\ NoneTwice(zones)

(* Every file scanned so far added at most one entry to file_counter_map,  *)
(* the current one when its first extent was recorded.                     *)
CounterMapOK ==
  /\ Len(file_counter_map) <= capacity
  /\ capacity = 0 => nr_files = 0 /\ Len(file_counter_map) = 0
  /\ pc \in {"readdir", "open"} => Len(file_counter_map) <= nr_files
  /\ Scanning /\ ext_ctr = 0 => Len(file_counter_map) <= nr_files
  /\ Scanning => capacity = nr_files + 1
  /\ Scanning /\ ext_ctr > 0 =>
       \E i \in 1 .. Len(file_counter_map) :
         file_counter_map[i].file = NameOf[cur]

(* The scan of the current file has passed the extents recorded for it.    *)
ScanOK ==
  /\ \A e \in Recorded : e.fileID <= nr_files
  /\ pc \in {"readdir", "open"} => \A e \in Recorded : e.fileID < nr_files
  /\ Scanning =>
       /\ \A e \in Recorded :
            e.fileID = nr_files =>
              /\ e.ext_nr < ext_ctr
              /\ e.logical_blk + e.len <= fm_start
              /\ e.file = NameOf[cur]
       /\ \A n \in 0 .. ext_ctr - 1 :
            \E e \in Recorded : e.fileID = nr_files /\ e.ext_nr = n

IInv ==
  /\ TypeOK
  /\ ControlOK
  /\ ZonesOK
  /\ CounterMapOK
  /\ ScanOK
  /\ FileExtentsInOrder
  /\ OneNameEach(zones)

-----------------------------------------------------------------------------
(* Lemmas about the operators of ExtentMap.                                *)

(* What get_extents may rely on in fm_extents[0].                          *)
LEMMA AnswerProperties ==
  ASSUME TypeOK, ControlOK, pc = "fiemap", NEW a \in FiemapAnswers(cur)
  PROVE  /\ cur \in Files
         /\ a.fe_logical \in LogicalBlocks
         /\ a.fe_physical \in Addresses
         /\ a.fe_length \in 0 .. MaxBlocks
         /\ a.inline \in BOOLEAN
         /\ a.last \in BOOLEAN
         /\ fm_start <= a.fe_logical
<1>1. cur \in Files
  BY DEF ControlOK
<1>2. \A l \in Mapped(cur) : l \in LogicalBlocks /\ content[cur][l] \in Addresses
  BY <1>1 DEF Mapped, TypeOK
<1>3. MaxBlocks \in Nat \ {0}
  BY BoundsAssumption
<1>4. CASE cur \in Inline
  <2>1. /\ 0 \in Mapped(cur)
        /\ a = [fe_logical |-> 0, fe_physical |-> content[cur][0], fe_length |-> 0,
                inline |-> TRUE, last |-> TRUE]
    BY <1>4 DEF FiemapAnswers
  <2>2. fm_start = 0
    BY <1>4 DEF ControlOK
  <2>3. QED
    BY <1>1, <1>2, <1>3, <2>1, <2>2
<1>5. CASE cur \notin Inline
  <2>1. PICK run \in LogicalBlocks \X (1 .. MaxBlocks) :
          /\ IsFirstMapped(cur, fm_start, run[1])
          /\ a = [fe_logical |-> run[1], fe_physical |-> content[cur][run[1]],
                  fe_length |-> run[2], inline |-> FALSE,
                  last |-> \A k \in Mapped(cur) : k < run[1] + run[2]]
    BY <1>5 DEF FiemapAnswers
  <2>2. run[1] \in Mapped(cur) /\ fm_start <= run[1]
    BY <2>1 DEF IsFirstMapped
  <2>3. run[2] \in 1 .. MaxBlocks
    OBVIOUS
  <2>4. a.last \in BOOLEAN /\ a.inline \in BOOLEAN
    BY <2>1
  <2>5. /\ a.fe_logical = run[1]
        /\ a.fe_physical = content[cur][run[1]]
        /\ a.fe_length = run[2]
    BY <2>1
  <2>6. QED
    BY <1>1, <1>2, <1>3, <2>2, <2>3, <2>4, <2>5
<1>6. QED
  BY <1>4, <1>5

(* A recorded extent lies on the device, at an index of the zone array.    *)
LEMMA ExtentOfTyped ==
  ASSUME TypeOK, ControlOK, pc = "fiemap", NEW a \in FiemapAnswers(cur), IsRecorded(a)
  PROVE  /\ ExtentOf(a) \in Extent
         /\ ExtentOf(a).zone = GetZoneNumber(ExtentOf(a).phy_blk)
         /\ ExtentOf(a).fileID = nr_files
         /\ ExtentOf(a).ext_nr = ext_ctr
         /\ ExtentOf(a).logical_blk = a.fe_logical
         /\ ExtentOf(a).len = a.fe_length
         /\ ExtentOf(a).file = NameOf[cur]
<1>1. /\ cur \in Files
      /\ a.fe_logical \in LogicalBlocks
      /\ a.fe_physical \in Addresses
      /\ a.fe_length \in 0 .. MaxBlocks
  BY AnswerProperties
<1> DEFINE phy == a.fe_physical - Offset
<1>2. Offset \in Nat /\ NrZones \in Nat \ {0} /\ ZoneSize \in Nat \ {0}
  BY BoundsAssumption, GeometryAssumption
<1>3. phy \in ZnsBlocks
  BY <1>1, <1>2 DEF IsRecorded, Addresses, ZnsBlocks
<1>4. GetZoneNumber(phy) \in Zones
  BY <1>3, ZoneNumberInRange
<1>5. NameOf[cur] \in Names
  BY <1>1, FilesAssumption
<1>6. nr_files \in Nat /\ ext_ctr \in Nat
  BY DEF TypeOK
<1>7. QED
  BY <1>1, <1>3, <1>4, <1>5, <1>6 DEF ExtentOf, Extent

(* increase_file_extent_counter adds at most one entry, and none when the  *)
(* name has one; afterwards the name has one.                              *)
LEMMA IncreaseProperties ==
  ASSUME NEW map \in Seq(FileCounter), NEW name \in Names
  PROVE  LET after == IncreaseFileExtentCounter(map, name)
         IN  /\ after \in Seq(FileCounter)
             /\ Len(after) \in Len(map) .. Len(map) + 1
             /\ (\E i \in 1 .. Len(map) : map[i].file = name) => Len(after) = Len(map)
             /\ \E i \in 1 .. Len(after) : after[i].file = name
<1> DEFINE after == IncreaseFileExtentCounter(map, name)
<1>0. Len(map) \in Nat
  BY LenProperties
<1>1. CASE \E i \in 1 .. Len(map) : map[i].file = name
  <2> DEFINE hits == {i \in 1 .. Len(map) : map[i].file = name}
             k == CHOOSE i \in 1 .. Len(map) :
                    /\ map[i].file = name
                    /\ \A j \in 1 .. i - 1 : map[j].file # name
  <2>1. hits \subseteq Nat /\ hits # {}
    BY <1>0, <1>1
  <2>2. Min(hits) \in hits /\ \A x \in hits : Min(hits) <= x
    BY <2>1, MinProperties
  <2>3. /\ Min(hits) \in 1 .. Len(map)
        /\ map[Min(hits)].file = name
        /\ \A j \in 1 .. Min(hits) - 1 : map[j].file # name
    <3> HIDE DEF hits
    <3>1. Min(hits) \in 1 .. Len(map) /\ map[Min(hits)].file = name
      BY <2>2 DEF hits
    <3>2. ASSUME NEW j \in 1 .. Min(hits) - 1
          PROVE  map[j].file # name
      <4>1. j \in 1 .. Len(map) /\ j < Min(hits)
        BY <1>0, <3>1
      <4>2. j \notin hits
        BY <2>2, <3>1, <4>1
      <4>3. QED
        BY <4>1, <4>2 DEF hits
    <3>3. QED
      BY <3>1, <3>2
  <2>4. k \in 1 .. Len(map) /\ map[k].file = name
    BY <2>3
  <2>5. after = [map EXCEPT ![k].ext_ctr = @ + 1]
    BY <1>1 DEF IncreaseFileExtentCounter
  <2> HIDE DEF k
  <2>6. map[k] \in FileCounter
    BY <2>4, ElementOfSeq
  <2> DEFINE new == [map[k] EXCEPT !.ext_ctr = @ + 1]
  <2>7. new \in FileCounter /\ new.file = name
    BY <2>4, <2>6 DEF FileCounter
  <2>8. after = [map EXCEPT ![k] = new]
    BY <2>5
  <2> HIDE DEF new, after
  <2>9. /\ after \in Seq(FileCounter)
        /\ Len(after) = Len(map)
        /\ after[k] = new
    BY <2>4, <2>7, <2>8, ExceptSeq
  <2>10. QED
    BY <1>0, <1>1, <2>4, <2>7, <2>9 DEF after
<1>2. CASE ~ \E i \in 1 .. Len(map) : map[i].file = name
  <2> DEFINE new == [file |-> name, ext_ctr |-> 1]
  <2>1. after = Append(map, new)
    BY <1>2 DEF IncreaseFileExtentCounter
  <2>2. new \in FileCounter /\ new.file = name
    BY DEF FileCounter
  <2> HIDE DEF new, after
  <2>3. /\ after \in Seq(FileCounter)
        /\ Len(after) = Len(map) + 1
        /\ after[Len(map) + 1] = new
    BY <2>1, <2>2, AppendProperties
  <2>4. QED
    BY <1>0, <1>2, <2>2, <2>3 DEF after
<1>3. QED
  BY <1>1, <1>2

(* What the state says of the extents in the lists.                        *)
LEMMA RecordedTyped ==
  ASSUME TypeOK
  PROVE  /\ Recorded \subseteq Extent
         /\ PhyBlkIsNat(Extent)
<1>1. \A z \in Zones : zones[z].extents \in Seq(Extent)
  BY DEF TypeOK
<1>2. \A list \in Seq(Extent) : Range(list) \subseteq Extent
  BY DEF Range
<1>3. Recorded \subseteq Extent
  BY <1>1, <1>2 DEF Recorded, ExtentsIn
<1>4. NrZones * ZoneSize \in Nat
  BY GeometryAssumption
<1>5. PhyBlkIsNat(Extent)
  BY <1>4 DEF PhyBlkIsNat, Extent, ZnsBlocks
<1>6. QED
  BY <1>3, <1>5

(* Recording an extent adds it to the list of its zone and to no other.    *)
LEMMA RecordProperties ==
  ASSUME TypeOK, ControlOK, ZonesOK, pc = "fiemap",
         NEW a \in FiemapAnswers(cur), IsRecorded(a), Record(ExtentOf(a)),
         ExtentOf(a) \notin Recorded
  PROVE  /\ zones' \in [Zones -> [extents : Seq(Extent), extent_ctr : Nat]]
         /\ ZonesOK'
         /\ Recorded' = Recorded \cup {ExtentOf(a)}
<1> DEFINE e == ExtentOf(a)
           after == AddExtentToZoneList(zones[e.zone], e)
<1>1. e \in Extent /\ e.zone = GetZoneNumber(e.phy_blk)
  BY ExtentOfTyped
<1>2. e.zone \in Zones
  BY <1>1 DEF Extent
<1>3. zones' = [zones EXCEPT ![e.zone] = after]
  BY DEF Record
<1>4. zones \in [Zones -> [extents : Seq(Extent), extent_ctr : Nat]]
  BY DEF TypeOK
<1> HIDE DEF e
<1>5. /\ zones[e.zone] \in [extents : Seq(Extent), extent_ctr : Nat]
      /\ zones[e.zone].extent_ctr = Len(zones[e.zone].extents)
      /\ SortedByPhyBlk(zones[e.zone].extents)
      /\ \A d \in Range(zones[e.zone].extents) :
           d.zone = e.zone /\ GetZoneNumber(d.phy_blk) = e.zone
      /\ \A i, j \in 1 .. Len(zones[e.zone].extents) :
           zones[e.zone].extents[i] = zones[e.zone].extents[j] => i = j
  BY <1>2, <1>4 DEF ZonesOK, InDeviceOrder, NoneTwice
<1>6. PhyBlkIsNat(Extent)
  BY RecordedTyped
<1>7. /\ after \in [extents : Seq(Extent), extent_ctr : Nat]
      /\ after.extent_ctr = Len(after.extents)
      /\ SortedByPhyBlk(after.extents)
      /\ Range(after.extents) = Range(zones[e.zone].extents) \cup {e}
  BY <1>1, <1>5, <1>6, AddExtentProperties
<1>13. \A i, j \in 1 .. Len(after.extents) : after.extents[i] = after.extents[j] => i = j
  <2>1. e \notin Range(zones[e.zone].extents)
    BY <1>2 DEF Recorded, ExtentsIn, e
  <2>2. QED
    BY <1>1, <1>5, <1>6, <2>1, AddExtentOnce
<1> HIDE DEF after
<1>8. zones' \in [Zones -> [extents : Seq(Extent), extent_ctr : Nat]]
  BY <1>3, <1>4, <1>7
<1>9. zones'[e.zone] = after /\ \A z \in Zones \ {e.zone} : zones'[z] = zones[z]
  BY <1>2, <1>3, <1>4
<1>10. ZonesOK'
  <2> SUFFICES ASSUME NEW z \in Zones
               PROVE  /\ zones'[z].extent_ctr = Len(zones'[z].extents)
                      /\ SortedByPhyBlk(zones'[z].extents)
                      /\ \A d \in Range(zones'[z].extents) :
                           d.zone = z /\ GetZoneNumber(d.phy_blk) = z
                      /\ \A i, j \in 1 .. Len(zones'[z].extents) :
                           zones'[z].extents[i] = zones'[z].extents[j] => i = j
    BY DEF ZonesOK, InDeviceOrder, NoneTwice
  <2>1. CASE z = e.zone
    <3>1. \A d \in Range(after.extents) : d.zone = z /\ GetZoneNumber(d.phy_blk) = z
      BY <1>1, <1>5, <1>7, <2>1
    <3>2. QED
      BY <1>7, <1>9, <1>13, <2>1, <3>1
  <2>2. CASE z # e.zone
    BY <1>9, <2>2 DEF ZonesOK, InDeviceOrder, NoneTwice
  <2>3. QED
    BY <2>1, <2>2
<1>11. Recorded' = Recorded \cup {e}
  <2>1. \A z \in Zones : Range(zones'[z].extents) =
          IF z = e.zone THEN Range(zones[z].extents) \cup {e} ELSE Range(zones[z].extents)
    BY <1>7, <1>9
  <2>2. QED
    BY <1>2, <2>1 DEF Recorded, ExtentsIn
<1>12. QED
  BY <1>8, <1>10, <1>11 DEF e

(* An extent gets a number no other of its file has.                       *)
LEMMA ExtentIsNew ==
  ASSUME IInv, pc = "fiemap", NEW a \in FiemapAnswers(cur), IsRecorded(a)
  PROVE  ExtentOf(a) \notin Recorded
<1>1. TypeOK /\ ControlOK
  BY DEF IInv
<1>2. ExtentOf(a).fileID = nr_files /\ ExtentOf(a).ext_nr = ext_ctr
  BY <1>1, ExtentOfTyped
<1>3. \A d \in Recorded : d.fileID = nr_files => d.ext_nr < ext_ctr
  BY DEF IInv, ScanOK, Scanning
<1>4. ext_ctr \in Nat
  BY <1>1 DEF TypeOK
<1> HIDE DEF Recorded
<1>5. QED
  BY <1>2, <1>3, <1>4

(* st_blocks of a file is a number.                                        *)
LEMMA StBlocksIsNat ==
  ASSUME NEW f
  PROVE  StBlocks(f) \in Nat
<1>1. LogicalBlocks = 0 .. MaxBlocks - 1 /\ MaxBlocks - 1 \in Int
  BY BoundsAssumption DEF LogicalBlocks
<1>2. IsFiniteSet(LogicalBlocks)
  BY <1>1, FS_Interval
<1>3. Mapped(f) \subseteq LogicalBlocks
  BY DEF Mapped
<1>4. Cardinality(Mapped(f)) \in Nat
  BY <1>2, <1>3, FS_Subset, FS_CardinalityType
<1>5. QED
  BY <1>4 DEF StBlocks

(* What the actions do to the open directories.                            *)
LEMMA StackProperties ==
  ASSUME TypeOK, ControlOK, pc = "readdir"
  PROVE  /\ Len(stack) \in Nat
         /\ Len(stack) >= 1
         /\ Top \in Frame
         /\ \A e : TakeEntry(e) \in Seq(Frame) /\ Len(TakeEntry(e)) = Len(stack)
         /\ SubSeq(stack, 1, Len(stack) - 1) \in Seq(Frame)
         /\ Len(SubSeq(stack, 1, Len(stack) - 1)) = Len(stack) - 1
<1>1. /\ stack \in Seq(Frame)
      /\ Len(stack) \in Nat
      /\ Len(stack) >= 1
  BY DEF TypeOK, ControlOK, Running
<1>2. Top \in Frame
  BY <1>1, ElementOfSeq DEF Top
<1>3. ASSUME NEW e
      PROVE  TakeEntry(e) \in Seq(Frame) /\ Len(TakeEntry(e)) = Len(stack)
  <2> DEFINE new == [stack[Len(stack)] EXCEPT !.left = @ \ {e}]
  <2>1. stack[Len(stack)] \in Frame
    BY <1>2 DEF Top
  <2>2. new \in Frame
    BY <2>1 DEF Frame
  <2>3. TakeEntry(e) = [stack EXCEPT ![Len(stack)] = new]
    BY DEF TakeEntry
  <2> HIDE DEF new
  <2>4. QED
    BY <1>1, <2>2, <2>3, ExceptSeq
<1>4. /\ SubSeq(stack, 1, Len(stack) - 1) \in Seq(Frame)
      /\ Len(SubSeq(stack, 1, Len(stack) - 1)) = Len(stack) - 1
  BY <1>1, SubSeqProperties, SMTT(30)
<1>5. QED
  BY <1>1, <1>2, <1>3, <1>4

-----------------------------------------------------------------------------
(* The initial states.                                                     *)

LEMMA EntriesTyped ==
  ASSUME exists \subseteq Files, NEW d
  PROVE  Entries(d) \in SUBSET (Files \cup Dirs)
BY DEF Entries

LEMMA InitInv == Init => IInv
<1> SUFFICES ASSUME Init
             PROVE  IInv
  OBVIOUS
<1>1. Recorded = {}
  BY DEF Init, Recorded, ExtentsIn, EmptyZone, Range
<1>2. stack \in Seq(Frame) /\ (isdir => Len(stack) = 1)
  <2>1. Entries(Root) \in SUBSET (Files \cup Dirs)
    BY EntriesTyped DEF Init
  <2>2. [dir |-> Root, left |-> Entries(Root)] \in Frame
    BY <2>1, FilesAssumption DEF Frame
  <2> DEFINE top == [dir |-> Root, left |-> Entries(Root)]
  <2>3. \/ stack = <<top>>
        \/ stack = <<>> /\ ~isdir
    BY DEF Init
  <2> HIDE DEF top
  <2>4. <<top>> \in Seq(Frame) /\ Len(<<top>>) = 1 /\ <<>> \in Seq(Frame)
    BY <2>2 DEF top
  <2>5. QED
    BY <2>3, <2>4
<1>3. zones \in [Zones -> [extents : Seq(Extent), extent_ctr : Nat]]
  BY DEF Init, EmptyZone
<1>4. content \in [Files -> [LogicalBlocks -> Addresses \cup {Hole}]]
  BY BoundsAssumption DEF Init
<1>5. /\ isdir \in BOOLEAN
      /\ pc = IF isdir THEN "readdir" ELSE "open"
      /\ cur \in Files \cup {NoFile}
      /\ ~isdir => cur \in Files
  BY DEF Init
<1>6. TypeOK
  <2>1. changes \in 0 .. MaxChanges /\ fm_start \in 0 .. 2 * MaxBlocks
    BY BoundsAssumption DEF Init
  <2>2. file_counter_map \in Seq(FileCounter) /\ scanned \in Seq(Files)
    BY DEF Init
  <2>3. /\ reason \in Messages
        /\ exists \subseteq Files
        /\ touched \subseteq Files
        /\ {st_blocks, ext_ctr, extent_ctr, zone_ctr, cum_extent_size,
            inlined_extent_ctr, nr_files, capacity} \subseteq Nat
    BY DEF Init, Messages
  <2>4. QED
    BY <1>2, <1>3, <1>4, <1>5, <2>1, <2>2, <2>3 DEF TypeOK
<1>11. ControlOK
  BY <1>2, <1>5 DEF Init, ControlOK, Running
<1>7. ZonesOK
  BY DEF Init, ZonesOK, InDeviceOrder, NoneTwice, EmptyZone, SortedByPhyBlk, Range
<1>8. CounterMapOK
  BY DEF Init, CounterMapOK, Scanning
<1>9. ScanOK /\ FileExtentsInOrder /\ OneNameEach(zones)
  BY <1>1 DEF Init, ScanOK, Scanning, FileExtentsInOrder, OneNameEach, Recorded
<1>10. QED
  BY <1>6, <1>7, <1>8, <1>9, <1>11 DEF IInv

-----------------------------------------------------------------------------
(* The steps.                                                              *)

(* A change of the file system leaves the program alone.                   *)
LEMMA FileSystemType ==
  ASSUME TypeOK, FileSystem
  PROVE  /\ content' \in [Files -> [LogicalBlocks -> Addresses \cup {Hole}]]
         /\ exists' \subseteq Files
         /\ changes' \in 0 .. MaxChanges
         /\ touched' \subseteq Files
         /\ UNCHANGED <<walk_vars, file_vars, zone_vars, ctr_vars>>
<1>1. PICK f \in Files : MoveBlock(f) \/ WriteBlock(f) \/ Truncate(f) \/ Unlink(f)
  BY DEF FileSystem
<1>2. /\ content \in [Files -> [LogicalBlocks -> Addresses \cup {Hole}]]
      /\ exists \subseteq Files
      /\ touched \subseteq Files
      /\ changes \in Nat
  BY BoundsAssumption DEF TypeOK
<1>3. Change(f) /\ exists' \subseteq Files
  BY <1>1, <1>2 DEF MoveBlock, WriteBlock, Truncate, Unlink
<1>4. /\ changes' \in 0 .. MaxChanges
      /\ touched' \subseteq Files
      /\ UNCHANGED <<walk_vars, file_vars, zone_vars, ctr_vars>>
  BY <1>2, <1>3, BoundsAssumption DEF Change
<1>5. content' \in [Files -> [LogicalBlocks -> Addresses \cup {Hole}]]
  <2>1. CASE MoveBlock(f)
    BY <1>2, <2>1 DEF MoveBlock, Mapped
  <2>2. CASE WriteBlock(f)
    BY <1>2, <2>2 DEF WriteBlock
  <2>3. CASE Truncate(f)
    BY <1>2, <2>3 DEF Truncate
  <2>4. CASE Unlink(f)
    BY <1>2, <2>4 DEF Unlink
  <2>5. QED
    BY <1>1, <2>1, <2>2, <2>3, <2>4
<1>6. QED
  BY <1>3, <1>4, <1>5

(* What the two actions that take an answer of FIEMAP have in common.      *)
LEMMA AdvanceType ==
  ASSUME TypeOK, ControlOK, pc = "fiemap", NEW a \in FiemapAnswers(cur), Advance(a)
  PROVE  /\ pc' \in {"fiemap", "scanned"}
         /\ fm_start' = a.fe_logical + a.fe_length
         /\ fm_start' \in 0 .. 2 * MaxBlocks
         /\ inlined_extent_ctr' \in Nat
<1>1. a.fe_logical \in LogicalBlocks /\ a.fe_length \in 0 .. MaxBlocks
  BY AnswerProperties
<1>2. MaxBlocks \in Nat \ {0}
  BY BoundsAssumption
<1>3. fm_start' = a.fe_logical + a.fe_length
  BY DEF Advance
<1>4. fm_start' \in 0 .. 2 * MaxBlocks
  BY <1>1, <1>2, <1>3 DEF LogicalBlocks
<1>5. QED
  BY <1>3, <1>4 DEF Advance, TypeOK

LEMMA TypeStep ==
  ASSUME IInv, [Next]_vars
  PROVE  TypeOK'
<1>1. TypeOK /\ ControlOK /\ ZonesOK
  BY DEF IInv
<1>2. CASE ReadDirFile
  <2>1. PICK f \in Files : stack' = TakeEntry(f) /\ cur' = f
    BY <1>2 DEF ReadDirFile
  <2>2. stack' \in Seq(Frame)
    BY <1>1, <1>2, <2>1, StackProperties DEF ReadDirFile
  <2>3. QED
    BY <1>1, <1>2, <2>1, <2>2 DEF ReadDirFile, TypeOK, fs_vars, file_vars, zone_vars, ctr_vars
<1>3. CASE ReadDirDirectory
  <2>1. PICK d \in Dirs :
          stack' = Append(TakeEntry(d), [dir |-> d, left |-> Entries(d)])
    BY <1>3 DEF ReadDirDirectory
  <2>2. TakeEntry(d) \in Seq(Frame)
    BY <1>1, <1>3, StackProperties DEF ReadDirDirectory
  <2>3. [dir |-> d, left |-> Entries(d)] \in Frame
    BY <1>1, EntriesTyped DEF Frame, TypeOK
  <2>4. stack' \in Seq(Frame)
    BY <2>1, <2>2, <2>3, AppendProperties
  <2>5. QED
    BY <1>1, <1>3, <2>4 DEF ReadDirDirectory, TypeOK, fs_vars, file_vars, zone_vars, ctr_vars
<1>4. CASE ReadDirEnd
  <2>1. stack' \in Seq(Frame)
    BY <1>1, <1>4, StackProperties DEF ReadDirEnd
  <2>2. QED
    BY <1>1, <1>4, <2>1 DEF ReadDirEnd, TypeOK, fs_vars, file_vars, zone_vars, ctr_vars
<1>5. CASE OpenMissing
  BY <1>1, <1>5 DEF OpenMissing, Exit, Messages, TypeOK, fs_vars, file_vars, zone_vars, ctr_vars
<1>6. CASE OpenFile
  <2>1. cur \in Files /\ MaxBlocks \in Nat
    BY <1>1, <1>6, BoundsAssumption DEF ControlOK, OpenFile
  <2>2. st_blocks' \in Nat
    BY <1>6, StBlocksIsNat DEF OpenFile
  <2>3. capacity' \in Nat
    BY <1>1, <1>6 DEF OpenFile, NewCapacity, TypeOK
  <2>4. scanned' \in Seq(Files)
    BY <1>1, <1>6, <2>1 DEF OpenFile, TypeOK
  <2>5. QED
    BY <1>1, <1>6, <2>1, <2>2, <2>3, <2>4 DEF OpenFile, TypeOK, fs_vars, zone_vars
<1>7. CASE FiemapEmpty
  BY <1>1, <1>7 DEF FiemapEmpty, Exit, Messages, TypeOK, fs_vars, file_vars, zone_vars, ctr_vars
<1>8. CASE FiemapSkip
  <2>1. /\ pc' \in {"fiemap", "scanned"}
        /\ fm_start' \in 0 .. 2 * MaxBlocks
        /\ inlined_extent_ctr' \in Nat
    BY <1>1, <1>8, AdvanceType DEF FiemapSkip
  <2>2. QED
    BY <1>1, <1>8, <2>1 DEF FiemapSkip, TypeOK, fs_vars, zone_vars
<1>9. CASE FiemapRecord
  <2>1. PICK a \in FiemapAnswers(cur) :
          IsRecorded(a) /\ Record(ExtentOf(a)) /\ Advance(a)
    BY <1>9 DEF FiemapRecord
  <2>2. pc = "fiemap"
    BY <1>9 DEF FiemapRecord
  <2>3. /\ pc' \in {"fiemap", "scanned"}
        /\ fm_start' \in 0 .. 2 * MaxBlocks
        /\ inlined_extent_ctr' \in Nat
    BY <1>1, <2>1, <2>2, AdvanceType
  <2>4. zones' \in [Zones -> [extents : Seq(Extent), extent_ctr : Nat]]
    BY <1>1, <2>1, <2>2, ExtentIsNew, RecordProperties
  <2>5. ExtentOf(a) \in Extent
    BY <1>1, <2>1, <2>2, ExtentOfTyped
  <2>6. ExtentOf(a).len \in Nat /\ ExtentOf(a).file \in Names
    BY <2>5, BoundsAssumption DEF Extent
  <2>7. file_counter_map' \in Seq(FileCounter)
    BY <1>1, <2>1, <2>6, IncreaseProperties DEF Record, TypeOK
  <2>8. /\ cum_extent_size' \in Nat
        /\ ext_ctr' \in Nat
        /\ extent_ctr' \in Nat
        /\ zone_ctr' \in Nat
    BY <1>1, <2>1, <2>6 DEF Record, TypeOK
  <2>9. QED
    BY <1>1, <1>9, <2>3, <2>4, <2>7, <2>8 DEF FiemapRecord, TypeOK, fs_vars
<1>10. CASE FileScanned
  <2>1. nr_files' \in Nat
    <3>1. nr_files' = nr_files + 1
      BY <1>10 DEF FileScanned
    <3>2. QED
      BY <1>1, <3>1 DEF TypeOK
  <2>2. /\ pc' \in {"readdir", "done", "failed"}
        /\ reason' \in Messages
        /\ cur' \in Files \cup {NoFile}
    BY <1>1, <1>10 DEF FileScanned, Exit, Messages, TypeOK
  <2>3. QED
    BY <1>1, <1>10, <2>1, <2>2 DEF FileScanned, TypeOK, fs_vars, file_vars, zone_vars
<1>11. CASE SyscallFails
  BY <1>1, <1>11 DEF SyscallFails, OpenDirFails, OpenFails, FiemapFails, Exit, Messages,
    TypeOK, fs_vars, file_vars, zone_vars, ctr_vars
<1>12. CASE FileSystem
  BY <1>1, <1>12, FileSystemType
    DEF TypeOK, walk_vars, file_vars, zone_vars, ctr_vars
<1>13. CASE UNCHANGED vars
  BY <1>1, <1>13 DEF TypeOK, vars, fs_vars, walk_vars, file_vars, zone_vars, ctr_vars
<1>14. QED
  BY <1>2, <1>3, <1>4, <1>5, <1>6, <1>7, <1>8, <1>9, <1>10, <1>11, <1>12, <1>13
    DEF Next, Steps, Finished

LEMMA ControlStep ==
  ASSUME IInv, [Next]_vars
  PROVE  ControlOK'
<1>1. TypeOK /\ ControlOK
  BY DEF IInv
<1>2. CASE ReadDirFile
  <2>1. cur' \in Files /\ pc' = "open" /\ isdir'
    BY <1>1, <1>2 DEF ReadDirFile, ControlOK
  <2>2. Len(stack') >= 1
    BY <1>1, <1>2, StackProperties DEF ReadDirFile
  <2>3. QED
    BY <2>1, <2>2 DEF ControlOK
<1>3. CASE ReadDirDirectory
  <2>1. PICK d \in Dirs :
          stack' = Append(TakeEntry(d), [dir |-> d, left |-> Entries(d)])
    BY <1>3 DEF ReadDirDirectory
  <2>2. TakeEntry(d) \in Seq(Frame) /\ Len(TakeEntry(d)) >= 1
    BY <1>1, <1>3, StackProperties DEF ReadDirDirectory
  <2>3. [dir |-> d, left |-> Entries(d)] \in Frame
    BY <1>1, EntriesTyped DEF Frame, TypeOK
  <2>4. Len(stack') >= 1
    BY <2>1, <2>2, <2>3, AppendProperties
  <2>5. QED
    BY <1>1, <1>3, <2>4 DEF ReadDirDirectory, ControlOK
<1>4. CASE ReadDirEnd
  <2>1. Len(stack) \in Nat /\ Len(stack) >= 1 /\ Len(stack') = Len(stack) - 1
    BY <1>1, <1>4, StackProperties DEF ReadDirEnd
  <2>2. pc' = "readdir" => Len(stack') >= 1
    BY <1>4, <2>1 DEF ReadDirEnd
  <2>3. QED
    BY <1>1, <1>4, <2>2 DEF ReadDirEnd, ControlOK, Running
<1>5. CASE OpenMissing
  BY <1>1, <1>5 DEF OpenMissing, Exit, ControlOK, Running
<1>6. CASE OpenFile
  BY <1>1, <1>6 DEF OpenFile, ControlOK, Running
<1>7. CASE FiemapEmpty
  BY <1>1, <1>7 DEF FiemapEmpty, Exit, ControlOK, Running
<1>8. ASSUME FiemapSkip \/ FiemapRecord
      PROVE  ControlOK'
  <2>1. /\ pc = "fiemap"
        /\ UNCHANGED <<isdir, stack, cur>>
    BY <1>8 DEF FiemapSkip, FiemapRecord
  <2>2. PICK a \in FiemapAnswers(cur) : Advance(a)
    BY <1>8 DEF FiemapSkip, FiemapRecord
  <2>3. pc' \in {"fiemap", "scanned"}
    BY <2>2 DEF Advance
  <2>4. cur \in Inline => a.last
    BY <2>2 DEF FiemapAnswers
  <2>5. cur \in Inline => pc' = "scanned"
    BY <2>2, <2>4 DEF Advance
  <2>6. QED
    BY <1>1, <2>1, <2>3, <2>5 DEF ControlOK, Running
<1>9. CASE FileScanned
  BY <1>1, <1>9 DEF FileScanned, Exit, ControlOK, Running
<1>10. CASE SyscallFails
  BY <1>1, <1>10 DEF SyscallFails, OpenDirFails, OpenFails, FiemapFails, Exit,
    ControlOK, Running
<1>11. CASE FileSystem
  BY <1>1, <1>11, FileSystemType DEF ControlOK, Running, walk_vars, file_vars
<1>12. CASE UNCHANGED vars
  BY <1>1, <1>12 DEF ControlOK, Running, vars, walk_vars, file_vars
<1>13. QED
  BY <1>2, <1>3, <1>4, <1>5, <1>6, <1>7, <1>8, <1>9, <1>10, <1>11, <1>12
    DEF Next, Steps, Finished

(* Only FiemapRecord touches the zone lists.                               *)
LEMMA OtherSteps ==
  ASSUME TypeOK, [Next]_vars, ~FiemapRecord
  PROVE  zones' = zones /\ Recorded' = Recorded
<1>1. CASE FileSystem
  BY <1>1, FileSystemType DEF zone_vars, Recorded, ExtentsIn
<1>2. CASE ~FileSystem
  BY <1>2 DEF Next, Steps, SyscallFails, Finished, ReadDirFile, ReadDirDirectory,
    ReadDirEnd, OpenMissing, OpenFile, FiemapEmpty, FiemapSkip, FileScanned,
    OpenDirFails, OpenFails, FiemapFails, vars, zone_vars, Recorded, ExtentsIn
<1>3. QED
  BY <1>1, <1>2

(* The extent that FiemapRecord adds, and what it is.                      *)
LEMMA RecordStep ==
  ASSUME IInv, FiemapRecord
  PROVE  \E e \in Extent :
           /\ Recorded' = Recorded \cup {e}
           /\ e.fileID = nr_files
           /\ e.file = NameOf[cur]
           /\ e.ext_nr = ext_ctr
           /\ fm_start <= e.logical_blk
           /\ fm_start' = e.logical_blk + e.len
           /\ file_counter_map' = IncreaseFileExtentCounter(file_counter_map, NameOf[cur])
           /\ ext_ctr' = ext_ctr + 1
           /\ ZonesOK'
<1>1. TypeOK /\ ControlOK /\ ZonesOK
  BY DEF IInv
<1>2. /\ pc = "fiemap"
      /\ \E a \in FiemapAnswers(cur) :
           IsRecorded(a) /\ Record(ExtentOf(a)) /\ Advance(a)
  BY DEF FiemapRecord
<1>3. PICK a \in FiemapAnswers(cur) :
        IsRecorded(a) /\ Record(ExtentOf(a)) /\ Advance(a)
  BY <1>2
<1>4. /\ ExtentOf(a) \in Extent
      /\ ExtentOf(a).fileID = nr_files
      /\ ExtentOf(a).ext_nr = ext_ctr
      /\ ExtentOf(a).logical_blk = a.fe_logical
      /\ ExtentOf(a).len = a.fe_length
      /\ ExtentOf(a).file = NameOf[cur]
  BY <1>1, <1>2, <1>3, ExtentOfTyped
<1>5. fm_start <= a.fe_logical /\ fm_start' = a.fe_logical + a.fe_length
  BY <1>1, <1>2, <1>3, AnswerProperties, AdvanceType
<1>6. ZonesOK' /\ Recorded' = Recorded \cup {ExtentOf(a)}
  <2>1. ExtentOf(a) \notin Recorded
    BY <1>2, <1>3, ExtentIsNew
  <2>2. QED
    BY <1>1, <1>2, <1>3, <2>1, RecordProperties
<1>7. /\ file_counter_map' = IncreaseFileExtentCounter(file_counter_map, ExtentOf(a).file)
      /\ ext_ctr' = ext_ctr + 1
  BY <1>3 DEF Record
<1> HIDE DEF ZonesOK
<1>8. QED
  BY <1>4, <1>5, <1>6, <1>7

LEMMA ZonesStep ==
  ASSUME IInv, [Next]_vars
  PROVE  ZonesOK'
<1>1. CASE FiemapRecord
  BY <1>1, RecordStep
<1>2. CASE ~FiemapRecord
  BY <1>2, OtherSteps DEF IInv, ZonesOK
<1>3. QED
  BY <1>1, <1>2

LEMMA CounterMapStep ==
  ASSUME IInv, [Next]_vars
  PROVE  CounterMapOK'
<1>1. TypeOK /\ ControlOK /\ CounterMapOK
  BY DEF IInv
<1>2. /\ nr_files \in Nat
      /\ capacity \in Nat
      /\ ext_ctr \in Nat
      /\ file_counter_map \in Seq(FileCounter)
      /\ Len(file_counter_map) \in Nat
  BY <1>1 DEF TypeOK
<1>3. CASE ReadDirFile \/ ReadDirDirectory \/ ReadDirEnd \/ OpenMissing \/ FiemapEmpty
  BY <1>1, <1>3 DEF ReadDirFile, ReadDirDirectory, ReadDirEnd, OpenMissing, FiemapEmpty,
    Exit, CounterMapOK, Scanning, file_vars, ctr_vars
<1>4. CASE OpenFile
  <2>1. /\ pc = "open"
        /\ pc' = "fiemap"
        /\ ext_ctr' = 0
        /\ capacity' = nr_files + 1
        /\ nr_files' = nr_files
        /\ file_counter_map' = file_counter_map
    BY <1>1, <1>4 DEF OpenFile, NewCapacity, CounterMapOK
  <2>2. Len(file_counter_map) <= nr_files
    BY <1>1, <2>1 DEF CounterMapOK
  <2>3. QED
    BY <1>2, <2>1, <2>2 DEF CounterMapOK, Scanning
<1>5. CASE FiemapSkip
  <2>1. /\ pc = "fiemap"
        /\ pc' \in {"fiemap", "scanned"}
        /\ UNCHANGED <<cur, ext_ctr, nr_files, file_counter_map, capacity>>
    BY <1>5 DEF FiemapSkip, Advance
  <2>2. QED
    BY <1>1, <2>1 DEF CounterMapOK, Scanning
<1>6. CASE FiemapRecord
  <2>1. /\ pc = "fiemap"
        /\ pc' \in {"fiemap", "scanned"}
        /\ UNCHANGED <<cur, nr_files, capacity>>
    BY <1>6 DEF FiemapRecord, Advance
  <2>2. /\ file_counter_map' = IncreaseFileExtentCounter(file_counter_map, NameOf[cur])
        /\ ext_ctr' = ext_ctr + 1
    BY <1>6, RecordStep
  <2>3. NameOf[cur] \in Names
    BY <1>1, <2>1, FilesAssumption DEF ControlOK
  <2>4. /\ Len(file_counter_map') \in Len(file_counter_map) .. Len(file_counter_map) + 1
        /\ (\E i \in 1 .. Len(file_counter_map) : file_counter_map[i].file = NameOf[cur])
             => Len(file_counter_map') = Len(file_counter_map)
        /\ \E i \in 1 .. Len(file_counter_map') : file_counter_map'[i].file = NameOf[cur]
    BY <1>2, <2>2, <2>3, IncreaseProperties
  <2>5. capacity = nr_files + 1
    BY <1>1, <2>1 DEF CounterMapOK, Scanning
  <2>6. Len(file_counter_map') <= capacity
    <3>1. CASE ext_ctr = 0
      BY <1>1, <1>2, <2>1, <2>4, <2>5, <3>1 DEF CounterMapOK, Scanning
    <3>2. CASE ext_ctr > 0
      BY <1>1, <1>2, <2>1, <2>4, <3>2 DEF CounterMapOK, Scanning
    <3>3. QED
      BY <1>2, <3>1, <3>2
  <2>7. QED
    BY <1>2, <2>1, <2>2, <2>4, <2>5, <2>6 DEF CounterMapOK, Scanning
<1>7. CASE FileScanned
  <2>1. /\ pc = "scanned"
        /\ pc' \in {"readdir", "done", "failed"}
        /\ nr_files' = nr_files + 1
        /\ UNCHANGED <<file_counter_map, capacity>>
    BY <1>7 DEF FileScanned, Exit
  <2>2. capacity = nr_files + 1 /\ Len(file_counter_map) <= capacity
    BY <1>1, <2>1 DEF CounterMapOK, Scanning
  <2>3. QED
    BY <1>2, <2>1, <2>2 DEF CounterMapOK, Scanning
<1>8. CASE SyscallFails
  BY <1>1, <1>8 DEF SyscallFails, OpenDirFails, OpenFails, FiemapFails, Exit,
    CounterMapOK, Scanning, file_vars, ctr_vars
<1>9. CASE FileSystem
  BY <1>1, <1>9, FileSystemType
    DEF CounterMapOK, Scanning, walk_vars, file_vars, ctr_vars
<1>10. CASE UNCHANGED vars
  BY <1>1, <1>10 DEF CounterMapOK, Scanning, vars, walk_vars, file_vars, ctr_vars
<1>11. QED
  BY <1>3, <1>4, <1>5, <1>6, <1>7, <1>8, <1>9, <1>10 DEF Next, Steps, Finished

LEMMA ScanStep ==
  ASSUME IInv, [Next]_vars
  PROVE  ScanOK'
<1>1. TypeOK /\ ScanOK
  BY DEF IInv
<1>2. /\ nr_files \in Nat
      /\ ext_ctr \in Nat
      /\ fm_start \in Nat
  BY <1>1, BoundsAssumption DEF TypeOK
<1>3. ASSUME NEW e \in Recorded
      PROVE  /\ e.fileID \in Nat
             /\ e.ext_nr \in Nat
             /\ e.logical_blk \in Nat
             /\ e.len \in Nat
  <2>1. e \in Extent
    BY <1>1, RecordedTyped
  <2>2. QED
    BY <2>1, BoundsAssumption DEF Extent, LogicalBlocks
<1>4. ~FiemapRecord => Recorded' = Recorded
  BY <1>1, OtherSteps
<1> HIDE DEF Recorded
<1>5. CASE ReadDirFile \/ ReadDirDirectory \/ ReadDirEnd \/ OpenMissing \/ FiemapEmpty
  <2>1. ~FiemapRecord
    BY <1>5 DEF FiemapRecord, FiemapEmpty, ReadDirFile, ReadDirDirectory, ReadDirEnd,
      OpenMissing
  <2>2. nr_files' = nr_files /\ pc' \notin {"fiemap", "scanned"}
    BY <1>5 DEF ReadDirFile, ReadDirDirectory, ReadDirEnd, OpenMissing, FiemapEmpty,
      Exit, ctr_vars
  <2>3. pc' \in {"readdir", "open"} => pc \in {"readdir", "open"}
    BY <1>5 DEF ReadDirFile, ReadDirDirectory, ReadDirEnd, OpenMissing, FiemapEmpty, Exit
  <2>4. QED
    BY <1>1, <1>4, <2>1, <2>2, <2>3 DEF ScanOK, Scanning
<1>6. CASE OpenFile
  <2>1. /\ pc = "open"
        /\ pc' = "fiemap"
        /\ ext_ctr' = 0
        /\ nr_files' = nr_files
        /\ ~FiemapRecord
    BY <1>6 DEF OpenFile, FiemapRecord
  <2>2. \A e \in Recorded : e.fileID < nr_files
    BY <1>1, <2>1 DEF ScanOK
  <2>3. QED
    BY <1>2, <1>3, <1>4, <2>1, <2>2 DEF ScanOK, Scanning
<1>7. CASE FiemapSkip /\ ~FiemapRecord
  <2>1. PICK a \in FiemapAnswers(cur) : Advance(a)
    BY <1>7 DEF FiemapSkip
  <2>2. /\ pc = "fiemap"
        /\ UNCHANGED <<ext_ctr, nr_files, cur>>
    BY <1>7 DEF FiemapSkip
  <2>3. pc' \in {"fiemap", "scanned"} /\ fm_start' = a.fe_logical + a.fe_length
    BY <2>1 DEF Advance
  <2>4. /\ fm_start <= a.fe_logical
        /\ a.fe_logical \in Nat
        /\ a.fe_length \in Nat
    BY <1>1, <2>1, <2>2, AnswerProperties, BoundsAssumption DEF IInv, LogicalBlocks
  <2>5. fm_start <= fm_start' /\ fm_start' \in Nat
    BY <1>2, <2>3, <2>4
  <2>6. QED
    BY <1>1, <1>2, <1>3, <1>4, <1>7, <2>2, <2>3, <2>5 DEF ScanOK, Scanning
<1>8. CASE FiemapRecord
  <2>1. PICK e \in Extent :
          /\ Recorded' = Recorded \cup {e}
          /\ e.fileID = nr_files
          /\ e.file = NameOf[cur]
          /\ e.ext_nr = ext_ctr
          /\ fm_start <= e.logical_blk
          /\ fm_start' = e.logical_blk + e.len
          /\ ext_ctr' = ext_ctr + 1
    BY <1>8, RecordStep
  <2>2. /\ pc = "fiemap"
        /\ pc' \in {"fiemap", "scanned"}
        /\ UNCHANGED <<nr_files, cur>>
    BY <1>8 DEF FiemapRecord, Advance
  <2>3. e.logical_blk \in Nat /\ e.len \in Nat
    BY BoundsAssumption DEF Extent, LogicalBlocks
  <2>4. fm_start <= fm_start' /\ fm_start' \in Nat
    BY <1>2, <2>1, <2>3
  <2>5. \A d \in Recorded' : d.fileID <= nr_files'
    BY <1>1, <1>2, <2>1, <2>2 DEF ScanOK
  <2>6. ASSUME NEW d \in Recorded', d.fileID = nr_files'
        PROVE  /\ d.ext_nr < ext_ctr'
               /\ d.logical_blk + d.len <= fm_start'
               /\ d.file = NameOf[cur']
    <3>1. CASE d = e
      BY <1>2, <2>1, <2>2, <2>3, <3>1
    <3>2. CASE d \in Recorded
      <4>1. /\ d.ext_nr < ext_ctr
            /\ d.logical_blk + d.len <= fm_start
            /\ d.file = NameOf[cur]
        BY <1>1, <2>2, <2>6, <3>2 DEF ScanOK, Scanning
      <4>2. QED
        BY <1>2, <1>3, <2>1, <2>2, <2>4, <3>2, <4>1
    <3>3. QED
      BY <2>1, <3>1, <3>2
  <2>7. ASSUME NEW n \in 0 .. ext_ctr' - 1
        PROVE  \E d \in Recorded' : d.fileID = nr_files' /\ d.ext_nr = n
    <3>1. CASE n = ext_ctr
      BY <2>1, <2>2, <3>1
    <3>2. CASE n # ext_ctr
      <4>1. n \in 0 .. ext_ctr - 1
        BY <1>2, <2>1, <3>2
      <4>2. \E d \in Recorded : d.fileID = nr_files /\ d.ext_nr = n
        BY <1>1, <2>2, <4>1 DEF ScanOK, Scanning
      <4>3. QED
        BY <2>1, <2>2, <4>2
    <3>3. QED
      BY <3>1, <3>2
  <2>8. QED
    BY <2>2, <2>5, <2>6, <2>7 DEF ScanOK, Scanning
<1>9. CASE FileScanned
  <2>1. /\ pc = "scanned"
        /\ pc' \in {"readdir", "done", "failed"}
        /\ nr_files' = nr_files + 1
        /\ ~FiemapRecord
    BY <1>9 DEF FileScanned, FiemapRecord, Exit
  <2>2. \A e \in Recorded : e.fileID < nr_files'
    BY <1>1, <1>2, <1>3, <2>1 DEF ScanOK
  <2>3. QED
    BY <1>2, <1>3, <1>4, <2>1, <2>2 DEF ScanOK, Scanning
<1>10. CASE SyscallFails /\ ~FiemapRecord
  <2>1. pc' = "failed" /\ nr_files' = nr_files
    BY <1>10 DEF SyscallFails, OpenDirFails, OpenFails, FiemapFails, Exit, ctr_vars
  <2>2. QED
    BY <1>1, <1>4, <1>10, <2>1 DEF ScanOK, Scanning
<1>11. CASE FileSystem /\ ~FiemapRecord
  <2>1. UNCHANGED <<pc, ext_ctr, fm_start, nr_files, cur>>
    BY <1>1, <1>11, FileSystemType DEF walk_vars, file_vars, ctr_vars
  <2>2. QED
    BY <1>1, <1>4, <1>11, <2>1 DEF ScanOK, Scanning
<1>12. CASE UNCHANGED vars /\ ~FiemapRecord
  <2>1. UNCHANGED <<pc, ext_ctr, fm_start, nr_files, cur>>
    BY <1>12 DEF vars, walk_vars, file_vars, ctr_vars
  <2>2. QED
    BY <1>1, <1>4, <1>12, <2>1 DEF ScanOK, Scanning
<1>13. QED
  BY <1>5, <1>6, <1>7, <1>8, <1>9, <1>10, <1>11, <1>12 DEF Next, Steps, Finished

LEMMA OrderStep ==
  ASSUME IInv, [Next]_vars
  PROVE  FileExtentsInOrder'
<1>1. TypeOK /\ ScanOK /\ FileExtentsInOrder
  BY DEF IInv
<1>2. CASE ~FiemapRecord
  BY <1>1, <1>2, OtherSteps DEF FileExtentsInOrder
<1>3. CASE FiemapRecord
  <2>1. PICK e \in Extent :
          /\ Recorded' = Recorded \cup {e}
          /\ e.fileID = nr_files
          /\ e.ext_nr = ext_ctr
          /\ fm_start <= e.logical_blk
    BY <1>3, RecordStep
  <2>2. pc = "fiemap" /\ nr_files \in Nat /\ ext_ctr \in Nat /\ fm_start \in Nat
    BY <1>1, <1>3, BoundsAssumption DEF FiemapRecord, TypeOK
  <2>3. ASSUME NEW d \in Recorded \cup {e}
        PROVE  /\ d.ext_nr \in Nat
               /\ d.logical_blk \in Nat
               /\ d.len \in Nat
    <3>1. d \in Extent
      BY <1>1, RecordedTyped
    <3>2. QED
      BY <3>1, BoundsAssumption DEF Extent, LogicalBlocks
  <2>4. \A d \in Recorded : d.fileID = e.fileID =>
          d.ext_nr < e.ext_nr /\ d.logical_blk + d.len <= e.logical_blk
    <3>1. \A d \in Recorded : d.fileID = nr_files =>
            d.ext_nr < ext_ctr /\ d.logical_blk + d.len <= fm_start
      BY <1>1, <2>2 DEF ScanOK, Scanning
    <3> HIDE DEF Recorded
    <3>2. QED
      BY <2>1, <2>2, <2>3, <3>1
  <2>5. \A n \in 0 .. ext_ctr - 1 :
          \E d \in Recorded : d.fileID = nr_files /\ d.ext_nr = n
    BY <1>1, <2>2 DEF ScanOK, Scanning
  <2>6. /\ \A c, d \in Recorded :
             c.fileID = d.fileID =>
               /\ c.ext_nr = d.ext_nr => c = d
               /\ c.ext_nr < d.ext_nr => c.logical_blk + c.len <= d.logical_blk
        /\ \A c \in Recorded : \A n \in 0 .. c.ext_nr :
             \E d \in Recorded : d.fileID = c.fileID /\ d.ext_nr = n
    BY <1>1 DEF FileExtentsInOrder
  <2> HIDE DEF Recorded
  <2>7. ASSUME NEW c \in Recorded \cup {e}, NEW d \in Recorded \cup {e}, c.fileID = d.fileID
        PROVE  /\ c.ext_nr = d.ext_nr => c = d
               /\ c.ext_nr < d.ext_nr => c.logical_blk + c.len <= d.logical_blk
    <3>1. CASE c = e /\ d = e
      BY <2>3, <3>1
    <3>2. CASE c = e /\ d \in Recorded
      BY <2>3, <2>4, <2>7, <3>2
    <3>3. CASE c \in Recorded /\ d = e
      BY <2>3, <2>4, <2>7, <3>3
    <3>4. CASE c \in Recorded /\ d \in Recorded
      BY <2>6, <2>7, <3>4
    <3>5. QED
      BY <3>1, <3>2, <3>3, <3>4
  <2>8. ASSUME NEW c \in Recorded \cup {e}, NEW n \in 0 .. c.ext_nr
        PROVE  \E d \in Recorded \cup {e} : d.fileID = c.fileID /\ d.ext_nr = n
    <3>1. CASE c = e /\ n = ext_ctr
      BY <2>1, <3>1
    <3>2. CASE c = e /\ n # ext_ctr
      <4>1. n \in 0 .. ext_ctr - 1
        BY <2>1, <2>2, <3>2
      <4>2. QED
        BY <2>1, <2>5, <3>2, <4>1
    <3>3. CASE c \in Recorded
      BY <2>6, <3>3
    <3>4. QED
      BY <3>1, <3>2, <3>3
  <2>9. QED
    BY <2>1, <2>7, <2>8 DEF FileExtentsInOrder
<1>4. QED
  BY <1>2, <1>3

LEMMA NamesStep ==
  ASSUME IInv, [Next]_vars
  PROVE  OneNameEach(zones)'
<1>1. TypeOK /\ ScanOK /\ OneNameEach(zones)
  BY DEF IInv
<1>2. CASE ~FiemapRecord
  BY <1>1, <1>2, OtherSteps DEF OneNameEach, Recorded
<1>3. CASE FiemapRecord
  <2>1. PICK e \in Extent : /\ Recorded' = Recorded \cup {e}
                            /\ e.fileID = nr_files
                            /\ e.file = NameOf[cur]
    BY <1>3, RecordStep
  <2>2. \A d \in Recorded : d.fileID = e.fileID => d.file = e.file
    BY <1>1, <1>3, <2>1 DEF FiemapRecord, ScanOK, Scanning
  <2>3. \A c, d \in Recorded \cup {e} : c.fileID = d.fileID => c.file = d.file
    BY <1>1, <2>2 DEF OneNameEach, Recorded
  <2>4. QED
    BY <2>1, <2>3 DEF OneNameEach, Recorded
<1>4. QED
  BY <1>2, <1>3

-----------------------------------------------------------------------------
(* The theorems.                                                           *)

(* IInv is an inductive invariant of the collection.                       *)
THEOREM Invariance == Spec => []IInv
<1>1. Init => IInv
  BY InitInv
<1>2. IInv /\ [Next]_vars => IInv'
  BY TypeStep, ControlStep, ZonesStep, CounterMapStep, ScanStep, OrderStep, NamesStep DEF IInv
<1>3. QED
  BY <1>1, <1>2, PTL DEF Spec

(* get_extents never leaves the zone array, the device or its types.       *)
THEOREM TypeCorrect == Spec => []TypeOK
<1>1. IInv => TypeOK
  BY DEF IInv
<1>2. QED
  BY <1>1, Invariance, PTL

(* Whatever is found, in whatever order, the zone map is what the reports  *)
(* assume of it: the list of every zone is sorted, holds no node twice     *)
(* and, on a device whose addresses fit the 32-bit zone mask, only extents *)
(* that start in the zone; and the extents with one id have one name.      *)
THEOREM ListsInDeviceOrder == Spec => []ZoneListsInDeviceOrder
<1>1. ASSUME IInv
      PROVE  ZoneListsInDeviceOrder
  <2>1. TypeOK /\ ZonesOK /\ OneNameEach(zones)
    BY <1>1 DEF IInv
  <2>2. ASSUME DeviceFitsWord, NEW e \in Recorded
        PROVE  e.zone * ZoneSize <= e.phy_blk /\ e.phy_blk < (e.zone + 1) * ZoneSize
    <3>1. e.phy_blk \in ZnsBlocks
      BY <2>1, RecordedTyped DEF Extent
    <3>2. GetZoneNumber(e.phy_blk) = e.zone
      BY <2>1 DEF ZonesOK, InDeviceOrder, Recorded, ExtentsIn
    <3>3. QED
      BY <2>2, <3>1, <3>2, ZoneNumberIsZone
  <2>3. QED
    BY <2>1, <2>2 DEF ZonesOK, ZoneListsInDeviceOrder, Recorded
<1>2. QED
  BY <1>1, Invariance, PTL

(* file_counter_map is never written behind its allocated entries.         *)
THEOREM CounterMapNotOverrun == Spec => []CounterMapInBounds
<1>1. ASSUME IInv
      PROVE  CounterMapInBounds
  <2>1. TypeOK /\ CounterMapOK
    BY <1>1 DEF IInv
  <2>2. nr_files \in Nat /\ file_counter_map \in Seq(FileCounter) /\ Len(file_counter_map) \in Nat
    BY <2>1 DEF TypeOK
  <2>3. QED
    BY <2>1, <2>2 DEF CounterMapOK, CounterMapInBounds, Scanning
<1>2. QED
  BY <1>1, Invariance, PTL

(* The extents of a file are in logical order, numbered without a gap,     *)
(* whatever the file system did between two FIEMAP calls.                  *)
THEOREM ExtentsInOrder == Spec => []FileExtentsInOrder
<1>1. IInv => FileExtentsInOrder
  BY DEF IInv
<1>2. QED
  BY <1>1, Invariance, PTL

-----------------------------------------------------------------------------
(* The counters.                                                           *)

CountsOK ==
  /\ IsFiniteSet(Nodes)
  /\ IsFiniteSet(Recorded)
  /\ IsFiniteSet(CountedBlocks)
  /\ CountersAgree

(* When every name has one entry, increase_file_extent_counter increases   *)
(* the entry of the name by one, or adds it, and leaves the others alone.  *)
LEMMA IncreaseCounts ==
  ASSUME NEW map \in Seq(FileCounter), NEW name \in Names,
         \A i, j \in 1 .. Len(map) : map[i].file = map[j].file => i = j,
         NEW k \in 1 .. Len(IncreaseFileExtentCounter(map, name))
  PROVE  LET after == IncreaseFileExtentCounter(map, name)
         IN  \/ /\ k \in 1 .. Len(map)
                /\ map[k].file # name
                /\ after[k] = map[k]
             \/ /\ k \in 1 .. Len(map)
                /\ map[k].file = name
                /\ after[k].file = name
                /\ after[k].ext_ctr = map[k].ext_ctr + 1
             \/ /\ k = Len(map) + 1
                /\ \A i \in 1 .. Len(map) : map[i].file # name
                /\ after[k].file = name
                /\ after[k].ext_ctr = 1
<1> DEFINE after == IncreaseFileExtentCounter(map, name)
<1>0. Len(map) \in Nat
  BY LenProperties
<1>1. CASE \E i \in 1 .. Len(map) : map[i].file = name
  <2>1. PICK i \in 1 .. Len(map) : map[i].file = name
    BY <1>1
  <2>2. /\ map[i].file = name
        /\ \A j \in 1 .. i - 1 : map[j].file # name
    BY <1>0, <2>1
  <2>3. i = CHOOSE c \in 1 .. Len(map) :
              /\ map[c].file = name
              /\ \A j \in 1 .. c - 1 : map[j].file # name
    BY <2>1, <2>2
  <2>4. after = [map EXCEPT ![i].ext_ctr = @ + 1]
    BY <1>1, <2>3 DEF IncreaseFileExtentCounter
  <2>5. map[i] \in FileCounter
    BY <2>1, ElementOfSeq
  <2> DEFINE new == [map[i] EXCEPT !.ext_ctr = @ + 1]
  <2>6. new \in FileCounter /\ new.file = name /\ new.ext_ctr = map[i].ext_ctr + 1
    BY <2>1, <2>5 DEF FileCounter
  <2>7. after = [map EXCEPT ![i] = new]
    BY <2>4
  <2> HIDE DEF new, after
  <2>8. /\ Len(after) = Len(map)
        /\ after[i] = new
        /\ \A j \in 1 .. Len(map) \ {i} : after[j] = map[j]
    BY <2>6, <2>7, ExceptSeq
  <2>9. k \in 1 .. Len(map)
    BY <2>8 DEF after
  <2>10. CASE k = i
    BY <2>1, <2>6, <2>8, <2>9, <2>10 DEF after
  <2>11. CASE k # i
    BY <2>1, <2>8, <2>9, <2>11 DEF after
  <2>12. QED
    BY <2>10, <2>11
<1>2. CASE ~ \E i \in 1 .. Len(map) : map[i].file = name
  <2> DEFINE new == [file |-> name, ext_ctr |-> 1]
  <2>1. after = Append(map, new)
    BY <1>2 DEF IncreaseFileExtentCounter
  <2>2. new \in FileCounter /\ new.file = name /\ new.ext_ctr = 1
    BY DEF FileCounter
  <2> HIDE DEF new, after
  <2>3. /\ Len(after) = Len(map) + 1
        /\ after[Len(map) + 1] = new
        /\ \A i \in 1 .. Len(map) : after[i] = map[i]
    BY <2>1, <2>2, AppendProperties
  <2>4. k \in 1 .. Len(map) \/ k = Len(map) + 1
    BY <1>0, <2>3 DEF after
  <2>5. QED
    BY <1>2, <2>2, <2>3, <2>4 DEF after
<1>3. QED
  BY <1>1, <1>2

(* The blocks of an extent are as many as it is long.                      *)
LEMMA BlocksOfOne ==
  ASSUME NEW e, NEW n \in Nat
  PROVE  /\ IsFiniteSet({e} \X (1 .. n))
         /\ Cardinality({e} \X (1 .. n)) = n
<1>1. IsFiniteSet(1 .. n) /\ Cardinality(1 .. n) = n
  BY FS_Interval
<1>2. IsFiniteSet({e}) /\ Cardinality({e}) = 1
  BY FS_Singleton
<1> DEFINE S == {e}
           T == 1 .. n
<1>3. IsFiniteSet(S) /\ IsFiniteSet(T) /\ Cardinality(S) = 1 /\ Cardinality(T) = n
  BY <1>1, <1>2
<1> HIDE DEF S, T
<1>4. IsFiniteSet(S \X T) /\ Cardinality(S \X T) = 1 * n
  BY <1>3, FS_Product
<1>5. QED
  BY <1>4 DEF S, T

(* What FiemapRecord adds to lists and counters.                           *)
LEMMA RecordCounts ==
  ASSUME IInv, FiemapRecord
  PROVE  \E e \in Extent \ Recorded : \E n :
           /\ Recorded' = Recorded \cup {e}
           /\ n \notin Nodes
           /\ Nodes' = Nodes \cup {n}
           /\ cum_extent_size' = cum_extent_size + e.len
           /\ extent_ctr' = extent_ctr + 1
           /\ file_counter_map' = IncreaseFileExtentCounter(file_counter_map, e.file)
           /\ ZonesOK'
<1>1. TypeOK /\ ControlOK /\ ZonesOK
  BY DEF IInv
<1>2. PICK a \in FiemapAnswers(cur) : IsRecorded(a) /\ Record(ExtentOf(a))
  BY DEF FiemapRecord
<1>3. pc = "fiemap"
  BY DEF FiemapRecord
<1>4. ExtentOf(a) \in Extent
  BY <1>1, <1>2, <1>3, ExtentOfTyped
<1>5. ExtentOf(a) \notin Recorded
  BY <1>2, <1>3, ExtentIsNew
<1>6. /\ zones' \in [Zones -> [extents : Seq(Extent), extent_ctr : Nat]]
      /\ ZonesOK'
      /\ Recorded' = Recorded \cup {ExtentOf(a)}
  BY <1>1, <1>2, <1>3, <1>5, RecordProperties
<1>7. PICK e \in Extent : e = ExtentOf(a)
  BY <1>4
<1>8. /\ cum_extent_size' = cum_extent_size + e.len
      /\ extent_ctr' = extent_ctr + 1
      /\ file_counter_map' = IncreaseFileExtentCounter(file_counter_map, e.file)
      /\ zones' = [zones EXCEPT ![e.zone] = AddExtentToZoneList(@, e)]
  BY <1>2, <1>7 DEF Record
<1>9. zones \in [Zones -> [extents : Seq(Extent), extent_ctr : Nat]] /\ e.zone \in Zones
  BY <1>1 DEF TypeOK, Extent
<1>10. /\ \A z \in Zones : zones[z].extent_ctr = Len(zones[z].extents)
       /\ \A z \in Zones : zones'[z].extent_ctr = Len(zones'[z].extents)
  BY <1>1, <1>6 DEF ZonesOK, InDeviceOrder
<1>11. zones'[e.zone].extent_ctr = zones[e.zone].extent_ctr + 1
  BY <1>8, <1>9 DEF AddExtentToZoneList
<1>12. \A z \in Zones \ {e.zone} : zones'[z] = zones[z]
  BY <1>8, <1>9
<1> DEFINE n == <<e.zone, Len(zones[e.zone].extents) + 1>>
<1>13. /\ \A z \in Zones : DOMAIN zones[z].extents = 1 .. Len(zones[z].extents)
       /\ \A z \in Zones : DOMAIN zones'[z].extents = 1 .. Len(zones'[z].extents)
       /\ Len(zones[e.zone].extents) \in Nat
  BY <1>6, <1>9
<1>14. Len(zones'[e.zone].extents) = Len(zones[e.zone].extents) + 1
  BY <1>9, <1>10, <1>11
<1>15. n \notin Nodes
  BY <1>13 DEF Nodes
<1>16. Nodes' = Nodes \cup {n}
  <2>1. 1 .. Len(zones[e.zone].extents) + 1
          = (1 .. Len(zones[e.zone].extents)) \cup {Len(zones[e.zone].extents) + 1}
    BY <1>13
  <2>2. DOMAIN zones'[e.zone].extents
          = DOMAIN zones[e.zone].extents \cup {Len(zones[e.zone].extents) + 1}
    BY <1>9, <1>13, <1>14, <2>1
  <2>3. QED
    BY <1>9, <1>12, <2>2 DEF Nodes
<1>17. QED
  BY <1>5, <1>6, <1>7, <1>8, <1>15, <1>16

LEMMA CountsInit == Init => CountsOK
<1> SUFFICES ASSUME Init
             PROVE  CountsOK
  OBVIOUS
<1>1. Recorded = {} /\ Nodes = {} /\ CountedBlocks = {}
  BY DEF Init, Recorded, ExtentsIn, EmptyZone, Range, Nodes, CountedBlocks
<1>2. IsFiniteSet({}) /\ Cardinality({}) = 0
  BY FS_EmptySet
<1>3. file_counter_map = <<>> /\ DOMAIN file_counter_map = {}
  BY DEF Init
<1>4. \A z \in Zones : zones[z].extent_ctr = Len(zones[z].extents)
  BY DEF Init, EmptyZone
<1>5. extent_ctr = 0 /\ cum_extent_size = 0
  BY DEF Init
<1> HIDE DEF Recorded
<1>6. QED
  BY <1>1, <1>2, <1>3, <1>4, <1>5 DEF CountsOK, CountersAgree

(* The extents of a name are one more when one of the name is recorded.    *)
LEMMA NamedOneMore ==
  ASSUME NEW S, IsFiniteSet(S), NEW e, e \notin S, NEW name
  PROVE  /\ Cardinality({d \in S : d.file = name}) \in Nat
         /\ e.file = name => Cardinality({d \in S \cup {e} : d.file = name})
                               = Cardinality({d \in S : d.file = name}) + 1
         /\ e.file # name => Cardinality({d \in S \cup {e} : d.file = name})
                               = Cardinality({d \in S : d.file = name})
<1> DEFINE Before == {d \in S : d.file = name}
           After == {d \in S \cup {e} : d.file = name}
<1>1. IsFiniteSet(Before) /\ Cardinality(Before) \in Nat
  <2>1. Before \in SUBSET S
    OBVIOUS
  <2> HIDE DEF Before
  <2>2. IsFiniteSet(Before)
    BY <2>1, FS_Subset
  <2>3. QED
    BY <2>2, FS_CardinalityType
<1>2. /\ e \notin Before
      /\ e.file = name => After = Before \cup {e}
      /\ e.file # name => After = Before
  OBVIOUS
<1> HIDE DEF Before, After
<1>3. Cardinality(Before \cup {e}) = Cardinality(Before) + 1
  BY <1>1, <1>2, FS_AddElement
<1>4. /\ Cardinality(Before) \in Nat
      /\ e.file = name => Cardinality(After) = Cardinality(Before) + 1
      /\ e.file # name => Cardinality(After) = Cardinality(Before)
  BY <1>1, <1>2, <1>3
<1>5. QED
  BY <1>4 DEF Before, After

LEMMA CountsStep ==
  ASSUME IInv, CountsOK, [Next]_vars
  PROVE  CountsOK'
<1>1. TypeOK
  BY DEF IInv
<1>2. CASE ~FiemapRecord
  <2>1. zones' = zones /\ Recorded' = Recorded
    BY <1>1, <1>2, OtherSteps
  <2>2. UNCHANGED <<extent_ctr, cum_extent_size, file_counter_map>>
    <3>1. CASE FileSystem
      BY <1>1, <3>1, FileSystemType DEF zone_vars, ctr_vars
    <3>2. CASE ~FileSystem
      BY <1>2, <3>2 DEF Next, Steps, SyscallFails, Finished, ReadDirFile, ReadDirDirectory,
        ReadDirEnd, OpenMissing, OpenFile, FiemapEmpty, FiemapSkip, FileScanned,
        OpenDirFails, OpenFails, FiemapFails, vars, zone_vars, ctr_vars
    <3>3. QED
      BY <3>1, <3>2
  <2> HIDE DEF Recorded
  <2>3. Nodes' = Nodes /\ CountedBlocks' = CountedBlocks
    BY <2>1 DEF Nodes, CountedBlocks
  <2>4. QED
    BY <2>1, <2>2, <2>3 DEF CountsOK, CountersAgree
<1>3. CASE FiemapRecord
  <2>0. PICK e \in Extent \ Recorded : \E n :
          /\ Recorded' = Recorded \cup {e}
          /\ n \notin Nodes
          /\ Nodes' = Nodes \cup {n}
          /\ cum_extent_size' = cum_extent_size + e.len
          /\ extent_ctr' = extent_ctr + 1
          /\ file_counter_map' = IncreaseFileExtentCounter(file_counter_map, e.file)
          /\ ZonesOK'
    BY <1>3, RecordCounts
  <2>1. PICK n :
          /\ Recorded' = Recorded \cup {e}
          /\ n \notin Nodes
          /\ Nodes' = Nodes \cup {n}
          /\ cum_extent_size' = cum_extent_size + e.len
          /\ extent_ctr' = extent_ctr + 1
          /\ file_counter_map' = IncreaseFileExtentCounter(file_counter_map, e.file)
          /\ ZonesOK'
    BY <2>0
  <2>2. \A z \in Zones : zones'[z].extent_ctr = Len(zones'[z].extents)
    BY <2>1 DEF ZonesOK, InDeviceOrder
  <2> HIDE DEF Recorded
  <2>3. IsFiniteSet(Recorded')
    BY <2>1, FS_AddElement DEF CountsOK
  <2>4. IsFiniteSet(Nodes') /\ extent_ctr' = Cardinality(Nodes')
    BY <2>1, FS_AddElement DEF CountsOK, CountersAgree
  <2>5. IsFiniteSet(CountedBlocks') /\ cum_extent_size' = Cardinality(CountedBlocks')
    <3> DEFINE new == {e} \X (1 .. e.len)
    <3>1. e.len \in Nat
      BY BoundsAssumption DEF Extent
    <3>2. IsFiniteSet(new) /\ Cardinality(new) = e.len
      BY <3>1, BlocksOfOne
    <3>3. CountedBlocks' = CountedBlocks \cup new
      BY <2>1 DEF CountedBlocks
    <3>4. CountedBlocks \cap new = {}
      BY DEF CountedBlocks
    <3> HIDE DEF new
    <3>5. Cardinality({}) = 0 /\ IsFiniteSet(CountedBlocks)
      BY FS_EmptySet DEF CountsOK
    <3>6. /\ IsFiniteSet(CountedBlocks \cup new)
          /\ Cardinality(CountedBlocks \cup new) = Cardinality(CountedBlocks) + e.len - 0
      BY <3>2, <3>4, <3>5, FS_Union
    <3>7. Cardinality(CountedBlocks) \in Nat /\ cum_extent_size = Cardinality(CountedBlocks)
      BY <3>5, FS_CardinalityType DEF CountsOK, CountersAgree
    <3>8. QED
      BY <2>1, <3>1, <3>3, <3>6, <3>7
  <2> DEFINE map == file_counter_map
             after == IncreaseFileExtentCounter(map, e.file)
  <2>6. /\ map \in Seq(FileCounter)
        /\ Len(map) \in Nat
        /\ DOMAIN map = 1 .. Len(map)
        /\ e.file \in Names
        /\ \A i, j \in 1 .. Len(map) : map[i].file = map[j].file => i = j
        /\ \A i \in 1 .. Len(map) :
             map[i].ext_ctr = Cardinality({d \in Recorded : d.file = map[i].file})
        /\ \A d \in Recorded : \E i \in 1 .. Len(map) : map[i].file = d.file
    <3>1. map \in Seq(FileCounter) /\ e.file \in Names
      BY <1>1 DEF TypeOK, Extent
    <3>2. Len(map) \in Nat /\ DOMAIN map = 1 .. Len(map)
      BY <3>1, LenProperties
    <3>3. CountersAgree
      BY DEF CountsOK
    <3>4. QED
      BY <3>1, <3>2, <3>3 DEF CountersAgree
  <2>7. /\ after \in Seq(FileCounter)
        /\ Len(after) \in Len(map) .. Len(map) + 1
        /\ \E i \in 1 .. Len(after) : after[i].file = e.file
        /\ DOMAIN after = 1 .. Len(after)
    <3>1. PICK m \in Seq(FileCounter), name \in Names : m = map /\ name = e.file
      BY <2>6
    <3>2. PICK l : l = IncreaseFileExtentCounter(m, name)
      OBVIOUS
    <3>3. /\ l \in Seq(FileCounter)
          /\ Len(l) \in Len(m) .. Len(m) + 1
          /\ \E i \in 1 .. Len(l) : l[i].file = name
      BY <3>2, IncreaseProperties
    <3>4. DOMAIN l = 1 .. Len(l)
      BY <3>3, LenProperties
    <3>5. l = after
      BY <3>1, <3>2
    <3>6. QED
      BY <3>1, <3>3, <3>4, <3>5
  <2> DEFINE Kept(k) ==
               k \in 1 .. Len(map) /\ map[k].file # e.file /\ after[k] = map[k]
             Increased(k) ==
               /\ k \in 1 .. Len(map)
               /\ map[k].file = e.file
               /\ after[k].file = e.file
               /\ after[k].ext_ctr = map[k].ext_ctr + 1
             Added(k) ==
               /\ k = Len(map) + 1
               /\ \A i \in 1 .. Len(map) : map[i].file # e.file
               /\ after[k].file = e.file
               /\ after[k].ext_ctr = 1
  <2>8. \A k \in 1 .. Len(after) : Kept(k) \/ Increased(k) \/ Added(k)
    BY <2>6, IncreaseCounts
  <2> HIDE DEF after
  <2>9. \A i, j \in 1 .. Len(after) : after[i].file = after[j].file => i = j
    BY <2>6, <2>8
  <2>10. \A d \in Recorded \cup {e} : \E i \in 1 .. Len(after) : after[i].file = d.file
    <3> SUFFICES ASSUME NEW d \in Recorded \cup {e}
                 PROVE  \E i \in 1 .. Len(after) : after[i].file = d.file
      OBVIOUS
    <3>1. CASE d = e
      BY <2>7, <3>1
    <3>2. CASE d \in Recorded
      <4>1. PICK i \in 1 .. Len(map) : map[i].file = d.file
        BY <2>6, <3>2
      <4>2. i \in 1 .. Len(after)
        BY <2>6, <2>7, <4>1
      <4>3. Kept(i) \/ Increased(i)
        BY <2>6, <2>8, <4>2
      <4>4. QED
        BY <4>1, <4>2, <4>3
    <3>3. QED
      BY <3>1, <3>2
  <2>11. ASSUME NEW k \in 1 .. Len(after)
         PROVE  after[k].ext_ctr
                  = Cardinality({d \in Recorded \cup {e} : d.file = after[k].file})
    <3> DEFINE name == after[k].file
    <3>1. /\ Cardinality({d \in Recorded : d.file = name}) \in Nat
          /\ e.file = name => Cardinality({d \in Recorded \cup {e} : d.file = name})
                                = Cardinality({d \in Recorded : d.file = name}) + 1
          /\ e.file # name => Cardinality({d \in Recorded \cup {e} : d.file = name})
                                = Cardinality({d \in Recorded : d.file = name})
      <4>1. IsFiniteSet(Recorded) /\ e \notin Recorded
        BY <2>1 DEF CountsOK
      <4>2. QED
        BY <4>1, NamedOneMore
    <3>2. CASE Kept(k)
      <4>1. Cardinality({d \in Recorded : d.file = name}) = map[k].ext_ctr
        BY <2>6, <3>2
      <4>2. QED
        BY <3>1, <3>2, <4>1
    <3>3. CASE Increased(k)
      <4>1. Cardinality({d \in Recorded : d.file = name}) = map[k].ext_ctr
        BY <2>6, <3>3
      <4>2. QED
        BY <3>1, <3>3, <4>1
    <3>4. CASE Added(k)
      <4>1. {d \in Recorded : d.file = name} = {}
        BY <2>6, <3>4
      <4>2. Cardinality({d \in Recorded : d.file = name}) = 0
        BY <4>1, FS_EmptySet
      <4>3. QED
        BY <3>1, <3>4, <4>2
    <3>5. QED
      BY <2>8, <3>2, <3>3, <3>4
  <2>12. after = file_counter_map'
    BY <2>1 DEF after
  <2>13. CountersAgree'
    BY <2>1, <2>2, <2>4, <2>5, <2>7, <2>9, <2>10, <2>11, <2>12 DEF CountersAgree
  <2>14. QED
    BY <2>3, <2>4, <2>5, <2>13 DEF CountsOK
<1>4. QED
  BY <1>2, <1>3

(* No extent is lost or counted twice, in whatever order extents arrive    *)
(* and however many files share a cut name.                                *)
THEOREM CountersAlwaysAgree == Spec => []CountersAgree
<1>1. Init => CountsOK
  BY CountsInit
<1>2. IInv /\ CountsOK /\ [Next]_vars => CountsOK'
  BY CountsStep
<1>3. CountsOK => CountersAgree
  BY DEF CountsOK
<1>4. QED
  BY <1>1, <1>2, <1>3, Invariance, PTL DEF Spec

-----------------------------------------------------------------------------
(* The walk reaches every file.                                            *)

(* What is in a directory or below it, or is the entry itself.             *)
IsClosed(S) == \A c \in Files \cup (Dirs \ {Root}) : Parent[c] \in S => c \in S

Under(x) ==
  {e \in Files \cup Dirs : \A S \in SUBSET (Files \cup Dirs) : x \in S /\ IsClosed(S) => e \in S}

LEMMA UnderItself ==
  ASSUME NEW x \in Files \cup Dirs
  PROVE  x \in Under(x)
BY DEF Under

LEMMA UnderFile ==
  ASSUME NEW f \in Files, NEW e \in Under(f)
  PROVE  e = f
<1>1. IsClosed({f})
  BY FilesAssumption DEF IsClosed
<1>2. QED
  BY <1>1 DEF Under

LEMMA UnderEntry ==
  ASSUME NEW d \in Dirs, NEW f \in Under(d), f # d
  PROVE  \E c \in Files \cup (Dirs \ {Root}) : Parent[c] = d /\ f \in Under(c)
<1> DEFINE Entry(c) == c \in Files \cup (Dirs \ {Root})
           below == {e \in Files \cup Dirs : \E c : Entry(c) /\ Parent[c] = d /\ e \in Under(c)}
           S == {d} \cup below
<1>1. S \in SUBSET (Files \cup Dirs)
  OBVIOUS
<1>2. ASSUME NEW c \in Files \cup (Dirs \ {Root}), Parent[c] \in S
      PROVE  c \in S
  <2>1. CASE Parent[c] = d
    BY <2>1, UnderItself
  <2>2. ASSUME NEW b, Entry(b), Parent[b] = d, Parent[c] \in Under(b)
        PROVE  c \in S
    <3>1. c \in Under(b)
      BY <2>2 DEF Under, IsClosed
    <3>2. QED
      BY <2>2, <3>1
  <2>3. QED
    BY <1>2, <2>1, <2>2
<1>3. f \in S
  BY <1>1, <1>2 DEF Under, IsClosed
<1>4. QED
  BY <1>3

LEMMA AllUnderRoot ==
  ASSUME NEW f \in Files
  PROVE  f \in Under(Root) /\ f # Root
<1>1. ASSUME NEW S \in SUBSET (Files \cup Dirs), Root \in S, IsClosed(S)
      PROVE  f \in S
  <2>1. Dirs \ S = {}
    <3> SUFFICES ASSUME Dirs \ S # {}
                 PROVE  FALSE
      OBVIOUS
    <3>1. PICK d \in Dirs \ S : Parent[d] \notin Dirs \ S
      BY <1>1, FilesAssumption
    <3>2. Parent[d] \in S /\ d \in Dirs \ {Root}
      BY <1>1, <3>1, FilesAssumption
    <3>3. QED
      BY <1>1, <3>2 DEF IsClosed
  <2>2. Parent[f] \in S
    BY <2>1, FilesAssumption
  <2>3. QED
    BY <1>1, <2>2 DEF IsClosed
<1>2. QED
  BY <1>1, FilesAssumption DEF Under

(* A file is in or below an entry that an open directory has left to read. *)
IsPending(f) == \E n \in 1 .. Len(stack) : \E x \in stack[n].left : f \in Under(x)

IsScanned(f) == \E k \in 1 .. Len(scanned) : scanned[k] = f

(* No file left alone is missed.                                           *)
VisitOK ==
  /\ Files \ touched \subseteq exists
  /\ isdir /\ pc # "failed" =>
       \A f \in Files \ touched : IsScanned(f) \/ (pc = "open" /\ cur = f) \/ IsPending(f)
  /\ isdir /\ pc = "done" => Len(stack) = 0

(* The entries of a directory lead to all files below it that are there.   *)
LEMMA EntriesLead ==
  ASSUME NEW d \in Dirs, NEW f \in exists \cap Files, f \in Under(d)
  PROVE  \E x \in Entries(d) : f \in Under(x)
<1>1. f # d
  BY FilesAssumption
<1>2. PICK c \in Files \cup (Dirs \ {Root}) : Parent[c] = d /\ f \in Under(c)
  BY <1>1, UnderEntry
<1>3. c \in Files => c = f
  BY <1>2, UnderFile
<1>4. c \in Entries(d)
  BY <1>2, <1>3 DEF Entries
<1>5. QED
  BY <1>2, <1>4

(* Taking an entry takes it from the innermost directory only.             *)
LEMMA TakeEntryLeft ==
  ASSUME TypeOK, ControlOK, pc = "readdir", NEW e, NEW n \in 1 .. Len(stack)
  PROVE  TakeEntry(e)[n].left = IF n = Len(stack) THEN Top.left \ {e} ELSE stack[n].left
<1>1. stack \in Seq(Frame)
  BY DEF TypeOK
<1>2. stack[n] \in Frame
  BY <1>1, ElementOfSeq
<1> DEFINE new == [stack[Len(stack)] EXCEPT !.left = @ \ {e}]
<1>3. TakeEntry(e) = [stack EXCEPT ![Len(stack)] = new]
  BY DEF TakeEntry
<1>4. Top \in Frame
  BY StackProperties
<1>5. new.left = Top.left \ {e}
  BY <1>4 DEF Top, Frame
<1> HIDE DEF new
<1>6. n \in DOMAIN stack
  BY <1>1
<1>7. QED
  BY <1>3, <1>5, <1>6

LEMMA VisitInit == Init => VisitOK
<1> SUFFICES ASSUME Init
             PROVE  VisitOK
  OBVIOUS
<1>1. exists = Files /\ pc \notin {"done", "failed"}
  BY DEF Init
<1>2. ASSUME isdir, NEW f \in Files
      PROVE  IsPending(f)
  <2>1. stack = <<[dir |-> Root, left |-> Entries(Root)]>>
    BY <1>2 DEF Init
  <2>2. f \in Under(Root)
    BY AllUnderRoot
  <2>3. PICK x \in Entries(Root) : f \in Under(x)
    BY <1>1, <2>2, EntriesLead, FilesAssumption
  <2>4. Len(stack) = 1 /\ stack[1].left = Entries(Root)
    BY <2>1
  <2>5. QED
    BY <2>3, <2>4 DEF IsPending
<1>3. QED
  BY <1>1, <1>2 DEF VisitOK

(* Who is pending, when an entry x of the innermost directory is taken.    *)
LEMMA PendingTaken ==
  ASSUME TypeOK, ControlOK, pc = "readdir", NEW f, NEW e, IsPending(f)
  PROVE  \/ e \in Top.left /\ f \in Under(e)
         \/ \E n \in 1 .. Len(stack) : \E x \in TakeEntry(e)[n].left : f \in Under(x)
<1>1. PICK n \in 1 .. Len(stack) : \E x \in stack[n].left : f \in Under(x)
  BY DEF IsPending
<1>2. PICK x \in stack[n].left : f \in Under(x)
  BY <1>1
<1>3. CASE n = Len(stack) /\ x = e
  BY <1>2, <1>3 DEF Top
<1>4. CASE ~(n = Len(stack) /\ x = e)
  <2>1. x \in TakeEntry(e)[n].left
    BY <1>2, <1>4, TakeEntryLeft DEF Top
  <2>2. QED
    BY <1>2, <2>1
<1>5. QED
  BY <1>3, <1>4

LEMMA VisitStep ==
  ASSUME IInv, VisitOK, [Next]_vars
  PROVE  VisitOK'
<1>1. TypeOK /\ ControlOK
  BY DEF IInv
<1>2. Files \ touched \subseteq exists
  BY DEF VisitOK
<1> DEFINE Safe(f) == IsScanned(f) \/ (pc = "open" /\ cur = f) \/ IsPending(f)
<1>3. isdir /\ pc # "failed" => \A f \in Files \ touched : Safe(f)
  BY DEF VisitOK
<1>4. CASE ReadDirFile
  <2>1. PICK g \in Top.left \cap Files : stack' = TakeEntry(g) /\ cur' = g
    BY <1>4 DEF ReadDirFile
  <2>2. pc = "readdir" /\ pc' = "open" /\ UNCHANGED <<exists, touched, isdir, scanned>>
    BY <1>4 DEF ReadDirFile, fs_vars, ctr_vars
  <2>3. ASSUME isdir, NEW f \in Files \ touched
        PROVE  Safe(f)'
    <3>1. CASE IsScanned(f)
      BY <2>2, <3>1 DEF IsScanned
    <3>2. CASE IsPending(f) /\ g \in Top.left /\ f \in Under(g)
      BY <2>1, <2>2, <3>2, UnderFile
    <3>3. CASE \E n \in 1 .. Len(stack) : \E x \in TakeEntry(g)[n].left : f \in Under(x)
      <4>1. Len(stack') = Len(stack)
        BY <1>1, <2>1, <2>2, StackProperties
      <4>2. QED
        BY <2>1, <3>3, <4>1 DEF IsPending
    <3>4. QED
      BY <1>1, <1>3, <2>2, <2>3, <3>1, <3>2, <3>3, PendingTaken
  <2>4. QED
    BY <1>2, <2>2, <2>3 DEF VisitOK
<1>5. CASE ReadDirDirectory
  <2>1. PICK d \in Top.left \cap Dirs :
          stack' = Append(TakeEntry(d), [dir |-> d, left |-> Entries(d)])
    BY <1>5 DEF ReadDirDirectory
  <2>2. pc = "readdir" /\ UNCHANGED <<pc, cur, exists, touched, isdir, scanned>>
    BY <1>5 DEF ReadDirDirectory, fs_vars, ctr_vars
  <2> DEFINE frame == [dir |-> d, left |-> Entries(d)]
  <2>3. TakeEntry(d) \in Seq(Frame) /\ Len(TakeEntry(d)) = Len(stack) /\ Len(stack) \in Nat
    BY <1>1, <2>2, StackProperties
  <2>4. frame \in Frame /\ frame.left = Entries(d)
    BY <1>1, EntriesTyped DEF Frame, TypeOK
  <2> HIDE DEF frame
  <2>5. /\ Len(stack') = Len(stack) + 1
        /\ stack'[Len(stack) + 1] = frame
        /\ \A n \in 1 .. Len(stack) : stack'[n] = TakeEntry(d)[n]
    BY <2>1, <2>3, <2>4, AppendProperties DEF frame
  <2>6. ASSUME isdir, NEW f \in Files \ touched
        PROVE  Safe(f)'
    <3>1. CASE IsScanned(f)
      BY <2>2, <3>1 DEF IsScanned
    <3>2. CASE f \in Under(d)
      <4>1. PICK x \in Entries(d) : f \in Under(x)
        BY <1>2, <3>2, EntriesLead
      <4>2. Len(stack) + 1 \in 1 .. Len(stack')
        BY <2>3, <2>5
      <4>3. x \in stack'[Len(stack) + 1].left
        BY <2>4, <2>5, <4>1
      <4>4. QED
        BY <4>1, <4>2, <4>3 DEF IsPending
    <3>3. CASE \E n \in 1 .. Len(stack) : \E x \in TakeEntry(d)[n].left : f \in Under(x)
      <4>1. PICK n \in 1 .. Len(stack) : \E x \in TakeEntry(d)[n].left : f \in Under(x)
        BY <3>3
      <4>2. n \in 1 .. Len(stack')
        BY <2>3, <2>5
      <4>3. QED
        BY <2>5, <4>1, <4>2 DEF IsPending
    <3>4. QED
      BY <1>1, <1>3, <2>2, <2>6, <3>1, <3>2, <3>3, PendingTaken
  <2>7. QED
    BY <1>2, <2>2, <2>6 DEF VisitOK
<1>6. CASE ReadDirEnd
  <2>1. /\ pc = "readdir"
        /\ pc' \in {"done", "readdir"}
        /\ UNCHANGED <<cur, exists, touched, isdir, scanned>>
        /\ Top.left \cap (exists \cup Dirs) = {}
        /\ stack' = SubSeq(stack, 1, Len(stack) - 1)
        /\ pc' = "done" => Len(stack) = 1
    BY <1>6 DEF ReadDirEnd, fs_vars, ctr_vars
  <2>2. Len(stack') = Len(stack) - 1 /\ Len(stack) \in Nat /\ Len(stack) >= 1 /\ Top \in Frame
    BY <1>1, <2>1, StackProperties
  <2>3. \A n \in 1 .. Len(stack) - 1 : stack'[n] = stack[n]
    BY <1>1, <2>1, <2>2, SubSeqProperties DEF TypeOK
  <2>4. ASSUME isdir, NEW f \in Files \ touched
        PROVE  Safe(f)'
    <3>1. CASE IsScanned(f)
      BY <2>1, <3>1 DEF IsScanned
    <3>2. CASE IsPending(f)
      <4>1. PICK n \in 1 .. Len(stack) : \E x \in stack[n].left : f \in Under(x)
        BY <3>2 DEF IsPending
      <4>2. PICK x \in stack[n].left : f \in Under(x)
        BY <4>1
      <4>3. n # Len(stack)
        <5> SUFFICES ASSUME n = Len(stack)
                     PROVE  FALSE
          OBVIOUS
        <5>1. x \in Top.left /\ x \in Files \cup Dirs
          BY <2>2, <4>2 DEF Top, Frame
        <5>2. x \in Files /\ x \notin exists
          BY <2>1, <5>1
        <5>3. f = x
          BY <4>2, <5>2, UnderFile
        <5>4. QED
          BY <1>2, <5>2, <5>3
      <4>4. n \in 1 .. Len(stack) - 1
        BY <2>2, <4>3
      <4>5. QED
        BY <2>2, <2>3, <4>1, <4>4 DEF IsPending
    <3>3. QED
      BY <1>3, <2>1, <2>4, <3>1, <3>2
  <2>5. isdir /\ pc' = "done" => Len(stack') = 0
    BY <2>1, <2>2
  <2>6. QED
    BY <1>2, <2>1, <2>4, <2>5 DEF VisitOK
<1>7. CASE OpenMissing
  <2>1. /\ pc = "open"
        /\ cur \notin exists
        /\ pc' # "failed" => isdir /\ pc' = "readdir"
        /\ UNCHANGED <<exists, touched, isdir, scanned, stack>>
    BY <1>7 DEF OpenMissing, Exit, fs_vars, ctr_vars
  <2>2. ASSUME isdir, pc' # "failed", NEW f \in Files \ touched
        PROVE  Safe(f)'
    BY <1>2, <1>3, <2>1, <2>2 DEF IsScanned, IsPending
  <2>3. QED
    BY <1>2, <2>1, <2>2 DEF VisitOK
<1>8. CASE OpenFile
  <2>1. /\ pc = "open"
        /\ pc' = "fiemap"
        /\ scanned' = Append(scanned, cur)
        /\ UNCHANGED <<exists, touched, isdir, stack>>
    BY <1>8 DEF OpenFile, fs_vars
  <2>2. cur \in Files /\ scanned \in Seq(Files) /\ Len(scanned) \in Nat
    BY <1>1, <2>1 DEF ControlOK, TypeOK
  <2>3. /\ Len(scanned') = Len(scanned) + 1
        /\ scanned'[Len(scanned) + 1] = cur
        /\ \A k \in 1 .. Len(scanned) : scanned'[k] = scanned[k]
    BY <2>1, <2>2, AppendProperties
  <2>4. ASSUME isdir, NEW f \in Files \ touched
        PROVE  Safe(f)'
    <3>1. CASE IsScanned(f)
      <4>1. PICK k \in 1 .. Len(scanned) : scanned[k] = f
        BY <3>1 DEF IsScanned
      <4>2. k \in 1 .. Len(scanned') /\ scanned'[k] = f
        BY <2>2, <2>3, <4>1
      <4>3. QED
        BY <4>2 DEF IsScanned
    <3>2. CASE cur = f
      <4>1. Len(scanned) + 1 \in 1 .. Len(scanned')
        BY <2>2, <2>3
      <4>2. QED
        BY <2>3, <3>2, <4>1 DEF IsScanned
    <3>3. CASE IsPending(f)
      BY <2>1, <3>3 DEF IsPending
    <3>4. QED
      BY <1>3, <2>1, <2>4, <3>1, <3>2, <3>3
  <2>5. QED
    BY <1>2, <2>1, <2>4 DEF VisitOK
<1>9. CASE FiemapEmpty \/ SyscallFails
  <2>1. pc' = "failed" /\ UNCHANGED <<exists, touched>>
    BY <1>9 DEF FiemapEmpty, SyscallFails, OpenDirFails, OpenFails, FiemapFails, Exit, fs_vars
  <2>2. QED
    BY <1>2, <2>1 DEF VisitOK
<1>10. CASE FiemapSkip \/ FiemapRecord \/ FileScanned
  <2>1. /\ pc \in {"fiemap", "scanned"}
        /\ pc' = "done" => ~isdir
        /\ UNCHANGED <<exists, touched, isdir, stack, scanned>>
    BY <1>10 DEF FiemapSkip, FiemapRecord, FileScanned, Advance, Exit, fs_vars
  <2>2. ASSUME isdir, NEW f \in Files \ touched
        PROVE  Safe(f)'
    BY <1>3, <2>1, <2>2 DEF IsScanned, IsPending
  <2>3. QED
    BY <1>2, <2>1, <2>2 DEF VisitOK
<1>11. CASE FileSystem
  <2>1. UNCHANGED <<pc, cur, isdir, stack, scanned>>
    BY <1>1, <1>11, FileSystemType DEF walk_vars, ctr_vars
  <2>2. touched \subseteq touched' /\ exists \ exists' \subseteq touched'
    BY <1>11 DEF FileSystem, MoveBlock, WriteBlock, Truncate, Unlink, Change
  <2>3. ASSUME isdir, pc # "failed", NEW f \in Files \ touched'
        PROVE  Safe(f)'
    BY <1>3, <2>1, <2>2, <2>3 DEF IsScanned, IsPending
  <2>4. Files \ touched' \subseteq exists'
    BY <1>2, <2>2
  <2>5. isdir' /\ pc' = "done" => Len(stack') = 0
    BY <2>1 DEF VisitOK
  <2>6. QED
    BY <2>1, <2>3, <2>4, <2>5 DEF VisitOK
<1>12. CASE UNCHANGED vars
  BY <1>12 DEF VisitOK, IsScanned, IsPending, vars, fs_vars, walk_vars, ctr_vars
<1>13. QED
  BY <1>4, <1>5, <1>6, <1>7, <1>8, <1>9, <1>10, <1>11, <1>12 DEF Next, Steps, Finished

(* The blocks an extent tells of, those the scan with one id told of, and  *)
(* those a file has on the zoned device below a logical block.             *)
BlocksOf(e) == {<<e.logical_blk + k, e.phy_blk + k + Offset>> : k \in 0 .. e.len - 1}

BlocksOfScan(n) == UNION {BlocksOf(e) : e \in {e \in Recorded : e.fileID = n}}

OnZns(f, bound) ==
  {<<l, content[f][l]>> : l \in {k \in Mapped(f) : content[f][k] >= Offset /\ k < bound}}

(* The scans told exactly what the files left alone have.                  *)
ScannedOK ==
  /\ pc # "failed" => Len(scanned) = nr_files + (IF Scanning THEN 1 ELSE 0)
  /\ Scanning => scanned[nr_files + 1] = cur
  /\ pc = "done" => \A e \in Recorded : e.fileID < nr_files
  /\ pc # "failed" =>
       \A n \in 0 .. nr_files - 1 :
         scanned[n + 1] \notin touched \cup Inline =>
           BlocksOfScan(n) = OnZns(scanned[n + 1], MaxBlocks)
  /\ Scanning /\ cur \notin touched \cup Inline =>
       /\ BlocksOfScan(nr_files) = OnZns(cur, fm_start)
       /\ pc = "scanned" => \A l \in Mapped(cur) : l < fm_start

(* The extent in the answer is a run of blocks on one device, and nothing  *)
(* is mapped in front of it.                                               *)
LEMMA AnswerRun ==
  ASSUME TypeOK, ControlOK, pc = "fiemap", cur \notin Inline, NEW a \in FiemapAnswers(cur)
  PROVE  /\ a.inline = FALSE
         /\ \A l \in Mapped(cur) : fm_start <= l => a.fe_logical <= l
         /\ \A l \in a.fe_logical .. a.fe_logical + a.fe_length - 1 :
              /\ l \in Mapped(cur)
              /\ content[cur][l] = a.fe_physical + (l - a.fe_logical)
              /\ content[cur][l] >= Offset <=> a.fe_physical >= Offset
         /\ a.last => \A l \in Mapped(cur) : l < a.fe_logical + a.fe_length
<1>1. PICK run \in LogicalBlocks \X (1 .. MaxBlocks) :
        /\ IsFirstMapped(cur, fm_start, run[1])
        /\ IsRun(cur, run[1], run[2])
        /\ a = [fe_logical |-> run[1], fe_physical |-> content[cur][run[1]],
                fe_length |-> run[2], inline |-> FALSE,
                last |-> \A k \in Mapped(cur) : k < run[1] + run[2]]
  BY DEF FiemapAnswers
<1>2. /\ a.fe_logical = run[1]
      /\ a.fe_physical = content[cur][run[1]]
      /\ a.fe_length = run[2]
      /\ a.inline = FALSE
      /\ a.last = (\A k \in Mapped(cur) : k < run[1] + run[2])
  BY <1>1
<1>3. \A l \in Mapped(cur) : fm_start <= l => run[1] <= l
  BY <1>1 DEF IsFirstMapped
<1>4. ASSUME NEW l \in run[1] .. run[1] + run[2] - 1
      PROVE  /\ l \in Mapped(cur)
             /\ content[cur][l] = content[cur][run[1]] + (l - run[1])
             /\ content[cur][l] >= Offset <=> content[cur][run[1]] >= Offset
  <2>1. /\ l \in Mapped(cur)
        /\ content[cur][l] = content[cur][run[1]] + (l - run[1])
        /\ OnOneDevice(content[cur][l], content[cur][run[1]])
    BY <1>1 DEF IsRun
  <2>2. run[1] \in Mapped(cur)
    BY <1>1 DEF IsFirstMapped
  <2>3. \A k \in Mapped(cur) : content[cur][k] \in Addresses
    BY DEF Mapped, TypeOK, ControlOK
  <2>4. Addresses \subseteq Int /\ Offset \in Int
    BY BoundsAssumption DEF Addresses
  <2>5. content[cur][l] \in Int /\ content[cur][run[1]] \in Int
    BY <2>1, <2>2, <2>3, <2>4
  <2>6. QED
    BY <2>1, <2>4, <2>5 DEF OnOneDevice
<1>5. QED
  BY <1>2, <1>3, <1>4

(* One turn of the loop covers the blocks up to the end of the extent.     *)
LEMMA TurnCovers ==
  ASSUME TypeOK, ControlOK, pc = "fiemap", cur \notin Inline, NEW a \in FiemapAnswers(cur)
  PROVE  OnZns(cur, a.fe_logical + a.fe_length)
           = OnZns(cur, fm_start) \cup (IF IsRecorded(a) THEN BlocksOf(ExtentOf(a)) ELSE {})
<1> DEFINE end == a.fe_logical + a.fe_length
           told == IF IsRecorded(a) THEN BlocksOf(ExtentOf(a)) ELSE {}
<1>1. /\ a.inline = FALSE
      /\ \A l \in Mapped(cur) : fm_start <= l => a.fe_logical <= l
  BY AnswerRun
<1>11. \A l \in a.fe_logical .. a.fe_logical + a.fe_length - 1 :
         /\ l \in Mapped(cur)
         /\ content[cur][l] = a.fe_physical + (l - a.fe_logical)
         /\ content[cur][l] >= Offset <=> a.fe_physical >= Offset
  BY AnswerRun
<1>2. /\ a.fe_logical \in Nat
      /\ a.fe_physical \in Nat
      /\ a.fe_length \in Nat
      /\ fm_start \in Nat
      /\ fm_start <= a.fe_logical
      /\ Offset \in Nat
  BY AnswerProperties, BoundsAssumption DEF LogicalBlocks, Addresses, TypeOK
<1>3. Mapped(cur) \subseteq Nat
  BY BoundsAssumption DEF Mapped, LogicalBlocks
<1>4. IsRecorded(a) <=> a.fe_physical >= Offset
  BY <1>1 DEF IsRecorded
<1>5. /\ ExtentOf(a).logical_blk = a.fe_logical
      /\ ExtentOf(a).len = a.fe_length
      /\ ExtentOf(a).phy_blk = a.fe_physical - Offset
  BY DEF ExtentOf
<1>6. \A l \in a.fe_logical .. end - 1 : IsRecorded(a) => <<l, content[cur][l]>> \in told
  <2> SUFFICES ASSUME NEW l \in a.fe_logical .. end - 1, IsRecorded(a)
               PROVE  <<l, content[cur][l]>> \in BlocksOf(ExtentOf(a))
    OBVIOUS
  <2>1. /\ l - a.fe_logical \in 0 .. ExtentOf(a).len - 1
        /\ l = ExtentOf(a).logical_blk + (l - a.fe_logical)
        /\ content[cur][l] = ExtentOf(a).phy_blk + (l - a.fe_logical) + Offset
    BY <1>2, <1>5, <1>11
  <2>2. QED
    BY <2>1 DEF BlocksOf
<1>7. ASSUME NEW p \in told
      PROVE  p \in OnZns(cur, end)
  <2>1. IsRecorded(a) /\ p \in BlocksOf(ExtentOf(a))
    BY <1>7
  <2>2. PICK k \in 0 .. ExtentOf(a).len - 1 :
          p = <<ExtentOf(a).logical_blk + k, ExtentOf(a).phy_blk + k + Offset>>
    BY <2>1 DEF BlocksOf
  <2> DEFINE l == a.fe_logical + k
  <2>3. l \in a.fe_logical .. end - 1 /\ l < end
    BY <1>2, <1>5, <2>2
  <2>4. l \in Mapped(cur) /\ content[cur][l] = a.fe_physical + k /\ content[cur][l] >= Offset
    BY <1>2, <1>4, <1>11, <2>1, <2>3
  <2>5. p = <<l, content[cur][l]>>
    BY <1>2, <1>5, <2>2, <2>4
  <2> HIDE DEF l, end
  <2>6. QED
    BY <2>3, <2>4, <2>5 DEF OnZns
<1> HIDE DEF told
<1>8. ASSUME NEW p \in OnZns(cur, end)
      PROVE  p \in OnZns(cur, fm_start) \cup told
  <2>1. PICK l \in Mapped(cur) : content[cur][l] >= Offset /\ l < end /\ p = <<l, content[cur][l]>>
    BY <1>8 DEF OnZns
  <2>2. CASE l < fm_start
    BY <2>1, <2>2 DEF OnZns
  <2>3. CASE ~(l < fm_start)
    <3>1. l \in a.fe_logical .. end - 1
      BY <1>1, <1>2, <1>3, <2>1, <2>3
    <3>2. /\ content[cur][l] = a.fe_physical + (l - a.fe_logical)
          /\ content[cur][l] >= Offset <=> a.fe_physical >= Offset
      BY <1>2, <1>3, <1>11, <3>1
    <3>3. IsRecorded(a)
      BY <1>2, <1>3, <1>4, <2>1, <3>2
    <3>4. QED
      BY <1>6, <2>1, <3>1, <3>3
  <2>4. QED
    BY <2>2, <2>3
<1>9. ASSUME NEW p \in OnZns(cur, fm_start)
      PROVE  p \in OnZns(cur, end)
  <2>1. PICK l \in Mapped(cur) :
          content[cur][l] >= Offset /\ l < fm_start /\ p = <<l, content[cur][l]>>
    BY <1>9 DEF OnZns
  <2>2. l < end
    BY <1>2, <1>3, <2>1
  <2> HIDE DEF end
  <2>3. QED
    BY <2>1, <2>2 DEF OnZns
<1>10. QED
  BY <1>7, <1>8, <1>9 DEF told

LEMMA ScannedInit == Init => ScannedOK
<1> SUFFICES ASSUME Init
             PROVE  ScannedOK
  OBVIOUS
<1>1. /\ ~Scanning
      /\ pc # "done"
      /\ nr_files = 0
      /\ scanned = <<>>
  BY DEF Init, Scanning
<1>2. Len(scanned) = 0
  BY <1>1
<1>3. QED
  BY <1>1, <1>2 DEF ScannedOK

(* What FiemapRecord and FiemapSkip do with the answer they take.          *)
LEMMA RecordAnswer ==
  ASSUME IInv, FiemapRecord
  PROVE  \E a \in FiemapAnswers(cur) :
           /\ IsRecorded(a)
           /\ Advance(a)
           /\ Recorded' = Recorded \cup {ExtentOf(a)}
           /\ ExtentOf(a).fileID = nr_files
<1>1. TypeOK /\ ControlOK /\ ZonesOK
  BY DEF IInv
<1>2. PICK a \in FiemapAnswers(cur) :
        IsRecorded(a) /\ Record(ExtentOf(a)) /\ Advance(a)
  BY DEF FiemapRecord
<1>3. pc = "fiemap"
  BY DEF FiemapRecord
<1>4. ExtentOf(a) \notin Recorded
  BY <1>2, <1>3, ExtentIsNew
<1>5. Recorded' = Recorded \cup {ExtentOf(a)}
  BY <1>1, <1>2, <1>3, <1>4, RecordProperties
<1>6. ExtentOf(a).fileID = nr_files
  BY <1>1, <1>2, <1>3, ExtentOfTyped
<1>7. QED
  BY <1>2, <1>5, <1>6

(* The scans told the same as long as no extent is recorded.               *)
LEMMA ScansKept ==
  ASSUME Recorded' = Recorded, NEW n
  PROVE  BlocksOfScan(n)' = BlocksOfScan(n)
BY DEF BlocksOfScan, BlocksOf

LEMMA BlocksKept ==
  ASSUME content' = content, NEW f, NEW bound
  PROVE  /\ Mapped(f)' = Mapped(f)
         /\ OnZns(f, bound)' = OnZns(f, bound)
BY DEF OnZns, Mapped

(* A turn of the loop, with the extent recorded or skipped.                *)
LEMMA ScannedTurn ==
  ASSUME IInv, ScannedOK, [Next]_vars, FiemapSkip \/ FiemapRecord
  PROVE  ScannedOK'
<1>1. TypeOK /\ ControlOK
  BY DEF IInv
<1>2. /\ pc = "fiemap"
      /\ UNCHANGED <<content, touched, cur, nr_files, scanned>>
  BY DEF FiemapSkip, FiemapRecord, fs_vars
<1>3. \E a \in FiemapAnswers(cur) :
        /\ Advance(a)
        /\ Recorded' = Recorded \cup (IF IsRecorded(a) THEN {ExtentOf(a)} ELSE {})
        /\ ExtentOf(a).fileID = nr_files
  <2>1. CASE FiemapRecord
    BY <2>1, RecordAnswer
  <2>2. CASE FiemapSkip /\ ~FiemapRecord
    <3>1. Recorded' = Recorded
      BY <1>1, <2>2, OtherSteps
    <3>2. PICK a \in FiemapAnswers(cur) : ~IsRecorded(a) /\ Advance(a)
      BY <2>2 DEF FiemapSkip
    <3>3. ExtentOf(a).fileID = nr_files
      BY DEF ExtentOf
    <3> HIDE DEF Recorded
    <3>4. QED
      BY <3>1, <3>2, <3>3
  <2>3. QED
    BY <2>1, <2>2
<1>4. PICK a \in FiemapAnswers(cur) :
        /\ Advance(a)
        /\ Recorded' = Recorded \cup (IF IsRecorded(a) THEN {ExtentOf(a)} ELSE {})
        /\ ExtentOf(a).fileID = nr_files
  BY <1>3
<1>5. /\ pc' = IF a.last THEN "scanned" ELSE "fiemap"
      /\ fm_start' = a.fe_logical + a.fe_length
  BY <1>4 DEF Advance
<1>6. Scanning /\ Scanning'
  BY <1>2, <1>5 DEF Scanning
<1> DEFINE told == IF IsRecorded(a) THEN BlocksOf(ExtentOf(a)) ELSE {}
           e == ExtentOf(a)
<1> HIDE DEF Recorded, e
<1>7. \A n : BlocksOf(n)' = BlocksOf(n)
  BY DEF BlocksOf
<1>8. \A n : n # nr_files => BlocksOfScan(n)' = BlocksOfScan(n)
  <2> SUFFICES ASSUME NEW n, n # nr_files
               PROVE  BlocksOfScan(n)' = BlocksOfScan(n)
    OBVIOUS
  <2>1. {d \in Recorded' : d.fileID = n} = {d \in Recorded : d.fileID = n}
    BY <1>4
  <2>2. QED
    BY <1>7, <2>1 DEF BlocksOfScan
<1>9. BlocksOfScan(nr_files)' = BlocksOfScan(nr_files) \cup told
  <2>1. CASE IsRecorded(a)
    <3>1. {d \in Recorded' : d.fileID = nr_files} = {d \in Recorded : d.fileID = nr_files} \cup {e}
      BY <1>4, <2>1 DEF e
    <3>2. QED
      BY <1>2, <1>7, <2>1, <3>1 DEF BlocksOfScan, e
  <2>2. CASE ~IsRecorded(a)
    <3>1. Recorded' = Recorded
      BY <1>4, <2>2
    <3>2. QED
      BY <1>2, <1>7, <2>2, <3>1 DEF BlocksOfScan
  <2>3. QED
    BY <2>1, <2>2
<1>10. \A f, bound : OnZns(f, bound)' = OnZns(f, bound)
  BY <1>2, BlocksKept
<1>11. ASSUME cur \notin touched \cup Inline
       PROVE  /\ BlocksOfScan(nr_files)' = OnZns(cur, fm_start)'
              /\ pc' = "scanned" => \A l \in Mapped(cur) : l < fm_start'
  <2>1. BlocksOfScan(nr_files) = OnZns(cur, fm_start)
    BY <1>6, <1>11 DEF ScannedOK
  <2>2. OnZns(cur, fm_start') = OnZns(cur, fm_start) \cup told
    BY <1>1, <1>2, <1>5, <1>11, TurnCovers
  <2>3. OnZns(cur, fm_start)' = OnZns(cur, fm_start')
    BY <1>2 DEF OnZns, Mapped
  <2>4. a.last => \A l \in Mapped(cur) : l < fm_start'
    BY <1>1, <1>2, <1>5, <1>11, AnswerRun
  <2>5. QED
    BY <1>5, <1>9, <2>1, <2>2, <2>3, <2>4
<1>12. Mapped(cur)' = Mapped(cur)
  BY <1>2 DEF Mapped
<1>13. Scanning' /\ cur' \notin touched' \cup Inline =>
         /\ BlocksOfScan(nr_files)' = OnZns(cur, fm_start)'
         /\ pc' = "scanned" => \A l \in Mapped(cur)' : l < fm_start'
  BY <1>2, <1>11, <1>12
<1>14. ASSUME NEW n \in 0 .. nr_files' - 1, scanned'[n + 1] \notin touched' \cup Inline
       PROVE  BlocksOfScan(n)' = OnZns(scanned[n + 1], MaxBlocks)'
  <2>1. n \in 0 .. nr_files - 1 /\ n # nr_files
    BY <1>1, <1>2 DEF TypeOK
  <2>2. scanned[n + 1] \notin touched \cup Inline
    BY <1>2, <1>14
  <2>3. BlocksOfScan(n) = OnZns(scanned[n + 1], MaxBlocks)
    BY <1>2, <2>1, <2>2 DEF ScannedOK
  <2>4. BlocksOfScan(n)' = BlocksOfScan(n)
    BY <1>8, <2>1
  <2>5. OnZns(scanned[n + 1], MaxBlocks)' = OnZns(scanned[n + 1], MaxBlocks)
    BY <1>2 DEF OnZns, Mapped
  <2>6. QED
    BY <2>3, <2>4, <2>5
<1>15. /\ Len(scanned') = nr_files' + 1
       /\ scanned'[nr_files' + 1] = cur'
  BY <1>2, <1>6 DEF ScannedOK
<1>16. QED
  BY <1>5, <1>6, <1>13, <1>14, <1>15 DEF ScannedOK

(* A step that neither scans nor changes a file leaves the scans as told.  *)
LEMMA ScannedIdle ==
  ASSUME IInv, ScannedOK, ~Scanning, ~Scanning', Recorded' = Recorded,
         UNCHANGED <<content, touched, nr_files, scanned>>,
         pc' = "done" => pc \in {"readdir", "done"},
         pc = "failed" => pc' = "failed"
  PROVE  ScannedOK'
<1>1. ASSUME pc' # "failed"
      PROVE  Len(scanned') = nr_files'
  <2>1. nr_files \in Nat
    BY DEF IInv, TypeOK
  <2>2. QED
    BY <1>1, <2>1 DEF ScannedOK
<1>2. ASSUME pc' = "done", NEW e \in Recorded'
      PROVE  e.fileID < nr_files'
  BY <1>2 DEF ScannedOK, IInv, ScanOK
<1>3. ASSUME pc' # "failed", NEW n \in 0 .. nr_files' - 1, scanned'[n + 1] \notin touched' \cup Inline
      PROVE  BlocksOfScan(n)' = OnZns(scanned[n + 1], MaxBlocks)'
  <2>1. BlocksOfScan(n) = OnZns(scanned[n + 1], MaxBlocks)
    BY <1>3 DEF ScannedOK
  <2>2. BlocksOfScan(n)' = BlocksOfScan(n)
    BY ScansKept
  <2>3. OnZns(scanned[n + 1], MaxBlocks)' = OnZns(scanned[n + 1], MaxBlocks)
    BY DEF OnZns, Mapped
  <2>4. QED
    BY <2>1, <2>2, <2>3
<1>4. QED
  BY <1>1, <1>2, <1>3 DEF ScannedOK

LEMMA ScannedStep ==
  ASSUME IInv, ScannedOK, [Next]_vars
  PROVE  ScannedOK'
<1>1. TypeOK /\ ControlOK /\ ScanOK
  BY DEF IInv
<1>2. nr_files \in Nat /\ scanned \in Seq(Files) /\ Len(scanned) \in Nat
  BY <1>1 DEF TypeOK
<1>3. ~FiemapRecord => Recorded' = Recorded
  BY <1>1, OtherSteps
<1> HIDE DEF Recorded
<1>4. CASE ReadDirFile \/ ReadDirDirectory \/ ReadDirEnd \/ OpenMissing
  <2>1. /\ ~Scanning /\ ~Scanning'
        /\ ~FiemapRecord
        /\ UNCHANGED <<content, touched, nr_files, scanned>>
        /\ pc \in {"readdir", "open"}
        /\ pc' = "done" => pc = "readdir"
    BY <1>4 DEF ReadDirFile, ReadDirDirectory, ReadDirEnd, OpenMissing, FiemapRecord, Exit,
      Scanning, fs_vars, ctr_vars
  <2>2. QED
    BY <1>3, <2>1, ScannedIdle
<1>5. CASE OpenFile
  <2>1. /\ pc = "open"
        /\ pc' = "fiemap"
        /\ fm_start' = 0
        /\ scanned' = Append(scanned, cur)
        /\ ~FiemapRecord
        /\ UNCHANGED <<content, touched, cur, nr_files>>
    BY <1>5 DEF OpenFile, FiemapRecord, fs_vars
  <2>2. cur \in Files /\ Len(scanned) = nr_files
    BY <1>1, <1>2, <2>1 DEF ControlOK, ScannedOK, Scanning
  <2>3. /\ Len(scanned') = nr_files + 1
        /\ scanned'[nr_files + 1] = cur
        /\ \A k \in 1 .. nr_files : scanned'[k] = scanned[k]
    BY <1>2, <2>1, <2>2, AppendProperties
  <2>4. Recorded' = Recorded /\ \A n : BlocksOfScan(n)' = BlocksOfScan(n)
    BY <1>3, <2>1, ScansKept
  <2>5. BlocksOfScan(nr_files) = {}
    <3>1. \A e \in Recorded : e.fileID < nr_files
      BY <1>1, <2>1 DEF ScanOK
    <3>2. {e \in Recorded : e.fileID = nr_files} = {}
      BY <1>2, <3>1
    <3>3. QED
      BY <3>2 DEF BlocksOfScan
  <2>6. OnZns(cur, fm_start)' = {}
    <3>1. Mapped(cur)' \subseteq Nat
      BY BoundsAssumption DEF Mapped, LogicalBlocks
    <3>2. QED
      BY <2>1, <3>1 DEF OnZns
  <2>7. ASSUME NEW n \in 0 .. nr_files - 1, scanned'[n + 1] \notin touched \cup Inline
        PROVE  BlocksOfScan(n)' = OnZns(scanned[n + 1], MaxBlocks)'
    <3>1. scanned'[n + 1] = scanned[n + 1]
      BY <1>2, <2>3
    <3>2. BlocksOfScan(n) = OnZns(scanned[n + 1], MaxBlocks)
      BY <2>1, <2>7, <3>1 DEF ScannedOK
    <3>3. OnZns(scanned[n + 1], MaxBlocks)' = OnZns(scanned[n + 1], MaxBlocks)
      BY <2>1, <3>1 DEF OnZns, Mapped
    <3>4. QED
      BY <2>4, <3>2, <3>3
  <2>8. BlocksOfScan(nr_files)' = OnZns(cur, fm_start)'
    BY <2>1, <2>4, <2>5, <2>6
  <2>9. QED
    BY <2>1, <2>3, <2>7, <2>8 DEF ScannedOK, Scanning
<1>6. CASE FiemapEmpty \/ SyscallFails
  <2>1. pc' = "failed"
    BY <1>6 DEF FiemapEmpty, SyscallFails, OpenDirFails, OpenFails, FiemapFails, Exit
  <2>2. QED
    BY <2>1 DEF ScannedOK, Scanning
<1>7. CASE FiemapSkip \/ FiemapRecord
  BY <1>7, ScannedTurn
<1>8. CASE FileScanned
  <2>1. /\ pc = "scanned"
        /\ pc' \in {"readdir", "done", "failed"}
        /\ nr_files' = nr_files + 1
        /\ ~FiemapRecord
        /\ UNCHANGED <<content, touched, scanned>>
    BY <1>8 DEF FileScanned, FiemapRecord, Exit, fs_vars
  <2>2. /\ Scanning
        /\ Len(scanned) = nr_files + 1
        /\ scanned[nr_files + 1] = cur
    BY <2>1 DEF ScannedOK, Scanning
  <2>3. Recorded' = Recorded /\ \A n : BlocksOfScan(n)' = BlocksOfScan(n)
    BY <1>3, <2>1, ScansKept
  <2>4. \A e \in Recorded' : e.fileID < nr_files'
    <3>1. \A e \in Recorded : e.fileID <= nr_files /\ e.fileID \in Nat
      BY <1>1, RecordedTyped DEF ScanOK, Extent
    <3>2. QED
      BY <1>2, <2>1, <2>3, <3>1
  <2>5. ASSUME NEW n \in 0 .. nr_files' - 1, scanned'[n + 1] \notin touched' \cup Inline
        PROVE  BlocksOfScan(n)' = OnZns(scanned[n + 1], MaxBlocks)'
    <3>1. scanned[n + 1] \notin touched \cup Inline
      BY <2>1, <2>5
    <3>2. BlocksOfScan(n) = OnZns(scanned[n + 1], MaxBlocks)
      <4>1. CASE n # nr_files
        <5>1. n \in 0 .. nr_files - 1
          BY <1>2, <2>1, <4>1
        <5>2. QED
          BY <2>1, <3>1, <5>1 DEF ScannedOK
      <4>2. CASE n = nr_files
        <5>1. cur \notin touched \cup Inline
          BY <2>2, <3>1, <4>2
        <5>2. /\ BlocksOfScan(nr_files) = OnZns(cur, fm_start)
              /\ \A l \in Mapped(cur) : l < fm_start
          BY <2>1, <2>2, <5>1 DEF ScannedOK
        <5>3. \A l \in Mapped(cur) : l < MaxBlocks
          BY BoundsAssumption DEF Mapped, LogicalBlocks
        <5>4. OnZns(cur, fm_start) = OnZns(cur, MaxBlocks)
          BY <5>2, <5>3 DEF OnZns
        <5>5. QED
          BY <2>2, <4>2, <5>2, <5>4
      <4>3. QED
        BY <4>1, <4>2
    <3>3. OnZns(scanned[n + 1], MaxBlocks)' = OnZns(scanned[n + 1], MaxBlocks)
      BY <2>1 DEF OnZns, Mapped
    <3>4. QED
      BY <2>3, <3>2, <3>3
  <2>6. Len(scanned') = nr_files' /\ ~Scanning'
    BY <2>1, <2>2 DEF Scanning
  <2>7. QED
    BY <2>4, <2>5, <2>6 DEF ScannedOK
<1>9. CASE FileSystem /\ ~FiemapRecord
  <2>1. UNCHANGED <<pc, cur, fm_start, nr_files, scanned>>
    BY <1>1, <1>9, FileSystemType DEF walk_vars, file_vars, ctr_vars
  <2>2. PICK f \in Files : MoveBlock(f) \/ WriteBlock(f) \/ Truncate(f) \/ Unlink(f)
    BY <1>9 DEF FileSystem
  <2>3. touched' = touched \cup {f}
    BY <2>2 DEF MoveBlock, WriteBlock, Truncate, Unlink, Change
  <2>4. \A g \in Files \ {f} : content'[g] = content[g]
    BY <1>1, <2>2 DEF MoveBlock, WriteBlock, Truncate, Unlink, TypeOK
  <2>5. ASSUME NEW g \in Files, g \notin touched', NEW bound
        PROVE  Mapped(g)' = Mapped(g) /\ OnZns(g, bound)' = OnZns(g, bound)
    <3>1. content'[g] = content[g]
      BY <2>3, <2>4, <2>5
    <3>2. QED
      BY <3>1 DEF OnZns, Mapped
  <2>6. Recorded' = Recorded /\ \A n : BlocksOfScan(n)' = BlocksOfScan(n)
    BY <1>3, <1>9, ScansKept
  <2>7. ASSUME pc # "failed", NEW n \in 0 .. nr_files - 1, scanned[n + 1] \notin touched' \cup Inline
        PROVE  BlocksOfScan(n)' = OnZns(scanned[n + 1], MaxBlocks)'
    <3>1. n + 1 \in 1 .. Len(scanned)
      BY <1>2, <2>7 DEF ScannedOK
    <3>2. scanned[n + 1] \in Files
      BY <1>2, <3>1, ElementOfSeq
    <3>3. BlocksOfScan(n) = OnZns(scanned[n + 1], MaxBlocks)
      BY <2>3, <2>7 DEF ScannedOK
    <3> DEFINE g == scanned[n + 1]
    <3>4. g' = g
      BY <2>1
    <3>5. OnZns(scanned[n + 1], MaxBlocks)' = OnZns(g, MaxBlocks)
      <4>1. content'[g] = content[g]
        BY <2>3, <2>4, <2>7, <3>2
      <4>2. QED
        BY <3>4, <4>1 DEF OnZns, Mapped
    <3>6. QED
      BY <2>6, <3>3, <3>5
  <2>8. ASSUME Scanning, cur \notin touched' \cup Inline
        PROVE  /\ BlocksOfScan(nr_files)' = OnZns(cur, fm_start)'
               /\ pc = "scanned" => \A l \in Mapped(cur)' : l < fm_start
    <3>1. cur \in Files /\ cur \notin touched \cup Inline
      BY <1>1, <2>3, <2>8 DEF ControlOK, Scanning
    <3>2. content'[cur] = content[cur]
      BY <2>3, <2>4, <2>8, <3>1
    <3>3. Mapped(cur)' = Mapped(cur) /\ OnZns(cur, fm_start)' = OnZns(cur, fm_start)
      BY <2>1, <3>2 DEF OnZns, Mapped
    <3>4. /\ BlocksOfScan(nr_files) = OnZns(cur, fm_start)
          /\ pc = "scanned" => \A l \in Mapped(cur) : l < fm_start
      BY <2>8, <3>1 DEF ScannedOK
    <3>5. BlocksOfScan(nr_files)' = BlocksOfScan(nr_files)
      BY <2>1, <2>6 DEF BlocksOfScan, BlocksOf
    <3>6. QED
      BY <3>3, <3>4, <3>5
  <2>9. Scanning' = Scanning
    BY <2>1 DEF Scanning
  <2>10. /\ pc # "failed" => Len(scanned) = nr_files + (IF Scanning THEN 1 ELSE 0)
         /\ Scanning => scanned[nr_files + 1] = cur
         /\ pc = "done" => \A e \in Recorded' : e.fileID < nr_files
    BY <2>6 DEF ScannedOK
  <2>11. QED
    BY <2>1, <2>7, <2>8, <2>9, <2>10 DEF ScannedOK
<1>10. CASE UNCHANGED vars /\ ~FiemapRecord
  <2>1. UNCHANGED <<content, touched, pc, cur, fm_start, nr_files, scanned>>
    BY <1>10 DEF vars, fs_vars, walk_vars, file_vars, ctr_vars
  <2>2. Recorded' = Recorded
    BY <1>3, <1>10
  <2>3. QED
    BY <2>1, <2>2 DEF ScannedOK, Scanning, BlocksOfScan, BlocksOf, OnZns, Mapped
<1>11. QED
  BY <1>4, <1>5, <1>6, <1>7, <1>8, <1>9, <1>10 DEF Next, Steps, Finished

(* Every file that should be visited and that nobody changed is reported   *)
(* block by block, whatever happened to the others.                        *)
THEOREM UntouchedFilesAreExact == Spec => []UntouchedFilesExact
<1>1. Init => VisitOK /\ ScannedOK
  BY VisitInit, ScannedInit
<1>2. IInv /\ (VisitOK /\ ScannedOK) /\ [Next]_vars => (VisitOK /\ ScannedOK)'
  BY VisitStep, ScannedStep
<1>3. ASSUME IInv, VisitOK, ScannedOK
      PROVE  UntouchedFilesExact
  <2> SUFFICES ASSUME pc = "done",
                      NEW f \in (IF isdir THEN Files ELSE Range(scanned)) \ (touched \cup Inline)
               PROVE  RecordedBlocks(f)
                        = {<<l, content[f][l]>> : l \in {k \in Mapped(f) : content[f][k] >= Offset}}
    BY DEF UntouchedFilesExact
  <2>1. TypeOK /\ ~Scanning
    BY <1>3 DEF IInv, Scanning
  <2>2. nr_files \in Nat /\ Len(scanned) = nr_files /\ scanned \in Seq(Files)
    BY <1>3, <2>1 DEF ScannedOK, TypeOK
  <2>3. PICK k \in 1 .. nr_files : scanned[k] = f
    <3>1. CASE ~isdir
      BY <2>2, <3>1 DEF Range
    <3>2. CASE isdir
      <4>1. ~IsPending(f)
        BY <1>3, <3>2 DEF VisitOK, IsPending
      <4>2. IsScanned(f)
        BY <1>3, <3>2, <4>1 DEF VisitOK
      <4>3. QED
        BY <2>2, <4>2 DEF IsScanned
    <3>3. QED
      BY <3>1, <3>2
  <2>4. {<<l, content[f][l]>> : l \in {m \in Mapped(f) : content[f][m] >= Offset}}
          = OnZns(f, MaxBlocks)
    <3>1. \A l \in Mapped(f) : l < MaxBlocks
      BY BoundsAssumption DEF Mapped, LogicalBlocks
    <3>2. QED
      BY <3>1 DEF OnZns
  <2>5. \A n \in 0 .. nr_files - 1 : scanned[n + 1] = f => BlocksOfScan(n) = OnZns(f, MaxBlocks)
    BY <1>3 DEF ScannedOK
  <2>6. \A e \in Recorded : e.fileID \in 0 .. nr_files - 1
    <3>1. \A e \in Recorded : e.fileID < nr_files /\ e.fileID \in Nat
      BY <1>3, <2>1, RecordedTyped DEF ScannedOK, Extent
    <3>2. QED
      BY <2>2, <3>1
  <2> HIDE DEF Recorded
  <2>7. ASSUME NEW p \in RecordedBlocks(f)
        PROVE  p \in OnZns(f, MaxBlocks)
    <3>1. PICK e \in Recorded : scanned[e.fileID + 1] = f /\ p \in BlocksOf(e)
      BY <2>7 DEF RecordedBlocks, BlocksOf
    <3>2. p \in BlocksOfScan(e.fileID)
      BY <3>1 DEF BlocksOfScan
    <3>3. QED
      BY <2>5, <2>6, <3>1, <3>2
  <2>8. ASSUME NEW p \in OnZns(f, MaxBlocks)
        PROVE  p \in RecordedBlocks(f)
    <3>1. k - 1 \in 0 .. nr_files - 1 /\ scanned[(k - 1) + 1] = f
      BY <2>2, <2>3
    <3>2. p \in BlocksOfScan(k - 1)
      BY <2>5, <2>8, <3>1
    <3>3. PICK e \in Recorded : e.fileID = k - 1 /\ p \in BlocksOf(e)
      BY <3>2 DEF BlocksOfScan
    <3>4. scanned[e.fileID + 1] = f
      BY <3>1, <3>3
    <3>5. QED
      BY <3>3, <3>4 DEF RecordedBlocks, BlocksOf
  <2>9. QED
    BY <2>4, <2>7, <2>8
<1>4. QED
  BY <1>1, <1>2, <1>3, Invariance, PTL DEF Spec

-----------------------------------------------------------------------------
(* The collection implements the catalog.                                  *)

LEMMA InitRefines == Init => Catalog!Init
<1> SUFFICES ASSUME Init
             PROVE  Catalog!Init
  OBVIOUS
<1>1. Recorded = {}
  BY DEF Init, Recorded, ExtentsIn, EmptyZone, Range
<1>2. nr_files = 0 /\ ~Scanning /\ Running
  BY DEF Init, Scanning, Running
<1>3. QED
  BY <1>1, <1>2 DEF Catalog!Init, ScanNumber, ScanBlock

LEMMA StepRefines ==
  ASSUME IInv, [Next]_vars
  PROVE  Catalog!Next \/ UNCHANGED Catalog!vars
<1>1. TypeOK /\ ControlOK
  BY DEF IInv
<1>2. nr_files \in Nat /\ ext_ctr \in Nat /\ fm_start \in Nat
  BY <1>1, BoundsAssumption DEF TypeOK
<1>3. ~FiemapRecord => Recorded' = Recorded
  BY <1>1, OtherSteps
<1> HIDE DEF Recorded
(* The walk between two files is a step of nothing.                        *)
<1>4. CASE ReadDirFile \/ ReadDirDirectory
  <2>1. /\ UNCHANGED <<Recorded, nr_files>>
        /\ ~Scanning /\ ~Scanning'
        /\ Running /\ Running'
    BY <1>3, <1>4 DEF ReadDirFile, ReadDirDirectory, FiemapRecord, Scanning, Running,
      ctr_vars
  <2>2. QED
    BY <2>1 DEF Catalog!vars, ScanNumber, ScanBlock
<1>5. CASE OpenFile
  <2>1. /\ UNCHANGED <<Recorded, nr_files>>
        /\ ~Scanning /\ Scanning'
        /\ Running /\ Running'
        /\ ext_ctr' = 0 /\ fm_start' = 0
    BY <1>3, <1>5 DEF OpenFile, FiemapRecord, Scanning, Running
  <2>2. QED
    BY <2>1 DEF Catalog!vars, ScanNumber, ScanBlock
(* Where the walk may end, or the program gives up.                        *)
<1>6. CASE ReadDirEnd \/ OpenMissing
  <2>1. /\ UNCHANGED <<Recorded, nr_files>>
        /\ ~Scanning /\ ~Scanning'
        /\ Running
    BY <1>3, <1>6 DEF ReadDirEnd, OpenMissing, FiemapRecord, Scanning, Running, Exit,
      ctr_vars
  <2>2. CASE Running'
    BY <2>1, <2>2 DEF Catalog!vars, ScanNumber, ScanBlock
  <2>3. CASE ~Running'
    BY <2>1, <2>3 DEF Catalog!Next, Catalog!End, ScanNumber, ScanBlock
  <2>4. QED
    BY <2>2, <2>3
<1>7. CASE FiemapEmpty \/ SyscallFails
  <2>1. CASE ~FiemapRecord
    <3>1. /\ UNCHANGED <<Recorded, nr_files>>
          /\ Running /\ ~Running'
          /\ ~Scanning'
      BY <1>3, <1>7, <2>1 DEF FiemapEmpty, SyscallFails, OpenDirFails, OpenFails,
        FiemapFails, Exit, Scanning, Running, ctr_vars
    <3>2. QED
      BY <3>1 DEF Catalog!Next, Catalog!End, ScanNumber, ScanBlock
  <2>2. CASE FiemapRecord
    BY <1>7, <2>2 DEF FiemapRecord, FiemapEmpty, SyscallFails, OpenDirFails, OpenFails,
      FiemapFails, Exit, Advance
  <2>3. QED
    BY <2>1, <2>2
<1>8. CASE FiemapSkip /\ ~FiemapRecord
  <2>1. PICK a \in FiemapAnswers(cur) : Advance(a)
    BY <1>8 DEF FiemapSkip
  <2>2. /\ pc = "fiemap"
        /\ UNCHANGED <<Recorded, ext_ctr, nr_files>>
    BY <1>3, <1>8 DEF FiemapSkip
  <2>3. pc' \in {"fiemap", "scanned"} /\ fm_start' = a.fe_logical + a.fe_length
    BY <2>1 DEF Advance
  <2>4. /\ fm_start <= a.fe_logical
        /\ a.fe_logical \in Nat
        /\ a.fe_length \in Nat
    BY <1>1, <2>1, <2>2, AnswerProperties, BoundsAssumption DEF LogicalBlocks
  <2>5. fm_start <= fm_start' /\ fm_start' \in Nat
    BY <1>2, <2>3, <2>4
  <2>6. Scanning /\ Scanning' /\ Running /\ Running'
    BY <2>2, <2>3 DEF Scanning, Running
  <2>7. QED
    BY <2>2, <2>5, <2>6 DEF Catalog!Next, Catalog!Skip, ScanNumber, ScanBlock
<1>9. CASE FiemapRecord
  <2>1. PICK e \in Extent :
          /\ Recorded' = Recorded \cup {e}
          /\ e.fileID = nr_files
          /\ e.ext_nr = ext_ctr
          /\ fm_start <= e.logical_blk
          /\ fm_start' = e.logical_blk + e.len
          /\ ext_ctr' = ext_ctr + 1
    BY <1>9, RecordStep
  <2>2. /\ pc = "fiemap"
        /\ pc' \in {"fiemap", "scanned"}
        /\ nr_files' = nr_files
    BY <1>9 DEF FiemapRecord, Advance
  <2>3. e.logical_blk \in Nat /\ e.len \in Nat
    BY BoundsAssumption DEF Extent, LogicalBlocks
  <2>4. Scanning /\ Scanning' /\ Running /\ Running'
    BY <2>2 DEF Scanning, Running
  <2>5. e \in Recorded'
    BY <2>1
  <2>6. Catalog!Report
    BY <2>1, <2>2, <2>3, <2>4, <2>5 DEF Catalog!Report, ScanNumber, ScanBlock
  <2>7. QED
    BY <2>6 DEF Catalog!Next
<1>10. CASE FileScanned
  <2>1. /\ UNCHANGED Recorded
        /\ nr_files' = nr_files + 1
        /\ Running
        /\ ~Scanning'
    BY <1>3, <1>10 DEF FileScanned, FiemapRecord, Exit, Scanning, Running
  <2>2. (~Running') \in BOOLEAN
    BY DEF Running
  <2>3. QED
    BY <2>1, <2>2 DEF Catalog!Next, Catalog!NextFile, ScanNumber, ScanBlock
<1>11. CASE (FileSystem \/ UNCHANGED vars) /\ ~FiemapRecord
  <2>1. UNCHANGED <<pc, ext_ctr, fm_start, nr_files>>
    BY <1>1, <1>11, FileSystemType DEF vars, walk_vars, file_vars, ctr_vars
  <2>2. UNCHANGED Recorded
    BY <1>3, <1>11
  <2>3. QED
    BY <2>1, <2>2 DEF Catalog!vars, Scanning, Running, ScanNumber, ScanBlock
<1>12. QED
  BY <1>4, <1>5, <1>6, <1>7, <1>8, <1>9, <1>10, <1>11 DEF Next, Steps, Finished

(* Zones, lists and counters are a way to keep a catalog: every step of    *)
(* the tool on the live file system is a step the catalog allows.          *)
THEOREM Refinement == Spec => ImplementsCatalog
<1>1. Init => Catalog!Init
  BY InitRefines
<1>2. IInv /\ [Next]_vars => [Catalog!Next]_(Catalog!vars)
  BY StepRefines
<1>3. QED
  BY <1>1, <1>2, Invariance, PTL DEF Spec, ImplementsCatalog, Catalog!Spec

-----------------------------------------------------------------------------
(* What the catalog alone promises.                                        *)

CatalogInv == Catalog!TypeOK /\ Catalog!InOrder /\ Catalog!Passed

(* A reported extent lies behind all extents of its file, because          *)
(* Catalog!Passed says the scan has passed those.                          *)
LEMMA ReportKeepsInv == CatalogInv /\ Catalog!Report => CatalogInv'
<1> SUFFICES ASSUME CatalogInv, Catalog!Report
             PROVE  CatalogInv'
  OBVIOUS
<1>1. PICK e \in Recorded' :
        /\ e.fileID = nr_files
        /\ e.ext_nr = ScanNumber
        /\ e.logical_blk \in Nat
        /\ e.len \in Nat
        /\ ScanBlock <= e.logical_blk
        /\ Recorded' = Recorded \cup {e}
        /\ ScanBlock' = e.logical_blk + e.len
  BY DEF Catalog!Report
<1>2. Running /\ ScanNumber' = ScanNumber + 1 /\ nr_files' = nr_files /\ Running' = Running
  BY DEF Catalog!Report
<1>3. Catalog!TypeOK'
  BY <1>1, <1>2 DEF CatalogInv, Catalog!TypeOK
<1>4. Catalog!Passed'
  BY <1>1, <1>2 DEF CatalogInv, Catalog!TypeOK, Catalog!Passed
<1>5. Catalog!InOrder'
  <2> SUFFICES ASSUME NEW c \in Recorded', NEW d \in Recorded',
                      c.fileID = d.fileID
               PROVE  /\ c.ext_nr = d.ext_nr => c = d
                      /\ c.ext_nr < d.ext_nr => c.logical_blk + c.len <= d.logical_blk
    BY DEF Catalog!InOrder
  <2>1. CASE c \in Recorded /\ d \in Recorded
    BY <2>1 DEF CatalogInv, Catalog!InOrder
  <2>2. CASE c \in Recorded /\ d = e
    BY <2>2, <1>1, <1>2 DEF CatalogInv, Catalog!Passed, Catalog!TypeOK
  <2>3. CASE c = e /\ d \in Recorded
    BY <2>3, <1>1, <1>2 DEF CatalogInv, Catalog!Passed, Catalog!TypeOK
  <2>4. CASE c = e /\ d = e
    BY <2>4, <1>1 DEF CatalogInv, Catalog!TypeOK
  <2>5. QED
    BY <2>1, <2>2, <2>3, <2>4, <1>1
<1>6. QED
  BY <1>3, <1>4, <1>5 DEF CatalogInv

(* Whatever a catalog of extents does, no two extents of a file carry one  *)
(* number, and their numbers follow their logical order.                   *)
THEOREM CatalogInOrder == Catalog!Spec => [](Catalog!TypeOK /\ Catalog!InOrder)
<1>1. Catalog!Init => CatalogInv
  <2> SUFFICES ASSUME Catalog!Init
               PROVE  CatalogInv
    OBVIOUS
  <2>1. Catalog!TypeOK
    BY DEF Catalog!Init, Catalog!TypeOK
  <2>2. Catalog!InOrder /\ Catalog!Passed
    BY DEF Catalog!Init, Catalog!InOrder, Catalog!Passed
  <2>3. QED
    BY <2>1, <2>2 DEF CatalogInv
<1>2. CatalogInv /\ [Catalog!Next]_(Catalog!vars) => CatalogInv'
  <2> SUFFICES ASSUME CatalogInv, [Catalog!Next]_(Catalog!vars)
               PROVE  CatalogInv'
    OBVIOUS
  <2>1. CASE Catalog!Report
    BY <2>1, ReportKeepsInv
  <2>2. CASE Catalog!Skip
    BY <2>2 DEF Catalog!Skip, CatalogInv, Catalog!TypeOK, Catalog!InOrder, Catalog!Passed
  <2>3. CASE Catalog!NextFile
    <3>1. Catalog!TypeOK' /\ Catalog!InOrder'
      BY <2>3 DEF Catalog!NextFile, CatalogInv, Catalog!TypeOK, Catalog!InOrder
    <3>2. Catalog!Passed'
      BY <2>3 DEF Catalog!NextFile, CatalogInv, Catalog!TypeOK, Catalog!Passed
    <3>3. QED
      BY <3>1, <3>2 DEF CatalogInv
  <2>4. CASE Catalog!End
    BY <2>4 DEF Catalog!End, CatalogInv, Catalog!TypeOK, Catalog!InOrder, Catalog!Passed
  <2>5. CASE UNCHANGED Catalog!vars
    BY <2>5 DEF Catalog!vars, CatalogInv, Catalog!TypeOK, Catalog!InOrder, Catalog!Passed
  <2>6. QED
    BY <2>1, <2>2, <2>3, <2>4, <2>5 DEF Catalog!Next
<1>3. CatalogInv => Catalog!TypeOK /\ Catalog!InOrder
  BY DEF CatalogInv
<1>4. QED
  BY <1>1, <1>2, <1>3, PTL DEF Catalog!Spec
=============================================================================
