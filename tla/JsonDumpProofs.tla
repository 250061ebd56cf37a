---------------------------- MODULE JsonDumpProofs ----------------------------
(***************************************************************************)
(* The JSON dump of zns.segmap, for any zone map the collection may leave, *)
(* any sizes of zones and segments, any selection of zones and any number  *)
(* of digits a key may keep.                                               *)
(***************************************************************************)
EXTENDS JsonDump, FiniteSetTheorems, SequenceTheorems, WellFoundedInduction, TLAPS

(* An extent that lies on the device.                                      *)
Collectible(e) ==
  /\ e.phy_blk \in ZnsBlocks
  /\ e.len \in Nat
  /\ ExtentEnd(e) <= NrZones * ZoneSize

-----------------------------------------------------------------------------
(* Division, and the zones of the device.                                  *)

(* Dividing by the zone size rounds down.                                  *)
LEMMA DivisionBounds ==
  ASSUME NEW x \in Nat, NEW d \in Nat \ {0}
  PROVE  /\ x \div d \in Nat
         /\ d * (x \div d) <= x
         /\ x < d * (x \div d) + d
  OBVIOUS

(* A quotient lies below the number of parts.                              *)
LEMMA QuotientBound ==
  ASSUME NEW n \in Nat, NEW d \in Nat \ {0}, NEW q \in Nat, d * q < n * d
  PROVE  q < n
<1> SUFFICES ASSUME n <= q
             PROVE  FALSE
  OBVIOUS
<1>1. n * d <= q * d
  OBVIOUS
<1>2. QED
  BY <1>1

(* get_zone_number stays within the array of zones, whatever the mask cuts *)
(* off the address.                                                        *)
LEMMA ZoneNumberInRange ==
  ASSUME NEW lba \in ZnsBlocks
  PROVE  GetZoneNumber(lba) \in Zones
<1> DEFINE x == lba % Word
<1>1. /\ NrZones \in Nat \ {0}
      /\ ZoneSize \in Nat \ {0}
      /\ Word \in Nat \ {0}
  BY GeometryAssumption
<1>2. lba \in Nat /\ lba < NrZones * ZoneSize
  BY <1>1 DEF ZnsBlocks
<1>3. x \in Nat /\ x <= lba
  BY <1>1, <1>2
<1> HIDE DEF x
<1> DEFINE q == x \div ZoneSize
<1>4. q \in Nat /\ ZoneSize * q <= x
  BY <1>1, <1>3, DivisionBounds
<1> HIDE DEF q
<1>5. ZoneSize * q < NrZones * ZoneSize
  BY <1>1, <1>2, <1>3, <1>4
<1>6. q < NrZones
  BY <1>1, <1>4, <1>5, QuotientBound
<1>7. QED
  BY <1>1, <1>4, <1>6 DEF q, x, GetZoneNumber, Zones

(* On a device whose addresses fit the mask it is the zone the address is  *)
(* in.                                                                     *)
LEMMA ZoneNumberIsZone ==
  ASSUME DeviceFitsWord, NEW lba \in ZnsBlocks
  PROVE  /\ GetZoneNumber(lba) * ZoneSize <= lba
         /\ lba < (GetZoneNumber(lba) + 1) * ZoneSize
<1>1. /\ NrZones \in Nat \ {0}
      /\ ZoneSize \in Nat \ {0}
      /\ Word \in Nat \ {0}
  BY GeometryAssumption
<1>2. lba \in Nat /\ lba < Word
  BY <1>1 DEF ZnsBlocks, DeviceFitsWord
<1>3. lba % Word = lba
  BY <1>1, <1>2
<1> DEFINE q == lba \div ZoneSize
<1>4. q \in Nat /\ ZoneSize * q <= lba /\ lba < ZoneSize * q + ZoneSize
  BY <1>1, <1>2, DivisionBounds
<1>5. GetZoneNumber(lba) = q
  BY <1>3 DEF GetZoneNumber
<1> HIDE DEF q
<1>6. q * ZoneSize = ZoneSize * q /\ (q + 1) * ZoneSize = ZoneSize * q + ZoneSize
  BY <1>1, <1>4
<1>7. QED
  BY <1>4, <1>5, <1>6

-----------------------------------------------------------------------------
(* Segments of the device.                                                 *)

LEMMA SegSizeIsPositive == SegSize \in Nat \ {0}
  BY SegmentAssumption

LEMMA StartFacts ==
  ASSUME NEW s \in Nat
  PROVE  /\ SegmentStart(s) \in Nat
         /\ SegmentStart(s + 1) = SegmentStart(s) + SegSize
<1>1. (s + 1) * SegSize = s * SegSize + SegSize /\ s * SegSize \in Nat
  BY SegSizeIsPositive
<1>2. QED
  BY <1>1 DEF SegmentStart

LEMMA StartMonotone ==
  ASSUME NEW s \in Nat, NEW t \in Nat, s <= t
  PROVE  SegmentStart(s) <= SegmentStart(t)
<1>1. s * SegSize <= t * SegSize
  BY SegSizeIsPositive
<1>2. QED
  BY <1>1 DEF SegmentStart

LEMMA SegmentFacts ==
  ASSUME NEW b \in Nat
  PROVE  /\ SegmentOf(b) \in Nat
         /\ SegmentStart(SegmentOf(b)) <= b
         /\ b < SegmentStart(SegmentOf(b) + 1)
<1> DEFINE q == b \div SegSize
<1>1. q \in Nat /\ SegSize * q <= b /\ b < SegSize * q + SegSize
  BY SegSizeIsPositive, DivisionBounds
<1> HIDE DEF q
<1>2. SegSize * q = q * SegSize
  BY <1>1, SegSizeIsPositive
<1>3. SegmentStart(q) <= b /\ b < SegmentStart(q + 1)
  BY <1>1, <1>2, StartFacts, SegSizeIsPositive DEF SegmentStart
<1>4. QED
  BY <1>1, <1>3 DEF q, SegmentOf

(* A block lies in the segment whose bounds it is between.                 *)
LEMMA SegmentIs ==
  ASSUME NEW b \in Nat, NEW s \in Nat, SegmentStart(s) <= b, b < SegmentStart(s + 1)
  PROVE  SegmentOf(b) = s
<1> DEFINE q == SegmentOf(b)
<1>1. q \in Nat /\ SegmentStart(q) <= b /\ b < SegmentStart(q + 1)
  BY SegmentFacts
<1> HIDE DEF q
<1>2. SegmentStart(q) \in Nat /\ SegmentStart(s) \in Nat
      /\ SegmentStart(q + 1) \in Nat /\ SegmentStart(s + 1) \in Nat
  BY <1>1, StartFacts
<1>3. ~(q < s)
  <2> SUFFICES ASSUME q + 1 <= s
               PROVE  FALSE
    BY <1>1
  <2>1. SegmentStart(q + 1) <= SegmentStart(s)
    BY <1>1, StartMonotone
  <2>2. QED
    BY <1>1, <1>2, <2>1
<1>4. ~(s < q)
  <2> SUFFICES ASSUME s + 1 <= q
               PROVE  FALSE
    BY <1>1
  <2>1. SegmentStart(s + 1) <= SegmentStart(q)
    BY <1>1, StartMonotone
  <2>2. QED
    BY <1>1, <1>2, <2>1
<1>5. QED
  BY <1>1, <1>3, <1>4 DEF q

LEMMA SegmentMonotone ==
  ASSUME NEW b \in Nat, NEW c \in Nat, b <= c
  PROVE  SegmentOf(b) <= SegmentOf(c)
<1> DEFINE s == SegmentOf(b)
           t == SegmentOf(c)
<1>1. /\ s \in Nat /\ SegmentStart(s) <= b
      /\ t \in Nat /\ c < SegmentStart(t + 1)
  BY SegmentFacts
<1> HIDE DEF s, t
<1>2. SegmentStart(s) \in Nat /\ SegmentStart(t + 1) \in Nat
  BY <1>1, StartFacts
<1>3. ~(t + 1 <= s)
  <2> SUFFICES ASSUME t + 1 <= s
               PROVE  FALSE
    OBVIOUS
  <2>1. SegmentStart(t + 1) <= SegmentStart(s)
    BY <1>1, StartMonotone
  <2>2. QED
    BY <1>1, <1>2, <2>1
<1>4. QED
  BY <1>1, <1>3 DEF s, t

-----------------------------------------------------------------------------
(* How an extent lies in its segments.                                     *)

LEMMA ExtentFacts ==
  ASSUME NEW e, Collectible(e)
  PROVE  /\ e.phy_blk \in Nat /\ e.len \in Nat
         /\ ExtentEnd(e) = e.phy_blk + e.len
         /\ FirstSegment(e) \in Nat
         /\ SegmentStart(FirstSegment(e)) \in Nat
         /\ SegmentStart(FirstSegment(e)) <= e.phy_blk
         /\ e.phy_blk < SegmentStart(FirstSegment(e) + 1)
         /\ SegmentStart(FirstSegment(e) + 1) \in Nat
         /\ EndSegment(e) \in Nat
         /\ SegmentStart(EndSegment(e)) \in Nat
         /\ SegmentStart(EndSegment(e)) <= ExtentEnd(e)
         /\ ExtentEnd(e) < SegmentStart(EndSegment(e) + 1)
         /\ FirstSegment(e) <= EndSegment(e)
<1>1. NrZones * ZoneSize \in Nat
  BY GeometryAssumption
<1>2. e.phy_blk \in Nat /\ e.len \in Nat
  BY <1>1 DEF Collectible, ZnsBlocks
<1>3. ExtentEnd(e) = e.phy_blk + e.len
  BY DEF ExtentEnd
<1>4. ExtentEnd(e) \in Nat /\ e.phy_blk <= ExtentEnd(e)
  BY <1>2, <1>3
<1>5. /\ FirstSegment(e) \in Nat
      /\ SegmentStart(FirstSegment(e)) <= e.phy_blk
      /\ e.phy_blk < SegmentStart(FirstSegment(e) + 1)
  BY <1>2, SegmentFacts DEF FirstSegment
<1>6. /\ EndSegment(e) \in Nat
      /\ SegmentStart(EndSegment(e)) <= ExtentEnd(e)
      /\ ExtentEnd(e) < SegmentStart(EndSegment(e) + 1)
  BY <1>4, SegmentFacts DEF EndSegment
<1>7. FirstSegment(e) <= EndSegment(e)
  BY <1>2, <1>4, SegmentMonotone DEF FirstSegment, EndSegment
<1>8. /\ SegmentStart(FirstSegment(e)) \in Nat
      /\ SegmentStart(FirstSegment(e) + 1) \in Nat
      /\ SegmentStart(EndSegment(e)) \in Nat
  BY <1>5, <1>6, StartFacts
<1>9. QED
  BY <1>2, <1>3, <1>5, <1>6, <1>7, <1>8

(* An extent that is not in one segment ends in a later one than it starts *)
(* in, and in one after the next if it ends where that starts.             *)
LEMMA PartsFacts ==
  ASSUME NEW e, Collectible(e)
  PROVE  /\ InOneSegment(e) =>
              /\ ~HasMiddle(e)
              /\ ExtentEnd(e) <= SegmentStart(FirstSegment(e) + 1)
         /\ ~InOneSegment(e) =>
              /\ FirstSegment(e) + 1 <= EndSegment(e)
              /\ SegmentStart(FirstSegment(e) + 1) <= SegmentStart(EndSegment(e))
              /\ EndsSegment(e) => HasMiddle(e)
              /\ ~HasMiddle(e) => EndSegment(e) = FirstSegment(e) + 1
         /\ HasMiddle(e) => FirstSegment(e) + 2 <= EndSegment(e)
<1>1. /\ FirstSegment(e) \in Nat /\ EndSegment(e) \in Nat /\ FirstSegment(e) <= EndSegment(e)
      /\ ExtentEnd(e) \in Nat
      /\ ExtentEnd(e) < SegmentStart(EndSegment(e) + 1)
      /\ SegmentStart(EndSegment(e)) <= ExtentEnd(e)
  BY ExtentFacts
<1>2. HasMiddle(e) <=> FirstSegment(e) + 2 <= EndSegment(e)
  BY <1>1 DEF HasMiddle
<1>3. SegmentStart(EndSegment(e) + 1) \in Nat /\ SegmentStart(FirstSegment(e) + 1) \in Nat
      /\ SegmentStart(EndSegment(e)) \in Nat
  BY <1>1, StartFacts
<1>4. ASSUME InOneSegment(e)
      PROVE  ~HasMiddle(e) /\ ExtentEnd(e) <= SegmentStart(FirstSegment(e) + 1)
  <2>1. CASE EndSegment(e) = FirstSegment(e)
    BY <1>1, <1>2, <1>3, <2>1
  <2>2. CASE ExtentEnd(e) = SegmentStart(FirstSegment(e) + 1)
    <3>1. EndSegment(e) = FirstSegment(e) + 1
      <4>1. SegmentStart(FirstSegment(e) + 1) < SegmentStart((FirstSegment(e) + 1) + 1)
        BY <1>1, <1>3, StartFacts, SegSizeIsPositive
      <4>2. QED
        BY <1>1, <2>2, <4>1, SegmentIs DEF EndSegment
    <3>2. QED
      BY <1>1, <1>2, <1>3, <2>2, <3>1
  <2>3. QED
    BY <1>4, <2>1, <2>2 DEF InOneSegment
<1>5. ASSUME ~InOneSegment(e)
      PROVE  /\ FirstSegment(e) + 1 <= EndSegment(e)
             /\ SegmentStart(FirstSegment(e) + 1) <= SegmentStart(EndSegment(e))
             /\ EndsSegment(e) => HasMiddle(e)
             /\ ~HasMiddle(e) => EndSegment(e) = FirstSegment(e) + 1
  <2>1. FirstSegment(e) + 1 <= EndSegment(e)
    BY <1>1, <1>5 DEF InOneSegment
  <2>2. ~HasMiddle(e) => EndSegment(e) = FirstSegment(e) + 1
    BY <1>1, <1>2, <2>1
  <2>3. EndsSegment(e) => HasMiddle(e)
    BY <1>5, <2>2 DEF InOneSegment, EndsSegment
  <2>4. QED
    BY <1>1, <2>1, <2>2, <2>3, StartMonotone
<1>6. QED
  BY <1>2, <1>4, <1>5

-----------------------------------------------------------------------------
(* Keys.                                                                   *)

(* The step of the recursion: shortening a number makes it smaller.        *)
LEMMA Shorter ==
  ASSUME NEW n \in Nat, ~(n < KeyLimit)
  PROVE  n \div KeyBase \in Nat /\ n \div KeyBase < n
<1>1. KeyBase \in Nat /\ KeyBase >= 2 /\ KeyLimit \in Nat /\ KeyLimit >= 1
  BY DumpAssumption
<1>2. n >= 1
  BY <1>1
<1> DEFINE q == n \div KeyBase
<1>3. q \in Nat /\ KeyBase * q <= n
  BY <1>1, DivisionBounds
<1> HIDE DEF q
<1>4. q < n
  <2> SUFFICES ASSUME n <= q
               PROVE  FALSE
    BY <1>3
  <2>1. PICK p \in Nat : p = KeyBase * q
    BY <1>1, <1>3
  <2>2. 2 * q <= p
    BY <1>1, <1>3, <2>1
  <2>3. QED
    BY <1>2, <1>3, <2>1, <2>2
<1>5. QED
  BY <1>3, <1>4 DEF q

(* The digits of the numbers up to n.                                      *)
DigitsUpTo(n, g) ==
  g = [m \in 0 .. n |-> IF m < KeyLimit THEN m ELSE g[m \div KeyBase]]

(* A set of naturals that has a member has a least one.                    *)
LEMMA LeastMember ==
  ASSUME NEW S, S \subseteq Nat, S # {}
  PROVE  \E m \in S : \A x \in S : m <= x
<1>1. PICK m \in S : \A x \in S : ~(<<x, m>> \in OpToRel(<, Nat))
  BY NatLessThanWellFounded, WFMin
<1>2. ASSUME NEW x \in S, x < m
      PROVE  FALSE
  <2>1. <<x, m>> \in Nat \X Nat
    OBVIOUS
  <2>2. <<x, m>>[1] < <<x, m>>[2]
    BY <1>2
  <2>3. <<x, m>> \in OpToRel(<, Nat)
    BY <2>1, <2>2, Zenon DEF OpToRel
  <2>4. QED
    BY <1>1, <2>3, Zenon
<1>3. \A x \in S : m <= x
  BY <1>2
<1>4. QED
  BY <1>3

LEMMA DigitsAgree ==
  ASSUME NEW a \in Nat, NEW g, DigitsUpTo(a, g), NEW b \in Nat, NEW h, DigitsUpTo(b, h),
         NEW n \in Nat, n <= a, n <= b
  PROVE  g[n] = h[n]
<1> DEFINE bad == {m \in Nat : m <= a /\ m <= b /\ g[m] # h[m]}
<1> SUFFICES ASSUME bad # {}
             PROVE  FALSE
  OBVIOUS
<1>1. PICK m \in bad : \A x \in bad : m <= x
  BY LeastMember
<1>2. m \in 0 .. a /\ m \in 0 .. b /\ g[m] # h[m]
  BY <1>1
<1>3. /\ g[m] = IF m < KeyLimit THEN m ELSE g[m \div KeyBase]
      /\ h[m] = IF m < KeyLimit THEN m ELSE h[m \div KeyBase]
  BY <1>2 DEF DigitsUpTo
<1>4. ~(m < KeyLimit)
  BY <1>2, <1>3
<1>5. PICK q \in Nat : q = m \div KeyBase /\ q < m
  BY <1>2, <1>4, Shorter
<1>6. g[q] # h[q]
  BY <1>2, <1>3, <1>4, <1>5
<1>7. q \in bad
  BY <1>2, <1>5, <1>6
<1>8. QED
  BY <1>1, <1>2, <1>5, <1>7

LEMMA DigitsExist ==
  ASSUME NEW n \in Nat
  PROVE  \E g : DigitsUpTo(n, g)
<1> DEFINE bad == {m \in Nat : ~ \E g : DigitsUpTo(m, g)}
<1> SUFFICES ASSUME bad # {}
             PROVE  FALSE
  OBVIOUS
<1>1. PICK m \in bad : \A x \in bad : m <= x
  BY LeastMember
<1>2. \A x \in Nat : x < m => \E g : DigitsUpTo(x, g)
  BY <1>1
<1>3. KeyLimit \in Nat
  BY DumpAssumption
<1>4. CASE m = 0
  <2> DEFINE g == [x \in 0 .. 0 |-> 0]
  <2>1. 0 < KeyLimit
    BY DumpAssumption
  <2>2. g = [x \in 0 .. 0 |-> IF x < KeyLimit THEN x ELSE g[x \div KeyBase]]
    BY <2>1
  <2>3. DigitsUpTo(0, g)
    BY <2>2 DEF DigitsUpTo
  <2>4. QED
    BY <1>1, <1>4, <2>3
<1>5. CASE m # 0
  <2>1. m - 1 \in Nat /\ m - 1 < m
    BY <1>5
  <2>2. PICK g : DigitsUpTo(m - 1, g)
    BY <1>2, <2>1
  <2> DEFINE h == [x \in 0 .. m |-> IF x \in 0 .. m - 1 THEN g[x]
                                    ELSE IF x < KeyLimit THEN x ELSE g[x \div KeyBase]]
  <2>3. \A x \in 0 .. m - 1 : g[x] = IF x < KeyLimit THEN x ELSE g[x \div KeyBase]
    BY <2>2 DEF DigitsUpTo
  <2>4. ASSUME NEW x \in 0 .. m
        PROVE  h[x] = IF x < KeyLimit THEN x ELSE h[x \div KeyBase]
    <3>1. h[x] = IF x < KeyLimit THEN x ELSE g[x \div KeyBase]
      BY <2>3
    <3>2. CASE x < KeyLimit
      BY <3>1, <3>2
    <3>3. CASE ~(x < KeyLimit)
      <4>1. PICK q \in Nat : q = x \div KeyBase /\ q < x
        BY <3>3, Shorter
      <4>2. q \in 0 .. m - 1 /\ q \in 0 .. m
        BY <4>1
      <4>3. h[q] = g[q]
        BY <4>2
      <4>4. QED
        BY <3>1, <3>3, <4>1, <4>3
    <3>4. QED
      BY <3>2, <3>3
  <2>5. DOMAIN h = 0 .. m
    OBVIOUS
  <2>6. h = [x \in 0 .. m |-> h[x]]
    OBVIOUS
  <2> HIDE DEF h
  <2>7. h = [x \in 0 .. m |-> IF x < KeyLimit THEN x ELSE h[x \div KeyBase]]
    BY <2>4, <2>6
  <2>8. DigitsUpTo(m, h)
    BY <2>7 DEF DigitsUpTo
  <2>9. QED
    BY <1>1, <2>8
<1>6. QED
  BY <1>4, <1>5

(* The recursive definition of LeadingDigits defines a function.           *)
LEMMA LeadingDigitsIs ==
  LeadingDigits = [n \in Nat |-> IF n < KeyLimit THEN n ELSE LeadingDigits[n \div KeyBase]]
<1> DEFINE part(n) == CHOOSE g : DigitsUpTo(n, g)
           f == [n \in Nat |-> part(n)[n]]
<1>1. \A n \in Nat : DigitsUpTo(n, part(n))
  BY DigitsExist
<1> HIDE DEF part
<1>2. ASSUME NEW n \in Nat
      PROVE  f[n] = IF n < KeyLimit THEN n ELSE f[n \div KeyBase]
  <2>1. n \in 0 .. n
    OBVIOUS
  <2>2. f[n] = IF n < KeyLimit THEN n ELSE part(n)[n \div KeyBase]
    BY <1>1, <2>1 DEF DigitsUpTo
  <2>3. CASE ~(n < KeyLimit)
    <3>1. PICK q \in Nat : q = n \div KeyBase /\ q < n
      BY <2>3, Shorter
    <3>2. part(n)[q] = part(q)[q]
      BY <1>1, <3>1, DigitsAgree
    <3>3. QED
      BY <2>2, <2>3, <3>1, <3>2
  <2>4. QED
    BY <2>2, <2>3
<1>3. f = [n \in Nat |-> f[n]]
  OBVIOUS
<1> HIDE DEF f
<1>4. f = [n \in Nat |-> IF n < KeyLimit THEN n ELSE f[n \div KeyBase]]
  BY <1>2, <1>3
<1>5. QED
  BY <1>4 DEF LeadingDigits

(* However many digits a number loses, its key has few enough.             *)
LEMMA KeyIsShort ==
  ASSUME NEW n \in Nat
  PROVE  Key(n) \in Nat /\ Key(n) < KeyLimit
<1> DEFINE bad == {m \in Nat : ~(LeadingDigits[m] \in Nat /\ LeadingDigits[m] < KeyLimit)}
<1> SUFFICES ASSUME bad # {}
             PROVE  FALSE
  BY DEF Key
<1>1. PICK m \in bad : \A x \in bad : m <= x
  BY LeastMember
<1>2. LeadingDigits[m] = IF m < KeyLimit THEN m ELSE LeadingDigits[m \div KeyBase]
  BY LeadingDigitsIs
<1>3. ~(m < KeyLimit)
  BY <1>1, <1>2
<1>4. PICK q \in Nat : q = m \div KeyBase /\ q < m
  BY <1>1, <1>3, Shorter
<1>5. q \in bad
  BY <1>1, <1>2, <1>3, <1>4
<1>6. QED
  BY <1>1, <1>4, <1>5

-----------------------------------------------------------------------------
(* The walk through the zone map.                                          *)

LEMMA MapFacts ==
  ASSUME NEW map \in ZoneMaps
  PROVE  /\ \A e \in ExtentsIn(map) :
              /\ Collectible(e)
              /\ e.zone \in Zones
              /\ GetZoneNumber(e.phy_blk) = e.zone
              /\ e \in Range(map[e.zone].extents)
         /\ \A z \in Zones :
              /\ map[z].extents \in Seq(ExtentsIn(map))
              /\ map[z].extent_ctr = Len(map[z].extents)
              /\ \A e \in Range(map[z].extents) : e \in ExtentsIn(map) /\ e.zone = z
              /\ \A j, k \in 1 .. Len(map[z].extents) :
                   /\ j < k => map[z].extents[j].phy_blk <= map[z].extents[k].phy_blk
                   /\ map[z].extents[j] = map[z].extents[k] => j = k
<1>1. OnTheDevice(map) /\ InDeviceOrder(map) /\ NoneTwice(map)
  BY DumpAssumption
<1>2. ASSUME NEW z \in Zones
      PROVE  /\ map[z].extents \in Seq(ExtentsIn(map))
             /\ map[z].extent_ctr = Len(map[z].extents)
             /\ \A e \in Range(map[z].extents) :
                  e \in ExtentsIn(map) /\ e.zone = z /\ GetZoneNumber(e.phy_blk) = z
             /\ \A j, k \in 1 .. Len(map[z].extents) :
                  /\ j < k => map[z].extents[j].phy_blk <= map[z].extents[k].phy_blk
                  /\ map[z].extents[j] = map[z].extents[k] => j = k
  <2>1. map[z].extents \in Seq(ExtentsIn(map))
    BY <1>1 DEF OnTheDevice
  <2>2. /\ map[z].extent_ctr = Len(map[z].extents)
        /\ SortedByPhyBlk(map[z].extents)
        /\ \A e \in Range(map[z].extents) : e.zone = z /\ GetZoneNumber(e.phy_blk) = z
    BY <1>1 DEF InDeviceOrder
  <2>3. \A e \in Range(map[z].extents) : e \in ExtentsIn(map)
    BY DEF ExtentsIn
  <2>4. \A j, k \in 1 .. Len(map[z].extents) :
          map[z].extents[j] = map[z].extents[k] => j = k
    BY <1>1 DEF NoneTwice
  <2>5. QED
    BY <2>1, <2>2, <2>3, <2>4 DEF SortedByPhyBlk
<1>3. ASSUME NEW e \in ExtentsIn(map)
      PROVE  /\ Collectible(e)
             /\ e.zone \in Zones
             /\ GetZoneNumber(e.phy_blk) = e.zone
             /\ e \in Range(map[e.zone].extents)
  <2>1. Collectible(e)
    BY <1>1 DEF OnTheDevice, Collectible
  <2>2. PICK z \in Zones : e \in Range(map[z].extents)
    BY DEF ExtentsIn
  <2>3. QED
    BY <1>2, <2>1, <2>2
<1>4. QED
  BY <1>2, <1>3

(* The extents from some node of a list on.                                *)
IsRest(rest, list) ==
  /\ Range(rest) \subseteq Range(list)
  /\ \A j, k \in 1 .. Len(rest) :
       /\ j < k => rest[j].phy_blk <= rest[k].phy_blk
       /\ rest[j] = rest[k] => j = k
  /\ \A d \in Range(list) \ Range(rest), j \in 1 .. Len(rest) :
       d.phy_blk <= rest[j].phy_blk

LEMMA RestFacts ==
  ASSUME NEW S, \A s \in S : s.phy_blk \in Nat,
         NEW rest \in Seq(S), NEW list, IsRest(rest, list), rest # <<>>
  PROVE  /\ Head(rest) \in S
         /\ Head(rest) \in Range(list)
         /\ Tail(rest) \in Seq(S)
         /\ Range(rest) = Range(Tail(rest)) \cup {Head(rest)}
         /\ Head(rest) \notin Range(Tail(rest))
         /\ \A d \in Range(rest) : Head(rest).phy_blk <= d.phy_blk
         /\ \A d \in Range(list) \ Range(rest) : d.phy_blk <= Head(rest).phy_blk
         /\ IsRest(Tail(rest), list)
<1>1. /\ Len(rest) \in Nat \ {0}
      /\ Head(rest) = rest[1]
      /\ Tail(rest) \in Seq(S)
      /\ Len(Tail(rest)) = Len(rest) - 1
      /\ \A j \in 1 .. Len(rest) - 1 : Tail(rest)[j] = rest[j + 1]
  OBVIOUS
<1>2. PICK tail \in Seq(S) : tail = Tail(rest)
  BY <1>1
<1>3. /\ Range(rest) = {rest[j] : j \in 1 .. Len(rest)}
      /\ Range(tail) = {tail[j] : j \in 1 .. Len(rest) - 1}
  <2>1. DOMAIN rest = 1 .. Len(rest) /\ DOMAIN tail = 1 .. Len(tail)
    BY LenProperties
  <2>2. Len(tail) = Len(rest) - 1
    BY <1>1, <1>2
  <2>3. QED
    BY <2>1, <2>2 DEF Range
<1>4. \A j \in 1 .. Len(rest) : rest[j] \in S /\ rest[j].phy_blk \in Nat
  OBVIOUS
<1>5. \A j \in 1 .. Len(rest) - 1 : j + 1 \in 1 .. Len(rest) /\ tail[j] = rest[j + 1]
  BY <1>1, <1>2
<1>6. \A j, k \in 1 .. Len(rest) :
       /\ j < k => rest[j].phy_blk <= rest[k].phy_blk
       /\ rest[j] = rest[k] => j = k
  BY DEF IsRest
<1>7. Range(rest) = Range(tail) \cup {rest[1]}
  <2>1. ASSUME NEW d \in Range(rest)
        PROVE  d \in Range(tail) \cup {rest[1]}
    <3>1. PICK j \in 1 .. Len(rest) : d = rest[j]
      BY <1>3
    <3>2. CASE j # 1
      <4>1. j - 1 \in 1 .. Len(rest) - 1 /\ (j - 1) + 1 = j
        BY <1>1, <3>2
      <4>2. d = tail[j - 1]
        BY <1>5, <3>1, <4>1
      <4>3. QED
        BY <1>3, <4>1, <4>2
    <3>3. QED
      BY <3>1, <3>2
  <2>2. 1 \in 1 .. Len(rest)
    BY <1>1
  <2>3. QED
    BY <1>3, <1>5, <2>1, <2>2
<1>8. rest[1] \notin Range(tail)
  <2> SUFFICES ASSUME NEW j \in 1 .. Len(rest) - 1, rest[1] = tail[j]
               PROVE  FALSE
    BY <1>3
  <2>1. rest[1] = rest[j + 1] /\ j + 1 \in 1 .. Len(rest) /\ 1 \in 1 .. Len(rest) /\ j + 1 # 1
    BY <1>1, <1>5
  <2>2. QED
    BY <1>6, <2>1
<1>9. \A d \in Range(rest) : rest[1].phy_blk <= d.phy_blk
  <2> SUFFICES ASSUME NEW j \in 1 .. Len(rest)
               PROVE  rest[1].phy_blk <= rest[j].phy_blk
    BY <1>3
  <2>1. 1 \in 1 .. Len(rest) /\ (j = 1 \/ 1 < j)
    BY <1>1
  <2>2. QED
    BY <1>4, <1>6, <2>1
<1>10. \A d \in Range(list) \ Range(rest) : d.phy_blk <= rest[1].phy_blk
  BY <1>1 DEF IsRest
<1>11. IsRest(tail, list)
  <2>1. Range(tail) \subseteq Range(list)
    BY <1>7 DEF IsRest
  <2>2. ASSUME NEW j \in 1 .. Len(rest) - 1, NEW k \in 1 .. Len(rest) - 1
        PROVE  /\ j < k => tail[j].phy_blk <= tail[k].phy_blk
               /\ tail[j] = tail[k] => j = k
    <3>1. j + 1 < k + 1 => rest[j + 1].phy_blk <= rest[k + 1].phy_blk
      BY <1>5, <1>6
    <3>2. rest[j + 1] = rest[k + 1] => j + 1 = k + 1
      BY <1>5, <1>6
    <3>3. QED
      BY <1>5, <3>1, <3>2
  <2>3. ASSUME NEW d \in Range(list) \ Range(tail), NEW j \in 1 .. Len(rest) - 1
        PROVE  d.phy_blk <= tail[j].phy_blk
    <3>1. tail[j] \in Range(rest)
      BY <1>3, <1>7
    <3>2. CASE d = rest[1]
      BY <1>9, <3>1, <3>2
    <3>3. CASE d # rest[1]
      <4>1. d \in Range(list) \ Range(rest)
        BY <1>7, <3>3
      <4>2. QED
        BY <1>5, <4>1 DEF IsRest
    <3>4. QED
      BY <3>2, <3>3
  <2>4. QED
    BY <1>1, <1>2, <2>1, <2>2, <2>3 DEF IsRest
<1>12. Head(rest) \in S /\ Head(rest) \in Range(list)
  BY <1>1, <1>4, <1>7 DEF IsRest
<1>13. QED
  BY <1>1, <1>2, <1>7, <1>8, <1>9, <1>10, <1>11, <1>12

WalkOK ==
  /\ zones \in ZoneMaps
  /\ start_zone \in Nat /\ end_zone \in Nat
  /\ pc \in {"zone", "list", "done"}
  /\ i \in 0 .. NrZones
  /\ current \in Seq(AllExtents)
  /\ pc = "list" =>
       /\ i < NrZones
       /\ zones[i].extents # <<>>
       /\ IsRest(current, zones[i].extents)
  /\ pc = "done" => i = NrZones

(* The walk has come to an extent, or it is in a zone that was left.       *)
Passed(e) == e.zone < i \/ (pc = "list" /\ e.zone = i /\ e \notin Range(current))

LEMMA ExtentsOfMap ==
  ASSUME zones \in ZoneMaps
  PROVE  /\ AllExtents = ExtentsIn(zones)
         /\ \A e \in AllExtents :
              /\ Collectible(e)
              /\ e.phy_blk \in Nat
              /\ e.zone \in Zones
              /\ e.zone \in Nat
              /\ GetZoneNumber(e.phy_blk) = e.zone
              /\ e \in Range(zones[e.zone].extents)
<1>1. AllExtents = ExtentsIn(zones)
  BY DEF AllExtents, ExtentsIn
<1>2. \A e \in ExtentsIn(zones) :
        /\ Collectible(e)
        /\ e.zone \in Zones
        /\ GetZoneNumber(e.phy_blk) = e.zone
        /\ e \in Range(zones[e.zone].extents)
  BY MapFacts
<1>3. \A e : Collectible(e) => e.phy_blk \in Nat
  BY ExtentFacts
<1>4. Zones \subseteq Nat
  BY GeometryAssumption DEF Zones
<1>5. QED
  BY <1>1, <1>2, <1>3, <1>4

LEMMA OptionTypes ==
  ASSUME NEW o \in Options
  PROVE  o[1] \in Nat /\ o[2] \in Nat
<1>1. NrZones \in Nat /\ OptionValues \subseteq Nat
  BY GeometryAssumption, SegmentAssumption
<1>2. CASE o \in {<<z, z>> : z \in OptionValues}
  BY <1>1, <1>2
<1>3. CASE o \in {<<IF s = 0 THEN 1 ELSE s, IF e = 0 THEN NrZones ELSE e>> :
                    s, e \in OptionValues}
  <2>1. PICK s \in OptionValues, e \in OptionValues :
          o = <<IF s = 0 THEN 1 ELSE s, IF e = 0 THEN NrZones ELSE e>>
    BY <1>3
  <2>2. QED
    BY <1>1, <2>1
<1>4. QED
  BY <1>2, <1>3 DEF Options

LEMMA WalkInit ==
  ASSUME Init
  PROVE  WalkOK
<1>1. PICK o \in Options : start_zone = o[1] /\ end_zone = o[2]
  BY DEF Init
<1>2. start_zone \in Nat /\ end_zone \in Nat /\ NrZones \in Nat
  BY <1>1, OptionTypes, GeometryAssumption
<1>3. <<>> \in Seq(AllExtents)
  OBVIOUS
<1>4. QED
  BY <1>2, <1>3 DEF Init, WalkOK

(* What the walk takes from the program stays what it was.                 *)
LEMMA InputsStay ==
  ASSUME [Next]_vars
  PROVE  /\ UNCHANGED <<zones, start_zone, end_zone>>
         /\ UNCHANGED <<AllExtents, Extents, SegmentsDumped>>
<1>1. UNCHANGED <<zones, start_zone, end_zone>>
  BY DEF Next, Walk, EnterZone, SkipZone, LeaveZone, ContinueBelowStart, DumpInSegment,
    DumpInNewSegment, WriteFile, Finished, vars, input_vars
<1>2. AllExtents' = AllExtents
  BY <1>1 DEF AllExtents
<1>3. \A e : Selected(e)' = Selected(e)
  BY <1>1 DEF Selected
<1>4. Extents' = Extents
  BY <1>2, <1>3 DEF Extents
<1>5. SegmentsDumped' = SegmentsDumped
  BY <1>4 DEF SegmentsDumped
<1>6. QED
  BY <1>1, <1>2, <1>4, <1>5

Dump == DumpInSegment \/ DumpInNewSegment

LEMMA AtHand ==
  ASSUME WalkOK, pc = "list", current # <<>>
  PROVE  /\ TheExtent \in AllExtents
         /\ TheExtent \in Range(current)
         /\ TheExtent.zone = i
         /\ ~Passed(TheExtent)
         /\ i \in Zones
         /\ Tail(current) \in Seq(AllExtents)
         /\ IsRest(Tail(current), zones[i].extents)
         /\ Range(current) = Range(Tail(current)) \cup {TheExtent}
         /\ TheExtent \notin Range(Tail(current))
         /\ \A d \in Range(current) : TheExtent.phy_blk <= d.phy_blk
         /\ \A d \in Range(zones[i].extents) \ Range(current) :
              d.phy_blk <= TheExtent.phy_blk
<1>1. i \in Zones
  BY GeometryAssumption DEF WalkOK, Zones
<1>2. /\ current \in Seq(AllExtents)
      /\ IsRest(current, zones[i].extents)
      /\ \A s \in AllExtents : s.phy_blk \in Nat
  BY ExtentsOfMap DEF WalkOK
<1>3. /\ TheExtent \in AllExtents
      /\ TheExtent \in Range(zones[i].extents)
      /\ Tail(current) \in Seq(AllExtents)
      /\ IsRest(Tail(current), zones[i].extents)
      /\ Range(current) = Range(Tail(current)) \cup {TheExtent}
      /\ TheExtent \notin Range(Tail(current))
      /\ \A d \in Range(current) : TheExtent.phy_blk <= d.phy_blk
      /\ \A d \in Range(zones[i].extents) \ Range(current) :
           d.phy_blk <= TheExtent.phy_blk
  BY <1>2, RestFacts DEF TheExtent
<1>4. TheExtent.zone = i
  BY <1>1, <1>3, MapFacts DEF WalkOK
<1>5. i \in Nat
  BY DEF WalkOK
<1>6. ~Passed(TheExtent)
  BY <1>3, <1>4, <1>5 DEF Passed
<1>7. QED
  BY <1>1, <1>3, <1>4, <1>6

LEMMA WalkStep ==
  ASSUME WalkOK, [Next]_vars
  PROVE  WalkOK'
<1>1. NrZones \in Nat \ {0} /\ Zones = 0 .. NrZones - 1
  BY GeometryAssumption DEF Zones
<1>2. UNCHANGED <<zones, start_zone, end_zone, AllExtents>>
  BY InputsStay
<1>3. CASE EnterZone
  <2>1. i \in Zones /\ pc' = "list" /\ i' = i /\ current' = zones[i].extents
    BY <1>1, <1>3 DEF EnterZone, WalkOK
  <2>2. /\ zones[i].extents \in Seq(AllExtents)
        /\ zones[i].extent_ctr = Len(zones[i].extents)
        /\ \A j, k \in 1 .. Len(zones[i].extents) :
             /\ j < k => zones[i].extents[j].phy_blk <= zones[i].extents[k].phy_blk
             /\ zones[i].extents[j] = zones[i].extents[k] => j = k
    BY <2>1, MapFacts, ExtentsOfMap DEF WalkOK
  <2>3. IsRest(zones[i].extents, zones[i].extents)
    BY <2>2 DEF IsRest
  <2>4. zones[i].extents # <<>>
    BY <1>3, <2>2 DEF EnterZone
  <2>5. QED
    BY <1>1, <1>2, <2>1, <2>2, <2>3, <2>4 DEF WalkOK
<1>4. CASE SkipZone
  BY <1>1, <1>2, <1>4 DEF SkipZone, WalkOK
<1>5. CASE Dump
  <2>1. /\ pc = "list" /\ current # <<>>
        /\ pc' = pc /\ i' = i /\ current' = Tail(current)
    BY <1>5 DEF Dump, DumpInSegment, DumpInNewSegment
  <2>2. Tail(current) \in Seq(AllExtents) /\ IsRest(Tail(current), zones[i].extents)
    BY <2>1, AtHand
  <2>3. QED
    BY <1>2, <2>1, <2>2 DEF WalkOK
<1>6. CASE LeaveZone
  BY <1>1, <1>2, <1>6 DEF LeaveZone, WalkOK
<1>7. CASE WriteFile
  BY <1>1, <1>2, <1>7 DEF WriteFile, WalkOK
<1>8. CASE ContinueBelowStart \/ Finished \/ UNCHANGED vars
  <2>1. UNCHANGED <<pc, i, current>>
    BY <1>8 DEF ContinueBelowStart, Finished, vars
  <2>2. QED
    BY <1>2, <2>1 DEF WalkOK
<1>9. QED
  BY <1>3, <1>4, <1>5, <1>6, <1>7, <1>8 DEF Next, Walk, Dump

(* The steps of the walk pass one extent, or the rest of a zone, or none.  *)
LEMMA PassedStep ==
  ASSUME WalkOK, [Next]_vars, NEW e \in AllExtents
  PROVE  /\ Dump => (Passed(e)' <=> Passed(e) \/ e = TheExtent)
         /\ LeaveZone => (Passed(e)' <=> Passed(e) \/ e.zone = i)
         /\ ~Dump /\ ~LeaveZone => (Passed(e)' <=> Passed(e))
<1>1. /\ zones' = zones
      /\ e.zone \in Nat
      /\ e \in Range(zones[e.zone].extents)
      /\ i \in Nat
  BY InputsStay, ExtentsOfMap DEF WalkOK
<1>2. ASSUME Dump
      PROVE  Passed(e)' <=> Passed(e) \/ e = TheExtent
  <2>1. /\ pc = "list" /\ current # <<>>
        /\ pc' = pc /\ i' = i /\ current' = Tail(current)
    BY <1>2 DEF Dump, DumpInSegment, DumpInNewSegment
  <2>2. /\ Range(current) = Range(Tail(current)) \cup {TheExtent}
        /\ TheExtent \notin Range(Tail(current))
        /\ TheExtent.zone = i
    BY <2>1, AtHand
  <2>3. QED
    BY <1>1, <2>1, <2>2 DEF Passed
<1>3. ASSUME LeaveZone
      PROVE  Passed(e)' <=> Passed(e) \/ e.zone = i
  <2>1. pc = "list" /\ pc' = "zone" /\ i' = i + 1
    BY <1>3 DEF LeaveZone
  <2>2. QED
    BY <1>1, <2>1 DEF Passed
<1>4. ASSUME EnterZone
      PROVE  Passed(e)' <=> Passed(e)
  <2>1. pc = "zone" /\ pc' = "list" /\ i' = i /\ current' = zones[i].extents
    BY <1>4 DEF EnterZone
  <2>2. QED
    BY <1>1, <2>1 DEF Passed
<1>5. ASSUME SkipZone
      PROVE  Passed(e)' <=> Passed(e)
  <2>1. pc = "zone" /\ pc' = pc /\ i' = i + 1 /\ zones[i].extent_ctr = 0 /\ i \in Zones
    BY <1>5, GeometryAssumption DEF SkipZone, Zones, WalkOK
  <2>2. /\ zones[i].extents \in Seq(AllExtents)
        /\ zones[i].extent_ctr = Len(zones[i].extents)
    BY <2>1, MapFacts, ExtentsOfMap DEF WalkOK
  <2>3. Range(zones[i].extents) = {}
    BY <2>1, <2>2 DEF Range
  <2>4. e.zone # i
    BY <1>1, <2>3
  <2>5. QED
    BY <1>1, <2>1, <2>4 DEF Passed
<1>6. ASSUME WriteFile \/ ContinueBelowStart \/ Finished \/ UNCHANGED vars
      PROVE  Passed(e)' <=> Passed(e)
  <2>1. UNCHANGED <<i, current>> /\ (pc' = "list" <=> pc = "list")
    BY <1>6 DEF WriteFile, ContinueBelowStart, Finished, vars
  <2>2. QED
    BY <2>1 DEF Passed
<1>7. QED
  BY <1>2, <1>3, <1>4, <1>5, <1>6 DEF Next, Walk, Dump

-----------------------------------------------------------------------------
(* What an extent adds to the objects.                                     *)

PiecesOf(S) == [of : S, pbas : ZnsBlocks, pbae : 0 .. NrZones * ZoneSize]

LEMMA ToldInfo ==
  ASSUME NEW e, NEW s \in Nat, NEW extents
  PROVE  /\ SegmentInfo(e, s) # NoInfo
         /\ ToldSegment(SegmentObject(SegmentInfo(e, s), extents)) = s
         /\ SegmentInfo(e, s).pbas \in Nat
<1>1. SegmentInfo(e, s) # NoInfo
  <2>1. "pbas" \in DOMAIN SegmentInfo(e, s)
    BY DEF SegmentInfo
  <2>2. "pbas" \notin DOMAIN NoInfo
    BY DEF NoInfo
  <2>3. QED
    BY <2>1, <2>2
<1>2. SegmentInfo(e, s).pbas = SegmentStart(s) /\ SegmentStart(s) \in Nat
  BY StartFacts DEF SegmentInfo
<1>3. SegmentOf(SegmentStart(s)) = s
  <2>1. SegmentStart(s) < SegmentStart(s + 1)
    BY StartFacts, SegSizeIsPositive
  <2>2. QED
    BY <1>2, <2>1, SegmentIs
<1>4. QED
  BY <1>1, <1>2, <1>3 DEF ToldSegment, SegmentObject

(* Pieces lie on the device, and the beginning and the remainder of an     *)
(* extent, and what there is of both and of the whole, are different.      *)
LEMMA PieceFacts ==
  ASSUME NEW e, Collectible(e)
  PROVE  /\ Whole(e) \in PiecesOf({e})
         /\ ~InOneSegment(e) => /\ Beginning(e) \in PiecesOf({e})
                                /\ Beginning(e) # Whole(e)
                                /\ Beginning(e) # Remainder(e)
         /\ ~InOneSegment(e) /\ ~EndsSegment(e) => Remainder(e) \in PiecesOf({e})
         /\ ~InOneSegment(e) /\ ~EndsSegment(e) => Remainder(e) # Whole(e)
<1>1. PICK top \in Nat : top = NrZones * ZoneSize
  BY GeometryAssumption
<1>2. /\ e.phy_blk \in Nat /\ e.phy_blk < top
      /\ ExtentEnd(e) \in Nat /\ ExtentEnd(e) <= top
      /\ e.phy_blk <= ExtentEnd(e)
  BY <1>1, ExtentFacts DEF Collectible, ZnsBlocks
<1>3. /\ FirstSegment(e) \in Nat /\ EndSegment(e) \in Nat
      /\ SegmentStart(FirstSegment(e) + 1) \in Nat
      /\ e.phy_blk < SegmentStart(FirstSegment(e) + 1)
      /\ SegmentStart(EndSegment(e)) \in Nat
      /\ SegmentStart(EndSegment(e)) <= ExtentEnd(e)
  BY ExtentFacts
<1>4. Whole(e) \in PiecesOf({e})
  BY <1>1, <1>2 DEF Whole, Piece, PiecesOf, ZnsBlocks
<1>5. ASSUME ~InOneSegment(e)
      PROVE  /\ Beginning(e) \in PiecesOf({e})
             /\ Beginning(e) # Whole(e)
             /\ Beginning(e) # Remainder(e)
  <2>1. SegmentStart(FirstSegment(e) + 1) <= SegmentStart(EndSegment(e))
    BY <1>5, PartsFacts
  <2>2. SegmentStart(FirstSegment(e) + 1) # ExtentEnd(e)
    BY <1>5 DEF InOneSegment
  <2>3. SegmentStart(FirstSegment(e) + 1) <= top
    BY <1>2, <1>3, <2>1
  <2>4. Beginning(e) \in PiecesOf({e})
    BY <1>1, <1>2, <1>3, <2>3 DEF Beginning, Piece, PiecesOf, ZnsBlocks
  <2>5. Beginning(e).pbae # Whole(e).pbae
    BY <2>2 DEF Beginning, Whole, Piece
  <2>6. Beginning(e).pbas # Remainder(e).pbas
    BY <1>2, <1>3, <2>1 DEF Beginning, Remainder, Piece
  <2>7. QED
    BY <2>4, <2>5, <2>6
<1>6. ASSUME ~InOneSegment(e), ~EndsSegment(e)
      PROVE  Remainder(e) \in PiecesOf({e}) /\ Remainder(e) # Whole(e)
  <2>1. SegmentStart(EndSegment(e)) # ExtentEnd(e)
    BY <1>6 DEF EndsSegment
  <2>2. SegmentStart(EndSegment(e)) < top
    BY <1>2, <1>3, <2>1
  <2>3. Remainder(e) \in PiecesOf({e})
    BY <1>1, <1>2, <1>3, <2>2 DEF Remainder, Piece, PiecesOf, ZnsBlocks
  <2>4. SegmentStart(FirstSegment(e) + 1) <= SegmentStart(EndSegment(e))
    BY <1>6, PartsFacts
  <2>5. Remainder(e).pbas # Whole(e).pbas
    BY <1>2, <1>3, <2>4 DEF Remainder, Whole, Piece
  <2>6. QED
    BY <2>3, <2>5
<1>7. QED
  BY <1>4, <1>5, <1>6

(* Different pieces of the extent, none of which is the whole one that a   *)
(* segment in the middle gets.                                             *)
LEMMA PiecesFacts ==
  ASSUME NEW e, Collectible(e)
  PROVE  /\ Pieces(e) \in Seq(PiecesOf({e}))
         /\ \A m, n \in 1 .. Len(Pieces(e)) : Pieces(e)[m] = Pieces(e)[n] => m = n
         /\ HasMiddle(e) => Whole(e) \notin Range(Pieces(e))
         /\ InOneSegment(e) => Pieces(e) = <<Whole(e)>>
<1> DEFINE first == IF StartsSegment(e) THEN <<>> ELSE <<Beginning(e)>>
           last == IF EndsSegment(e) THEN <<>> ELSE <<Remainder(e)>>
<1>1. CASE InOneSegment(e)
  <2>1. Pieces(e) = <<Whole(e)>> /\ ~HasMiddle(e)
    BY <1>1, PartsFacts DEF Pieces
  <2>2. Whole(e) \in PiecesOf({e})
    BY PieceFacts
  <2>3. QED
    BY <2>1, <2>2
<1>2. CASE ~InOneSegment(e)
  <2>1. Pieces(e) = first \o last
    BY <1>2 DEF Pieces
  <2>2. /\ Beginning(e) \in PiecesOf({e}) /\ Beginning(e) # Whole(e)
        /\ Beginning(e) # Remainder(e)
        /\ ~EndsSegment(e) => Remainder(e) \in PiecesOf({e}) /\ Remainder(e) # Whole(e)
    BY <1>2, PieceFacts
  <2>3. CASE StartsSegment(e) /\ EndsSegment(e)
    <3>1. Pieces(e) = <<>>
      BY <2>1, <2>3
    <3>2. QED
      BY <1>2, <3>1 DEF Range
  <2>4. CASE StartsSegment(e) /\ ~EndsSegment(e)
    <3>1. Pieces(e) = <<Remainder(e)>>
      BY <2>1, <2>4
    <3>2. QED
      BY <1>2, <2>2, <2>4, <3>1 DEF Range
  <2>5. CASE ~StartsSegment(e) /\ EndsSegment(e)
    <3>1. Pieces(e) = <<Beginning(e)>>
      BY <2>1, <2>5
    <3>2. QED
      BY <1>2, <2>2, <2>5, <3>1 DEF Range
  <2>6. CASE ~StartsSegment(e) /\ ~EndsSegment(e)
    <3>1. Pieces(e) = <<Beginning(e)>> \o <<Remainder(e)>>
      BY <2>1, <2>6
    <3>2. PICK a \in PiecesOf({e}), b \in PiecesOf({e}) : a = Beginning(e) /\ b = Remainder(e)
      BY <2>2, <2>6
    <3>3. PICK pieces \in Seq(PiecesOf({e})) :
            /\ pieces = Pieces(e)
            /\ Len(pieces) = 2
            /\ pieces[1] = a
            /\ pieces[2] = b
      <4> DEFINE s == <<a>>
                 t == <<b>>
      <4>1. /\ s \in Seq(PiecesOf({e})) /\ Len(s) = 1 /\ s[1] = a
            /\ t \in Seq(PiecesOf({e})) /\ Len(t) = 1 /\ t[1] = b
        OBVIOUS
      <4>2. Pieces(e) = s \o t
        BY <3>1, <3>2
      <4> HIDE DEF s, t
      <4>3. /\ s \o t \in Seq(PiecesOf({e}))
            /\ Len(s \o t) = Len(s) + Len(t)
            /\ (s \o t)[1] = s[1]
            /\ (s \o t)[2] = t[2 - Len(s)]
        BY <4>1, ConcatProperties
      <4>4. 2 - Len(s) = 1 /\ Len(s) + Len(t) = 2
        BY <4>1
      <4>5. /\ s \o t \in Seq(PiecesOf({e}))
            /\ Len(s \o t) = 2
            /\ (s \o t)[1] = a
            /\ (s \o t)[2] = b
        BY <4>1, <4>3, <4>4
      <4>6. QED
        BY <4>2, <4>5, Zenon
    <3>4. Range(pieces) = {a, b}
      BY <3>3 DEF Range
    <3>5. QED
      BY <1>2, <2>2, <2>6, <3>2, <3>3, <3>4
  <2>7. QED
    BY <2>3, <2>4, <2>5, <2>6
<1>3. QED
  BY <1>1, <1>2

(* A segment between the first and that of the end holds blocks of the     *)
(* extent.                                                                 *)
LEMMA MiddleFacts ==
  ASSUME NEW e, Collectible(e), HasMiddle(e)
  PROVE  /\ MiddleSegment(e) \in Nat
         /\ Touches(e, MiddleSegment(e))
<1>1. /\ FirstSegment(e) \in Nat /\ EndSegment(e) \in Nat
      /\ FirstSegment(e) + 2 <= EndSegment(e)
      /\ e.phy_blk \in Nat /\ e.len \in Nat
      /\ ExtentEnd(e) = e.phy_blk + e.len
      /\ e.phy_blk < SegmentStart(FirstSegment(e) + 1)
      /\ SegmentStart(FirstSegment(e) + 1) \in Nat
      /\ SegmentStart(EndSegment(e)) \in Nat
      /\ SegmentStart(EndSegment(e)) <= ExtentEnd(e)
  BY ExtentFacts, PartsFacts
<1>2. CASE StartsSegment(e)
  <2>1. MiddleSegment(e) = FirstSegment(e)
    BY <1>1, <1>2 DEF MiddleSegment
  <2>2. QED
    BY <1>1, <2>1 DEF Touches
<1>3. CASE ~StartsSegment(e)
  <2>1. PICK s \in Nat : s = FirstSegment(e) + 1
    BY <1>1
  <2>2. MiddleSegment(e) = s
    BY <1>3, <2>1 DEF MiddleSegment
  <2>3. /\ SegmentStart(s) \in Nat /\ SegmentStart(s + 1) \in Nat
        /\ SegmentStart(s) < SegmentStart(s + 1)
    BY StartFacts, SegSizeIsPositive
  <2>4. SegmentStart(s + 1) <= SegmentStart(EndSegment(e))
    BY <1>1, <2>1, StartMonotone
  <2>5. PICK k \in Nat : k = SegmentStart(s) - e.phy_blk
    BY <1>1, <2>1, <2>3
  <2>6. k \in 0 .. e.len - 1 /\ e.phy_blk + k = SegmentStart(s)
    BY <1>1, <2>3, <2>4, <2>5
  <2>7. SegmentOf(SegmentStart(s)) = s
    BY <2>3, SegmentIs
  <2>8. s \in SegmentsTouched(e)
    BY <2>6, <2>7 DEF SegmentsTouched
  <2>9. QED
    BY <2>2, <2>8 DEF Touches
<1>4. QED
  BY <1>2, <1>3

-----------------------------------------------------------------------------
(* Segment objects, and the objects of a zone by their keys.               *)

Held(object) == Range(object.extents)

Once(s) == \A m, n \in 1 .. Len(s) : s[m] = s[n] => m = n

LEMMA RangeIs ==
  ASSUME NEW S, NEW s \in Seq(S)
  PROVE  /\ Range(s) = {s[j] : j \in 1 .. Len(s)}
         /\ \A x \in Range(s) : x \in S
<1>1. DOMAIN s = 1 .. Len(s) /\ \A j \in 1 .. Len(s) : s[j] \in S
  BY LenProperties
<1>2. Range(s) = {s[j] : j \in 1 .. Len(s)}
  BY <1>1 DEF Range
<1>3. QED
  BY <1>1, <1>2

LEMMA WiderSeq ==
  ASSUME NEW S, NEW T, \A x \in S : x \in T, NEW s \in Seq(S)
  PROVE  s \in Seq(T)
<1>1. Len(s) \in Nat /\ DOMAIN s = 1 .. Len(s) /\ s = [j \in 1 .. Len(s) |-> s[j]]
  OBVIOUS
<1>2. \A j \in 1 .. Len(s) : s[j] \in T
  BY ElementOfSeq
<1>3. s \in [1 .. Len(s) -> T]
  BY <1>1, <1>2
<1>4. QED
  BY <1>1, <1>3, SeqDef

LEMMA Joined ==
  ASSUME NEW S, NEW s \in Seq(S), NEW t \in Seq(S)
  PROVE  /\ s \o t \in Seq(S)
         /\ Range(s \o t) = Range(s) \cup Range(t)
         /\ Once(s) /\ Once(t) /\ Range(s) \cap Range(t) = {} => Once(s \o t)
<1>1. PICK r \in Seq(S) :
        /\ r = s \o t
        /\ Len(r) = Len(s) + Len(t)
        /\ \A j \in 1 .. Len(s) + Len(t) : r[j] = IF j <= Len(s) THEN s[j] ELSE t[j - Len(s)]
  <2>1. /\ s \o t \in Seq(S)
        /\ Len(s \o t) = Len(s) + Len(t)
        /\ \A j \in 1 .. Len(s) + Len(t) :
             (s \o t)[j] = IF j <= Len(s) THEN s[j] ELSE t[j - Len(s)]
    BY ConcatProperties
  <2>2. QED
    BY <2>1, Zenon
<1>2. PICK a \in Nat, b \in Nat : a = Len(s) /\ b = Len(t)
  OBVIOUS
<1>3. /\ Range(s) = {s[j] : j \in 1 .. a}
      /\ Range(t) = {t[j] : j \in 1 .. b}
      /\ Range(r) = {r[j] : j \in 1 .. a + b}
  <2>1. /\ Range(s) = {s[j] : j \in 1 .. Len(s)}
        /\ Range(t) = {t[j] : j \in 1 .. Len(t)}
        /\ Range(r) = {r[j] : j \in 1 .. Len(r)}
    BY RangeIs
  <2>2. QED
    BY <1>1, <1>2, <2>1
<1>4. \A j \in 1 .. a : j \in 1 .. a + b /\ r[j] = s[j]
  BY <1>1, <1>2
<1>5. \A j \in 1 .. b : a + j \in 1 .. a + b /\ r[a + j] = t[j]
  <2> SUFFICES ASSUME NEW j \in 1 .. b
               PROVE  a + j \in 1 .. a + b /\ r[a + j] = t[j]
    OBVIOUS
  <2>1. a + j \in 1 .. a + b /\ ~(a + j <= a) /\ (a + j) - a = j
    BY <1>2
  <2>2. QED
    BY <1>1, <1>2, <2>1
<1>6. \A j \in 1 .. a + b : j \in 1 .. a \/ \E k \in 1 .. b : j = a + k
  <2> SUFFICES ASSUME NEW j \in 1 .. a + b, j \notin 1 .. a
               PROVE  \E k \in 1 .. b : j = a + k
    OBVIOUS
  <2>1. j - a \in 1 .. b /\ j = a + (j - a)
    BY <1>2
  <2>2. QED
    BY <2>1
<1>7. Range(r) = Range(s) \cup Range(t)
  <2>1. ASSUME NEW x \in Range(r)
        PROVE  x \in Range(s) \cup Range(t)
    <3>1. PICK j \in 1 .. a + b : x = r[j]
      BY <1>3
    <3>2. CASE j \in 1 .. a
      BY <1>3, <1>4, <3>1, <3>2
    <3>3. CASE j \notin 1 .. a
      <4>1. PICK k \in 1 .. b : j = a + k
        BY <1>6, <3>3
      <4>2. QED
        BY <1>3, <1>5, <3>1, <4>1
    <3>4. QED
      BY <3>2, <3>3
  <2>2. \A x \in Range(s) \cup Range(t) : x \in Range(r)
    BY <1>3, <1>4, <1>5
  <2>3. QED
    BY <2>1, <2>2
<1>8. ASSUME Once(s), Once(t), Range(s) \cap Range(t) = {}
      PROVE  Once(r)
  <2>1. /\ \A m, n \in 1 .. a : s[m] = s[n] => m = n
        /\ \A m, n \in 1 .. b : t[m] = t[n] => m = n
        /\ \A m \in 1 .. a, n \in 1 .. b : s[m] # t[n]
    <3>1. \A m, n \in 1 .. a : s[m] = s[n] => m = n
      BY <1>2, <1>8 DEF Once
    <3>2. \A m, n \in 1 .. b : t[m] = t[n] => m = n
      BY <1>2, <1>8 DEF Once
    <3>3. ASSUME NEW m \in 1 .. a, NEW n \in 1 .. b
          PROVE  s[m] # t[n]
      <4>1. s[m] \in Range(s) /\ t[n] \in Range(t)
        BY <1>3
      <4>2. QED
        BY <1>8, <4>1
    <3>4. QED
      BY <3>1, <3>2, <3>3
  <2> SUFFICES ASSUME NEW m \in 1 .. a + b, NEW n \in 1 .. a + b, r[m] = r[n]
               PROVE  m = n
    BY <1>1, <1>2 DEF Once
  <2>2. CASE m \in 1 .. a /\ n \in 1 .. a
    BY <1>4, <2>1, <2>2
  <2>3. CASE m \in 1 .. a /\ n \notin 1 .. a
    <3>1. PICK k \in 1 .. b : n = a + k
      BY <1>6, <2>3
    <3>2. r[n] = t[k] /\ r[m] = s[m]
      BY <1>4, <1>5, <2>3, <3>1
    <3>3. QED
      BY <2>1, <2>3, <3>2
  <2>4. CASE m \notin 1 .. a /\ n \in 1 .. a
    <3>1. PICK k \in 1 .. b : m = a + k
      BY <1>6, <2>4
    <3>2. r[m] = t[k] /\ r[n] = s[n]
      BY <1>4, <1>5, <2>4, <3>1
    <3>3. QED
      BY <2>1, <2>4, <3>2
  <2>5. CASE m \notin 1 .. a /\ n \notin 1 .. a
    <3>1. PICK k \in 1 .. b : m = a + k
      BY <1>6, <2>5
    <3>2. PICK l \in 1 .. b : n = a + l
      BY <1>6, <2>5
    <3>3. r[m] = t[k] /\ r[n] = t[l]
      BY <1>5, <3>1, <3>2
    <3>4. QED
      BY <2>1, <3>1, <3>2, <3>3
  <2>6. QED
    BY <2>2, <2>3, <2>4, <2>5
<1>9. QED
  BY <1>1, <1>7, <1>8

(* An object with pieces of the extents in S, all of which touch the       *)
(* segment it tells of.                                                    *)
IsObject(S, object) ==
  /\ object = SegmentObject(object.info, object.extents)
  /\ object.info = NoInfo \/ object.info.pbas \in Nat
  /\ object.extents \in Seq(PiecesOf(S))
  /\ \A piece \in Held(object) : Touches(piece.of, ToldSegment(object))
  /\ Once(object.extents)

(* An object with one more extent.                                         *)
With(object, e) == SegmentObject(object.info, object.extents \o Pieces(e))

LEMMA WithFacts ==
  ASSUME NEW S, NEW o, IsObject(S, o), NEW e \in S, Collectible(e),
         FirstSegment(e) = ToldSegment(o),
         \A piece \in Held(o) : piece.of # e
  PROVE  /\ IsObject(S, With(o, e))
         /\ [o EXCEPT !.extents = @ \o Pieces(e)] = With(o, e)
         /\ ToldSegment(With(o, e)) = ToldSegment(o)
         /\ Held(With(o, e)) = Held(o) \cup Range(Pieces(e))
<1>1. /\ Pieces(e) \in Seq(PiecesOf({e}))
      /\ Once(Pieces(e))
  BY PiecesFacts DEF Once
<1>2. \A piece \in Range(Pieces(e)) : piece.of = e
  <2>1. \A piece \in Range(Pieces(e)) : piece \in PiecesOf({e})
    BY <1>1, RangeIs
  <2>2. QED
    BY <2>1 DEF PiecesOf
<1>3. PICK pieces \in Seq(PiecesOf(S)) : pieces = Pieces(e)
  <2>1. \A piece \in PiecesOf({e}) : piece \in PiecesOf(S)
    BY DEF PiecesOf
  <2>2. Pieces(e) \in Seq(PiecesOf(S))
    BY <1>1, <2>1, WiderSeq
  <2>3. QED
    BY <2>2, Zenon
<1>4. PICK old \in Seq(PiecesOf(S)) : old = o.extents
  BY DEF IsObject
<1>5. Range(old) \cap Range(pieces) = {}
  BY <1>2, <1>3, <1>4 DEF Held
<1>6. /\ old \o pieces \in Seq(PiecesOf(S))
      /\ Range(old \o pieces) = Range(old) \cup Range(pieces)
      /\ Once(old \o pieces)
  BY <1>1, <1>3, <1>4, <1>5, Joined DEF IsObject
<1>7. /\ With(o, e).info = o.info
      /\ With(o, e).extents = old \o pieces
      /\ With(o, e) = SegmentObject(With(o, e).info, With(o, e).extents)
  BY <1>3, <1>4 DEF With, SegmentObject
<1>8. ToldSegment(With(o, e)) = ToldSegment(o)
  BY <1>7 DEF ToldSegment
<1>9. Held(With(o, e)) = Held(o) \cup Range(Pieces(e))
  BY <1>3, <1>4, <1>6, <1>7 DEF Held
<1>10. \A piece \in Held(With(o, e)) : Touches(piece.of, ToldSegment(o))
  BY <1>2, <1>9 DEF IsObject, Touches
<1>11. IsObject(S, With(o, e))
  BY <1>6, <1>7, <1>8, <1>10 DEF IsObject
<1>12. [o EXCEPT !.extents = @ \o Pieces(e)] = With(o, e)
  <2>1. PICK info, extents, joined :
          /\ info = o.info
          /\ extents = o.extents
          /\ joined = extents \o Pieces(e)
    OBVIOUS
  <2>2. o = [info |-> info, extents |-> extents]
    BY <2>1 DEF SegmentObject, IsObject
  <2>3. [o EXCEPT !.extents = joined] = [info |-> info, extents |-> joined]
    BY <2>2
  <2>4. [o EXCEPT !.extents = @ \o Pieces(e)] = [o EXCEPT !.extents = joined]
    BY <2>1
  <2>5. With(o, e) = [info |-> info, extents |-> joined]
    BY <2>1 DEF With, SegmentObject
  <2>6. QED
    BY <2>3, <2>4, <2>5
<1>13. QED
  BY <1>8, <1>9, <1>11, <1>12

(* The object of a new segment with its first extent.                      *)
LEMMA NewFacts ==
  ASSUME NEW S, NEW e \in S, Collectible(e)
  PROVE  /\ IsObject(S, NewSegment(e))
         /\ ToldSegment(NewSegment(e)) = FirstSegment(e)
         /\ Held(NewSegment(e)) = {}
<1>1. FirstSegment(e) \in Nat
  BY ExtentFacts
<1>2. /\ NewSegment(e).info = SegmentInfo(e, FirstSegment(e))
      /\ NewSegment(e).extents = <<>>
      /\ NewSegment(e) = SegmentObject(NewSegment(e).info, NewSegment(e).extents)
  BY DEF NewSegment, SegmentObject
<1>3. Held(NewSegment(e)) = {} /\ Once(NewSegment(e).extents)
  BY <1>2 DEF Held, Range, Once
<1>4. /\ ToldSegment(NewSegment(e)) = FirstSegment(e)
      /\ NewSegment(e).info.pbas \in Nat
  BY <1>1, <1>2, ToldInfo DEF NewSegment
<1>5. <<>> \in Seq(PiecesOf(S))
  OBVIOUS
<1>6. QED
  BY <1>2, <1>3, <1>4, <1>5 DEF IsObject

(* The object of the segments in the middle of an extent.                  *)
Middle(e) == SegmentObject(SegmentInfo(e, MiddleSegment(e)), <<Whole(e)>>)

LEMMA MiddleObject ==
  ASSUME NEW S, NEW e \in S, Collectible(e), HasMiddle(e)
  PROVE  /\ IsObject(S, Middle(e))
         /\ Held(Middle(e)) = {Whole(e)}
<1>1. MiddleSegment(e) \in Nat /\ Touches(e, MiddleSegment(e))
  BY MiddleFacts
<1>2. /\ Middle(e).info = SegmentInfo(e, MiddleSegment(e))
      /\ Middle(e).extents = <<Whole(e)>>
      /\ Middle(e) = SegmentObject(Middle(e).info, Middle(e).extents)
  BY DEF Middle, SegmentObject
<1>3. Held(Middle(e)) = {Whole(e)} /\ Once(Middle(e).extents)
  BY <1>2 DEF Held, Range, Once
<1>4. /\ ToldSegment(Middle(e)) = MiddleSegment(e)
      /\ Middle(e).info.pbas \in Nat
  BY <1>1, <1>2, ToldInfo DEF Middle
<1>5. Whole(e).of = e /\ Whole(e) \in PiecesOf(S)
  BY PieceFacts DEF PiecesOf, Whole, Piece
<1>6. QED
  BY <1>1, <1>2, <1>3, <1>4, <1>5 DEF IsObject

SegsOK(S, segs) ==
  \A s \in DOMAIN segs : s < KeyLimit /\ IsObject(S, segs[s])

HeldIn(segs) == UNION {Held(segs[s]) : s \in DOMAIN segs}

Apart(segs) ==
  \A s, t \in DOMAIN segs : \A p :
    p \in Held(segs[s]) /\ p \in Held(segs[t]) => s = t

LEMMA NoSegs ==
  ASSUME NEW S
  PROVE  SegsOK(S, <<>>) /\ HeldIn(<<>>) = {} /\ Apart(<<>>)
<1>1. DOMAIN <<>> = {}
  OBVIOUS
<1>2. QED
  BY <1>1 DEF SegsOK, HeldIn, Apart

LEMMA PutSegs ==
  ASSUME NEW S, NEW segs, SegsOK(S, segs), NEW n \in Nat, NEW o, IsObject(S, o)
  PROVE  SegsOK(S, Put(segs, Key(n), o))
<1>1. PICK k : k = Key(n) /\ k < KeyLimit
  BY KeyIsShort
<1>2. /\ DOMAIN Put(segs, k, o) = DOMAIN segs \cup {k}
      /\ Put(segs, k, o)[k] = o
      /\ \A s \in DOMAIN segs : s # k => Put(segs, k, o)[s] = segs[s]
  BY DEF Put
<1>3. ASSUME NEW s \in DOMAIN Put(segs, k, o)
      PROVE  s < KeyLimit /\ IsObject(S, Put(segs, k, o)[s])
  BY <1>1, <1>2, <1>3 DEF SegsOK
<1>4. SegsOK(S, Put(segs, k, o))
  BY <1>3 DEF SegsOK
<1>5. QED
  BY <1>1, <1>4

LEMMA PutHeld ==
  ASSUME NEW segs, NEW k, NEW o
  PROVE  /\ HeldIn(Put(segs, k, o)) \subseteq HeldIn(segs) \cup Held(o)
         /\ Apart(segs) /\ (\A p \in Held(o) : p \notin HeldIn(segs)) =>
              Apart(Put(segs, k, o))
<1>1. /\ DOMAIN Put(segs, k, o) = DOMAIN segs \cup {k}
      /\ Put(segs, k, o)[k] = o
      /\ \A s \in DOMAIN segs : s # k => Put(segs, k, o)[s] = segs[s]
  BY DEF Put
<1>2. \A p \in HeldIn(Put(segs, k, o)) : p \in HeldIn(segs) \cup Held(o)
  BY <1>1 DEF HeldIn
<1>3. ASSUME Apart(segs), \A p \in Held(o) : p \notin HeldIn(segs)
      PROVE  Apart(Put(segs, k, o))
  BY <1>1, <1>3 DEF Apart, HeldIn
<1>4. QED
  BY <1>2, <1>3

(* What the segments of a zone hold after an extent.                       *)
LEMMA FlushFacts ==
  ASSUME NEW S, SegsOK(S, zone_segments), IsObject(S, curseg), NEW n \in Nat
  PROVE  /\ SegsOK(S, FlushSegment(zone_segments, n))
         /\ HeldIn(FlushSegment(zone_segments, n)) \subseteq
              HeldIn(zone_segments) \cup Held(curseg)
         /\ Apart(zone_segments) /\ (\A p \in Held(curseg) : p \notin HeldIn(zone_segments))
              => Apart(FlushSegment(zone_segments, n))
<1>1. CASE curseg.extents = <<>>
  BY <1>1 DEF FlushSegment
<1>2. CASE curseg.extents # <<>>
  <2>1. FlushSegment(zone_segments, n) = Put(zone_segments, Key(n), curseg)
    BY <1>2 DEF FlushSegment
  <2>2. QED
    BY <2>1, PutSegs, PutHeld
<1>3. QED
  BY <1>1, <1>2

LEMMA MiddleAdded ==
  ASSUME NEW S, NEW segs, SegsOK(S, segs), NEW e \in S, Collectible(e),
         \A p \in HeldIn(segs) : p.of # e
  PROVE  /\ SegsOK(S, AddMiddle(segs, e))
         /\ HeldIn(AddMiddle(segs, e)) \subseteq HeldIn(segs) \cup {Whole(e)}
         /\ ~HasMiddle(e) => AddMiddle(segs, e) = segs
         /\ Apart(segs) => Apart(AddMiddle(segs, e))
<1>1. CASE ~HasMiddle(e)
  BY <1>1 DEF AddMiddle
<1>2. CASE HasMiddle(e)
  <2>1. AddMiddle(segs, e) = Put(segs, Key(MiddleSegment(e)), Middle(e))
    BY <1>2 DEF AddMiddle, Middle
  <2>2. /\ IsObject(S, Middle(e)) /\ Held(Middle(e)) = {Whole(e)}
        /\ MiddleSegment(e) \in Nat
    BY <1>2, MiddleObject, MiddleFacts
  <2>3. Whole(e) \notin HeldIn(segs)
    BY DEF Whole, Piece
  <2>4. /\ HeldIn(Put(segs, Key(MiddleSegment(e)), Middle(e)))
             \subseteq HeldIn(segs) \cup {Whole(e)}
        /\ Apart(segs) => Apart(Put(segs, Key(MiddleSegment(e)), Middle(e)))
    BY <2>2, <2>3, PutHeld
  <2>5. SegsOK(S, Put(segs, Key(MiddleSegment(e)), Middle(e)))
    BY <2>2, PutSegs
  <2>6. QED
    BY <1>2, <2>1, <2>4, <2>5
<1>3. QED
  BY <1>1, <1>2

-----------------------------------------------------------------------------
(* The objects are well formed, and hold only what the walk has passed.    *)

ZoneOK(S, object) ==
  /\ object.info \in {ZoneInfo(y) : y \in Zones} \cup {NoInfo}
  /\ SegsOK(S, object.segments)

CursegOK ==
  /\ IsObject(AllExtents, curseg)
  /\ ToldSegment(curseg) = curseg_id
  /\ curseg_id \in Nat
  /\ current_zone \in Zones
  /\ \A p \in Held(curseg) : Passed(p.of) /\ FirstSegment(p.of) = curseg_id

ZoneSegmentsOK ==
  /\ SegsOK(AllExtents, zone_segments)
  /\ \A p \in HeldIn(zone_segments) : Passed(p.of)

ZonemapOK ==
  \A z \in DOMAIN zonemap :
    /\ z < KeyLimit
    /\ ZoneOK(AllExtents, zonemap[z])
    /\ \A p \in HeldIn(zonemap[z].segments) : Passed(p.of)

ObjectsOK == CursegOK /\ ZoneSegmentsOK /\ ZonemapOK

LEMMA HeldOf ==
  ASSUME NEW S, NEW o, IsObject(S, o), NEW p \in Held(o)
  PROVE  p.of \in S
<1>1. p \in PiecesOf(S)
  BY RangeIs DEF IsObject, Held
<1>2. QED
  BY <1>1 DEF PiecesOf

LEMMA HeldInOf ==
  ASSUME NEW S, NEW segs, SegsOK(S, segs), NEW p \in HeldIn(segs)
  PROVE  p.of \in S
<1>1. PICK s \in DOMAIN segs : p \in Held(segs[s])
  BY DEF HeldIn
<1>2. IsObject(S, segs[s])
  BY DEF SegsOK
<1>3. QED
  BY <1>1, <1>2, HeldOf

LEMMA ObjectsInit ==
  ASSUME Init
  PROVE  ObjectsOK
<1>1. SegsOK(AllExtents, <<>>) /\ HeldIn(<<>>) = {}
  BY NoSegs
<1>2. /\ curseg = SegmentObject(NoInfo, <<>>)
      /\ curseg.info = NoInfo
      /\ curseg.extents = <<>>
      /\ curseg_id = 0
      /\ current_zone = 0
      /\ zone_segments = <<>>
      /\ zonemap = <<>>
  BY DEF Init, SegmentObject
<1>3. Held(curseg) = {} /\ Once(curseg.extents)
  BY <1>2 DEF Held, Range, Once
<1>4. ToldSegment(curseg) = 0
  BY <1>2 DEF ToldSegment
<1>5. <<>> \in Seq(PiecesOf(AllExtents)) /\ DOMAIN <<>> = {}
  OBVIOUS
<1>6. 0 \in Zones
  BY GeometryAssumption DEF Zones
<1>7. CursegOK
  BY <1>2, <1>3, <1>4, <1>5, <1>6 DEF CursegOK, IsObject
<1>8. QED
  BY <1>1, <1>2, <1>5, <1>7 DEF ObjectsOK, ZoneSegmentsOK, ZonemapOK

(* What becomes of the objects when an extent is dumped.                   *)
LEMMA DumpEffect ==
  ASSUME WalkOK, ObjectsOK, Dump
  PROVE  /\ TheExtent \in AllExtents /\ Collectible(TheExtent)
         /\ Selected(TheExtent) /\ ~Passed(TheExtent) /\ TheExtent.zone = i
         /\ pc = "list" /\ pc' = "list" /\ i' = i
         /\ current_zone' = i /\ i \in Zones
         /\ curseg_id' = FirstSegment(TheExtent)
         /\ zonemap' = zonemap
         /\ IsObject(AllExtents, curseg')
         /\ ToldSegment(curseg') = FirstSegment(TheExtent)
         /\ \A p \in Held(curseg') :
              \/ p \in Range(Pieces(TheExtent)) /\ p.of = TheExtent
              \/ p \in Held(curseg) /\ curseg_id = FirstSegment(TheExtent)
         /\ \A p \in Range(Pieces(TheExtent)) : p \in Held(curseg')
         /\ curseg_id = FirstSegment(TheExtent) =>
              \A p \in Held(curseg) : p \in Held(curseg')
         /\ SegsOK(AllExtents, zone_segments')
         /\ \A p \in HeldIn(zone_segments') :
              \/ p \in HeldIn(zone_segments)
              \/ p \in Held(curseg) /\ curseg_id # FirstSegment(TheExtent)
              \/ HasMiddle(TheExtent) /\ p = Whole(TheExtent)
         /\ Apart(zone_segments) /\ (\A p \in Held(curseg) : p \notin HeldIn(zone_segments))
              => Apart(zone_segments')
<1>1. PICK e : e = TheExtent
  OBVIOUS
<1>2. /\ pc = "list" /\ current # <<>> /\ Selected(e)
      /\ pc' = "list" /\ i' = i /\ zonemap' = zonemap /\ current_zone' = e.zone
      /\ curseg_id' = FirstSegment(e)
  BY <1>1 DEF Dump, DumpInSegment, DumpInNewSegment
<1>3. e \in AllExtents /\ e.zone = i /\ ~Passed(e) /\ i \in Zones
  BY <1>1, <1>2, AtHand
<1>4. Collectible(e)
  BY <1>3, ExtentsOfMap DEF WalkOK
<1>5. /\ IsObject(AllExtents, curseg) /\ ToldSegment(curseg) = curseg_id
      /\ \A p \in Held(curseg) : p.of # e
      /\ SegsOK(AllExtents, zone_segments)
      /\ \A p \in HeldIn(zone_segments) : p.of # e
  BY <1>3 DEF ObjectsOK, CursegOK, ZoneSegmentsOK
<1>6. \A p \in Range(Pieces(e)) : p.of = e
  <2>1. Pieces(e) \in Seq(PiecesOf({e}))
    BY <1>4, PiecesFacts
  <2>2. \A p \in Range(Pieces(e)) : p \in PiecesOf({e})
    BY <2>1, RangeIs
  <2>3. QED
    BY <2>2 DEF PiecesOf
<1>7. FirstSegment(e) \in Nat
  BY <1>4, ExtentFacts
<1>8. CASE DumpInSegment
  <2>1. /\ curseg_id = FirstSegment(e)
        /\ curseg' = [curseg EXCEPT !.extents = @ \o Pieces(e)]
        /\ zone_segments' = AddMiddle(zone_segments, e)
    BY <1>1, <1>8 DEF DumpInSegment
  <2>2. /\ IsObject(AllExtents, curseg')
        /\ ToldSegment(curseg') = FirstSegment(e)
        /\ Held(curseg') = Held(curseg) \cup Range(Pieces(e))
    <3>1. PICK o : o = curseg
      OBVIOUS
    <3>2. curseg' = With(o, e)
      BY <1>3, <1>4, <1>5, <2>1, <3>1, WithFacts
    <3>3. /\ IsObject(AllExtents, With(o, e))
          /\ ToldSegment(With(o, e)) = ToldSegment(o)
          /\ Held(With(o, e)) = Held(o) \cup Range(Pieces(e))
      BY <1>3, <1>4, <1>5, <2>1, <3>1, WithFacts
    <3>4. QED
      BY <1>5, <2>1, <3>1, <3>2, <3>3
  <2>3. /\ SegsOK(AllExtents, zone_segments')
        /\ HeldIn(zone_segments') \subseteq HeldIn(zone_segments) \cup {Whole(e)}
        /\ ~HasMiddle(e) => zone_segments' = zone_segments
        /\ Apart(zone_segments) => Apart(zone_segments')
    BY <1>3, <1>4, <1>5, <2>1, MiddleAdded
  <2>4. QED
    BY <1>1, <1>2, <1>3, <1>4, <1>6, <2>1, <2>2, <2>3
<1>9. CASE DumpInNewSegment
  <2>1. /\ curseg_id # FirstSegment(e)
        /\ curseg' = [NewSegment(e) EXCEPT !.extents = @ \o Pieces(e)]
        /\ zone_segments' = AddMiddle(FlushSegment(zone_segments, FirstSegment(e)), e)
    BY <1>1, <1>9 DEF DumpInNewSegment
  <2>2. /\ IsObject(AllExtents, curseg')
        /\ ToldSegment(curseg') = FirstSegment(e)
        /\ Held(curseg') = Range(Pieces(e))
    <3>1. PICK o : o = NewSegment(e)
      OBVIOUS
    <3>2. /\ IsObject(AllExtents, o) /\ ToldSegment(o) = FirstSegment(e)
          /\ Held(o) = {}
      BY <1>3, <1>4, <3>1, NewFacts
    <3>3. curseg' = With(o, e)
      BY <1>3, <1>4, <2>1, <3>1, <3>2, WithFacts
    <3>4. /\ IsObject(AllExtents, With(o, e))
          /\ ToldSegment(With(o, e)) = ToldSegment(o)
          /\ Held(With(o, e)) = Held(o) \cup Range(Pieces(e))
      BY <1>3, <1>4, <3>2, WithFacts
    <3>5. QED
      BY <3>2, <3>3, <3>4
  <2>3. PICK segs : segs = FlushSegment(zone_segments, FirstSegment(e))
    OBVIOUS
  <2>4. /\ SegsOK(AllExtents, segs)
        /\ HeldIn(segs) \subseteq HeldIn(zone_segments) \cup Held(curseg)
        /\ Apart(zone_segments) /\ (\A p \in Held(curseg) : p \notin HeldIn(zone_segments))
              => Apart(segs)
    BY <1>5, <1>7, <2>3, FlushFacts
  <2>5. \A p \in HeldIn(segs) : p.of # e
    BY <1>5, <2>4
  <2>6. /\ SegsOK(AllExtents, zone_segments')
        /\ HeldIn(zone_segments') \subseteq HeldIn(segs) \cup {Whole(e)}
        /\ ~HasMiddle(e) => zone_segments' = segs
        /\ Apart(segs) => Apart(zone_segments')
    BY <1>3, <1>4, <2>1, <2>3, <2>4, <2>5, MiddleAdded
  <2>7. QED
    BY <1>1, <1>2, <1>3, <1>4, <1>6, <2>1, <2>2, <2>4, <2>6
<1>10. QED
  BY <1>8, <1>9 DEF Dump

LEMMA PassedStays ==
  ASSUME WalkOK, [Next]_vars, NEW e \in AllExtents, Passed(e)
  PROVE  Passed(e)'
BY PassedStep

(* What the other steps do to the objects.                                 *)
LEMMA OtherEffect ==
  ASSUME [Next]_vars, ~Dump
  PROVE  /\ UNCHANGED <<curseg, curseg_id, current_zone>>
         /\ zone_segments' = zone_segments \/ zone_segments' = <<>>
         /\ ~LeaveZone => UNCHANGED zonemap
         /\ LeaveZone => /\ zone_segments' = zone_segments
                         /\ \E info \in {ZoneInfo(current_zone), NoInfo} :
                              zonemap' = Put(zonemap, Key(current_zone),
                                             ZoneObject(info, zone_segments))
<1>1. CASE LeaveZone
  BY <1>1 DEF LeaveZone
<1>2. CASE EnterZone \/ SkipZone \/ ContinueBelowStart \/ WriteFile \/ Finished \/ UNCHANGED vars
  <2>1. /\ UNCHANGED <<curseg, curseg_id, current_zone, zonemap>>
        /\ zone_segments' = zone_segments \/ zone_segments' = <<>>
    BY <1>2 DEF EnterZone, SkipZone, ContinueBelowStart, WriteFile, Finished, vars
  <2>2. CASE LeaveZone
    BY <1>1, <2>2
  <2>3. QED
    BY <2>1, <2>2
<1>3. QED
  BY <1>1, <1>2 DEF Next, Walk, Dump

LEMMA ObjectsStep ==
  ASSUME WalkOK, ObjectsOK, [Next]_vars
  PROVE  ObjectsOK'
<1>1. AllExtents' = AllExtents
  BY InputsStay
<1>2. \A e \in AllExtents : Passed(e) => Passed(e)'
  BY PassedStays
<1>3. CASE Dump
  <2>1. PICK e \in AllExtents :
          /\ e = TheExtent
          /\ Passed(e)'
          /\ Collectible(e)
    BY <1>3, PassedStep, DumpEffect
  <2>2. FirstSegment(e) \in Nat /\ Whole(e).of = e
    BY <2>1, ExtentFacts DEF Whole, Piece
  <2>3. /\ current_zone' \in Zones
        /\ curseg_id' = FirstSegment(e)
        /\ zonemap' = zonemap
        /\ IsObject(AllExtents, curseg')
        /\ ToldSegment(curseg') = FirstSegment(e)
        /\ \A p \in Held(curseg') :
             p.of = e \/ (p \in Held(curseg) /\ curseg_id = FirstSegment(e))
        /\ SegsOK(AllExtents, zone_segments')
        /\ \A p \in HeldIn(zone_segments') :
             p \in HeldIn(zone_segments) \/ p \in Held(curseg) \/ p = Whole(e)
    BY <1>3, <2>1, DumpEffect
  <2>4. \A p \in Held(curseg) : p.of \in AllExtents
    BY HeldOf DEF ObjectsOK, CursegOK
  <2>5. \A p \in HeldIn(zone_segments) : p.of \in AllExtents
    BY HeldInOf DEF ObjectsOK, ZoneSegmentsOK
  <2>6. \A p \in Held(curseg') : Passed(p.of)' /\ FirstSegment(p.of) = curseg_id'
    BY <1>2, <2>1, <2>3, <2>4 DEF ObjectsOK, CursegOK
  <2>7. CursegOK'
    BY <1>1, <2>2, <2>3, <2>6 DEF CursegOK
  <2>8. \A p \in HeldIn(zone_segments') : Passed(p.of)'
    BY <1>2, <2>1, <2>2, <2>3, <2>4, <2>5 DEF ObjectsOK, CursegOK, ZoneSegmentsOK
  <2>9. ZoneSegmentsOK'
    BY <1>1, <2>3, <2>8 DEF ZoneSegmentsOK
  <2>10. ASSUME NEW z \in DOMAIN zonemap
         PROVE  /\ z < KeyLimit
                /\ ZoneOK(AllExtents, zonemap[z])
                /\ \A p \in HeldIn(zonemap[z].segments) : Passed(p.of)'
    <3>1. SegsOK(AllExtents, zonemap[z].segments)
      BY DEF ObjectsOK, ZonemapOK, ZoneOK
    <3>2. \A p \in HeldIn(zonemap[z].segments) : p.of \in AllExtents
      BY <3>1, HeldInOf
    <3>3. QED
      BY <1>2, <3>2 DEF ObjectsOK, ZonemapOK
  <2>11. ZonemapOK'
    BY <1>1, <2>3, <2>10 DEF ZonemapOK
  <2>12. QED
    BY <2>7, <2>9, <2>11 DEF ObjectsOK
<1>4. CASE ~Dump
  <2>1. /\ UNCHANGED <<curseg, curseg_id, current_zone>>
        /\ zone_segments' = zone_segments \/ zone_segments' = <<>>
    BY <1>4, OtherEffect
  <2>2. \A p \in Held(curseg) : p.of \in AllExtents
    BY HeldOf DEF ObjectsOK, CursegOK
  <2>3. \A p \in HeldIn(zone_segments) : p.of \in AllExtents
    BY HeldInOf DEF ObjectsOK, ZoneSegmentsOK
  <2>4. CursegOK'
    BY <1>1, <1>2, <2>1, <2>2 DEF ObjectsOK, CursegOK
  <2>5. SegsOK(AllExtents, zone_segments') /\ HeldIn(zone_segments') \subseteq HeldIn(zone_segments)
    BY <2>1, NoSegs DEF ObjectsOK, ZoneSegmentsOK
  <2>6. ZoneSegmentsOK'
    BY <1>1, <1>2, <2>3, <2>5 DEF ObjectsOK, ZoneSegmentsOK
  <2>7. \A z \in DOMAIN zonemap : \A p \in HeldIn(zonemap[z].segments) : p.of \in AllExtents
    BY HeldInOf DEF ObjectsOK, ZonemapOK, ZoneOK
  <2>8. CASE ~LeaveZone
    <3>1. zonemap' = zonemap
      BY <1>4, <2>8, OtherEffect
    <3>2. ZonemapOK'
      BY <1>1, <1>2, <2>7, <3>1 DEF ObjectsOK, ZonemapOK
    <3>3. QED
      BY <2>4, <2>6, <3>2 DEF ObjectsOK
  <2>9. CASE LeaveZone
    <3>1. PICK info \in {ZoneInfo(current_zone), NoInfo} :
            zonemap' = Put(zonemap, Key(current_zone), ZoneObject(info, zone_segments))
      BY <1>4, <2>9, OtherEffect
    <3>2. PICK k, o : /\ k = Key(current_zone)
                      /\ o = ZoneObject(info, zone_segments)
      OBVIOUS
    <3>3. current_zone \in Zones /\ current_zone \in Nat
      BY GeometryAssumption DEF ObjectsOK, CursegOK, Zones
    <3>4. k < KeyLimit
      BY <3>2, <3>3, KeyIsShort
    <3>5. o.info = info /\ o.segments = zone_segments
      BY <3>2 DEF ZoneObject
    <3>6. info \in {ZoneInfo(y) : y \in Zones} \cup {NoInfo}
      BY <3>3
    <3>7. ZoneOK(AllExtents, o) /\ \A p \in HeldIn(o.segments) : Passed(p.of)'
      BY <1>2, <2>3, <3>5, <3>6 DEF ObjectsOK, ZoneSegmentsOK, ZoneOK
    <3>8. /\ DOMAIN zonemap' = DOMAIN zonemap \cup {k}
          /\ zonemap'[k] = o
          /\ \A z \in DOMAIN zonemap : z # k => zonemap'[z] = zonemap[z]
      BY <3>1, <3>2 DEF Put
    <3>9. ASSUME NEW z \in DOMAIN zonemap'
          PROVE  /\ z < KeyLimit
                 /\ ZoneOK(AllExtents, zonemap'[z])
                 /\ \A p \in HeldIn(zonemap'[z].segments) : Passed(p.of)'
      <4>1. CASE z = k
        BY <3>4, <3>7, <3>8, <4>1
      <4>2. CASE z # k
        BY <1>2, <2>7, <3>8, <4>2 DEF ObjectsOK, ZonemapOK
      <4>3. QED
        BY <4>1, <4>2
    <3>10. ZonemapOK'
      BY <1>1, <3>9 DEF ZonemapOK
    <3>11. QED
      BY <2>4, <2>6, <3>10 DEF ObjectsOK
  <2>10. QED
    BY <2>8, <2>9
<1>5. QED
  BY <1>3, <1>4

LEMMA ObjectsAlways == Spec => [](WalkOK /\ ObjectsOK)
<1>1. Init => WalkOK /\ ObjectsOK
  BY WalkInit, ObjectsInit
<1>2. WalkOK /\ ObjectsOK /\ [Next]_vars => (WalkOK /\ ObjectsOK)'
  BY WalkStep, ObjectsStep
<1>3. QED
  BY <1>1, <1>2, PTL DEF Spec

(* The types of the variables hold of every run of the dump: no piece of   *)
(* an extent that json_dump_f2fs_zonemap adds reaches beyond the device,   *)
(* and no key is longer than uint32_to_string_cast has room for.           *)
THEOREM TypeAlways == Spec => []TypeOK
<1>1. ASSUME NEW o, IsObject(AllExtents, o)
      PROVE  IsSegmentObject(o)
  BY <1>1 DEF IsObject, IsSegmentObject, PieceType, PiecesOf
<1>2. WalkOK /\ ObjectsOK => TypeOK
  <2> SUFFICES ASSUME WalkOK, ObjectsOK
               PROVE  TypeOK
    OBVIOUS
  <2>1. /\ pc \in {"zone", "list", "done"}
        /\ i \in 0 .. NrZones
        /\ current \in Seq(AllExtents)
    BY DEF WalkOK
  <2>2. /\ current_zone \in Zones
        /\ curseg_id \in Nat
        /\ IsSegmentObject(curseg)
    BY <1>1 DEF ObjectsOK, CursegOK
  <2>3. \A s \in DOMAIN zone_segments : s < KeyLimit /\ IsSegmentObject(zone_segments[s])
    BY <1>1 DEF ObjectsOK, ZoneSegmentsOK, SegsOK
  <2>4. \A z \in DOMAIN zonemap :
          /\ z < KeyLimit
          /\ zonemap[z].info \in {ZoneInfo(y) : y \in Zones} \cup {NoInfo}
          /\ \A s \in DOMAIN zonemap[z].segments : IsSegmentObject(zonemap[z].segments[s])
    BY <1>1 DEF ObjectsOK, ZonemapOK, ZoneOK, SegsOK
  <2>5. QED
    BY <2>1, <2>2, <2>3, <2>4 DEF TypeOK
<1>3. QED
  BY <1>2, ObjectsAlways, PTL

-----------------------------------------------------------------------------
(* Zones of segments: a zone is made of whole segments.                    *)

LEMMA ZoneIs ==
  ASSUME DeviceFitsWord, NEW lba \in ZnsBlocks, NEW z \in Nat,
         z * ZoneSize <= lba, lba < (z + 1) * ZoneSize
  PROVE  GetZoneNumber(lba) = z
<1>1. PICK g \in Nat : g = GetZoneNumber(lba)
  BY ZoneNumberInRange, GeometryAssumption DEF Zones
<1>2. g * ZoneSize <= lba /\ lba < (g + 1) * ZoneSize
  BY <1>1, ZoneNumberIsZone
<1>3. PICK d \in Nat \ {0}, b \in Nat : d = ZoneSize /\ b = lba
  BY GeometryAssumption DEF ZnsBlocks
<1>4. d * g <= b /\ b < (z + 1) * d /\ d * z <= b /\ b < (g + 1) * d
  BY <1>2, <1>3
<1>5. g < z + 1
  <2>1. PICK p \in Nat, q \in Nat : p = d * g /\ q = (z + 1) * d
    BY <1>3
  <2>2. p < q
    BY <1>3, <1>4, <2>1
  <2>3. QED
    BY <1>3, <2>1, <2>2, QuotientBound
<1>6. z < g + 1
  <2>1. PICK p \in Nat, q \in Nat : p = d * z /\ q = (g + 1) * d
    BY <1>3
  <2>2. p < q
    BY <1>3, <1>4, <2>1
  <2>3. QED
    BY <1>3, <2>1, <2>2, QuotientBound
<1>7. QED
  BY <1>1, <1>5, <1>6

(* The remainder is what the quotient leaves.                              *)
LEMMA Euclid ==
  ASSUME NEW c \in Nat, NEW d \in Nat \ {0}
  PROVE  c % d = c - d * (c \div d)
OBVIOUS

LEMMA ZoneOfFirst ==
  ASSUME DeviceFitsWord, NEW e, Collectible(e), GetZoneNumber(e.phy_blk) = e.zone
  PROVE  ZoneOfSegment(FirstSegment(e)) = e.zone
<1>1. PICK s \in Nat, z \in Nat, b \in ZnsBlocks :
        /\ s = FirstSegment(e)
        /\ z = e.zone
        /\ b = e.phy_blk
  BY ExtentFacts, ZoneNumberInRange, GeometryAssumption DEF Collectible, Zones
<1>2. PICK r \in Nat : ZoneSize = r * SegSize
  <2>1. PICK d \in Nat \ {0}, c \in Nat : d = SegSize /\ c = ZoneSize /\ c % d = 0
    BY SegSizeIsPositive, GeometryAssumption, DumpAssumption
  <2>2. c % d = c - d * (c \div d)
    BY <2>1, Euclid
  <2>3. PICK r \in Nat : r = c \div d
    BY <2>1, DivisionBounds
  <2>4. c = r * d
    BY <2>1, <2>2, <2>3
  <2>5. QED
    BY <2>1, <2>4
<1>3. PICK start \in Nat : start = SegmentStart(s)
  BY <1>1, StartFacts
<1>4. start <= b /\ b < SegmentStart(s + 1) /\ b \in Nat
  BY <1>1, <1>3, ExtentFacts
<1>5. z * ZoneSize <= b /\ b < (z + 1) * ZoneSize
  BY <1>1, ZoneNumberIsZone
<1>6. z * ZoneSize = (z * r) * SegSize
  BY <1>2, SegSizeIsPositive
<1>7. PICK t \in Nat : t = z * r
  OBVIOUS
<1>8. z * ZoneSize = SegmentStart(t) /\ SegmentStart(t) \in Nat
  BY <1>6, <1>7, StartFacts DEF SegmentStart
<1>9. t <= s
  <2> SUFFICES ASSUME s + 1 <= t
               PROVE  FALSE
    OBVIOUS
  <2>1. SegmentStart(s + 1) <= SegmentStart(t) /\ SegmentStart(s + 1) \in Nat
    BY StartMonotone, StartFacts
  <2>2. QED
    BY <1>4, <1>5, <1>8, <2>1
<1>10. SegmentStart(t) <= start
  BY <1>3, <1>9, StartMonotone
<1>11. start \in ZnsBlocks
  BY <1>3, <1>4, GeometryAssumption DEF ZnsBlocks
<1>12. PICK low \in Nat, high \in Nat : low = z * ZoneSize /\ high = (z + 1) * ZoneSize
  BY GeometryAssumption
<1>13. low <= start /\ start < high
  BY <1>3, <1>4, <1>5, <1>8, <1>10, <1>12
<1>14. GetZoneNumber(start) = z
  BY <1>11, <1>12, <1>13, ZoneIs
<1>15. QED
  BY <1>1, <1>3, <1>14 DEF ZoneOfSegment

LEMMA ZoneOfInfo ==
  ASSUME DeviceFitsWord, NEW y \in Zones
  PROVE  /\ ZoneInfo(y) # NoInfo
         /\ GetZoneNumber(ZoneInfo(y).lbas) = y
<1>1. ZoneInfo(y) # NoInfo
  <2>1. "lbas" \in DOMAIN ZoneInfo(y)
    BY DEF ZoneInfo
  <2>2. "lbas" \notin DOMAIN NoInfo
    BY DEF NoInfo
  <2>3. QED
    BY <2>1, <2>2, Zenon
<1>2. y \in Nat /\ y <= NrZones - 1 /\ NrZones \in Nat /\ ZoneSize \in Nat \ {0}
  BY GeometryAssumption DEF Zones
<1>3. PICK low \in Nat, high \in Nat, top \in Nat :
        /\ low = y * ZoneSize
        /\ high = (y + 1) * ZoneSize
        /\ top = NrZones * ZoneSize
  BY <1>2
<1>4. low < high
  BY <1>2, <1>3
<1>5. high <= top
  <2>1. y + 1 <= NrZones
    BY <1>2
  <2>2. (y + 1) * ZoneSize <= NrZones * ZoneSize
    BY <1>2, <2>1
  <2>3. QED
    BY <1>3, <2>2
<1>6. low \in ZnsBlocks
  BY <1>3, <1>4, <1>5 DEF ZnsBlocks
<1>7. GetZoneNumber(low) = y
  BY <1>2, <1>3, <1>4, <1>6, ZoneIs
<1>8. QED
  BY <1>1, <1>3, <1>7 DEF ZoneInfo

-----------------------------------------------------------------------------
(* No piece is held twice.                                                 *)

ApartOK ==
  /\ Apart(zone_segments)
  /\ \A p \in Held(curseg) : p \notin HeldIn(zone_segments)
  /\ \A z \in DOMAIN zonemap :
       /\ Apart(zonemap[z].segments)
       /\ \A p \in Held(curseg) : p \notin HeldIn(zonemap[z].segments)
  /\ \A y, z \in DOMAIN zonemap : \A p :
       p \in HeldIn(zonemap[y].segments) /\ p \in HeldIn(zonemap[z].segments) => y = z
  /\ pc = "list" =>
       \A z \in DOMAIN zonemap : \A p :
         p \in HeldIn(zone_segments) => p \notin HeldIn(zonemap[z].segments)

LEMMA ApartInit ==
  ASSUME Init
  PROVE  ApartOK
<1>1. HeldIn(<<>>) = {} /\ Apart(<<>>) /\ DOMAIN <<>> = {}
  BY NoSegs
<1>2. QED
  BY <1>1 DEF Init, ApartOK

LEMMA ApartStep ==
  ASSUME WalkOK, ObjectsOK, ApartOK, [Next]_vars
  PROVE  ApartOK'
<1>1. CASE Dump
  <2>1. PICK e : e = TheExtent
    OBVIOUS
  <2>2. /\ Collectible(e)
        /\ ~Passed(e)
        /\ pc = "list"
        /\ zonemap' = zonemap
        /\ \A p \in Held(curseg') :
             \/ p \in Range(Pieces(e)) /\ p.of = e
             \/ p \in Held(curseg) /\ curseg_id = FirstSegment(e)
        /\ \A p \in HeldIn(zone_segments') :
             \/ p \in HeldIn(zone_segments)
             \/ p \in Held(curseg) /\ curseg_id # FirstSegment(e)
             \/ HasMiddle(e) /\ p = Whole(e)
        /\ Apart(zone_segments')
    BY <1>1, <2>1, DumpEffect DEF ApartOK
  <2>3. /\ HasMiddle(e) => Whole(e) \notin Range(Pieces(e))
        /\ Whole(e).of = e
    BY <2>2, PiecesFacts DEF Whole, Piece
  <2>4. /\ \A p \in Held(curseg) : p.of # e
        /\ \A p \in HeldIn(zone_segments) : p.of # e
        /\ \A z \in DOMAIN zonemap : \A p \in HeldIn(zonemap[z].segments) : p.of # e
    BY <2>2 DEF ObjectsOK, CursegOK, ZoneSegmentsOK, ZonemapOK
  <2>5. \A p \in Held(curseg') : p \notin HeldIn(zone_segments')
    BY <2>2, <2>3, <2>4 DEF ApartOK
  <2>6. \A z \in DOMAIN zonemap : \A p \in Held(curseg') : p \notin HeldIn(zonemap[z].segments)
    BY <2>2, <2>4 DEF ApartOK
  <2>7. \A z \in DOMAIN zonemap : \A p :
          p \in HeldIn(zone_segments') => p \notin HeldIn(zonemap[z].segments)
    BY <2>2, <2>3, <2>4 DEF ApartOK
  <2>8. QED
    BY <2>2, <2>5, <2>6, <2>7 DEF ApartOK
<1>2. CASE ~Dump /\ ~LeaveZone
  <2>1. /\ UNCHANGED <<curseg, zonemap>>
        /\ zone_segments' = zone_segments \/ zone_segments' = <<>>
    BY <1>2, OtherEffect
  <2>2. zone_segments' # <<>> => (pc' = "list" => pc = "list")
    BY <1>2 DEF Next, Walk, Dump, EnterZone, SkipZone, ContinueBelowStart, WriteFile, Finished,
      vars
  <2>3. HeldIn(<<>>) = {} /\ Apart(<<>>)
    BY NoSegs
  <2>4. CASE zone_segments' = <<>>
    BY <2>1, <2>3, <2>4 DEF ApartOK
  <2>5. CASE zone_segments' # <<>>
    BY <2>1, <2>2, <2>5 DEF ApartOK
  <2>6. QED
    BY <2>4, <2>5
<1>3. CASE LeaveZone
  <2>1. pc = "list" /\ pc' = "zone" /\ UNCHANGED <<curseg, zone_segments>>
    BY <1>3 DEF LeaveZone
  <2>2. PICK k, o : /\ zonemap' = Put(zonemap, k, o)
                    /\ o.segments = zone_segments
    BY <1>3 DEF LeaveZone, ZoneObject
  <2>3. /\ DOMAIN zonemap' = DOMAIN zonemap \cup {k}
        /\ zonemap'[k] = o
        /\ \A z \in DOMAIN zonemap : z # k => zonemap'[z] = zonemap[z]
    BY <2>2 DEF Put
  <2>4. \A z \in DOMAIN zonemap' :
          /\ Apart(zonemap'[z].segments)
          /\ \A p \in Held(curseg) : p \notin HeldIn(zonemap'[z].segments)
    BY <2>2, <2>3 DEF ApartOK
  <2>5. \A y, z \in DOMAIN zonemap' : \A p :
          p \in HeldIn(zonemap'[y].segments) /\ p \in HeldIn(zonemap'[z].segments) => y = z
    BY <2>1, <2>2, <2>3 DEF ApartOK
  <2>6. pc' # "list"
    BY <2>1
  <2>7. QED
    BY <2>1, <2>4, <2>5, <2>6 DEF ApartOK
<1>4. QED
  BY <1>1, <1>2, <1>3

-----------------------------------------------------------------------------
(* What is collected in a zone comes from it, except for one object.       *)

SpillOK(segs, zone) ==
  /\ \A s \in DOMAIN segs :
       \/ \A p \in Held(segs[s]) : p.of.zone = zone
       \/ \A p \in Held(segs[s]) : p.of.zone < zone
  /\ \A s, t \in DOMAIN segs : \A p \in Held(segs[s]), q \in Held(segs[t]) :
       p.of.zone # zone /\ q.of.zone # zone => s = t

CollectedOK ==
  /\ \A p \in Held(curseg) : p.of.zone = current_zone
  /\ current_zone <= i
  /\ pc = "list" /\ current_zone # i => zone_segments = <<>>
  /\ pc = "list" => SpillOK(zone_segments, i)

LeftOK ==
  \A z \in DOMAIN zonemap : zonemap[z].info # NoInfo =>
    \E y \in Zones : /\ zonemap[z].info = ZoneInfo(y)
                     /\ Key(y) = z
                     /\ SpillOK(zonemap[z].segments, y)

LEMMA NoSpill ==
  ASSUME NEW zone
  PROVE  SpillOK(<<>>, zone)
<1>1. DOMAIN <<>> = {}
  OBVIOUS
<1>2. QED
  BY <1>1 DEF SpillOK

LEMMA SpillStays ==
  ASSUME NEW segs, NEW zone, SpillOK(segs, zone), NEW k,
         NEW o, \A p \in Held(o) : p.of.zone = zone
  PROVE  SpillOK(Put(segs, k, o), zone)
<1>1. /\ DOMAIN Put(segs, k, o) = DOMAIN segs \cup {k}
      /\ Put(segs, k, o)[k] = o
      /\ \A s \in DOMAIN segs : s # k => Put(segs, k, o)[s] = segs[s]
  BY DEF Put
<1>2. QED
  BY <1>1 DEF SpillOK

LEMMA SpillFirst ==
  ASSUME NEW zone, NEW k, NEW o, \A p \in Held(o) : p.of.zone < zone
  PROVE  SpillOK(Put(<<>>, k, o), zone)
<1>1. DOMAIN <<>> = {}
  OBVIOUS
<1>2. DOMAIN Put(<<>>, k, o) = {k} /\ Put(<<>>, k, o)[k] = o
  BY <1>1 DEF Put
<1>3. QED
  BY <1>2 DEF SpillOK

LEMMA CollectedInit ==
  ASSUME Init
  PROVE  CollectedOK /\ LeftOK
<1>1. SpillOK(<<>>, i) /\ DOMAIN <<>> = {}
  BY NoSpill
<1>2. Held(curseg) = {}
  BY DEF Init, Held, SegmentObject, Range
<1>3. QED
  BY <1>1, <1>2 DEF Init, CollectedOK, LeftOK

LEMMA CollectedStep ==
  ASSUME DeviceFitsWord, WalkOK, ObjectsOK, CollectedOK, [Next]_vars
  PROVE  CollectedOK'
<1>1. i \in Nat /\ current_zone \in Nat
  BY GeometryAssumption DEF WalkOK, ObjectsOK, CursegOK, Zones
<1>2. CASE Dump
  <2>1. PICK e : e = TheExtent
    OBVIOUS
  <2>2. /\ Collectible(e) /\ e \in AllExtents /\ e.zone = i
        /\ pc = "list" /\ i' = i /\ current_zone' = i
        /\ \A p \in Held(curseg') :
             p.of = e \/ (p \in Held(curseg) /\ curseg_id = FirstSegment(e))
    BY <1>2, <2>1, DumpEffect
  <2>3. \A d \in AllExtents : ZoneOfSegment(FirstSegment(d)) = d.zone
    BY ExtentsOfMap, ZoneOfFirst DEF WalkOK
  <2>4. \A p \in Held(curseg) : p.of \in AllExtents
    BY HeldOf DEF ObjectsOK, CursegOK
  <2>5. \A p \in Held(curseg) : curseg_id = FirstSegment(e) => p.of.zone = i
    BY <2>2, <2>3, <2>4 DEF ObjectsOK, CursegOK
  <2>6. \A p \in Held(curseg') : p.of.zone = current_zone'
    BY <2>2, <2>5
  <2>7. PICK segs : /\ SpillOK(segs, i)
                    /\ zone_segments' = AddMiddle(segs, e)
    <3>1. CASE DumpInSegment
      <4>1. zone_segments' = AddMiddle(zone_segments, e)
        BY <2>1, <3>1 DEF DumpInSegment
      <4>2. QED
        BY <2>2, <4>1 DEF CollectedOK
    <3>2. CASE DumpInNewSegment
      <4>1. zone_segments' = AddMiddle(FlushSegment(zone_segments, FirstSegment(e)), e)
        BY <2>1, <3>2 DEF DumpInNewSegment
      <4>2. CASE curseg.extents = <<>>
        BY <2>2, <4>1, <4>2 DEF FlushSegment, CollectedOK
      <4>3. CASE curseg.extents # <<>> /\ current_zone = i
        <5>1. FlushSegment(zone_segments, FirstSegment(e))
                = Put(zone_segments, Key(FirstSegment(e)), curseg)
          BY <4>3 DEF FlushSegment
        <5>2. \A p \in Held(curseg) : p.of.zone = i
          BY <4>3 DEF CollectedOK
        <5>3. SpillOK(zone_segments, i)
          BY <2>2 DEF CollectedOK
        <5>4. SpillOK(Put(zone_segments, Key(FirstSegment(e)), curseg), i)
          BY <5>2, <5>3, SpillStays
        <5>5. QED
          BY <4>1, <5>1, <5>4
      <4>4. CASE curseg.extents # <<>> /\ current_zone # i
        <5>1. FlushSegment(zone_segments, FirstSegment(e))
                = Put(<<>>, Key(FirstSegment(e)), curseg)
          BY <2>2, <4>4 DEF FlushSegment, CollectedOK
        <5>2. \A p \in Held(curseg) : p.of.zone < i
          BY <1>1, <4>4 DEF CollectedOK
        <5>3. SpillOK(Put(<<>>, Key(FirstSegment(e)), curseg), i)
          BY <5>2, SpillFirst
        <5>4. QED
          BY <4>1, <5>1, <5>3
      <4>5. QED
        BY <4>2, <4>3, <4>4
    <3>3. QED
      BY <1>2, <3>1, <3>2 DEF Dump
  <2>8. SpillOK(AddMiddle(segs, e), i)
    <3>1. CASE HasMiddle(e)
      <4>1. AddMiddle(segs, e) = Put(segs, Key(MiddleSegment(e)), Middle(e))
        BY <3>1 DEF AddMiddle, Middle
      <4>2. Held(Middle(e)) = {Whole(e)}
        BY <2>2, <3>1, MiddleObject
      <4>3. \A p \in Held(Middle(e)) : p.of.zone = i
        BY <2>2, <4>2 DEF Whole, Piece
      <4>4. QED
        BY <2>7, <4>1, <4>3, SpillStays
    <3>2. CASE ~HasMiddle(e)
      BY <2>7, <3>2 DEF AddMiddle
    <3>3. QED
      BY <3>1, <3>2
  <2>9. SpillOK(zone_segments', i')
    BY <2>2, <2>7, <2>8
  <2>10. SpillOK(zone_segments, i)'
    BY <2>9 DEF SpillOK
  <2>11. QED
    BY <1>1, <2>2, <2>6, <2>10 DEF CollectedOK
<1>3. CASE ~Dump
  <2>1. UNCHANGED <<curseg, current_zone>>
    BY <1>3, OtherEffect
  <2>2. i' = i \/ i' = i + 1
    BY <1>3 DEF Next, Walk, Dump, EnterZone, SkipZone, LeaveZone, ContinueBelowStart, WriteFile,
      Finished, vars
  <2>3. /\ \A p \in Held(curseg') : p.of.zone = current_zone'
        /\ current_zone' <= i'
    BY <1>1, <2>1, <2>2 DEF CollectedOK
  <2>4. CASE pc' = "list"
    <3>1. i' = i /\ (zone_segments' = <<>> \/ (pc = "list" /\ zone_segments' = zone_segments))
      BY <1>3, <2>4 DEF Next, Walk, Dump, EnterZone, SkipZone, LeaveZone, ContinueBelowStart,
        WriteFile, Finished, vars
    <3>2. SpillOK(<<>>, i')
      BY NoSpill
    <3>3. /\ current_zone' # i' => zone_segments' = <<>>
          /\ SpillOK(zone_segments', i')
      BY <2>1, <3>1, <3>2 DEF CollectedOK
    <3>4. SpillOK(zone_segments, i)'
      BY <3>3 DEF SpillOK
    <3>5. QED
      BY <2>3, <3>3, <3>4 DEF CollectedOK
  <2>5. QED
    BY <2>3, <2>4 DEF CollectedOK
<1>4. QED
  BY <1>2, <1>3

LEMMA LeftStep ==
  ASSUME DeviceFitsWord, WalkOK, ObjectsOK, CollectedOK, LeftOK, [Next]_vars
  PROVE  LeftOK'
<1>1. CASE ~LeaveZone
  <2>1. zonemap' = zonemap
    BY <1>1, DumpEffect, OtherEffect
  <2>2. QED
    BY <2>1 DEF LeftOK
<1>2. CASE LeaveZone
  <2>1. pc = "list"
    BY <1>2 DEF LeaveZone
  <2>2. PICK info \in {ZoneInfo(current_zone), NoInfo} :
          zonemap' = Put(zonemap, Key(current_zone), ZoneObject(info, zone_segments))
    BY <1>2 DEF LeaveZone
  <2>3. PICK k, o : k = Key(current_zone) /\ o = ZoneObject(info, zone_segments)
    OBVIOUS
  <2>4. /\ DOMAIN zonemap' = DOMAIN zonemap \cup {k}
        /\ zonemap'[k] = o
        /\ \A z \in DOMAIN zonemap : z # k => zonemap'[z] = zonemap[z]
    BY <2>2, <2>3 DEF Put
  <2>5. o.info = info /\ o.segments = zone_segments
    BY <2>3 DEF ZoneObject
  <2>6. SpillOK(zone_segments, current_zone) /\ current_zone \in Zones
    <3>1. CASE current_zone = i
      BY <2>1, <3>1 DEF CollectedOK, ObjectsOK, CursegOK
    <3>2. CASE current_zone # i
      BY <2>1, <3>2, NoSpill DEF CollectedOK, ObjectsOK, CursegOK
    <3>3. QED
      BY <3>1, <3>2
  <2>7. ASSUME NEW z \in DOMAIN zonemap', zonemap'[z].info # NoInfo
        PROVE  \E y \in Zones : /\ zonemap'[z].info = ZoneInfo(y)
                                /\ Key(y) = z
                                /\ SpillOK(zonemap'[z].segments, y)
    <3>1. CASE z = k
      <4>1. zonemap'[z].info = ZoneInfo(current_zone)
        BY <2>4, <2>5, <2>7, <3>1
      <4>2. Key(current_zone) = z /\ SpillOK(zonemap'[z].segments, current_zone)
        BY <2>3, <2>4, <2>5, <2>6, <3>1
      <4>3. QED
        BY <2>6, <4>1, <4>2
    <3>2. CASE z # k
      BY <2>4, <2>7, <3>2 DEF LeftOK
    <3>3. QED
      BY <3>1, <3>2
  <2>8. QED
    BY <2>7 DEF LeftOK
<1>3. QED
  BY <1>1, <1>2

LEMMA ApartAlways == Spec => [](WalkOK /\ ObjectsOK /\ ApartOK)
<1>1. Init => ApartOK
  BY ApartInit
<1>2. WalkOK /\ ObjectsOK /\ ApartOK /\ [Next]_vars => ApartOK'
  BY ApartStep
<1>3. QED
  BY <1>1, <1>2, ObjectsAlways, PTL DEF Spec

LEMMA LeftAlways ==
  ASSUME DeviceFitsWord
  PROVE  Spec => [](CollectedOK /\ LeftOK)
<1>1. Init => CollectedOK /\ LeftOK
  BY CollectedInit
<1>2. WalkOK /\ ObjectsOK /\ CollectedOK /\ LeftOK /\ [Next]_vars => (CollectedOK /\ LeftOK)'
  BY CollectedStep, LeftStep
<1>3. QED
  BY <1>1, <1>2, ObjectsAlways, PTL DEF Spec

LEMMA ObjectFacts ==
  ASSUME NEW S, NEW o, IsObject(S, o)
  PROVE  /\ \A k \in DOMAIN o.extents : /\ o.extents[k] \in Held(o)
                                        /\ Touches(o.extents[k].of, ToldSegment(o))
         /\ \A m, n \in DOMAIN o.extents : o.extents[m] = o.extents[n] => m = n
<1>1. \A k \in DOMAIN o.extents : o.extents[k] \in Held(o)
  BY DEF Held, Range
<1>2. DOMAIN o.extents = 1 .. Len(o.extents)
  BY DEF IsObject
<1>3. QED
  BY <1>1, <1>2 DEF IsObject, Once

LEMMA DumpedFacts ==
  ASSUME ObjectsOK, NEW key \in Keys
  PROVE  /\ key[1] \in DOMAIN zonemap
         /\ key[2] \in DOMAIN zonemap[key[1]].segments
         /\ key = <<key[1], key[2]>>
         /\ IsObject(AllExtents, Dumped(key))
         /\ Held(Dumped(key)) \subseteq HeldIn(zonemap[key[1]].segments)
<1>1. PICK z \in DOMAIN zonemap :
        \E s \in DOMAIN zonemap[z].segments : key = <<z, s>>
  BY DEF Keys
<1> PICK s \in DOMAIN zonemap[z].segments : key = <<z, s>>
  BY <1>1
<1>2. IsObject(AllExtents, zonemap[z].segments[s])
  BY DEF ObjectsOK, ZonemapOK, ZoneOK, SegsOK
<1>3. \A p \in Held(zonemap[z].segments[s]) : p \in HeldIn(zonemap[z].segments)
  BY DEF HeldIn
<1>4. key[1] = z /\ key[2] = s
  OBVIOUS
<1>5. QED
  BY <1>2, <1>3, <1>4 DEF Dumped

LEMMA AllInPlace ==
  ASSUME WalkOK, ObjectsOK, ApartOK, DeviceFitsWord => LeftOK
  PROVE  PiecesInPlace
<1>1. ASSUME NEW o \in Objects, NEW k \in DOMAIN o.extents
      PROVE  Touches(o.extents[k].of, ToldSegment(o))
  <2>1. IsObject(AllExtents, o)
    <3>1. CASE o \in {Dumped(key) : key \in Keys}
      BY <3>1, DumpedFacts
    <3>2. CASE o \in {zone_segments[s] : s \in DOMAIN zone_segments}
      BY <3>2 DEF ObjectsOK, ZoneSegmentsOK, SegsOK
    <3>3. CASE o = curseg
      BY <3>3 DEF ObjectsOK, CursegOK
    <3>4. QED
      BY <3>1, <3>2, <3>3 DEF Objects
  <2>2. QED
    BY <2>1, ObjectFacts
<1>2. ASSUME NEW j \in Keys, NEW k \in Keys,
             NEW m \in DOMAIN Dumped(j).extents, NEW n \in DOMAIN Dumped(k).extents,
             Dumped(j).extents[m] = Dumped(k).extents[n]
      PROVE  j = k /\ m = n
  <2>1. PICK p : p = Dumped(j).extents[m] /\ p = Dumped(k).extents[n]
    BY <1>2
  <2>2. p \in Held(Dumped(j)) /\ p \in Held(Dumped(k))
    BY <2>1, DumpedFacts, ObjectFacts
  <2>3. j[1] = k[1]
    BY <2>2, DumpedFacts DEF ApartOK
  <2>4. j[2] = k[2]
    BY <2>2, <2>3, DumpedFacts DEF ApartOK, Apart, Dumped
  <2>5. j = k
    BY <2>3, <2>4, DumpedFacts
  <2>6. m = n
    BY <1>2, <2>5, DumpedFacts, ObjectFacts
  <2>7. QED
    BY <2>5, <2>6
<1>3. ASSUME DeviceFitsWord, NEW z \in DOMAIN zonemap, zonemap[z].info # NoInfo,
             NEW zone, zone = GetZoneNumber(zonemap[z].info.lbas),
             NEW spilled, spilled = SpilledFromBefore(zonemap[z], zone)
      PROVE  /\ Key(zone) = z
             /\ Cardinality(spilled) <= 1
             /\ \A s \in spilled : \A k \in DOMAIN zonemap[z].segments[s].extents :
                  zonemap[z].segments[s].extents[k].of.zone < zone
  <2>1. PICK y \in Zones : /\ zonemap[z].info = ZoneInfo(y)
                           /\ Key(y) = z
                           /\ SpillOK(zonemap[z].segments, y)
    BY <1>3 DEF LeftOK
  <2>2. zone = y
    BY <1>3, <2>1, ZoneOfInfo
  <2>3. PICK segs : segs = zonemap[z].segments
    OBVIOUS
  <2>4. \A s \in DOMAIN segs : \A k \in DOMAIN segs[s].extents :
          segs[s].extents[k] \in Held(segs[s])
    BY DEF Held, Range
  <2>5. \A s \in spilled : /\ s \in DOMAIN segs
                           /\ \E p \in Held(segs[s]) : p.of.zone # zone
    BY <1>3, <2>3, <2>4 DEF SpilledFromBefore
  <2>6. \A s, t \in spilled : s = t
    BY <2>1, <2>2, <2>3, <2>5 DEF SpillOK
  <2>7. \A s \in spilled : \A p \in Held(segs[s]) : p.of.zone < zone
    BY <2>1, <2>2, <2>3, <2>5 DEF SpillOK
  <2>8. Cardinality(spilled) <= 1
    <3>1. CASE spilled = {}
      BY <3>1, FS_EmptySet
    <3>2. CASE spilled # {}
      <4>1. PICK s \in spilled : spilled = {s}
        BY <2>6, <3>2
      <4>2. Cardinality({s}) = 1
        BY FS_Singleton
      <4>3. Cardinality(spilled) = 1
        BY <4>1, <4>2, Zenon
      <4>4. QED
        BY <4>3
    <3>3. QED
      BY <3>1, <3>2
  <2>9. QED
    BY <2>1, <2>2, <2>3, <2>4, <2>5, <2>7, <2>8
<1>4. ASSUME DeviceFitsWord
      PROVE  \A z \in DOMAIN zonemap : zonemap[z].info # NoInfo =>
               LET zone == GetZoneNumber(zonemap[z].info.lbas)
                   spilled == SpilledFromBefore(zonemap[z], zone)
               IN  /\ Key(zone) = z
                   /\ Cardinality(spilled) <= 1
                   /\ \A s \in spilled : \A k \in DOMAIN zonemap[z].segments[s].extents :
                        zonemap[z].segments[s].extents[k].of.zone < zone
  BY <1>3, <1>4
<1>5. QED
  BY <1>1, <1>2, <1>4 DEF PiecesInPlace

(* The segment objects that json_dump_f2fs_zonemap fills, adds and         *)
(* replaces hold only extents of the segment their seg_info tells of; no   *)
(* part of an extent is in the dump twice; and what a zone of the dump     *)
(* holds of the zones before it is in one segment.                         *)
THEOREM PiecesAlwaysInPlace == Spec => []PiecesInPlace
<1>1. CASE DeviceFitsWord
  <2>1. WalkOK /\ ObjectsOK /\ ApartOK /\ CollectedOK /\ LeftOK => PiecesInPlace
    BY AllInPlace
  <2>2. Spec => [](CollectedOK /\ LeftOK)
    BY <1>1, LeftAlways
  <2>3. QED
    BY <2>1, <2>2, ApartAlways, PTL
<1>2. CASE ~DeviceFitsWord
  <2>1. WalkOK /\ ObjectsOK /\ ApartOK => PiecesInPlace
    BY <1>2, AllInPlace
  <2>2. QED
    BY <2>1, ApartAlways, PTL
<1>3. QED
  BY <1>1, <1>2

-----------------------------------------------------------------------------
(* What the dump keeps.  X stands for the extents in the selected zones, D *)
(* for the segments they start in.                                         *)

NextIn(D, s) == Min({t \in D : t > s})

AddedIn(D, s) == ZoneOfSegment(NextIn(D, s))

(* No segment up to c is added in the place of s.                          *)
Kept(D, c, s) ==
  \A t \in D : s < t /\ t < c /\ AddedIn(D, t) = AddedIn(D, s) =>
    Key(NextIn(D, t)) # Key(NextIn(D, s))

(* No zone below the given one, up to that of segment c, takes the place   *)
(* of zone y, nor does that of c again, once there are extents B behind    *)
(* the end.                                                                *)
Stays(D, c, zone, B, y) ==
  /\ \A s \in D : s <= c /\ y < ZoneOfSegment(s) /\ ZoneOfSegment(s) < zone =>
       Key(ZoneOfSegment(s)) # Key(y)
  /\ B # {} => Key(ZoneOfSegment(c)) # Key(y)

HoldsAt(segs, k, x) == k \in DOMAIN segs /\ \E p \in Held(segs[k]) : p.of = x

AddedBefore(X, D, c, zone, k, x) ==
  /\ x \in X /\ FirstSegment(x) < c
  /\ AddedIn(D, FirstSegment(x)) = zone
  /\ k = Key(NextIn(D, FirstSegment(x)))
  /\ Kept(D, c, FirstSegment(x))

SegmentsHold(segs, X, D, c, zone) ==
  \A k, x : HoldsAt(segs, k, x) <=> AddedBefore(X, D, c, zone, k, x)

ZoneHolds(zmap, z, k, x) == z \in DOMAIN zmap /\ HoldsAt(zmap[z].segments, k, x)

LeftBefore(X, D, c, zone, B, z, k, x) ==
  LET y == AddedIn(D, FirstSegment(x))
  IN  /\ AddedBefore(X, D, c, y, k, x)
      /\ y < zone
      /\ z = Key(y)
      /\ Stays(D, c, zone, B, y)

ZonesHold(zmap, X, D, c, zone, B) ==
  \A z, k, x : ZoneHolds(zmap, z, k, x) <=> LeftBefore(X, D, c, zone, B, z, k, x)

LEMMA MinIs ==
  ASSUME NEW S \in SUBSET Nat, NEW m \in S, \A x \in S : m <= x
  PROVE  Min(S) = m
<1>1. Min(S) = CHOOSE x \in S : \A y \in S : x <= y
  BY DEF Min
<1>2. ASSUME NEW x \in S, \A y \in S : x <= y
      PROVE  x = m
  <2>1. x \in Nat /\ m \in Nat
    OBVIOUS
  <2>2. x <= m /\ m <= x
    BY <1>2
  <2>3. QED
    BY <2>1, <2>2
<1>3. QED
  BY <1>1, <1>2

LEMMA MaxIs ==
  ASSUME NEW S \in SUBSET Nat, NEW m \in S, \A x \in S : x <= m
  PROVE  Max(S) = m
<1>1. Max(S) = CHOOSE x \in S : \A y \in S : x >= y
  BY DEF Max
<1>2. ASSUME NEW x \in S, \A y \in S : x >= y
      PROVE  x = m
  <2>1. x \in Nat /\ m \in Nat
    OBVIOUS
  <2>2. x >= m /\ m >= x
    BY <1>2
  <2>3. QED
    BY <2>1, <2>2
<1>3. QED
  BY <1>1, <1>2

LEMMA NextIs ==
  ASSUME NEW D \in SUBSET Nat, NEW s \in Nat, NEW n \in D, s < n,
         \A t \in D : t < n => t <= s
  PROVE  NextIn(D, s) = n
<1> DEFINE above == {t \in D : t > s}
<1>1. above \in SUBSET Nat /\ n \in above /\ \A x \in above : n <= x
  <2>1. above \in SUBSET Nat /\ n \in above
    OBVIOUS
  <2>2. ASSUME NEW x \in D, s < x
        PROVE  n <= x
    <3>1. x \in Nat /\ n \in Nat /\ (x < n => x <= s)
      OBVIOUS
    <3>2. QED
      BY <2>2, <3>1
  <2>3. QED
    BY <2>1, <2>2
<1>2. Min(above) = n
  <2> HIDE DEF above
  <2>1. QED
    BY <1>1, MinIs
<1>3. QED
  BY <1>2 DEF NextIn

LEMMA NextBounds ==
  ASSUME NEW D \in SUBSET Nat, NEW s \in Nat, NEW c \in D, s < c
  PROVE  NextIn(D, s) \in D /\ s < NextIn(D, s) /\ NextIn(D, s) <= c
<1> DEFINE above == {t \in D : t > s}
<1>1. above \in SUBSET Nat /\ c \in above
  OBVIOUS
<1>2. PICK m \in above : \A x \in above : m <= x
  <2> HIDE DEF above
  <2>1. above # {}
    BY <1>1
  <2>2. QED
    BY <1>1, <2>1, LeastMember
<1>3. Min(above) = m
  <2> HIDE DEF above
  <2>1. QED
    BY <1>1, <1>2, MinIs
<1>4. NextIn(D, s) = m
  BY <1>3 DEF NextIn
<1>5. QED
  BY <1>1, <1>2, <1>4

(* No segment lies between c and n.                                        *)
LEMMA KeptStep ==
  ASSUME NEW D \in SUBSET Nat, NEW c \in D, NEW n \in D, c < n,
         \A t \in D : t < n => t <= c, NEW s \in D, s < c
  PROVE  Kept(D, n, s) <=> /\ Kept(D, c, s)
                           /\ AddedIn(D, c) = AddedIn(D, s) => Key(n) # Key(NextIn(D, s))
<1>1. NextIn(D, c) = n
  BY NextIs
<1>2. \A t \in D : t < n <=> t < c \/ t = c
  <2> SUFFICES ASSUME NEW t \in D
               PROVE  t < n <=> t < c \/ t = c
    OBVIOUS
  <2>1. t \in Nat /\ c \in Nat /\ n \in Nat /\ (t < n => t <= c)
    OBVIOUS
  <2>2. QED
    BY <2>1
<1>3. QED
  BY <1>1, <1>2 DEF Kept

LEMMA KeptLast ==
  ASSUME NEW D \in SUBSET Nat, NEW c \in D, NEW n \in D, \A t \in D : t < n => t <= c
  PROVE  Kept(D, n, c)
<1> SUFFICES ASSUME NEW t \in D, c < t, t < n
             PROVE  FALSE
  BY DEF Kept
<1>1. t \in Nat /\ c \in Nat /\ t <= c
  OBVIOUS
<1>2. QED
  BY <1>1

(* Where the segments up to c are added.                                   *)
LEMMA AddedUpTo ==
  ASSUME NEW D \in SUBSET Nat, NEW c \in D, NEW s \in D, s < c, NEW zone \in Nat,
         \A t \in D : t <= c => ZoneOfSegment(t) \in Nat /\ ZoneOfSegment(t) <= zone
  PROVE  AddedIn(D, s) \in Nat /\ AddedIn(D, s) <= zone
<1>1. NextIn(D, s) \in D /\ NextIn(D, s) <= c
  BY NextBounds
<1>2. QED
  BY <1>1 DEF AddedIn

LEMMA NothingAdded ==
  ASSUME NEW X, NEW D, \A x \in X : FirstSegment(x) \in D,
         NEW c, \A t \in D : ~(t < c), NEW zone, NEW B
  PROVE  /\ \A k, x, y : ~AddedBefore(X, D, c, y, k, x)
         /\ \A z, k, x : ~LeftBefore(X, D, c, zone, B, z, k, x)
<1>1. \A k, x, y : ~AddedBefore(X, D, c, y, k, x)
  BY DEF AddedBefore
<1>2. QED
  BY <1>1 DEF LeftBefore

LEMMA SegmentsFlushed ==
  ASSUME NEW X, NEW D \in SUBSET Nat, \A x \in X : FirstSegment(x) \in D,
         NEW c \in D, NEW n \in D, c < n, \A t \in D : t < n => t <= c,
         NEW segs, NEW zone, SegmentsHold(segs, X, D, c, zone), ZoneOfSegment(n) = zone,
         NEW o, \A x : (\E p \in Held(o) : p.of = x) <=> x \in X /\ FirstSegment(x) = c
  PROVE  SegmentsHold(Put(segs, Key(n), o), X, D, n, zone)
<1>1. NextIn(D, c) = n /\ AddedIn(D, c) = zone
  BY NextIs DEF AddedIn
<1>2. PICK kn, put : kn = Key(n) /\ put = Put(segs, Key(n), o)
  OBVIOUS
<1>3. /\ DOMAIN put = DOMAIN segs \cup {kn}
      /\ put[kn] = o
      /\ \A s \in DOMAIN segs : s # kn => put[s] = segs[s]
  BY <1>2 DEF Put
<1>4. /\ \A x : HoldsAt(put, kn, x) <=> x \in X /\ FirstSegment(x) = c
      /\ \A k, x : k # kn => (HoldsAt(put, k, x) <=> HoldsAt(segs, k, x))
  BY <1>3 DEF HoldsAt
<1>5. ASSUME NEW k, NEW x
      PROVE  HoldsAt(put, k, x) <=> AddedBefore(X, D, n, zone, k, x)
  <2>1. HoldsAt(segs, k, x) <=> AddedBefore(X, D, c, zone, k, x)
    BY DEF SegmentsHold
  <2>2. CASE x \notin X
    BY <1>4, <2>1, <2>2 DEF AddedBefore
  <2>3. CASE x \in X
    <3>1. PICK s \in D : s = FirstSegment(x)
      BY <2>3
    <3>2. s \in Nat /\ c \in Nat /\ n \in Nat /\ (s < n => s <= c)
      OBVIOUS
    <3>3. CASE s < c
      <4>1. s < n /\ s # c
        BY <3>2, <3>3
      <4>2. Kept(D, n, s) <=> /\ Kept(D, c, s)
                              /\ zone = AddedIn(D, s) => kn # Key(NextIn(D, s))
        BY <1>1, <1>2, <3>3, KeptStep
      <4>3. QED
        BY <1>4, <2>1, <2>3, <3>1, <3>3, <4>1, <4>2 DEF AddedBefore
    <3>4. CASE s = c
      <4>1. s < n /\ ~(s < c) /\ Kept(D, n, s)
        BY <3>2, <3>4, KeptLast
      <4>2. QED
        BY <1>1, <1>2, <1>4, <2>1, <2>3, <3>1, <3>4, <4>1 DEF AddedBefore
    <3>5. CASE ~(s < c) /\ s # c
      <4>1. ~(s < n)
        BY <3>2, <3>5
      <4>2. QED
        BY <1>4, <2>1, <2>3, <3>1, <3>5, <4>1 DEF AddedBefore
    <3>6. QED
      BY <3>3, <3>4, <3>5
  <2>4. QED
    BY <2>2, <2>3
<1>6. SegmentsHold(put, X, D, n, zone)
  BY <1>5 DEF SegmentsHold
<1>7. QED
  BY <1>2, <1>6

LEMMA ZonesFlushed ==
  ASSUME NEW X, NEW D \in SUBSET Nat, \A x \in X : FirstSegment(x) \in D,
         NEW c \in D, NEW n \in D, c < n, \A t \in D : t < n => t <= c,
         NEW zone \in Nat, ZoneOfSegment(n) = zone,
         NEW zmap, ZonesHold(zmap, X, D, c, zone, {})
  PROVE  ZonesHold(zmap, X, D, n, zone, {})
<1>1. NextIn(D, c) = n /\ AddedIn(D, c) = zone
  BY NextIs DEF AddedIn
<1>2. ASSUME NEW y, y < zone
      PROVE  Stays(D, n, zone, {}, y) <=> Stays(D, c, zone, {}, y)
  <2>1. ASSUME NEW s \in D, ZoneOfSegment(s) < zone
        PROVE  s <= n <=> s <= c
    <3>1. s \in Nat /\ c \in Nat /\ n \in Nat /\ (s < n => s <= c) /\ s # n
      BY <2>1
    <3>2. QED
      BY <3>1
  <2>2. QED
    BY <2>1 DEF Stays
<1>3. ASSUME NEW z, NEW k, NEW x
      PROVE  LeftBefore(X, D, n, zone, {}, z, k, x) <=> LeftBefore(X, D, c, zone, {}, z, k, x)
  <2>1. CASE x \notin X
    BY <2>1 DEF LeftBefore, AddedBefore
  <2>2. CASE x \in X
    <3>1. PICK s \in D : s = FirstSegment(x)
      BY <2>2
    <3>2. s \in Nat /\ c \in Nat /\ n \in Nat /\ (s < n => s <= c)
      OBVIOUS
    <3>3. PICK y : y = AddedIn(D, s)
      OBVIOUS
    <3>4. CASE s < c
      <4>1. s < n /\ ~(zone < zone)
        BY <3>2, <3>4
      <4>2. y < zone => (Kept(D, n, s) <=> Kept(D, c, s))
        BY <1>1, <3>3, <3>4, <4>1, KeptStep
      <4>3. QED
        BY <1>2, <3>1, <3>3, <3>4, <4>1, <4>2 DEF LeftBefore, AddedBefore
    <3>5. CASE s = c
      <4>1. ~(zone < zone) /\ ~(s < c)
        BY <3>2, <3>5
      <4>2. QED
        BY <1>1, <3>1, <3>5, <4>1 DEF LeftBefore, AddedBefore
    <3>6. CASE ~(s < c) /\ s # c
      <4>1. ~(s < n)
        BY <3>2, <3>6
      <4>2. QED
        BY <3>1, <3>6, <4>1 DEF LeftBefore, AddedBefore
    <3>7. QED
      BY <3>4, <3>5, <3>6
  <2>3. QED
    BY <2>1, <2>2
<1>4. QED
  BY <1>3 DEF ZonesHold

(* A zone is left of which extents were dumped.                            *)
LEMMA ZoneLeft ==
  ASSUME NEW X, NEW D \in SUBSET Nat, \A x \in X : FirstSegment(x) \in D,
         NEW zone \in Nat, NEW c \in D, ZoneOfSegment(c) = zone,
         \A t \in D : t <= c => ZoneOfSegment(t) \in Nat /\ ZoneOfSegment(t) <= zone,
         NEW segs, SegmentsHold(segs, X, D, c, zone),
         NEW zmap, ZonesHold(zmap, X, D, c, zone, {}),
         NEW o, o.segments = segs
  PROVE  ZonesHold(Put(zmap, Key(zone), o), X, D, c, zone + 1, {})
<1>1. PICK kz, put : kz = Key(zone) /\ put = Put(zmap, Key(zone), o)
  OBVIOUS
<1>2. /\ DOMAIN put = DOMAIN zmap \cup {kz}
      /\ put[kz] = o
      /\ \A s \in DOMAIN zmap : s # kz => put[s] = zmap[s]
  BY <1>1 DEF Put
<1>3. /\ \A k, x : ZoneHolds(put, kz, k, x) <=> AddedBefore(X, D, c, zone, k, x)
      /\ \A z, k, x : z # kz =>
           (ZoneHolds(put, z, k, x) <=> LeftBefore(X, D, c, zone, {}, z, k, x))
  <2>1. \A k, x : ZoneHolds(put, kz, k, x) <=> HoldsAt(segs, k, x)
    BY <1>2 DEF ZoneHolds
  <2>2. \A z, k, x : z # kz => (ZoneHolds(put, z, k, x) <=> ZoneHolds(zmap, z, k, x))
    BY <1>2 DEF ZoneHolds
  <2>3. QED
    BY <2>1, <2>2 DEF SegmentsHold, ZonesHold
<1>4. \A t \in D : t <= c => ~(zone < ZoneOfSegment(t))
  OBVIOUS
<1>5. Stays(D, c, zone + 1, {}, zone)
  BY <1>4 DEF Stays
<1>6. ASSUME NEW y \in Nat, y < zone
      PROVE  Stays(D, c, zone + 1, {}, y) <=> Stays(D, c, zone, {}, y) /\ kz # Key(y)
  <2>1. \A t \in D : t <= c =>
          (ZoneOfSegment(t) < zone + 1 <=> ZoneOfSegment(t) < zone \/ ZoneOfSegment(t) = zone)
    OBVIOUS
  <2>2. c <= c
    OBVIOUS
  <2>3. QED
    BY <1>1, <1>6, <2>1, <2>2 DEF Stays
<1>7. ASSUME NEW z, NEW k, NEW x
      PROVE  ZoneHolds(put, z, k, x) <=> LeftBefore(X, D, c, zone + 1, {}, z, k, x)
  <2>1. PICK s, y : s = FirstSegment(x) /\ y = AddedIn(D, s)
    OBVIOUS
  <2>2. CASE ~(x \in X /\ s < c)
    BY <1>3, <2>1, <2>2 DEF LeftBefore, AddedBefore
  <2>3. CASE x \in X /\ s < c
    <3>1. y \in Nat /\ y <= zone
      BY <2>1, <2>3, AddedUpTo
    <3>2. CASE y = zone
      <4>1. zone < zone + 1 /\ ~(zone < zone)
        OBVIOUS
      <4>2. AddedIn(D, FirstSegment(x)) = zone
        BY <2>1, <3>2
      <4>3. LeftBefore(X, D, c, zone + 1, {}, z, k, x)
              <=> AddedBefore(X, D, c, zone, k, x) /\ z = kz
        BY <1>1, <1>5, <4>1, <4>2 DEF LeftBefore
      <4>4. ~LeftBefore(X, D, c, zone, {}, z, k, x)
        BY <4>1, <4>2 DEF LeftBefore
      <4>5. QED
        BY <1>3, <4>3, <4>4
    <3>3. CASE y # zone
      <4>1. y < zone /\ y < zone + 1
        BY <3>1, <3>3
      <4>2. Stays(D, c, zone + 1, {}, y) <=> Stays(D, c, zone, {}, y) /\ kz # Key(y)
        BY <1>6, <3>1, <4>1
      <4>3. QED
        BY <1>3, <2>1, <3>3, <4>1, <4>2 DEF LeftBefore, AddedBefore
    <3>4. QED
      BY <3>2, <3>3
  <2>4. QED
    BY <2>2, <2>3
<1>8. ZonesHold(put, X, D, c, zone + 1, {})
  BY <1>7 DEF ZonesHold
<1>9. QED
  BY <1>1, <1>8

(* A zone is left, or passed over, of which nothing was dumped.            *)
LEMMA StaysOver ==
  ASSUME NEW D, NEW zone \in Nat, NEW c,
         \A t \in D : t <= c => ZoneOfSegment(t) \in Nat /\ ZoneOfSegment(t) < zone,
         NEW B, NEW y
  PROVE  Stays(D, c, zone + 1, B, y) <=> Stays(D, c, zone, B, y)
<1>1. \A t \in D : t <= c => ZoneOfSegment(t) < zone /\ ZoneOfSegment(t) < zone + 1
  OBVIOUS
<1>2. QED
  BY <1>1 DEF Stays

LEMMA ZonePassed ==
  ASSUME NEW X, NEW D \in SUBSET Nat, \A x \in X : FirstSegment(x) \in D,
         NEW zone \in Nat, NEW c \in D,
         \A t \in D : t <= c => ZoneOfSegment(t) \in Nat /\ ZoneOfSegment(t) < zone,
         NEW B, NEW z, NEW k, NEW x
  PROVE  LeftBefore(X, D, c, zone + 1, B, z, k, x) <=> LeftBefore(X, D, c, zone, B, z, k, x)
<1>1. PICK s, y : s = FirstSegment(x) /\ y = AddedIn(D, s)
  OBVIOUS
<1>2. CASE ~(x \in X /\ s < c)
  BY <1>1, <1>2 DEF LeftBefore, AddedBefore
<1>3. CASE x \in X /\ s < c
  <2>1. ZoneOfSegment(c) \in Nat /\ ZoneOfSegment(c) < zone
    <3>1. c <= c
      OBVIOUS
    <3>2. QED
      BY <3>1
  <2>2. NextIn(D, s) \in D /\ NextIn(D, s) <= c
    BY <1>1, <1>3, NextBounds
  <2>3. y \in Nat /\ y < zone
    BY <1>1, <2>2 DEF AddedIn
  <2>4. y < zone + 1
    BY <2>3
  <2>5. Stays(D, c, zone + 1, B, y) <=> Stays(D, c, zone, B, y)
    BY StaysOver
  <2>6. QED
    BY <1>1, <2>3, <2>4, <2>5 DEF LeftBefore
<1>4. QED
  BY <1>2, <1>3

(* A zone is left at an extent behind the end: the object of the last zone *)
(* with extents is replaced by an empty one.                               *)
LEMMA ZoneLeftBehind ==
  ASSUME NEW X, NEW D \in SUBSET Nat, \A x \in X : FirstSegment(x) \in D,
         NEW zone \in Nat, NEW c \in D,
         \A t \in D : t <= c => ZoneOfSegment(t) \in Nat /\ ZoneOfSegment(t) < zone,
         NEW B, NEW C, C # {},
         NEW zmap, ZonesHold(zmap, X, D, c, zone, B),
         NEW o, o.segments = <<>>
  PROVE  ZonesHold(Put(zmap, Key(ZoneOfSegment(c)), o), X, D, c, zone + 1, C)
<1>1. PICK kz, put : /\ kz = Key(ZoneOfSegment(c))
                     /\ put = Put(zmap, Key(ZoneOfSegment(c)), o)
  OBVIOUS
<1>2. /\ DOMAIN put = DOMAIN zmap \cup {kz}
      /\ put[kz] = o
      /\ \A s \in DOMAIN zmap : s # kz => put[s] = zmap[s]
  BY <1>1 DEF Put
<1>3. DOMAIN <<>> = {}
  OBVIOUS
<1>4. /\ \A k, x : ~ZoneHolds(put, kz, k, x)
      /\ \A z, k, x : z # kz =>
           (ZoneHolds(put, z, k, x) <=> LeftBefore(X, D, c, zone, B, z, k, x))
  <2>1. \A k, x : ~ZoneHolds(put, kz, k, x)
    BY <1>2, <1>3 DEF ZoneHolds, HoldsAt
  <2>2. \A z, k, x : z # kz => (ZoneHolds(put, z, k, x) <=> ZoneHolds(zmap, z, k, x))
    BY <1>2 DEF ZoneHolds
  <2>3. QED
    BY <2>1, <2>2 DEF ZonesHold
<1>5. \A y : Stays(D, c, zone, C, y) <=> Stays(D, c, zone, B, y) /\ kz # Key(y)
  BY <1>1 DEF Stays
<1>6. \A z, k, x : LeftBefore(X, D, c, zone, C, z, k, x)
                     <=> LeftBefore(X, D, c, zone, B, z, k, x) /\ z # kz
  BY <1>5 DEF LeftBefore
<1>7. \A z, k, x : LeftBefore(X, D, c, zone + 1, C, z, k, x)
                     <=> LeftBefore(X, D, c, zone, C, z, k, x)
  BY ZonePassed
<1>8. \A z, k, x : ZoneHolds(put, z, k, x) <=> LeftBefore(X, D, c, zone + 1, C, z, k, x)
  BY <1>4, <1>6, <1>7
<1>9. ZonesHold(put, X, D, c, zone + 1, C)
  BY <1>8 DEF ZonesHold
<1>10. QED
  BY <1>1, <1>9

LEMMA ZoneLeftAtStart ==
  ASSUME NEW X, NEW D, \A x \in X : FirstSegment(x) \in D,
         NEW c, \A t \in D : ~(t < c), NEW zone, NEW next, NEW B, NEW C,
         NEW segs, SegmentsHold(segs, X, D, c, zone),
         NEW zmap, ZonesHold(zmap, X, D, c, zone, B),
         NEW k, NEW o, o.segments = segs
  PROVE  ZonesHold(Put(zmap, k, o), X, D, c, next, C)
<1>1. /\ \A j, x : ~HoldsAt(segs, j, x)
      /\ \A z, j, x : ~ZoneHolds(zmap, z, j, x)
      /\ \A z, j, x : ~LeftBefore(X, D, c, next, C, z, j, x)
  <2>1. /\ \A j, x : ~AddedBefore(X, D, c, zone, j, x)
        /\ \A z, j, x : ~LeftBefore(X, D, c, zone, B, z, j, x)
        /\ \A z, j, x : ~LeftBefore(X, D, c, next, C, z, j, x)
    BY NothingAdded
  <2>2. QED
    BY <2>1 DEF SegmentsHold, ZonesHold
<1>2. \A z, j, x : ~ZoneHolds(Put(zmap, k, o), z, j, x)
  BY <1>1 DEF ZoneHolds, Put
<1>3. QED
  BY <1>1, <1>2 DEF ZonesHold

-----------------------------------------------------------------------------
(* The order of the walk.                                                  *)

LEMMA WalkOrder ==
  ASSUME DeviceFitsWord, WalkOK, NEW x \in AllExtents, NEW y \in AllExtents,
         x.zone < y.zone
  PROVE  x.phy_blk <= y.phy_blk
<1>1. /\ x.phy_blk \in ZnsBlocks /\ x.phy_blk \in Nat
      /\ y.phy_blk \in ZnsBlocks /\ y.phy_blk \in Nat
      /\ x.zone = GetZoneNumber(x.phy_blk) /\ x.zone \in Nat
      /\ y.zone = GetZoneNumber(y.phy_blk) /\ y.zone \in Nat
  BY ExtentsOfMap DEF WalkOK, Collectible
<1>2. PICK p \in Nat, q \in Nat : p = (x.zone + 1) * ZoneSize /\ q = y.zone * ZoneSize
  BY <1>1, GeometryAssumption
<1>3. x.phy_blk < p /\ q <= y.phy_blk
  BY <1>1, <1>2, ZoneNumberIsZone
<1>4. p <= q
  <2>1. x.zone + 1 <= y.zone
    BY <1>1
  <2>2. (x.zone + 1) * ZoneSize <= y.zone * ZoneSize
    BY <1>1, <2>1, GeometryAssumption
  <2>3. QED
    BY <1>2, <2>2
<1>5. QED
  BY <1>1, <1>3, <1>4

LEMMA PassedOrder ==
  ASSUME DeviceFitsWord, WalkOK, NEW x \in AllExtents, NEW y \in AllExtents,
         Passed(x), ~Passed(y)
  PROVE  x.phy_blk <= y.phy_blk
<1>1. /\ i \in Nat /\ x.zone \in Nat /\ y.zone \in Nat
      /\ \A e \in AllExtents : e \in Range(zones[e.zone].extents)
  BY ExtentsOfMap DEF WalkOK
<1>2. CASE x.zone < y.zone
  BY <1>2, WalkOrder
<1>3. CASE ~(x.zone < y.zone)
  <2>1. /\ pc = "list" /\ x.zone = i /\ y.zone = i
        /\ x \in Range(zones[i].extents) \ Range(current)
        /\ y \in Range(current)
    BY <1>1, <1>3 DEF Passed
  <2>2. IsRest(current, zones[i].extents)
    BY <2>1 DEF WalkOK
  <2>3. PICK j \in 1 .. Len(current) : y = current[j]
    BY <2>1, RangeIs DEF WalkOK
  <2>4. QED
    BY <2>1, <2>2, <2>3 DEF IsRest
<1>4. QED
  BY <1>2, <1>3

(* The extent at hand is the next of the whole walk.                       *)
LEMMA AtHandNext ==
  ASSUME DeviceFitsWord, WalkOK, pc = "list", current # <<>>,
         NEW y \in AllExtents, ~Passed(y)
  PROVE  TheExtent.phy_blk <= y.phy_blk
<1>1. /\ i \in Nat /\ y.zone \in Nat
      /\ y \in Range(zones[y.zone].extents)
  BY ExtentsOfMap DEF WalkOK
<1>2. /\ TheExtent \in AllExtents /\ TheExtent.zone = i
      /\ \A d \in Range(current) : TheExtent.phy_blk <= d.phy_blk
  BY AtHand
<1>3. CASE i < y.zone
  BY <1>2, <1>3, WalkOrder
<1>4. CASE ~(i < y.zone)
  <2>1. y.zone = i /\ y \in Range(current)
    BY <1>1, <1>4 DEF Passed
  <2>2. QED
    BY <1>2, <2>1
<1>5. QED
  BY <1>3, <1>4

(* Extents in the order of the walk start in ascending segments, and once  *)
(* one lies behind the end so do all after it.                             *)
LEMMA SegmentsInOrder ==
  ASSUME WalkOK, NEW x \in AllExtents, NEW y \in AllExtents, x.phy_blk <= y.phy_blk
  PROVE  /\ FirstSegment(x) \in Nat /\ FirstSegment(y) \in Nat
         /\ FirstSegment(x) <= FirstSegment(y)
         /\ BehindEnd(FirstSegment(x), end_zone) => BehindEnd(FirstSegment(y), end_zone)
<1>1. x.phy_blk \in Nat /\ y.phy_blk \in Nat
  BY ExtentsOfMap DEF WalkOK
<1>2. PICK s \in Nat, t \in Nat : s = FirstSegment(x) /\ t = FirstSegment(y)
  BY <1>1, SegmentFacts DEF FirstSegment
<1>3. s <= t
  BY <1>1, <1>2, SegmentMonotone DEF FirstSegment
<1>4. /\ SegmentStart(s) \in Nat /\ SegmentStart(t) \in Nat
      /\ SegmentStart(s) <= SegmentStart(t)
  BY <1>3, StartFacts, StartMonotone
<1>5. PICK p \in Nat : p = end_zone * ZoneSize
  BY GeometryAssumption DEF WalkOK
<1>6. BehindEnd(s, end_zone) => BehindEnd(t, end_zone)
  BY <1>4, <1>5 DEF BehindEnd
<1>7. QED
  BY <1>2, <1>3, <1>6

(* The first block of the segment an extent starts in is in its zone.      *)
LEMMA StartInZone ==
  ASSUME DeviceFitsWord, WalkOK, NEW x \in AllExtents
  PROVE  /\ ZoneOfSegment(FirstSegment(x)) = x.zone
         /\ x.zone \in Nat
         /\ SegmentStart(FirstSegment(x)) \in Nat
         /\ x.zone * ZoneSize <= SegmentStart(FirstSegment(x))
         /\ SegmentStart(FirstSegment(x)) < (x.zone + 1) * ZoneSize
<1>1. /\ Collectible(x) /\ GetZoneNumber(x.phy_blk) = x.zone /\ x.zone \in Nat
      /\ x.phy_blk \in ZnsBlocks
  BY ExtentsOfMap DEF WalkOK, Collectible
<1>2. PICK b \in Nat, start \in Nat :
        /\ b = x.phy_blk
        /\ start = SegmentStart(FirstSegment(x))
        /\ start <= b
  BY <1>1, ExtentFacts
<1>3. start \in ZnsBlocks
  BY <1>1, <1>2, GeometryAssumption DEF ZnsBlocks
<1>4. ZoneOfSegment(FirstSegment(x)) = x.zone
  BY <1>1, ZoneOfFirst
<1>5. GetZoneNumber(start) = x.zone
  BY <1>2, <1>4 DEF ZoneOfSegment
<1>6. x.zone * ZoneSize <= start /\ start < (x.zone + 1) * ZoneSize
  BY <1>3, <1>5, ZoneNumberIsZone
<1>7. QED
  BY <1>1, <1>2, <1>4, <1>6

(* A zone is behind the selected zones as a whole.                         *)
LEMMA ZoneBehind ==
  ASSUME DeviceFitsWord, WalkOK, NEW x \in AllExtents, NEW y \in AllExtents,
         x.zone = y.zone, BehindEnd(FirstSegment(y), end_zone)
  PROVE  BehindEnd(FirstSegment(x), end_zone)
<1>1. PICK z \in Nat, last \in Nat, d \in Nat \ {0} :
        z = x.zone /\ last = end_zone /\ d = ZoneSize
  BY StartInZone, GeometryAssumption DEF WalkOK
<1>2. PICK s \in Nat, t \in Nat :
        s = SegmentStart(FirstSegment(x)) /\ t = SegmentStart(FirstSegment(y))
  BY StartInZone
<1>3. PICK p \in Nat, q \in Nat, r \in Nat :
        p = last * d /\ q = (z + 1) * d /\ r = z * d
  BY <1>1
<1>4. r <= s /\ t < q /\ p <= t
  BY <1>1, <1>2, <1>3, StartInZone DEF BehindEnd
<1>5. last < z + 1
  <2>1. d * last = p /\ p < q
    BY <1>3, <1>4
  <2>2. QED
    BY <1>3, <2>1, QuotientBound
<1>6. p <= r
  <2>1. last <= z
    BY <1>5
  <2>2. last * d <= z * d
    BY <2>1
  <2>3. QED
    BY <1>3, <2>2
<1>7. s >= p
  BY <1>4, <1>6
<1>8. QED
  BY <1>1, <1>2, <1>3, <1>7 DEF BehindEnd

(* The segments of the dump, and their zones.                              *)
LEMMA DumpedSegments ==
  ASSUME DeviceFitsWord, WalkOK
  PROVE  /\ SegmentsDumped \in SUBSET Nat
         /\ \A s \in SegmentsDumped : ZoneOfSegment(s) \in Nat
         /\ \A s, t \in SegmentsDumped : s <= t => ZoneOfSegment(s) <= ZoneOfSegment(t)
         /\ \A x \in Extents : /\ x \in AllExtents
                               /\ FirstSegment(x) \in SegmentsDumped
                               /\ ZoneOfSegment(FirstSegment(x)) = x.zone
<1>1. \A x \in Extents : /\ x \in AllExtents
                         /\ FirstSegment(x) \in SegmentsDumped
                         /\ FirstSegment(x) \in Nat
                         /\ ZoneOfSegment(FirstSegment(x)) = x.zone
                         /\ x.zone \in Nat
  <2> SUFFICES ASSUME NEW x \in Extents
               PROVE  /\ x \in AllExtents
                      /\ FirstSegment(x) \in SegmentsDumped
                      /\ FirstSegment(x) \in Nat
                      /\ ZoneOfSegment(FirstSegment(x)) = x.zone
                      /\ x.zone \in Nat
    OBVIOUS
  <2>1. x \in AllExtents /\ FirstSegment(x) \in SegmentsDumped
    BY DEF Extents, SegmentsDumped
  <2>2. FirstSegment(x) \in Nat
    BY <2>1, ExtentsOfMap, ExtentFacts DEF WalkOK
  <2>3. QED
    BY <2>1, <2>2, StartInZone
<1>2. \A s \in SegmentsDumped : \E x \in Extents : s = FirstSegment(x)
  BY DEF SegmentsDumped
<1>3. ASSUME NEW s \in SegmentsDumped, NEW t \in SegmentsDumped, s <= t
      PROVE  ZoneOfSegment(s) <= ZoneOfSegment(t)
  <2>1. PICK x \in Extents, y \in Extents : s = FirstSegment(x) /\ t = FirstSegment(y)
    BY <1>2
  <2>2. CASE y.zone < x.zone
    <3>1. FirstSegment(y) <= FirstSegment(x)
      BY <1>1, <2>2, WalkOrder, SegmentsInOrder
    <3>2. s = t
      BY <1>1, <1>3, <2>1, <3>1
    <3>3. QED
      BY <1>1, <2>1, <3>2
  <2>3. CASE ~(y.zone < x.zone)
    BY <1>1, <2>1, <2>3
  <2>4. QED
    BY <2>2, <2>3
<1>4. QED
  BY <1>1, <1>2, <1>3

-----------------------------------------------------------------------------
(* The extents dumped so far.                                              *)

Behind == {e \in AllExtents : Passed(e) /\ ~Selected(e)}

WalkedOK ==
  /\ \A e \in AllExtents : Passed(e) => Selected(e) \/ BehindEnd(FirstSegment(e), end_zone)
  /\ pc = "list" => \A e \in AllExtents : e.zone = i /\ Passed(e) => Selected(e)
  /\ \A e \in Extents : Passed(e) => FirstSegment(e) <= curseg_id
  /\ (\E e \in Extents : Passed(e)) =>
       \E e \in Extents : Passed(e) /\ FirstSegment(e) = curseg_id /\ e.zone = current_zone
  /\ (\A e \in Extents : ~Passed(e)) => curseg_id = 0

LEMMA WalkedInit ==
  ASSUME Init
  PROVE  WalkedOK /\ Behind = {}
<1>1. ASSUME NEW e \in AllExtents
      PROVE  ~Passed(e)
  <2>1. e.zone \in Nat
    BY ExtentsOfMap DEF Init
  <2>2. QED
    BY <2>1 DEF Init, Passed
<1>2. Extents \subseteq AllExtents
  BY DEF Extents
<1>3. QED
  BY <1>1, <1>2 DEF Init, WalkedOK, Behind

(* What is passed over when a zone is left lies behind the end.            *)
LEMMA RestBehind ==
  ASSUME DeviceFitsWord, WalkOK, LeaveZone, NEW e \in AllExtents, e.zone = i, ~Passed(e)
  PROVE  /\ BehindEnd(FirstSegment(e), end_zone)
         /\ ~Selected(e)
         /\ current # <<>>
<1>1. pc = "list" /\ e \in Range(current)
  BY ExtentsOfMap DEF LeaveZone, Passed, WalkOK
<1>2. current # <<>>
  BY <1>1 DEF Range
<1>3. BehindEnd(FirstSegment(TheExtent), end_zone)
  BY <1>2 DEF LeaveZone
<1>4. TheExtent \in AllExtents /\ TheExtent.phy_blk <= e.phy_blk
  BY <1>1, <1>2, AtHand
<1>5. BehindEnd(FirstSegment(e), end_zone)
  BY <1>3, <1>4, SegmentsInOrder
<1>6. QED
  BY <1>2, <1>5 DEF Selected, InZones

LEMMA WalkedStep ==
  ASSUME DeviceFitsWord, WalkOK, ObjectsOK, WalkedOK, [Next]_vars
  PROVE  WalkedOK'
<1>1. UNCHANGED <<AllExtents, Extents, start_zone, end_zone>>
  BY InputsStay
<1>2. \A e : Selected(e)' <=> Selected(e)
  BY <1>1 DEF Selected
<1>3. \A e \in Extents : e \in AllExtents /\ Selected(e)
  BY DEF Extents
<1>4. CASE Dump
  <2>1. PICK e : e = TheExtent
    OBVIOUS
  <2>2. /\ e \in AllExtents /\ Selected(e) /\ ~Passed(e) /\ e.zone = i
        /\ pc = "list" /\ i' = i /\ current_zone' = i /\ curseg_id' = FirstSegment(e)
    BY <1>4, <2>1, DumpEffect
  <2>3. \A x \in AllExtents : Passed(x)' <=> Passed(x) \/ x = e
    BY <1>4, <2>1, PassedStep
  <2>4. e \in Extents /\ Passed(e)'
    BY <2>2, <2>3 DEF Extents
  <2>5. \A x \in AllExtents : Passed(x)' => FirstSegment(x) <= FirstSegment(e)
    <3> SUFFICES ASSUME NEW x \in AllExtents, Passed(x) \/ x = e
                 PROVE  FirstSegment(x) <= FirstSegment(e)
      BY <2>3
    <3>1. x.phy_blk <= e.phy_blk
      <4>1. e.phy_blk \in Nat
        BY <2>2, ExtentsOfMap DEF WalkOK
      <4>2. QED
        BY <2>2, <4>1, PassedOrder
    <3>2. QED
      BY <2>2, <3>1, SegmentsInOrder
  <2>6. \A x \in AllExtents :
          Passed(x)' => Selected(x) \/ BehindEnd(FirstSegment(x), end_zone)
    BY <2>2, <2>3 DEF WalkedOK
  <2>7. \A x \in AllExtents : x.zone = i' /\ Passed(x)' => Selected(x)
    BY <2>2, <2>3 DEF WalkedOK
  <2>8. QED
    BY <1>1, <1>2, <1>3, <2>2, <2>4, <2>5, <2>6, <2>7 DEF WalkedOK
<1>5. CASE LeaveZone
  <2>1. pc' = "zone" /\ UNCHANGED <<curseg_id, current_zone>>
    BY <1>5 DEF LeaveZone
  <2>2. \A x \in AllExtents : Passed(x)' <=> Passed(x) \/ x.zone = i
    BY <1>5, PassedStep
  <2>3. \A x \in AllExtents : x.zone = i /\ ~Passed(x) =>
          BehindEnd(FirstSegment(x), end_zone) /\ ~Selected(x)
    BY <1>5, RestBehind
  <2>4. \A x \in AllExtents : Passed(x)' => Selected(x) \/ BehindEnd(FirstSegment(x), end_zone)
    BY <2>2, <2>3 DEF WalkedOK
  <2>5. \A x \in Extents : Passed(x)' <=> Passed(x)
    BY <1>3, <2>2, <2>3
  <2>6. QED
    BY <1>1, <1>2, <2>1, <2>4, <2>5 DEF WalkedOK
<1>6. CASE ~Dump /\ ~LeaveZone
  <2>1. UNCHANGED <<curseg_id, current_zone>>
    BY <1>6, OtherEffect
  <2>2. \A x \in AllExtents : Passed(x)' <=> Passed(x)
    BY <1>6, PassedStep
  <2>3. pc' = "list" => /\ i' = i
                        /\ pc = "list" \/ pc = "zone"
    BY <1>6 DEF Next, Walk, Dump, EnterZone, SkipZone, ContinueBelowStart, WriteFile, Finished,
      vars
  <2>4. pc = "zone" => \A x \in AllExtents : x.zone = i => ~Passed(x)
    BY ExtentsOfMap DEF Passed, WalkOK
  <2>5. pc' = "list" => \A x \in AllExtents : x.zone = i' /\ Passed(x)' => Selected(x)
    BY <2>2, <2>3, <2>4 DEF WalkedOK
  <2>6. QED
    BY <1>1, <1>2, <1>3, <2>1, <2>2, <2>5 DEF WalkedOK
<1>7. QED
  BY <1>4, <1>5, <1>6

AllInOne == \A e \in Extents : InOneSegment(e)

(* The segment collected holds the extents dumped of it.                   *)
CursegHolds ==
  \A x : (\E p \in Held(curseg) : p.of = x) <=>
    x \in Extents /\ Passed(x) /\ FirstSegment(x) = curseg_id

HoldOK ==
  /\ pc = "list" => SegmentsHold(zone_segments, Extents, SegmentsDumped, curseg_id, i)
  /\ ZonesHold(zonemap, Extents, SegmentsDumped, curseg_id, i, Behind)

LEMMA CursegHoldsInit ==
  ASSUME Init
  PROVE  CursegHolds
<1>1. Held(curseg) = {}
  BY DEF Init, Held, SegmentObject, Range
<1>2. \A x \in Extents : ~Passed(x)
  <2>1. \A x \in Extents : x \in AllExtents /\ Selected(x)
    BY DEF Extents
  <2>2. \A x \in AllExtents : x.zone \in Nat
    BY ExtentsOfMap DEF Init
  <2>3. QED
    BY <2>1, <2>2 DEF Init, Passed
<1>3. QED
  BY <1>1, <1>2 DEF CursegHolds

LEMMA CursegHoldsStep ==
  ASSUME DeviceFitsWord, WalkOK, ObjectsOK, WalkedOK, CursegHolds, AllInOne, [Next]_vars
  PROVE  CursegHolds'
<1>1. UNCHANGED <<AllExtents, Extents>>
  BY InputsStay
<1>2. \A x \in Extents : x \in AllExtents /\ Selected(x)
  BY DEF Extents
<1>3. CASE Dump
  <2>1. PICK e : e = TheExtent
    OBVIOUS
  <2>2. /\ e \in AllExtents /\ Selected(e) /\ ~Passed(e) /\ Collectible(e)
        /\ curseg_id' = FirstSegment(e)
        /\ \A p \in Held(curseg') :
              \/ p \in Range(Pieces(e)) /\ p.of = e
              \/ p \in Held(curseg) /\ curseg_id = FirstSegment(e)
        /\ \A p \in Range(Pieces(e)) : p \in Held(curseg')
        /\ curseg_id = FirstSegment(e) => \A p \in Held(curseg) : p \in Held(curseg')
    BY <1>3, <2>1, DumpEffect
  <2>3. \A x \in Extents : Passed(x)' <=> Passed(x) \/ x = e
    BY <1>2, <1>3, <2>1, PassedStep
  <2>4. e \in Extents
    BY <2>2 DEF Extents
  <2>5. Whole(e) \in Range(Pieces(e)) /\ Whole(e).of = e
    <3>1. Pieces(e) = <<Whole(e)>>
      BY <2>2, <2>4, PiecesFacts DEF AllInOne
    <3>2. QED
      BY <3>1 DEF Range, Whole, Piece
  <2>6. CASE curseg_id = FirstSegment(e)
    <3>1. \A x : (\E p \in Held(curseg') : p.of = x)
                   <=> (x = e \/ \E p \in Held(curseg) : p.of = x)
      BY <2>2, <2>5, <2>6
    <3>2. \A x : (\E p \in Held(curseg') : p.of = x) <=>
            x \in Extents /\ Passed(x)' /\ FirstSegment(x) = curseg_id'
      BY <2>2, <2>3, <2>4, <2>6, <3>1 DEF CursegHolds
    <3>3. QED
      BY <1>1, <3>2 DEF CursegHolds
  <2>7. CASE curseg_id # FirstSegment(e)
    <3>1. \A x : (\E p \in Held(curseg') : p.of = x) <=> x = e
      BY <2>2, <2>5, <2>7
    <3>2. ASSUME NEW x \in Extents, Passed(x), FirstSegment(x) = FirstSegment(e)
          PROVE  FALSE
      <4>1. FirstSegment(x) <= curseg_id
        BY <3>2 DEF WalkedOK
      <4>2. PICK y \in Extents : Passed(y) /\ FirstSegment(y) = curseg_id
        BY <3>2 DEF WalkedOK
      <4>3. y.phy_blk <= e.phy_blk
        BY <1>2, <2>2, <4>2, PassedOrder
      <4>4. /\ FirstSegment(y) \in Nat /\ FirstSegment(e) \in Nat
            /\ FirstSegment(y) <= FirstSegment(e)
        BY <1>2, <2>2, <4>3, SegmentsInOrder
      <4>5. QED
        BY <2>7, <3>2, <4>1, <4>2, <4>4
    <3>3. \A x : (\E p \in Held(curseg') : p.of = x) <=>
            x \in Extents /\ Passed(x)' /\ FirstSegment(x) = curseg_id'
      BY <2>2, <2>3, <2>4, <3>1, <3>2
    <3>4. QED
      BY <1>1, <3>3 DEF CursegHolds
  <2>8. QED
    BY <2>6, <2>7
<1>4. CASE ~Dump
  <2>1. UNCHANGED <<curseg, curseg_id>>
    BY <1>4, OtherEffect
  <2>2. \A x \in Extents : Passed(x)' <=> Passed(x)
    <3>1. CASE LeaveZone
      <4>1. \A x \in AllExtents : Passed(x)' <=> Passed(x) \/ x.zone = i
        BY <3>1, PassedStep
      <4>2. \A x \in AllExtents : x.zone = i /\ ~Passed(x) => ~Selected(x)
        BY <3>1, RestBehind
      <4>3. QED
        BY <1>2, <4>1, <4>2
    <3>2. CASE ~LeaveZone
      BY <1>2, <1>4, <3>2, PassedStep
    <3>3. QED
      BY <3>1, <3>2
  <2>3. QED
    BY <1>1, <2>1, <2>2 DEF CursegHolds
<1>5. QED
  BY <1>3, <1>4

(* Where the walk is among the segments.                                   *)
LEMMA Reached ==
  ASSUME DeviceFitsWord, WalkOK, ObjectsOK, WalkedOK
  PROVE  \/ /\ curseg_id = 0 /\ \A e \in Extents : ~Passed(e)
            /\ \A t \in SegmentsDumped : ~(t < curseg_id)
         \/ /\ curseg_id \in SegmentsDumped
            /\ ZoneOfSegment(curseg_id) = current_zone
            /\ \A t \in SegmentsDumped : t <= curseg_id =>
                 ZoneOfSegment(t) \in Nat /\ ZoneOfSegment(t) <= current_zone
            /\ \E e \in Extents : /\ Passed(e)
                                  /\ FirstSegment(e) = curseg_id /\ e.zone = current_zone
<1>1. /\ SegmentsDumped \in SUBSET Nat
      /\ \A s \in SegmentsDumped : ZoneOfSegment(s) \in Nat
      /\ \A s, t \in SegmentsDumped : s <= t => ZoneOfSegment(s) <= ZoneOfSegment(t)
      /\ \A x \in Extents : /\ FirstSegment(x) \in SegmentsDumped
                            /\ ZoneOfSegment(FirstSegment(x)) = x.zone
  BY DumpedSegments
<1>2. CASE \A e \in Extents : ~Passed(e)
  <2>1. curseg_id = 0
    BY <1>2 DEF WalkedOK
  <2>2. \A t \in SegmentsDumped : ~(t < 0)
    BY <1>1
  <2>3. QED
    BY <1>2, <2>1, <2>2
<1>3. CASE \E e \in Extents : Passed(e)
  <2>1. PICK e \in Extents : Passed(e) /\ FirstSegment(e) = curseg_id /\ e.zone = current_zone
    BY <1>3 DEF WalkedOK
  <2>2. curseg_id \in SegmentsDumped /\ ZoneOfSegment(curseg_id) = current_zone
    BY <1>1, <2>1
  <2>3. \A t \in SegmentsDumped : t <= curseg_id =>
          ZoneOfSegment(t) \in Nat /\ ZoneOfSegment(t) <= current_zone
    BY <1>1, <2>2
  <2>4. QED
    BY <2>1, <2>2, <2>3
<1>4. QED
  BY <1>2, <1>3

LEMMA HoldInit ==
  ASSUME Init
  PROVE  HoldOK
<1>1. curseg_id = 0 /\ zonemap = <<>> /\ pc # "list" /\ DOMAIN <<>> = {}
  BY DEF Init
<1>2. \A x \in Extents : FirstSegment(x) \in SegmentsDumped /\ ~(FirstSegment(x) < 0)
  <2> SUFFICES ASSUME NEW x \in Extents
               PROVE  FirstSegment(x) \in SegmentsDumped /\ ~(FirstSegment(x) < 0)
    OBVIOUS
  <2>1. x \in AllExtents
    BY DEF Extents
  <2>2. FirstSegment(x) \in Nat
    BY <2>1, ExtentsOfMap, ExtentFacts DEF Init
  <2>3. QED
    BY <2>2 DEF SegmentsDumped
<1>3. \A z, k, x : ~ZoneHolds(zonemap, z, k, x)
  BY <1>1 DEF ZoneHolds
<1>4. \A z, k, x : ~LeftBefore(Extents, SegmentsDumped, curseg_id, i, Behind, z, k, x)
  BY <1>1, <1>2 DEF LeftBefore, AddedBefore
<1>5. QED
  BY <1>1, <1>3, <1>4 DEF HoldOK, ZonesHold

(* The segments before that of the extent at hand have been reached.       *)
LEMMA BeforeHand ==
  ASSUME DeviceFitsWord, WalkOK, WalkedOK, pc = "list", current # <<>>,
         NEW x \in Extents, FirstSegment(x) < FirstSegment(TheExtent)
  PROVE  Passed(x) /\ FirstSegment(x) <= curseg_id
<1>1. x \in AllExtents /\ TheExtent \in AllExtents
  BY AtHand DEF Extents
<1>2. Passed(x)
  <2> SUFFICES ASSUME ~Passed(x)
               PROVE  FALSE
    OBVIOUS
  <2>1. TheExtent.phy_blk <= x.phy_blk
    BY <1>1, AtHandNext
  <2>2. QED
    BY <1>1, <2>1, SegmentsInOrder
<1>3. QED
  BY <1>2 DEF WalkedOK

LEMMA HoldDump ==
  ASSUME DeviceFitsWord, WalkOK, ObjectsOK, WalkedOK, CursegHolds, HoldOK, AllInOne,
         [Next]_vars, Dump
  PROVE  HoldOK'
<1>1. UNCHANGED <<AllExtents, Extents, SegmentsDumped>> /\ \A e : Selected(e)' <=> Selected(e)
  BY InputsStay DEF Selected
<1>2. PICK e, X, D, n, c, zone :
        /\ e = TheExtent /\ X = Extents /\ D = SegmentsDumped
        /\ n = FirstSegment(e) /\ c = curseg_id /\ zone = i
  OBVIOUS
<1>3. /\ e \in AllExtents /\ Selected(e) /\ ~Passed(e) /\ Collectible(e)
      /\ e.zone = zone /\ i' = zone /\ zone \in Nat
      /\ pc = "list" /\ pc' = "list" /\ current # <<>>
      /\ curseg_id' = n
      /\ zonemap' = zonemap
  BY <1>2, DumpEffect DEF Dump, DumpInSegment, DumpInNewSegment, WalkOK
<1>4. e \in X /\ InOneSegment(e) /\ ~HasMiddle(e)
  BY <1>2, <1>3, PartsFacts DEF Extents, AllInOne
<1>5. /\ D \in SUBSET Nat
      /\ \A x \in X : x \in AllExtents /\ FirstSegment(x) \in D
      /\ \A t \in D : \E x \in X : t = FirstSegment(x)
      /\ n \in D /\ n \in Nat /\ ZoneOfSegment(n) = zone
  BY <1>2, <1>3, <1>4, DumpedSegments DEF SegmentsDumped
<1>6. \A x \in AllExtents : Passed(x)' <=> Passed(x) \/ x = e
  BY <1>2, PassedStep
<1>7. Behind = {} /\ Behind' = {}
  <2>1. ASSUME NEW b \in AllExtents, Passed(b)
        PROVE  Selected(b)
    <3>1. b.phy_blk <= e.phy_blk
      BY <1>3, <2>1, PassedOrder
    <3>2. BehindEnd(FirstSegment(b), end_zone) => BehindEnd(FirstSegment(e), end_zone)
      BY <1>3, <3>1, SegmentsInOrder
    <3>3. QED
      BY <1>3, <2>1, <3>2 DEF WalkedOK, Selected, InZones
  <2>2. Behind = {}
    BY <2>1 DEF Behind
  <2>3. Behind' = {}
    BY <1>1, <1>3, <1>6, <2>1 DEF Behind
  <2>4. QED
    BY <2>2, <2>3
<1>8. \A t \in D : t < n => t <= c /\ \E x \in X : Passed(x) /\ t = FirstSegment(x)
  BY <1>2, <1>3, <1>5, BeforeHand
<1>9. /\ SegmentsHold(zone_segments, X, D, c, zone)
      /\ ZonesHold(zonemap, X, D, c, zone, {})
  BY <1>2, <1>3, <1>7 DEF HoldOK
<1>10. zone_segments' = IF c = n THEN zone_segments ELSE FlushSegment(zone_segments, n)
  <2>1. \A segs : AddMiddle(segs, e) = segs
    BY <1>4 DEF AddMiddle
  <2>2. CASE DumpInSegment
    BY <1>2, <2>1, <2>2 DEF DumpInSegment
  <2>3. CASE DumpInNewSegment
    BY <1>2, <2>1, <2>3 DEF DumpInNewSegment
  <2>4. QED
    BY <2>2, <2>3 DEF Dump
<1>11. (\E x \in X : Passed(x) /\ FirstSegment(x) = c) <=> curseg.extents # <<>>
  <2>1. (\E p : p \in Held(curseg)) <=> curseg.extents # <<>>
    <3>1. curseg.extents \in Seq(PiecesOf(AllExtents))
      BY DEF ObjectsOK, CursegOK, IsObject
    <3>2. PICK s \in Seq(PiecesOf(AllExtents)) : s = curseg.extents
      BY <3>1, Zenon
    <3>3. s = <<>> <=> Range(s) = {}
      <4>1. CASE s = <<>>
        BY <4>1 DEF Range
      <4>2. CASE s # <<>>
        <5>1. 1 \in DOMAIN s
          BY <4>2
        <5>2. QED
          BY <4>2, <5>1 DEF Range
      <4>3. QED
        BY <4>1, <4>2
    <3>4. QED
      BY <3>2, <3>3 DEF Held
  <2>2. (\E p : p \in Held(curseg)) <=> \E x \in X : Passed(x) /\ FirstSegment(x) = c
    BY <1>2 DEF CursegHolds
  <2>3. QED
    BY <2>1, <2>2
<1>12. /\ SegmentsHold(zone_segments', X, D, n, zone)
       /\ ZonesHold(zonemap, X, D, n, zone, {})
  <2>1. CASE c = n
    BY <1>9, <1>10, <2>1
  <2>2. CASE c # n /\ \A x \in X : ~Passed(x)
    <3>1. zone_segments' = zone_segments
      BY <1>10, <1>11, <2>2 DEF FlushSegment
    <3>2. \A t \in D : ~(t < n)
      BY <1>8, <2>2
    <3>3. \A t \in D : ~(t < c)
      BY <1>2, <2>2, Reached
    <3>4. /\ \A k, x : AddedBefore(X, D, c, zone, k, x) <=> AddedBefore(X, D, n, zone, k, x)
          /\ \A z, k, x :
               LeftBefore(X, D, c, zone, {}, z, k, x) <=> LeftBefore(X, D, n, zone, {}, z, k, x)
      BY <1>5, <3>2, <3>3, NothingAdded
    <3>5. QED
      BY <1>9, <3>1, <3>4 DEF SegmentsHold, ZonesHold
  <2>3. CASE c # n /\ \E x \in X : Passed(x)
    <3>1. PICK x \in X : Passed(x) /\ FirstSegment(x) = c
      BY <1>2, <2>3, Reached
    <3>2. zone_segments' = Put(zone_segments, Key(n), curseg)
      BY <1>10, <1>11, <2>3, <3>1 DEF FlushSegment
    <3>3. c \in D /\ c < n
      <4>1. x.phy_blk <= e.phy_blk
        BY <1>3, <1>5, <3>1, PassedOrder
      <4>2. c \in D /\ c \in Nat /\ c <= n
        BY <1>2, <1>3, <1>5, <3>1, <4>1, SegmentsInOrder
      <4>3. QED
        BY <1>5, <2>3, <4>2
    <3>4. \A y : (\E p \in Held(curseg) : p.of = y) <=> y \in X /\ FirstSegment(y) = c
      <4>1. \A y \in X : FirstSegment(y) = c => Passed(y)
        BY <1>2, <1>3, <3>3, BeforeHand
      <4>2. QED
        BY <1>2, <4>1 DEF CursegHolds
    <3>5. SegmentsHold(Put(zone_segments, Key(n), curseg), X, D, n, zone)
      BY <1>5, <1>8, <1>9, <3>3, <3>4, SegmentsFlushed
    <3>6. ZonesHold(zonemap, X, D, n, zone, {})
      BY <1>3, <1>5, <1>8, <1>9, <3>3, ZonesFlushed
    <3>7. QED
      BY <3>2, <3>5, <3>6
  <2>4. QED
    BY <2>1, <2>2, <2>3
<1>13. /\ Extents' = X /\ SegmentsDumped' = D /\ curseg_id' = n /\ i' = zone
       /\ Behind' = {} /\ zonemap' = zonemap
  BY <1>1, <1>2, <1>3, <1>7
<1>14. /\ SegmentsHold(zone_segments', Extents', SegmentsDumped', curseg_id', i')
       /\ ZonesHold(zonemap', Extents', SegmentsDumped', curseg_id', i', Behind')
  BY <1>12, <1>13
<1>15. /\ SegmentsHold(zone_segments, Extents, SegmentsDumped, curseg_id, i)'
       /\ ZonesHold(zonemap, Extents, SegmentsDumped, curseg_id, i, Behind)'
  BY <1>14
<1>16. QED
  BY <1>15 DEF HoldOK

LEMMA HoldLeave ==
  ASSUME DeviceFitsWord, WalkOK, ObjectsOK, CollectedOK, WalkedOK, HoldOK,
         [Next]_vars, LeaveZone
  PROVE  HoldOK'
<1>1. UNCHANGED <<AllExtents, Extents, SegmentsDumped>> /\ \A e : Selected(e)' <=> Selected(e)
  BY InputsStay DEF Selected
<1>2. PICK X, D, c, zone, B, C, last :
        /\ X = Extents /\ D = SegmentsDumped /\ c = curseg_id /\ zone = i
        /\ B = Behind /\ C = Behind' /\ last = current_zone
  OBVIOUS
<1>3. /\ pc = "list" /\ pc' = "zone" /\ i' = zone + 1
      /\ curseg_id' = c
      /\ zone \in Nat /\ zone \in Zones /\ last \in Nat
  BY <1>2, GeometryAssumption DEF LeaveZone, WalkOK, ObjectsOK, CursegOK, Zones
<1>4. PICK info, k, o, put :
        /\ zonemap' = put
        /\ put = Put(zonemap, k, o)
        /\ k = Key(last)
        /\ o = ZoneObject(info, zone_segments)
  BY <1>2 DEF LeaveZone
<1>5. o.segments = zone_segments
  BY <1>4 DEF ZoneObject
<1>6. \A x \in AllExtents : Passed(x)' <=> Passed(x) \/ x.zone = zone
  BY <1>2, PassedStep
<1>7. /\ D \in SUBSET Nat
      /\ \A x \in X : x \in AllExtents /\ FirstSegment(x) \in D
      /\ \A x \in X : Selected(x)
  BY <1>2, DumpedSegments DEF Extents
<1>8. /\ SegmentsHold(zone_segments, X, D, c, zone)
      /\ ZonesHold(zonemap, X, D, c, zone, B)
  BY <1>2, <1>3 DEF HoldOK
<1>9. ZonesHold(put, X, D, c, zone + 1, C)
  <2>1. CASE \A t \in D : ~(t < c)
    BY <1>4, <1>5, <1>7, <1>8, <2>1, ZoneLeftAtStart
  <2>2. CASE \E t \in D : t < c
    <3>1. /\ c \in D
          /\ ZoneOfSegment(c) = last
          /\ \A t \in D : t <= c => ZoneOfSegment(t) \in Nat /\ ZoneOfSegment(t) <= last
          /\ \E e \in X : Passed(e) /\ FirstSegment(e) = c /\ e.zone = last
      BY <1>2, <2>2, Reached
    <3>2. PICK e \in X : Passed(e) /\ FirstSegment(e) = c /\ e.zone = last
      BY <3>1
    <3>3. e \in AllExtents /\ ~BehindEnd(FirstSegment(e), end_zone)
      BY <1>7, <3>2 DEF Selected, InZones
    <3>4. CASE last = zone
      <4>1. ASSUME NEW b \in AllExtents, Passed(b)'
            PROVE  Selected(b)
        <5>1. CASE b.zone = zone /\ Passed(b)
          BY <1>2, <1>3, <5>1 DEF WalkedOK
        <5>2. CASE b.zone = zone /\ ~Passed(b)
          <6>1. BehindEnd(FirstSegment(b), end_zone)
            BY <1>2, <5>2, RestBehind
          <6>2. BehindEnd(FirstSegment(e), end_zone)
            BY <3>2, <3>3, <3>4, <5>2, <6>1, ZoneBehind
          <6>3. QED
            BY <3>3, <6>2
        <5>3. CASE b.zone # zone
          <6>1. Passed(b)
            BY <1>6, <4>1, <5>3
          <6>2. b.zone < e.zone
            BY <1>2, <3>2, <3>4, <5>3, <6>1 DEF Passed
          <6>3. b.phy_blk <= e.phy_blk
            BY <3>3, <6>2, WalkOrder
          <6>4. ~BehindEnd(FirstSegment(b), end_zone)
            BY <3>3, <6>3, SegmentsInOrder
          <6>5. QED
            BY <6>1, <6>4 DEF WalkedOK
        <5>4. QED
          BY <5>1, <5>2, <5>3
      <4>2. B = {}
        BY <1>2, <1>6, <4>1 DEF Behind
      <4>3. C = {}
        BY <1>1, <1>2, <4>1 DEF Behind
      <4>4. ZonesHold(Put(zonemap, Key(zone), o), X, D, c, zone + 1, {})
        BY <1>3, <1>5, <1>7, <1>8, <3>1, <3>4, <4>2, ZoneLeft
      <4>5. QED
        BY <1>4, <3>4, <4>3, <4>4
    <3>5. CASE last # zone
      <4>1. last < zone /\ zone_segments = <<>>
        BY <1>2, <1>3, <3>5 DEF CollectedOK
      <4>2. PICK x \in AllExtents : x.zone = zone
        <5>1. /\ zones[zone].extents # <<>>
              /\ zones[zone].extents \in Seq(ExtentsIn(zones))
              /\ \A d \in Range(zones[zone].extents) : d \in AllExtents /\ d.zone = zone
          BY <1>2, <1>3, MapFacts, ExtentsOfMap DEF WalkOK
        <5>2. 1 \in DOMAIN zones[zone].extents
          BY <5>1
        <5>3. zones[zone].extents[1] \in Range(zones[zone].extents)
          BY <5>2 DEF Range
        <5>4. QED
          BY <5>1, <5>3
      <4>3. ~Passed(x)
        <5> SUFFICES ASSUME Passed(x)
                     PROVE  FALSE
          OBVIOUS
        <5>1. Selected(x)
          BY <1>2, <1>3, <4>2 DEF WalkedOK
        <5>2. x \in X
          BY <1>2, <5>1 DEF Extents
        <5>3. FirstSegment(x) <= c /\ FirstSegment(x) \in D
          BY <1>2, <1>7, <5>2 DEF WalkedOK
        <5>4. ZoneOfSegment(FirstSegment(x)) = zone
          BY <4>2, StartInZone
        <5>5. zone <= last
          BY <3>1, <5>3, <5>4
        <5>6. QED
          BY <1>3, <4>1, <5>5
      <4>4. ~Selected(x)
        BY <1>2, <4>2, <4>3, RestBehind
      <4>5. x \in C
        BY <1>1, <1>2, <1>6, <4>2, <4>4 DEF Behind
      <4>6. \A t \in D : t <= c => ZoneOfSegment(t) \in Nat /\ ZoneOfSegment(t) < zone
        BY <1>3, <3>1, <4>1
      <4>7. o.segments = <<>> /\ C # {}
        BY <1>5, <4>1, <4>5
      <4>8. ZonesHold(Put(zonemap, Key(ZoneOfSegment(c)), o), X, D, c, zone + 1, C)
        BY <1>3, <1>7, <1>8, <3>1, <4>6, <4>7, ZoneLeftBehind
      <4>9. QED
        BY <1>4, <3>1, <4>8
    <3>6. QED
      BY <3>4, <3>5
  <2>3. QED
    BY <2>1, <2>2
<1>10. /\ Extents' = X /\ SegmentsDumped' = D /\ curseg_id' = c /\ i' = zone + 1
       /\ Behind' = C /\ zonemap' = put
  BY <1>1, <1>2, <1>3, <1>4
<1>11. ZonesHold(zonemap', Extents', SegmentsDumped', curseg_id', i', Behind')
  BY <1>9, <1>10
<1>12. ZonesHold(zonemap, Extents, SegmentsDumped, curseg_id, i, Behind)' /\ pc' # "list"
  BY <1>3, <1>11
<1>13. QED
  BY <1>12 DEF HoldOK

LEMMA HoldOther ==
  ASSUME DeviceFitsWord, WalkOK, ObjectsOK, CollectedOK, WalkedOK, HoldOK,
         [Next]_vars, ~Dump, ~LeaveZone
  PROVE  HoldOK'
<1>1. UNCHANGED <<AllExtents, Extents, SegmentsDumped>> /\ \A e : Selected(e)' <=> Selected(e)
  BY InputsStay DEF Selected
<1>2. \A x \in AllExtents : Passed(x)' <=> Passed(x)
  BY PassedStep
<1>3. Behind' = Behind
  BY <1>1, <1>2 DEF Behind
<1>4. PICK X, D, c, zone, B :
        X = Extents /\ D = SegmentsDumped /\ c = curseg_id /\ zone = i /\ B = Behind
  OBVIOUS
<1>5. /\ D \in SUBSET Nat
      /\ \A x \in X : FirstSegment(x) \in D
      /\ zone \in Nat
      /\ ZonesHold(zonemap, X, D, c, zone, B)
  BY <1>4, DumpedSegments DEF HoldOK, WalkOK
<1>6. curseg_id' = c /\ zonemap' = zonemap
  BY <1>4, OtherEffect
<1>7. pc = "zone" =>
        \/ \A t \in D : ~(t < c)
        \/ /\ c \in D
           /\ \A t \in D : t <= c => ZoneOfSegment(t) \in Nat /\ ZoneOfSegment(t) < zone
  <2> SUFFICES ASSUME pc = "zone", \E t \in D : t < c
               PROVE  /\ c \in D
                      /\ \A t \in D : t <= c =>
                           ZoneOfSegment(t) \in Nat /\ ZoneOfSegment(t) < zone
    OBVIOUS
  <2>1. /\ c \in D
        /\ \A t \in D : t <= c =>
             ZoneOfSegment(t) \in Nat /\ ZoneOfSegment(t) <= current_zone
        /\ \E e \in Extents : Passed(e) /\ e.zone = current_zone
    BY <1>4, Reached
  <2>2. current_zone < zone /\ current_zone \in Nat
    BY <1>4, <2>1, GeometryAssumption DEF Passed, ObjectsOK, CursegOK, Zones
  <2>3. QED
    BY <1>5, <2>1, <2>2
<1>8. CASE EnterZone
  <2>1. pc = "zone" /\ pc' = "list" /\ i' = zone /\ zone_segments' = <<>>
    BY <1>4, <1>8 DEF EnterZone
  <2>2. ASSUME NEW k, NEW x
        PROVE  ~AddedBefore(X, D, c, zone, k, x)
    <3>1. CASE \A t \in D : ~(t < c)
      BY <1>5, <3>1 DEF AddedBefore
    <3>2. CASE ~(\A t \in D : ~(t < c))
      <4> SUFFICES ASSUME x \in X, FirstSegment(x) < c, AddedIn(D, FirstSegment(x)) = zone
                   PROVE  FALSE
        BY DEF AddedBefore
      <4>1. PICK s \in D : s = FirstSegment(x)
        BY <1>5
      <4>2. NextIn(D, s) \in D /\ NextIn(D, s) <= c
        BY <1>5, <1>7, <2>1, <3>2, <4>1, NextBounds
      <4>3. ZoneOfSegment(NextIn(D, s)) < zone
        BY <1>7, <2>1, <3>2, <4>2
      <4>4. QED
        BY <1>5, <4>1, <4>3 DEF AddedIn
    <3>3. QED
      BY <3>1, <3>2
  <2>3. \A k, x : ~HoldsAt(<<>>, k, x)
    <3>1. DOMAIN <<>> = {}
      OBVIOUS
    <3>2. QED
      BY <3>1 DEF HoldsAt
  <2>4. SegmentsHold(zone_segments', X, D, c, zone)
    BY <2>1, <2>2, <2>3 DEF SegmentsHold
  <2>5. /\ SegmentsHold(zone_segments', Extents', SegmentsDumped', curseg_id', i')
        /\ ZonesHold(zonemap', Extents', SegmentsDumped', curseg_id', i', Behind')
    BY <1>1, <1>3, <1>4, <1>5, <1>6, <2>1, <2>4
  <2>6. /\ SegmentsHold(zone_segments, Extents, SegmentsDumped, curseg_id, i)'
        /\ ZonesHold(zonemap, Extents, SegmentsDumped, curseg_id, i, Behind)'
    BY <2>5
  <2>7. QED
    BY <2>6 DEF HoldOK
<1>9. CASE SkipZone
  <2>1. pc = "zone" /\ pc' = "zone" /\ i' = zone + 1
    BY <1>4, <1>9 DEF SkipZone
  <2>2. \A z, k, x : LeftBefore(X, D, c, zone + 1, B, z, k, x)
                       <=> LeftBefore(X, D, c, zone, B, z, k, x)
    <3>1. CASE \A t \in D : ~(t < c)
      BY <1>5, <3>1, NothingAdded
    <3>2. CASE ~(\A t \in D : ~(t < c))
      BY <1>5, <1>7, <2>1, <3>2, ZonePassed
    <3>3. QED
      BY <3>1, <3>2
  <2>3. ZonesHold(zonemap, X, D, c, zone + 1, B)
    BY <1>5, <2>2 DEF ZonesHold
  <2>4. ZonesHold(zonemap', Extents', SegmentsDumped', curseg_id', i', Behind')
    BY <1>1, <1>3, <1>4, <1>6, <2>1, <2>3
  <2>5. ZonesHold(zonemap, Extents, SegmentsDumped, curseg_id, i, Behind)' /\ pc' # "list"
    BY <2>1, <2>4
  <2>6. QED
    BY <2>5 DEF HoldOK
<1>10. CASE WriteFile \/ ContinueBelowStart \/ Finished \/ UNCHANGED vars
  <2>1. /\ UNCHANGED <<i, zone_segments>>
        /\ pc' = "list" => pc = "list"
    BY <1>10 DEF WriteFile, ContinueBelowStart, Finished, vars
  <2>2. /\ pc' = "list" =>
             SegmentsHold(zone_segments', Extents', SegmentsDumped', curseg_id', i')
        /\ ZonesHold(zonemap', Extents', SegmentsDumped', curseg_id', i', Behind')
    BY <1>1, <1>3, <1>4, <1>6, <2>1 DEF HoldOK
  <2>3. /\ pc' = "list" =>
             SegmentsHold(zone_segments, Extents, SegmentsDumped, curseg_id, i)'
        /\ ZonesHold(zonemap, Extents, SegmentsDumped, curseg_id, i, Behind)'
    BY <2>2
  <2>4. QED
    BY <2>3 DEF HoldOK
<1>11. QED
  BY <1>8, <1>9, <1>10 DEF Next, Walk, Dump

-----------------------------------------------------------------------------
(* The finished dump.                                                      *)

LEMMA DumpedAre ==
  ASSUME ObjectsOK
  PROVE  \A x : x \in DumpedExtents <=> \E z, k : ZoneHolds(zonemap, z, k, x)
<1>1. ASSUME NEW x \in DumpedExtents
      PROVE  \E z, k : ZoneHolds(zonemap, z, k, x)
  <2>1. PICK key \in Keys : \E n \in DOMAIN Dumped(key).extents : x = Dumped(key).extents[n].of
    BY DEF DumpedExtents
  <2>2. PICK n \in DOMAIN Dumped(key).extents : x = Dumped(key).extents[n].of
    BY <2>1
  <2>3. Dumped(key).extents[n] \in Held(Dumped(key))
    BY DEF Held, Range
  <2>4. ZoneHolds(zonemap, key[1], key[2], x)
    BY <2>2, <2>3, DumpedFacts DEF ZoneHolds, HoldsAt, Dumped
  <2>5. QED
    BY <2>4
<1>2. ASSUME NEW z, NEW k, NEW x, ZoneHolds(zonemap, z, k, x)
      PROVE  x \in DumpedExtents
  <2>1. PICK key : key = <<z, k>> /\ key[1] = z /\ key[2] = k
    <3>1. <<z, k>>[1] = z /\ <<z, k>>[2] = k
      OBVIOUS
    <3>2. QED
      BY <3>1, Zenon
  <2>2. key \in Keys
    BY <1>2, <2>1 DEF Keys, ZoneHolds, HoldsAt
  <2>3. PICK p \in Held(zonemap[z].segments[k]) : p.of = x
    BY <1>2 DEF ZoneHolds, HoldsAt
  <2>4. PICK n \in DOMAIN Dumped(key).extents : p = Dumped(key).extents[n]
    BY <2>1 DEF Dumped, Held, Range
  <2>5. x \in {Dumped(key).extents[j].of : j \in DOMAIN Dumped(key).extents}
    BY <2>3, <2>4
  <2>6. QED
    BY <2>2, <2>5 DEF DumpedExtents
<1>3. QED
  BY <1>1, <1>2

LEMMA KnownAtEnd ==
  ASSUME DeviceFitsWord, WalkOK, ObjectsOK, WalkedOK, HoldOK, pc = "done"
  PROVE  DumpedExtents = {e \in Extents : ~Missing(FirstSegment(e))}
<1>1. PICK X, D, c, zone, B :
        X = Extents /\ D = SegmentsDumped /\ c = curseg_id /\ zone = i /\ B = Behind
  OBVIOUS
<1>2. /\ D \in SUBSET Nat
      /\ \A s \in D : ZoneOfSegment(s) \in Nat
      /\ \A x \in X : x \in AllExtents /\ FirstSegment(x) \in D
      /\ \A t \in D : \E x \in X : t = FirstSegment(x) /\ ZoneOfSegment(t) = x.zone
  BY <1>1, DumpedSegments DEF SegmentsDumped
<1>3. \A e \in AllExtents : e.zone < zone /\ Passed(e)
  <2> SUFFICES ASSUME NEW e \in AllExtents
               PROVE  e.zone < zone /\ Passed(e)
    OBVIOUS
  <2>1. e.zone \in Zones /\ zone = NrZones
    BY <1>1, ExtentsOfMap DEF WalkOK
  <2>2. e.zone < zone
    BY <2>1, GeometryAssumption DEF Zones
  <2>3. QED
    BY <1>1, <2>2 DEF Passed
<1>4. B # {} <=> Extents # AllExtents
  BY <1>1, <1>3 DEF Behind, Extents
<1>5. \A t \in D : t <= c
  BY <1>1, <1>2, <1>3 DEF WalkedOK
<1>6. X # {} => c \in D /\ LastSegment = c
  <2> SUFFICES ASSUME X # {}
               PROVE  c \in D /\ LastSegment = c
    OBVIOUS
  <2>1. \E x \in Extents : Passed(x)
    BY <1>1, <1>2, <1>3
  <2>2. c \in D
    BY <1>1, <2>1, Reached
  <2>3. Max(D) = c
    BY <1>2, <1>5, <2>2, MaxIs
  <2>4. QED
    BY <1>1, <2>2, <2>3 DEF LastSegment
<1>7. \A s : NextSegment(s) = NextIn(D, s) /\ AddedInZone(s) = AddedIn(D, s)
  BY <1>1 DEF NextSegment, NextIn, AddedInZone, AddedIn
<1>8. ASSUME NEW x \in X
      PROVE  (\E z, k : LeftBefore(X, D, c, zone, B, z, k, x)) <=> ~Missing(FirstSegment(x))
  <2>1. PICK s, y : s \in D /\ s = FirstSegment(x) /\ y = AddedIn(D, s)
    BY <1>2
  <2>2. c \in D /\ LastSegment = c
    BY <1>6
  <2>3. s \in Nat /\ c \in Nat /\ s <= c
    BY <1>2, <1>5, <2>1, <2>2
  <2>4. \A t \in D : t < c <=> t # c
    BY <1>2, <1>5, <2>2
  <2>5. s < c => y \in Nat /\ y < zone
    <3> SUFFICES ASSUME s < c
                 PROVE  y \in Nat /\ y < zone
      OBVIOUS
    <3>1. NextIn(D, s) \in D
      BY <1>2, <2>2, <2>3, NextBounds
    <3>2. QED
      BY <1>2, <1>3, <2>1, <3>1 DEF AddedIn
  <2>6. Kept(D, c, s) <=> ~SegmentReplaced(s)
    <3>1. \A t : t \in D /\ t < c <=> t \in SegmentsDumped \ {LastSegment}
      BY <1>1, <2>2, <2>4
    <3>2. \A t \in D : t > s <=> s < t
      BY <1>2, <2>3
    <3>3. QED
      BY <1>1, <1>7, <3>1, <3>2 DEF Kept, SegmentReplaced
  <2>7. s < c => (Stays(D, c, zone, B, y) <=> ~ZoneReplaced(y))
    <3> SUFFICES ASSUME y \in Nat
                 PROVE  Stays(D, c, zone, B, y) <=> ~ZoneReplaced(y)
      BY <2>5
    <3>1. \A t \in D : t <= c /\ ZoneOfSegment(t) < zone
      BY <1>2, <1>3, <1>5
    <3>2. \A t \in D : y < ZoneOfSegment(t) <=> ZoneOfSegment(t) > y
      BY <1>2
    <3>3. QED
      BY <1>1, <1>4, <2>2, <3>1, <3>2 DEF Stays, ZoneReplaced
  <2>8. (\E z, k : LeftBefore(X, D, c, zone, B, z, k, x))
          <=> s < c /\ y < zone /\ Kept(D, c, s) /\ Stays(D, c, zone, B, y)
    BY <2>1 DEF LeftBefore, AddedBefore
  <2>9. Missing(s) <=> s = c \/ SegmentReplaced(s) \/ ZoneReplaced(y)
    BY <1>7, <2>1, <2>2 DEF Missing
  <2>10. QED
    BY <2>1, <2>4, <2>5, <2>6, <2>7, <2>8, <2>9
<1>9. \A z, k, x : ZoneHolds(zonemap, z, k, x) <=> LeftBefore(X, D, c, zone, B, z, k, x)
  BY <1>1 DEF HoldOK, ZonesHold
<1>10. \A z, k, x : LeftBefore(X, D, c, zone, B, z, k, x) => x \in X
  BY DEF LeftBefore, AddedBefore
<1>11. \A x : x \in DumpedExtents <=> x \in X /\ ~Missing(FirstSegment(x))
  BY <1>8, <1>9, <1>10, DumpedAre
<1>12. QED
  BY <1>1, <1>11

(* When every extent lies within one segment, the finished dump lacks the  *)
(* extents of the last segment, which json_dump_f2fs_zonemap never adds,   *)
(* those added under a key that a later segment of the zone has too, and   *)
(* those of a zone whose object is replaced.  Nothing else is lost, and    *)
(* nothing is told of that was not collected or not asked for.             *)
THEOREM MissingAlwaysKnown == Spec => []MissingIsKnown
<1>1. CASE DeviceFitsWord
  <2> DEFINE Holding == AllInOne => CursegHolds /\ HoldOK
  <2>1. Init => WalkedOK /\ Holding
    BY WalkedInit, CursegHoldsInit, HoldInit
  <2>2. ASSUME WalkOK, ObjectsOK, CollectedOK, WalkedOK, Holding, [Next]_vars
        PROVE  WalkedOK' /\ Holding'
    <3>1. WalkedOK'
      BY <1>1, <2>2, WalkedStep
    <3>2. AllInOne' => AllInOne
      BY <2>2, InputsStay DEF AllInOne
    <3>3. AllInOne => CursegHolds' /\ HoldOK'
      BY <1>1, <2>2, CursegHoldsStep, HoldDump, HoldLeave, HoldOther
    <3>4. QED
      BY <3>1, <3>2, <3>3
  <2>3. WalkOK /\ ObjectsOK /\ WalkedOK /\ Holding => MissingIsKnown
    BY KnownAtEnd DEF MissingIsKnown, AllInOne
  <2>4. Spec => [](CollectedOK /\ LeftOK)
    BY <1>1, LeftAlways
  <2> HIDE DEF Holding
  <2>5. QED
    BY <2>1, <2>2, <2>3, <2>4, ObjectsAlways, PTL DEF Spec
<1>2. CASE ~DeviceFitsWord
  <2>1. MissingIsKnown
    BY <1>2 DEF MissingIsKnown
  <2>2. QED
    BY <2>1, PTL
<1>3. QED
  BY <1>1, <1>2
=============================================================================
