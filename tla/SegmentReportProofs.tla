------------------------- MODULE SegmentReportProofs -------------------------
(***************************************************************************)
(* The segment report, for any zone map the collection may leave, any      *)
(* sizes of zones and segments and any selection of zones.                 *)
(***************************************************************************)
EXTENDS SegmentReport, FiniteSetTheorems, SequenceTheorems, TLAPS

-----------------------------------------------------------------------------
(* Division, and the zones of the device.                                  *)

(* Dividing by the zone size rounds down.                                  *)
LEMMA DivisionBounds ==
  ASSUME NEW x \in Nat, NEW d \in Nat \ {0}
  PROVE  /\ x \div d \in Nat
         /\ d * (x \div d) <= x
         /\ x < d * (x \div d) + d
  OBVIOUS

(* A quotient lies below the number of parts.                              *)
LEMMA QuotientBound ==
  ASSUME NEW n \in Nat, NEW d \in Nat \ {0}, NEW q \in Nat, d * q < n * d
  PROVE  q < n
<1> SUFFICES ASSUME n <= q
             PROVE  FALSE
  OBVIOUS
<1>1. n * d <= q * d
  OBVIOUS
<1>2. QED
  BY <1>1

(* get_zone_number stays within the array of zones, whatever the mask cuts *)
(* off the address.                                                        *)
LEMMA ZoneNumberInRange ==
  ASSUME NEW lba \in ZnsBlocks
  PROVE  GetZoneNumber(lba) \in Zones
<1> DEFINE x == lba % Word
<1>1. /\ NrZones \in Nat \ {0}
      /\ ZoneSize \in Nat \ {0}
      /\ Word \in Nat \ {0}
  BY GeometryAssumption
<1>2. lba \in Nat /\ lba < NrZones * ZoneSize
  BY <1>1 DEF ZnsBlocks
<1>3. x \in Nat /\ x <= lba
  BY <1>1, <1>2
<1> HIDE DEF x
<1> DEFINE q == x \div ZoneSize
<1>4. q \in Nat /\ ZoneSize * q <= x
  BY <1>1, <1>3, DivisionBounds
<1> HIDE DEF q
<1>5. ZoneSize * q < NrZones * ZoneSize
  BY <1>1, <1>2, <1>3, <1>4
<1>6. q < NrZones
  BY <1>1, <1>4, <1>5, QuotientBound
<1>7. QED
  BY <1>1, <1>4, <1>6 DEF q, x, GetZoneNumber, Zones

(* On a device whose addresses fit the mask it is the zone the address is  *)
(* in.                                                                     *)
LEMMA ZoneNumberIsZone ==
  ASSUME DeviceFitsWord, NEW lba \in ZnsBlocks
  PROVE  /\ GetZoneNumber(lba) * ZoneSize <= lba
         /\ lba < (GetZoneNumber(lba) + 1) * ZoneSize
<1>1. /\ NrZones \in Nat \ {0}
      /\ ZoneSize \in Nat \ {0}
      /\ Word \in Nat \ {0}
  BY GeometryAssumption
<1>2. lba \in Nat /\ lba < Word
  BY <1>1 DEF ZnsBlocks, DeviceFitsWord
<1>3. lba % Word = lba
  BY <1>1, <1>2
<1> DEFINE q == lba \div ZoneSize
<1>4. q \in Nat /\ ZoneSize * q <= lba /\ lba < ZoneSize * q + ZoneSize
  BY <1>1, <1>2, DivisionBounds
<1>5. GetZoneNumber(lba) = q
  BY <1>3 DEF GetZoneNumber
<1> HIDE DEF q
<1>6. q * ZoneSize = ZoneSize * q /\ (q + 1) * ZoneSize = ZoneSize * q + ZoneSize
  BY <1>1, <1>4
<1>7. QED
  BY <1>4, <1>5, <1>6

-----------------------------------------------------------------------------
(* Segments of the device.                                                 *)

LEMMA SegSizeIsPositive == SegSize \in Nat \ {0}
  BY SegmentAssumption

LEMMA StartFacts ==
  ASSUME NEW s \in Nat
  PROVE  /\ SegmentStart(s) \in Nat
         /\ SegmentStart(s + 1) = SegmentStart(s) + SegSize
<1>1. (s + 1) * SegSize = s * SegSize + SegSize /\ s * SegSize \in Nat
  BY SegSizeIsPositive
<1>2. QED
  BY <1>1 DEF SegmentStart

LEMMA StartMonotone ==
  ASSUME NEW s \in Nat, NEW t \in Nat, s <= t
  PROVE  SegmentStart(s) <= SegmentStart(t)
<1>1. s * SegSize <= t * SegSize
  BY SegSizeIsPositive
<1>2. QED
  BY <1>1 DEF SegmentStart

LEMMA SegmentFacts ==
  ASSUME NEW b \in Nat
  PROVE  /\ SegmentOf(b) \in Nat
         /\ SegmentStart(SegmentOf(b)) <= b
         /\ b < SegmentStart(SegmentOf(b) + 1)
<1> DEFINE q == b \div SegSize
<1>1. q \in Nat /\ SegSize * q <= b /\ b < SegSize * q + SegSize
  BY SegSizeIsPositive, DivisionBounds
<1> HIDE DEF q
<1>2. SegSize * q = q * SegSize
  BY <1>1, SegSizeIsPositive
<1>3. SegmentStart(q) <= b /\ b < SegmentStart(q + 1)
  BY <1>1, <1>2, StartFacts, SegSizeIsPositive DEF SegmentStart
<1>4. QED
  BY <1>1, <1>3 DEF q, SegmentOf

(* A block lies in the segment whose bounds it is between.                 *)
LEMMA SegmentIs ==
  ASSUME NEW b \in Nat, NEW s \in Nat, SegmentStart(s) <= b, b < SegmentStart(s + 1)
  PROVE  SegmentOf(b) = s
<1> DEFINE q == SegmentOf(b)
<1>1. q \in Nat /\ SegmentStart(q) <= b /\ b < SegmentStart(q + 1)
  BY SegmentFacts
<1> HIDE DEF q
<1>2. SegmentStart(q) \in Nat /\ SegmentStart(s) \in Nat
      /\ SegmentStart(q + 1) \in Nat /\ SegmentStart(s + 1) \in Nat
  BY <1>1, StartFacts
<1>3. ~(q < s)
  <2> SUFFICES ASSUME q + 1 <= s
               PROVE  FALSE
    BY <1>1
  <2>1. SegmentStart(q + 1) <= SegmentStart(s)
    BY <1>1, StartMonotone
  <2>2. QED
    BY <1>1, <1>2, <2>1
<1>4. ~(s < q)
  <2> SUFFICES ASSUME s + 1 <= q
               PROVE  FALSE
    BY <1>1
  <2>1. SegmentStart(s + 1) <= SegmentStart(q)
    BY <1>1, StartMonotone
  <2>2. QED
    BY <1>1, <1>2, <2>1
<1>5. QED
  BY <1>1, <1>3, <1>4 DEF q

LEMMA SegmentMonotone ==
  ASSUME NEW b \in Nat, NEW c \in Nat, b <= c
  PROVE  SegmentOf(b) <= SegmentOf(c)
<1> DEFINE s == SegmentOf(b)
           t == SegmentOf(c)
<1>1. /\ s \in Nat /\ SegmentStart(s) <= b
      /\ t \in Nat /\ c < SegmentStart(t + 1)
  BY SegmentFacts
<1> HIDE DEF s, t
<1>2. SegmentStart(s) \in Nat /\ SegmentStart(t + 1) \in Nat
  BY <1>1, StartFacts
<1>3. ~(t + 1 <= s)
  <2> SUFFICES ASSUME t + 1 <= s
               PROVE  FALSE
    OBVIOUS
  <2>1. SegmentStart(t + 1) <= SegmentStart(s)
    BY <1>1, StartMonotone
  <2>2. QED
    BY <1>1, <1>2, <2>1
<1>4. QED
  BY <1>1, <1>3 DEF s, t

(* The blocks between the starts of two segments lie in the segments from  *)
(* the first up to the second.                                             *)
LEMMA SegmentsBetween ==
  ASSUME NEW s \in Nat, NEW t \in Nat, NEW b \in Nat, SegmentStart(s) <= b, b < SegmentStart(t)
  PROVE  SegmentOf(b) \in s .. t - 1
<1> DEFINE q == SegmentOf(b)
<1>1. q \in Nat /\ SegmentStart(q) <= b /\ b < SegmentStart(q + 1)
  BY SegmentFacts
<1> HIDE DEF q
<1>2. SegmentStart(q) \in Nat /\ SegmentStart(s) \in Nat /\ SegmentStart(t) \in Nat
      /\ SegmentStart(q + 1) \in Nat
  BY <1>1, StartFacts
<1>3. ~(q + 1 <= s)
  <2> SUFFICES ASSUME q + 1 <= s
               PROVE  FALSE
    OBVIOUS
  <2>1. SegmentStart(q + 1) <= SegmentStart(s)
    BY <1>1, StartMonotone
  <2>2. QED
    BY <1>1, <1>2, <2>1
<1>4. ~(t <= q)
  <2> SUFFICES ASSUME t <= q
               PROVE  FALSE
    OBVIOUS
  <2>1. SegmentStart(t) <= SegmentStart(q)
    BY <1>1, StartMonotone
  <2>2. QED
    BY <1>1, <1>2, <2>1
<1>5. QED
  BY <1>1, <1>3, <1>4 DEF q

-----------------------------------------------------------------------------
(* How an extent lies in its segments.                                     *)

LEMMA ExtentFacts ==
  ASSUME NEW e \in Extent
  PROVE  /\ e.phy_blk \in Nat /\ e.len \in Nat /\ e.zone \in Zones
         /\ ExtentEnd(e) = e.phy_blk + e.len
         /\ FirstSegment(e) \in Nat
         /\ SegmentStart(FirstSegment(e)) \in Nat
         /\ SegmentStart(FirstSegment(e)) <= e.phy_blk
         /\ e.phy_blk < SegmentStart(FirstSegment(e) + 1)
         /\ SegmentStart(FirstSegment(e) + 1) \in Nat
         /\ EndSegment(e) \in Nat
         /\ SegmentStart(EndSegment(e)) \in Nat
         /\ SegmentStart(EndSegment(e)) <= ExtentEnd(e)
         /\ ExtentEnd(e) < SegmentStart(EndSegment(e) + 1)
         /\ FirstSegment(e) <= EndSegment(e)
<1>1. NrZones * ZoneSize \in Nat
  BY GeometryAssumption
<1>2. e.phy_blk \in Nat /\ e.len \in Nat /\ e.zone \in Zones
  BY <1>1 DEF Extent, ZnsBlocks
<1>3. ExtentEnd(e) = e.phy_blk + e.len
  BY DEF ExtentEnd
<1>4. ExtentEnd(e) \in Nat /\ e.phy_blk <= ExtentEnd(e)
  BY <1>2, <1>3
<1>5. /\ FirstSegment(e) \in Nat
      /\ SegmentStart(FirstSegment(e)) <= e.phy_blk
      /\ e.phy_blk < SegmentStart(FirstSegment(e) + 1)
  BY <1>2, SegmentFacts DEF FirstSegment
<1>6. /\ EndSegment(e) \in Nat
      /\ SegmentStart(EndSegment(e)) <= ExtentEnd(e)
      /\ ExtentEnd(e) < SegmentStart(EndSegment(e) + 1)
  BY <1>4, SegmentFacts DEF EndSegment
<1>7. FirstSegment(e) <= EndSegment(e)
  BY <1>2, <1>4, SegmentMonotone DEF FirstSegment, EndSegment
<1>8. /\ SegmentStart(FirstSegment(e)) \in Nat
      /\ SegmentStart(FirstSegment(e) + 1) \in Nat
      /\ SegmentStart(EndSegment(e)) \in Nat
  BY <1>5, <1>6, StartFacts
<1>9. QED
  BY <1>2, <1>3, <1>5, <1>6, <1>7, <1>8

(* An extent that is not in one segment ends in a later one than it starts *)
(* in, and in one after the next if it ends where that starts.             *)
LEMMA PartsFacts ==
  ASSUME NEW e \in Extent
  PROVE  /\ InOneSegment(e) =>
              /\ ~HasMiddle(e)
              /\ ExtentEnd(e) <= SegmentStart(FirstSegment(e) + 1)
         /\ ~InOneSegment(e) =>
              /\ FirstSegment(e) + 1 <= EndSegment(e)
              /\ SegmentStart(FirstSegment(e) + 1) <= SegmentStart(EndSegment(e))
              /\ EndsSegment(e) => HasMiddle(e)
              /\ ~HasMiddle(e) => EndSegment(e) = FirstSegment(e) + 1
         /\ HasMiddle(e) => FirstSegment(e) + 2 <= EndSegment(e)
<1>1. /\ FirstSegment(e) \in Nat /\ EndSegment(e) \in Nat /\ FirstSegment(e) <= EndSegment(e)
      /\ ExtentEnd(e) \in Nat
      /\ ExtentEnd(e) < SegmentStart(EndSegment(e) + 1)
      /\ SegmentStart(EndSegment(e)) <= ExtentEnd(e)
  BY ExtentFacts
<1>2. HasMiddle(e) <=> FirstSegment(e) + 2 <= EndSegment(e)
  BY <1>1 DEF HasMiddle
<1>3. SegmentStart(EndSegment(e) + 1) \in Nat /\ SegmentStart(FirstSegment(e) + 1) \in Nat
      /\ SegmentStart(EndSegment(e)) \in Nat
  BY <1>1, StartFacts
<1>4. ASSUME InOneSegment(e)
      PROVE  ~HasMiddle(e) /\ ExtentEnd(e) <= SegmentStart(FirstSegment(e) + 1)
  <2>1. CASE EndSegment(e) = FirstSegment(e)
    BY <1>1, <1>2, <1>3, <2>1
  <2>2. CASE ExtentEnd(e) = SegmentStart(FirstSegment(e) + 1)
    <3>1. EndSegment(e) = FirstSegment(e) + 1
      <4>1. SegmentStart(FirstSegment(e) + 1) < SegmentStart((FirstSegment(e) + 1) + 1)
        BY <1>1, <1>3, StartFacts, SegSizeIsPositive
      <4>2. QED
        BY <1>1, <2>2, <4>1, SegmentIs DEF EndSegment
    <3>2. QED
      BY <1>1, <1>2, <1>3, <2>2, <3>1
  <2>3. QED
    BY <1>4, <2>1, <2>2 DEF InOneSegment
<1>5. ASSUME ~InOneSegment(e)
      PROVE  /\ FirstSegment(e) + 1 <= EndSegment(e)
             /\ SegmentStart(FirstSegment(e) + 1) <= SegmentStart(EndSegment(e))
             /\ EndsSegment(e) => HasMiddle(e)
             /\ ~HasMiddle(e) => EndSegment(e) = FirstSegment(e) + 1
  <2>1. FirstSegment(e) + 1 <= EndSegment(e)
    BY <1>1, <1>5 DEF InOneSegment
  <2>2. ~HasMiddle(e) => EndSegment(e) = FirstSegment(e) + 1
    BY <1>1, <1>2, <2>1
  <2>3. EndsSegment(e) => HasMiddle(e)
    BY <1>5, <2>2 DEF InOneSegment, EndsSegment
  <2>4. QED
    BY <1>1, <2>1, <2>2, <2>3, StartMonotone
<1>6. QED
  BY <1>2, <1>4, <1>5

-----------------------------------------------------------------------------
(* What was printed, as far as it tells of extents.                        *)

LogLine == Line \cup [kind : {"extent"}, pbas : Int, pbae : Int, size : Int, of : Extent]

TellsOf(log, e) == {n \in DOMAIN log : log[n].kind = "extent" /\ log[n].of = e}

ShownIn(log, e) == UNION {BlocksOfLine(log[n]) : n \in TellsOf(log, e)}

ApartIn(log, e) ==
  \A m, n \in TellsOf(log, e) :
    m # n => BlocksOfLine(log[m]) \cap BlocksOfLine(log[n]) = {}

LEMMA LineKinds ==
  ASSUME NEW line \in Line
  PROVE  line.kind # "extent" /\ line \in LogLine
BY DEF Line, LogLine

(* The lines an extent is reported with: headers, and one extent line.     *)
Longer(log, headers, line) == log \o headers \o <<line>>

LEMMA LogGrows ==
  ASSUME NEW log \in Seq(LogLine), NEW headers \in Seq(Line), NEW line \in LogLine
  PROVE  /\ Longer(log, headers, line) \in Seq(LogLine)
         /\ Len(Longer(log, headers, line)) = Len(log) + Len(headers) + 1
         /\ Longer(log, headers, line)[Len(Longer(log, headers, line))] = line
         /\ \A n \in 1 .. Len(log) : Longer(log, headers, line)[n] = log[n]
         /\ \A n \in 1 .. Len(headers) : Longer(log, headers, line)[Len(log) + n] = headers[n]
<1> DEFINE start == log \o headers
           longer == start \o <<line>>
<1>1. headers \in Seq(LogLine)
  BY LineKinds
<1>2. /\ start \in Seq(LogLine)
      /\ Len(start) = Len(log) + Len(headers)
      /\ \A n \in 1 .. Len(log) : start[n] = log[n]
      /\ \A n \in 1 .. Len(headers) : start[Len(log) + n] = headers[n]
  BY <1>1
<1> HIDE DEF start
<1>3. /\ longer \in Seq(LogLine)
      /\ Len(longer) = Len(start) + 1
      /\ longer[Len(start) + 1] = line
      /\ \A n \in 1 .. Len(start) : longer[n] = start[n]
  BY <1>2
<1> HIDE DEF longer
<1>4. Len(log) \in Nat /\ Len(headers) \in Nat
  OBVIOUS
<1>5. /\ longer \in Seq(LogLine)
      /\ Len(longer) = Len(log) + Len(headers) + 1
      /\ longer[Len(longer)] = line
      /\ \A n \in 1 .. Len(log) : longer[n] = log[n]
      /\ \A n \in 1 .. Len(headers) : longer[Len(log) + n] = headers[n]
  BY <1>2, <1>3, <1>4
<1>6. QED
  BY <1>5 DEF longer, start, Longer

LEMMA TellsOfMore ==
  ASSUME NEW log \in Seq(LogLine), NEW headers \in Seq(Line), NEW line \in LogLine,
         line.kind = "extent", NEW e
  PROVE  LET longer == Longer(log, headers, line) IN
         /\ TellsOf(longer, e)
                  = TellsOf(log, e) \cup {n \in {Len(longer)} : line.of = e}
         /\ Len(longer) \notin TellsOf(log, e)
         /\ \A n \in TellsOf(log, e) : longer[n] = log[n]
         /\ longer[Len(longer)] = line
<1> DEFINE longer == Longer(log, headers, line)
<1>1. /\ longer \in Seq(LogLine)
      /\ Len(longer) = Len(log) + Len(headers) + 1
      /\ longer[Len(longer)] = line
      /\ \A n \in 1 .. Len(log) : longer[n] = log[n]
      /\ \A n \in 1 .. Len(headers) : longer[Len(log) + n] = headers[n]
  BY LogGrows
<1> HIDE DEF longer
<1>2. Len(log) \in Nat /\ Len(headers) \in Nat
      /\ DOMAIN log = 1 .. Len(log) /\ DOMAIN longer = 1 .. Len(longer)
  BY <1>1
<1>3. \A n \in 1 .. Len(headers) : longer[Len(log) + n].kind # "extent"
  BY <1>1, LineKinds
<1>4. ASSUME NEW n \in 1 .. Len(longer), longer[n].kind = "extent"
      PROVE  n \in 1 .. Len(log) \/ n = Len(longer)
  <2> SUFFICES ASSUME n > Len(log), n # Len(longer)
               PROVE  FALSE
    BY <1>1, <1>2
  <2>1. n - Len(log) \in 1 .. Len(headers) /\ n = Len(log) + (n - Len(log))
    BY <1>1, <1>2
  <2>2. QED
    BY <1>3, <1>4, <2>1
<1>5. Len(longer) \in 1 .. Len(longer) /\ Len(longer) > Len(log)
  BY <1>1, <1>2
<1>6. \A n \in 1 .. Len(log) : n \in 1 .. Len(longer)
  BY <1>1, <1>2
<1>7. TellsOf(longer, e) = TellsOf(log, e) \cup {n \in {Len(longer)} : line.of = e}
  BY <1>1, <1>2, <1>4, <1>5, <1>6 DEF TellsOf
<1>8. Len(longer) \notin TellsOf(log, e) /\ \A n \in TellsOf(log, e) : longer[n] = log[n]
  BY <1>1, <1>2, <1>5 DEF TellsOf
<1>9. QED
  BY <1>1, <1>7, <1>8 DEF longer

(* A line of another extent changes nothing.                               *)
LEMMA ShownBefore ==
  ASSUME NEW log \in Seq(LogLine), NEW headers \in Seq(Line), NEW line \in LogLine,
         line.kind = "extent", NEW e, line.of # e
  PROVE  LET longer == Longer(log, headers, line) IN
         /\ TellsOf(longer, e) = TellsOf(log, e)
         /\ ShownIn(longer, e) = ShownIn(log, e)
         /\ ApartIn(log, e) => ApartIn(longer, e)
<1> DEFINE longer == Longer(log, headers, line)
<1>1. /\ TellsOf(longer, e) = TellsOf(log, e) \cup {n \in {Len(longer)} : line.of = e}
      /\ \A n \in TellsOf(log, e) : longer[n] = log[n]
  BY TellsOfMore
<1> HIDE DEF longer
<1>a. TellsOf(longer, e) = TellsOf(log, e)
  BY <1>1
<1>2. ShownIn(longer, e) = ShownIn(log, e)
  BY <1>1, <1>a DEF ShownIn
<1>3. ApartIn(log, e) => ApartIn(longer, e)
  BY <1>1, <1>a DEF ApartIn
<1>4. QED
  BY <1>a, <1>2, <1>3 DEF longer

LEMMA ShownAfter ==
  ASSUME NEW log \in Seq(LogLine), NEW headers \in Seq(Line), NEW line \in LogLine,
         line.kind = "extent", NEW e, line.of = e,
         ApartIn(log, e), \A b \in BlocksOfLine(line) : b \notin ShownIn(log, e)
  PROVE  LET longer == Longer(log, headers, line) IN
         /\ TellsOf(longer, e) # {}
         /\ ShownIn(longer, e) = ShownIn(log, e) \cup BlocksOfLine(line)
         /\ ApartIn(longer, e)
<1> DEFINE longer == Longer(log, headers, line)
<1>1. /\ TellsOf(longer, e) = TellsOf(log, e) \cup {n \in {Len(longer)} : line.of = e}
      /\ Len(longer) \notin TellsOf(log, e)
      /\ \A n \in TellsOf(log, e) : longer[n] = log[n]
      /\ longer[Len(longer)] = line
  BY TellsOfMore
<1> HIDE DEF longer
<1>2. TellsOf(longer, e) = TellsOf(log, e) \cup {Len(longer)}
  BY <1>1
<1>3. ShownIn(longer, e) = ShownIn(log, e) \cup BlocksOfLine(line)
  BY <1>1, <1>2 DEF ShownIn
<1>4. \A n \in TellsOf(log, e) : BlocksOfLine(longer[n]) \cap BlocksOfLine(line) = {}
  BY <1>1 DEF ShownIn
<1>5. ApartIn(longer, e)
  <2> SUFFICES ASSUME NEW m \in TellsOf(longer, e), NEW n \in TellsOf(longer, e), m # n
               PROVE  BlocksOfLine(longer[m]) \cap BlocksOfLine(longer[n]) = {}
    BY DEF ApartIn
  <2>1. CASE m = Len(longer)
    BY <1>1, <1>2, <1>4, <2>1
  <2>2. CASE n = Len(longer)
    BY <1>1, <1>2, <1>4, <2>2
  <2>3. CASE m # Len(longer) /\ n # Len(longer)
    BY <1>1, <1>2, <2>3 DEF ApartIn
  <2>4. QED
    BY <2>1, <2>2, <2>3
<1>6. QED
  BY <1>2, <1>3, <1>5 DEF longer

-----------------------------------------------------------------------------
(* The walk through the zone map.                                          *)

LEMMA MapFacts ==
  ASSUME NEW map \in ZoneMaps
  PROVE  /\ ExtentsIn(map) \subseteq Extent
         /\ \A z \in Zones :
              /\ map[z].extents \in Seq(ExtentsIn(map))
              /\ map[z].extents \in Seq(Extent)
              /\ map[z].extent_ctr = Len(map[z].extents)
              /\ \A j \in 1 .. Len(map[z].extents) : map[z].extents[j].zone = z
              /\ \A j, k \in 1 .. Len(map[z].extents) :
                   /\ j < k => map[z].extents[j].phy_blk <= map[z].extents[k].phy_blk
                   /\ map[z].extents[j] = map[z].extents[k] => j = k
         /\ \A e \in ExtentsIn(map) :
              /\ e.zone \in Zones
              /\ GetZoneNumber(e.phy_blk) = e.zone
              /\ \E j \in 1 .. Len(map[e.zone].extents) : map[e.zone].extents[j] = e
<1>1. /\ map \in [Zones -> [extents : Seq(Extent), extent_ctr : Nat]]
      /\ InDeviceOrder(map) /\ NoneTwice(map)
  BY ReportAssumption
<1>2. \A z \in Zones : /\ map[z].extents \in Seq(Extent)
                       /\ map[z].extent_ctr = Len(map[z].extents)
                       /\ SortedByPhyBlk(map[z].extents)
                       /\ \A e \in Range(map[z].extents) :
                            e.zone = z /\ GetZoneNumber(e.phy_blk) = z
  BY <1>1 DEF InDeviceOrder
<1>3. \A z \in Zones :
        Range(map[z].extents)
          = {map[z].extents[j] : j \in 1 .. Len(map[z].extents)}
  BY <1>2 DEF Range
<1>4. ExtentsIn(map) \subseteq Extent
  <2> SUFFICES ASSUME NEW z \in Zones, NEW e \in Range(map[z].extents)
               PROVE  e \in Extent
    BY DEF ExtentsIn
  <2>1. PICK j \in 1 .. Len(map[z].extents) : e = map[z].extents[j]
    BY <1>3
  <2>2. QED
    BY <1>2, <2>1
<1>5. ASSUME NEW z \in Zones
      PROVE  /\ \A j \in 1 .. Len(map[z].extents) :
                  map[z].extents[j] \in ExtentsIn(map) /\ map[z].extents[j].zone = z
             /\ map[z].extents \in Seq(ExtentsIn(map))
  <2>1. \A j \in 1 .. Len(map[z].extents) :
          map[z].extents[j] \in ExtentsIn(map) /\ map[z].extents[j].zone = z
    BY <1>2, <1>3 DEF ExtentsIn
  <2>2. QED
    BY <1>2, <2>1
<1>6. \A z \in Zones :
        \A j, k \in 1 .. Len(map[z].extents) :
          /\ j < k => map[z].extents[j].phy_blk <= map[z].extents[k].phy_blk
          /\ map[z].extents[j] = map[z].extents[k] => j = k
  BY <1>1, <1>2 DEF SortedByPhyBlk, NoneTwice
<1>7. ASSUME NEW e \in ExtentsIn(map)
      PROVE  /\ e.zone \in Zones
             /\ GetZoneNumber(e.phy_blk) = e.zone
             /\ \E j \in 1 .. Len(map[e.zone].extents) : map[e.zone].extents[j] = e
  <2>1. PICK z \in Zones : e \in Range(map[z].extents)
    BY DEF ExtentsIn
  <2>2. e.zone = z /\ GetZoneNumber(e.phy_blk) = z
    BY <1>2, <2>1
  <2>3. \E j \in 1 .. Len(map[z].extents) : map[z].extents[j] = e
    BY <1>3, <2>1
  <2>4. QED
    BY <2>2, <2>3
<1>8. QED
  BY <1>2, <1>4, <1>5, <1>6, <1>7

Mid == {"single", "beginning", "middle", "remainder"}

(* The extents from some node of a list on.                                *)
RestOf(rest, list) ==
  /\ Len(rest) <= Len(list)
  /\ \A j \in 1 .. Len(rest) : rest[j] = list[Len(list) - Len(rest) + j]

(* Where the loops are, and what of the current extent is still to come.   *)
WalkOK ==
  /\ zones \in ZoneMaps
  /\ start_zone \in Nat /\ end_zone \in Nat
  /\ nr_files \in Nat
  /\ \A e \in ExtentsIn(zones) : e.fileID < nr_files
  /\ i \in 0 .. NrZones
  /\ pc \in {"zone", "list", "done"} \cup Mid
  /\ current \in Seq(ExtentsIn(zones))
  /\ segment_id \in Nat
  /\ pc \in {"list"} \cup Mid => i < NrZones /\ RestOf(current, zones[i].extents)
  /\ pc \in Mid =>
       /\ current # <<>>
       /\ Selected(TheExtent)
       /\ segment_id = IF pc \in {"single", "beginning"} \/ StartsSegment(TheExtent)
                       THEN FirstSegment(TheExtent)
                       ELSE FirstSegment(TheExtent) + 1
       /\ InOneSegment(TheExtent) <=> pc = "single"
  /\ pc = "done" => i = NrZones

LEMMA OptionTypes ==
  ASSUME NEW o \in Options
  PROVE  o[1] \in Nat /\ o[2] \in Nat
<1>1. NrZones \in Nat /\ OptionValues \subseteq Nat
  BY GeometryAssumption, SegmentAssumption
<1>2. CASE o \in {<<z, z>> : z \in OptionValues}
  BY <1>1, <1>2
<1>3. CASE o \in {<<IF s = 0 THEN 1 ELSE s, IF e = 0 THEN NrZones ELSE e>> :
                    s, e \in OptionValues}
  <2>1. PICK s \in OptionValues, e \in OptionValues :
          o = <<IF s = 0 THEN 1 ELSE s, IF e = 0 THEN NrZones ELSE e>>
    BY <1>3
  <2>2. QED
    BY <1>1, <2>1
<1>4. QED
  BY <1>2, <1>3 DEF Options

LEMMA TheExtentFacts ==
  ASSUME WalkOK, current # <<>>
  PROVE  /\ TheExtent \in ExtentsIn(zones)
         /\ TheExtent \in Extent
         /\ Len(current) \in Nat \ {0}
         /\ TheExtent = current[1]
         /\ Tail(current) \in Seq(ExtentsIn(zones))
         /\ Len(Tail(current)) = Len(current) - 1
         /\ \A j \in 1 .. Len(current) - 1 : Tail(current)[j] = current[j + 1]
<1>1. current \in Seq(ExtentsIn(zones)) /\ ExtentsIn(zones) \subseteq Extent
  BY MapFacts DEF WalkOK
<1>2. QED
  BY <1>1 DEF TheExtent

LEMMA RestOfTail ==
  ASSUME WalkOK, current # <<>>, NEW list \in Seq(ExtentsIn(zones)), RestOf(current, list)
  PROVE  RestOf(Tail(current), list)
<1>1. /\ Len(current) \in Nat \ {0}
      /\ Len(Tail(current)) = Len(current) - 1
      /\ \A j \in 1 .. Len(current) - 1 : Tail(current)[j] = current[j + 1]
      /\ Len(list) \in Nat
  BY TheExtentFacts
<1>2. ASSUME NEW j \in 1 .. Len(current) - 1
      PROVE  Tail(current)[j] = list[Len(list) - (Len(current) - 1) + j]
  <2>1. j + 1 \in 1 .. Len(current) /\ Tail(current)[j] = current[j + 1]
    BY <1>1
  <2>2. Len(list) - Len(current) + (j + 1) = Len(list) - (Len(current) - 1) + j
    BY <1>1
  <2>3. QED
    BY <2>1, <2>2 DEF RestOf
<1>3. QED
  BY <1>1, <1>2 DEF RestOf

LEMMA WalkInit ==
  ASSUME Init
  PROVE  WalkOK
<1>1. PICK o \in Options : start_zone = o[1] /\ end_zone = o[2]
  BY DEF Init
<1>2. NrZones \in Nat /\ MaxFiles \in Nat
  BY GeometryAssumption, ReportAssumption
<1>3. start_zone \in Nat /\ end_zone \in Nat
  BY <1>1, OptionTypes
<1>4. nr_files \in Nat /\ \A e \in ExtentsIn(zones) : e.fileID < nr_files
  BY <1>2 DEF Init
<1>5. zones \in ZoneMaps /\ i = 0 /\ pc = "zone" /\ current = <<>> /\ segment_id = 0
  BY DEF Init
<1>6. <<>> \in Seq(ExtentsIn(zones))
  OBVIOUS
<1>7. QED
  BY <1>2, <1>3, <1>4, <1>5, <1>6 DEF WalkOK, Mid

(* The zone map, and what was selected, does not change.                   *)
LEMMA InputsStay ==
  ASSUME [Next]_vars
  PROVE  /\ zones' = zones /\ nr_files' = nr_files
         /\ start_zone' = start_zone /\ end_zone' = end_zone
<1>1. CASE Walk
  BY <1>1 DEF Walk, input_vars, vars, EnterZone, SkipZone, LeaveZone, ContinueBelowStart,
       EnterExtent, ShowSingle, ShowBeginning, NoBeginning, ShowMiddle, NoMiddle,
       ShowRemainder, NoRemainder, ShowStats
<1>2. QED
  BY <1>1 DEF Next, Finished, vars, input_vars

(* The steps that are done with the current extent.                        *)
Done ==
  \/ ShowSingle
  \/ ShowRemainder
  \/ NoRemainder

LEMMA WalkStep ==
  ASSUME WalkOK, [Next]_vars
  PROVE  WalkOK'
<1> USE DEF Mid
<1>1. NrZones \in Nat \ {0} /\ Zones = 0 .. NrZones - 1
  BY GeometryAssumption DEF Zones
<1>2. /\ zones \in ZoneMaps /\ i \in 0 .. NrZones /\ pc \in {"zone", "list", "done"} \cup Mid
      /\ current \in Seq(ExtentsIn(zones)) /\ segment_id \in Nat
      /\ start_zone \in Nat /\ end_zone \in Nat /\ nr_files \in Nat
      /\ \A e \in ExtentsIn(zones) : e.fileID < nr_files
  BY DEF WalkOK
<1>3. \A z \in Zones : zones[z].extents \in Seq(ExtentsIn(zones))
  BY <1>2, MapFacts
<1>4. /\ zones' = zones /\ nr_files' = nr_files
      /\ start_zone' = start_zone /\ end_zone' = end_zone
  BY InputsStay
<1>5. ASSUME UNCHANGED <<i, current, segment_id, pc>>
      PROVE  WalkOK'
  BY <1>4, <1>5 DEF WalkOK, TheExtent, Selected
<1>6. CASE EnterZone
  <2>1. i \in Zones
    BY <1>1, <1>2, <1>6 DEF EnterZone
  <2>2. RestOf(zones[i].extents, zones[i].extents)
    <3> DEFINE list == zones[i].extents
    <3>1. list \in Seq(ExtentsIn(zones))
      BY <1>3, <2>1
    <3> HIDE DEF list
    <3>2. RestOf(list, list)
      BY <3>1 DEF RestOf
    <3>3. QED
      BY <3>2 DEF list
  <2>3. /\ pc' = "list" /\ i' = i /\ i < NrZones /\ current' = zones[i].extents
        /\ segment_id' = segment_id
    BY <1>6 DEF EnterZone
  <2>4. QED
    BY <1>2, <1>3, <1>4, <2>1, <2>2, <2>3 DEF WalkOK
<1>7. CASE SkipZone
  BY <1>1, <1>2, <1>4, <1>7 DEF SkipZone, WalkOK
<1>8. CASE LeaveZone
  <2>1. i < NrZones
    BY <1>8 DEF WalkOK, LeaveZone
  <2>2. QED
    BY <1>1, <1>2, <1>4, <1>8, <2>1 DEF LeaveZone, WalkOK
<1>9. CASE EnterExtent
  <2>1. TheExtent \in Extent
    BY <1>9, TheExtentFacts DEF EnterExtent
  <2>2. FirstSegment(TheExtent) \in Nat
    BY <2>1, ExtentFacts
  <2>3. /\ TheExtent' = TheExtent
        /\ Selected(TheExtent)' = Selected(TheExtent)
    BY <1>4, <1>9 DEF EnterExtent, TheExtent, Selected
  <2>4. /\ pc = "list" /\ pc' = IF InOneSegment(TheExtent) THEN "single" ELSE "beginning"
        /\ i' = i /\ current' = current /\ current # <<>> /\ Selected(TheExtent)
        /\ segment_id' = FirstSegment(TheExtent)
    BY <1>9 DEF EnterExtent
  <2>5. i < NrZones /\ RestOf(current, zones[i].extents)
    BY <2>4 DEF WalkOK
  <2>6. QED
    BY <1>2, <1>4, <2>2, <2>3, <2>4, <2>5 DEF WalkOK
<1>10. ASSUME pc = "beginning", pc' = "middle", current' = current, i' = i,
              segment_id' = IF StartsSegment(TheExtent) THEN segment_id ELSE segment_id + 1
       PROVE  WalkOK'
  <2>1. /\ TheExtent' = TheExtent
        /\ Selected(TheExtent)' = Selected(TheExtent)
    BY <1>4, <1>10 DEF TheExtent, Selected
  <2>2. QED
    BY <1>2, <1>4, <1>10, <2>1 DEF WalkOK
<1>11. CASE ShowBeginning
  BY <1>10, <1>11 DEF ShowBeginning
<1>12. CASE NoBeginning
  BY <1>10, <1>12 DEF NoBeginning
<1>13. ASSUME pc = "middle", pc' = "remainder", UNCHANGED <<i, current, segment_id>>
       PROVE  WalkOK'
  <2>1. /\ TheExtent' = TheExtent
        /\ Selected(TheExtent)' = Selected(TheExtent)
    BY <1>4, <1>13 DEF TheExtent, Selected
  <2>2. QED
    BY <1>2, <1>4, <1>13, <2>1 DEF WalkOK
<1>14. CASE ShowMiddle \/ NoMiddle
  BY <1>13, <1>14 DEF ShowMiddle, NoMiddle
<1>15. CASE Done
  <2>1. /\ pc \in Mid /\ pc' = "list" /\ i' = i /\ current' = Tail(current)
        /\ segment_id' = segment_id
    BY <1>15 DEF Done, ShowSingle, ShowRemainder, NoRemainder, NextExtent
  <2>2. current # <<>> /\ i < NrZones /\ RestOf(current, zones[i].extents)
    BY <2>1 DEF WalkOK
  <2>3. Tail(current) \in Seq(ExtentsIn(zones)) /\ RestOf(Tail(current), zones[i].extents)
    BY <1>1, <1>2, <1>3, <2>2, TheExtentFacts, RestOfTail
  <2>4. QED
    BY <1>2, <1>4, <2>1, <2>2, <2>3 DEF WalkOK
<1>16. CASE ShowStats
  BY <1>1, <1>2, <1>4, <1>16 DEF ShowStats, WalkOK
<1>17. CASE ContinueBelowStart \/ Finished \/ UNCHANGED vars
  BY <1>5, <1>17 DEF ContinueBelowStart, Finished, vars
<1>18. QED
  BY <1>6, <1>7, <1>8, <1>9, <1>11, <1>12, <1>14, <1>15, <1>16, <1>17 DEF Next, Walk, Done

-----------------------------------------------------------------------------
(* The lines each step prints.                                             *)

(* The line of a segment header, a range or a zone.                        *)
LEMMA HeaderLines ==
  ASSUME NEW s \in Nat, NEW t \in Nat
  PROVE  SegmentLine(s) \in Line /\ RangeLine(s, t) \in Line /\ ZoneLine(s) \in Line
BY DEF SegmentLine, RangeLine, ZoneLine, Line

LEMMA HeaderOfSegment ==
  ASSUME NEW s \in Nat
  PROVE  /\ SegmentInfo(s) \in Seq(Line)
         /\ cur_segment = s => SegmentInfo(s) = <<>>
         /\ cur_segment # s =>
              /\ SegmentInfo(s) = <<SegmentLine(s)>>
              /\ Len(SegmentInfo(s)) = 1
              /\ SegmentInfo(s)[1].kind = "segment"
              /\ SegmentInfo(s)[1].first = s
<1>1. SegmentLine(s) \in Line
  BY HeaderLines
<1>2. QED
  BY <1>1 DEF SegmentInfo, SegmentLine

LEMMA LineOfExtent ==
  ASSUME NEW e \in Extent, NEW pbas \in Int, NEW pbae \in Int, NEW size \in Int
  PROVE  LET line == ExtentLine(pbas, pbae, size, e)
         IN  /\ line \in LogLine
             /\ line.kind = "extent"
             /\ line.of = e
             /\ BlocksOfLine(line) = pbae - size .. pbae - 1
BY DEF ExtentLine, LogLine, BlocksOfLine

(* The headers that lead from one segment to another: none, if that is the *)
(* same, and otherwise that of the other.                                  *)
Leads(headers, from, to) ==
  \/ /\ from = to
     /\ \A n \in 1 .. Len(headers) : headers[n].kind # "segment"
  \/ /\ from # to
     /\ \E n \in 1 .. Len(headers) :
          /\ headers[n].kind = "segment" /\ headers[n].first = to
          /\ \A m \in 1 .. Len(headers) : m # n => headers[m].kind # "segment"

(* Every segment of the blocks is that of the header, or in a range.       *)
Announce(headers, segment, from, behind) ==
  \A b \in from .. behind - 1 :
    \/ SegmentOf(b) = segment
    \/ \E n \in 1 .. Len(headers) :
         /\ headers[n].kind = "range"
         /\ SegmentOf(b) \in headers[n].first .. headers[n].last

(* A step reports the blocks of an extent from one on up to another, under *)
(* the header of a segment.                                                *)
Shows(e, from, behind, segment) ==
  /\ cur_segment' = segment
  /\ \E headers \in Seq(Line), line \in LogLine :
       /\ lines' = Longer(lines, headers, line)
       /\ line.kind = "extent"
       /\ line.of = e
       /\ BlocksOfLine(line) = from .. behind - 1
       /\ Leads(headers, cur_segment, segment)
       /\ Announce(headers, segment, from, behind)

LEMMA ShownInSegment ==
  ASSUME NEW e \in Extent, NEW s \in Nat, NEW from \in Int, NEW behind \in Int,
         ShowInSegment(s, ExtentLine(from, behind, behind - from, e)),
         \A b \in from .. behind - 1 : SegmentOf(b) = s
  PROVE  Shows(e, from, behind, s)
<1> DEFINE line == ExtentLine(from, behind, behind - from, e)
<1>1. /\ line \in LogLine /\ line.kind = "extent" /\ line.of = e
      /\ BlocksOfLine(line) = behind - (behind - from) .. behind - 1
  BY LineOfExtent
<1>2. lines' = Longer(lines, SegmentInfo(s), line) /\ cur_segment' = s
  BY DEF ShowInSegment, Longer
<1> HIDE DEF line
<1>3. behind - (behind - from) = from
  OBVIOUS
<1>4. SegmentInfo(s) \in Seq(Line) /\ Leads(SegmentInfo(s), cur_segment, s)
  BY HeaderOfSegment, SMTT(30) DEF Leads
<1>5. Announce(SegmentInfo(s), s, from, behind)
  BY DEF Announce
<1>6. QED
  BY <1>1, <1>2, <1>3, <1>4, <1>5 DEF Shows

LEMMA SingleShows ==
  ASSUME WalkOK, ShowSingle
  PROVE  Shows(TheExtent, TheExtent.phy_blk, ExtentEnd(TheExtent), segment_id)
<1>1. /\ current # <<>> /\ segment_id \in Nat
      /\ segment_id = FirstSegment(TheExtent) /\ InOneSegment(TheExtent)
  BY DEF WalkOK, ShowSingle, Mid
<1> DEFINE e == TheExtent
<1>2. e \in Extent
  BY <1>1, TheExtentFacts
<1>3. ShowInSegment(segment_id, ExtentLine(e.phy_blk, ExtentEnd(e), e.len, e))
  BY DEF ShowSingle
<1> HIDE DEF e
<1>4. e.phy_blk \in Int /\ ExtentEnd(e) \in Int /\ e.len = ExtentEnd(e) - e.phy_blk
  BY <1>2, ExtentFacts
<1>5. \A b \in e.phy_blk .. ExtentEnd(e) - 1 : SegmentOf(b) = FirstSegment(e)
  <2>1. /\ FirstSegment(e) \in Nat /\ e.phy_blk \in Nat /\ ExtentEnd(e) \in Nat
        /\ SegmentStart(FirstSegment(e)) <= e.phy_blk
        /\ ExtentEnd(e) <= SegmentStart(FirstSegment(e) + 1)
        /\ SegmentStart(FirstSegment(e)) \in Nat
        /\ SegmentStart(FirstSegment(e) + 1) \in Nat
    BY <1>1, <1>2, ExtentFacts, PartsFacts DEF e
  <2>2. QED
    BY <2>1, SegmentIs
<1>6. Shows(e, e.phy_blk, ExtentEnd(e), segment_id)
  BY <1>1, <1>2, <1>3, <1>4, <1>5, ShownInSegment DEF e
<1>7. QED
  BY <1>6 DEF e

LEMMA BeginningShows ==
  ASSUME WalkOK, ShowBeginning
  PROVE  Shows(TheExtent, TheExtent.phy_blk, SegmentStart(segment_id + 1), segment_id)
<1>1. /\ current # <<>> /\ segment_id \in Nat
      /\ segment_id = FirstSegment(TheExtent)
  BY DEF WalkOK, ShowBeginning, Mid
<1> DEFINE e == TheExtent
           behind == SegmentStart(segment_id + 1)
<1>2. e \in Extent
  BY <1>1, TheExtentFacts
<1>3. ShowInSegment(segment_id, ExtentLine(e.phy_blk, behind, behind - e.phy_blk, e))
  BY DEF ShowBeginning
<1>4. behind \in Int
  BY <1>1, StartFacts
<1>5. e.phy_blk \in Int /\ \A b \in e.phy_blk .. behind - 1 : SegmentOf(b) = segment_id
  <2> HIDE DEF e
  <2>1. /\ segment_id = FirstSegment(e) /\ e.phy_blk \in Nat
        /\ SegmentStart(FirstSegment(e)) <= e.phy_blk
        /\ SegmentStart(FirstSegment(e)) \in Nat
    BY <1>1, <1>2, ExtentFacts DEF e
  <2>2. QED
    BY <1>1, <1>4, <2>1, SegmentIs
<1> HIDE DEF e, behind
<1>6. Shows(e, e.phy_blk, behind, segment_id)
  BY <1>1, <1>2, <1>3, <1>4, <1>5, ShownInSegment
<1>7. QED
  BY <1>6 DEF e, behind

LEMMA RemainderShows ==
  ASSUME WalkOK, ShowRemainder
  PROVE  Shows(TheExtent, SegmentStart(EndSegment(TheExtent)), ExtentEnd(TheExtent),
               EndSegment(TheExtent))
<1>1. current # <<>>
  BY DEF WalkOK, ShowRemainder, Mid
<1> DEFINE e == TheExtent
           first == SegmentStart(EndSegment(e))
<1>2. e \in Extent
  BY <1>1, TheExtentFacts
<1>3. ShowInSegment(EndSegment(e), ExtentLine(first, ExtentEnd(e), ExtentEnd(e) - first, e))
  BY DEF ShowRemainder
<1> HIDE DEF e
<1>4. /\ first \in Nat /\ ExtentEnd(e) \in Nat /\ EndSegment(e) \in Nat
      /\ ExtentEnd(e) < SegmentStart(EndSegment(e) + 1)
      /\ SegmentStart(EndSegment(e) + 1) \in Nat
  BY <1>2, ExtentFacts, StartFacts
<1>7. \A b \in first .. ExtentEnd(e) - 1 : SegmentOf(b) = EndSegment(e)
  BY <1>4, SegmentIs
<1> HIDE DEF first
<1>5. Shows(e, first, ExtentEnd(e), EndSegment(e))
  BY <1>2, <1>3, <1>4, <1>7, ShownInSegment
<1>6. QED
  BY <1>5 DEF e, first

LEMMA MiddleShows ==
  ASSUME WalkOK, ShowMiddle
  PROVE  Shows(TheExtent, SegmentStart(segment_id), SegmentStart(EndSegment(TheExtent)),
               segment_id)
<1>1. current # <<>> /\ segment_id \in Nat
  BY DEF WalkOK, ShowMiddle, Mid
<1> DEFINE e == TheExtent
           from == SegmentStart(segment_id)
           behind == SegmentStart(EndSegment(e))
<1>2. e \in Extent
  BY <1>1, TheExtentFacts
<1>3. /\ lines' = lines \o (IF EndSegment(e) - segment_id = 1
                            THEN OneSegmentLines ELSE SegmentRangeLines)
      /\ cur_segment' = segment_id
  BY DEF ShowMiddle
<1>4. EndSegment(e) \in Nat /\ from \in Int /\ behind \in Int /\ HasMiddle(e)
  BY <1>1, <1>2, ExtentFacts, StartFacts DEF ShowMiddle
<1>5. behind - from = (EndSegment(e) - segment_id) * SegSize
  BY <1>1, <1>4, SegSizeIsPositive DEF SegmentStart
<1>6. SegmentInfo(segment_id) \in Seq(Line)
      /\ Leads(SegmentInfo(segment_id), cur_segment, segment_id)
  BY <1>1, HeaderOfSegment, SMTT(30) DEF Leads
<1>9. ASSUME NEW b \in from .. behind - 1
      PROVE  SegmentOf(b) \in segment_id .. EndSegment(e) - 1
  <2>1. b \in Nat /\ from <= b /\ b < behind
    <3>1. from \in Nat /\ behind \in Nat
      BY <1>1, <1>2, StartFacts, ExtentFacts
    <3> HIDE DEF from, behind
    <3>2. QED
      BY <3>1, <1>9
  <2>2. QED
    BY <1>1, <1>4, <2>1, SegmentsBetween
<1>7. CASE EndSegment(e) - segment_id = 1
  <2> DEFINE line == ExtentLine(segment_id, behind, SegSize, e)
  <2>1. lines' = lines \o (SegmentInfo(segment_id) \o <<line>>)
    BY <1>3, <1>7 DEF OneSegmentLines
  <2>2. behind - SegSize = from
    BY <1>4, <1>5, <1>7, SegSizeIsPositive
  <2>3. /\ line \in LogLine /\ line.kind = "extent" /\ line.of = e
        /\ BlocksOfLine(line) = behind - SegSize .. behind - 1
    BY <1>1, <1>2, <1>4, SegSizeIsPositive, LineOfExtent
  <2>6. Announce(SegmentInfo(segment_id), segment_id, from, behind)
    <3> HIDE DEF e, behind, from
    <3>1. \A b \in from .. behind - 1 : SegmentOf(b) = segment_id
      BY <1>1, <1>4, <1>7, <1>9
    <3>2. QED
      BY <3>1 DEF Announce
  <2> HIDE DEF line, e, behind, from
  <2>4. Shows(e, from, behind, segment_id)
    <3> SUFFICES lines' = Longer(lines, SegmentInfo(segment_id), line)
      BY <1>3, <1>6, <2>2, <2>3, <2>6 DEF Shows
    <3> QED
      BY <2>1 DEF Longer
  <2>5. QED
    BY <2>4 DEF e, from, behind
<1>8. CASE EndSegment(e) - segment_id # 1
  <2> DEFINE size == (EndSegment(e) - segment_id) * SegSize
             line == ExtentLine(from, behind, size, e)
             range == RangeLine(segment_id, EndSegment(e) - 1)
             headers == <<range>> \o SegmentInfo(segment_id)
  <2>1. lines' = lines \o (headers \o <<line>>)
    BY <1>3, <1>8 DEF SegmentRangeLines
  <2>2. EndSegment(e) - 1 \in Nat
    BY <1>1, <1>2, <1>4, PartsFacts, ExtentFacts
  <2>3. range \in Line
    BY <1>1, <2>2, HeaderLines
  <2> HIDE DEF range
  <2>4. headers \in Seq(Line)
    BY <1>6, <2>3
  <2>5. size \in Int /\ behind - size = from
    BY <1>1, <1>4, <1>5, SegSizeIsPositive
  <2> HIDE DEF size
  <2>6. /\ line \in LogLine /\ line.kind = "extent" /\ line.of = e
        /\ BlocksOfLine(line) = behind - size .. behind - 1
    BY <1>2, <1>4, <2>5, LineOfExtent
  <2>9. Leads(headers, cur_segment, segment_id) /\ Announce(headers, segment_id, from, behind)
    <3> DEFINE info == SegmentInfo(segment_id)
               last == EndSegment(e) - 1
    <3> HIDE DEF e, behind, from
    <3>1. range.kind = "range" /\ range.first = segment_id /\ range.last = last
      BY DEF range, RangeLine
    <3>2. /\ cur_segment = segment_id => info = <<>>
          /\ cur_segment # segment_id =>
               info = <<SegmentLine(segment_id)>> /\ SegmentLine(segment_id) \in Line
      BY <1>1, HeaderOfSegment, HeaderLines
    <3>3. SegmentLine(segment_id).kind = "segment" /\ SegmentLine(segment_id).first = segment_id
      BY DEF SegmentLine
    <3> HIDE DEF info, last
    <3>4. headers = <<range>> \o info
      BY DEF info
    <3> HIDE DEF headers
    <3> DEFINE header == SegmentLine(segment_id)
               Led == /\ Leads(headers, cur_segment, segment_id)
                      /\ Len(headers) \in Nat \ {0} /\ headers[1] = range
    <3>5. ASSUME cur_segment = segment_id
          PROVE  Led
      <4>1. headers = <<range>> \o <<>>
        BY <3>2, <3>4, <3>5
      <4>2. Len(headers) = 1 /\ headers[1] = range
        BY <2>3, <4>1
      <4>3. \A n \in 1 .. Len(headers) : headers[n].kind # "segment"
        BY <3>1, <4>2
      <4>4. Leads(headers, cur_segment, segment_id)
        BY <3>5, <4>3 DEF Leads
      <4>5. QED
        BY <4>2, <4>4
    <3>7. ASSUME cur_segment # segment_id
          PROVE  Led
      <4>1. headers = <<range>> \o <<header>> /\ header \in Line
        BY <3>2, <3>4, <3>7
      <4>2. header.kind = "segment" /\ header.first = segment_id
        BY <3>3
      <4> HIDE DEF header
      <4>3. Len(headers) = 2 /\ headers[1] = range /\ headers[2] = header
        BY <2>3, <4>1
      <4>4. \A n \in 1 .. Len(headers) : n = 1 \/ n = 2
        BY <4>3
      <4>5. \A n \in 1 .. Len(headers) : n # 2 => headers[n].kind # "segment"
        BY <3>1, <4>3, <4>4
      <4>6. 2 \in 1 .. Len(headers)
        BY <4>3
      <4>7. Leads(headers, cur_segment, segment_id)
        BY <3>7, <4>2, <4>3, <4>5, <4>6 DEF Leads
      <4>8. QED
        BY <4>3, <4>7
    <3>8. Led
      BY <3>5, <3>7
    <3>6. Announce(headers, segment_id, from, behind)
      <4>1. 1 \in 1 .. Len(headers)
        BY <3>8
      <4>2. QED
        BY <1>9, <3>1, <3>8, <4>1 DEF Announce, last
    <3>9. QED
      BY <3>6, <3>8
  <2> HIDE DEF line, e, behind, from, headers
  <2>7. Shows(e, from, behind, segment_id)
    <3> SUFFICES lines' = Longer(lines, headers, line)
      BY <1>3, <2>4, <2>5, <2>6, <2>9 DEF Shows
    <3> QED
      BY <2>1 DEF Longer
  <2>8. QED
    BY <2>7 DEF e, from, behind
<1>10. QED
  BY <1>7, <1>8

-----------------------------------------------------------------------------
(* The types of the counters and of the log.                               *)

FileCounters ==
  [segment_ctr : Nat, zone_ctr : Nat, last_segment_id : Nat, last_zone : Zones,
   ctr : [Types -> Nat]]

StatsEntry ==
  [filename : Names, segment_ctr : Nat, zone_ctr : Nat, last_zone : Nat,
   ctr : [Types -> Nat]]

LogOK ==
  /\ current_zone \in Zones
  /\ cur_segment \in Nat
  /\ lines \in Seq(LogLine)

CountersOK ==
  /\ files \in [Names -> FileCounters]
  /\ segmap_man \in [segment_ctr : Nat, ctr : [Types -> Nat]]
  /\ fs \in Seq(StatsEntry)

(* Cutting an address off, to 32 bits or by a shift, leaves the device no  *)
(* further behind.                                                         *)
LEMMA SegmentZoneInRange ==
  ASSUME NEW e \in Extent
  PROVE  SegmentZone(FirstSegment(e)) \in Zones
<1> DEFINE start == SegmentStart(FirstSegment(e))
           cut == start % (Word * SectorScale)
           lba == cut \div (SectorScale * SectorScale)
<1>1. Word * SectorScale \in Nat \ {0} /\ SectorScale * SectorScale \in Nat \ {0}
  BY GeometryAssumption, ReportAssumption
<1>2. start \in Nat /\ start <= e.phy_blk /\ e.phy_blk \in Nat
  BY ExtentFacts
<1>3. SegmentZone(FirstSegment(e)) = GetZoneNumber(lba)
  BY DEF SegmentZone, SegmentStart
<1> HIDE DEF start
<1>4. cut \in Nat /\ cut <= start
  BY <1>1, <1>2
<1> HIDE DEF cut
<1>5. lba \in Nat /\ lba <= cut
  <2> DEFINE d == SectorScale * SectorScale
  <2>1. d \in Nat \ {0}
    BY <1>1
  <2> HIDE DEF d
  <2>2. cut \div d \in Nat /\ d * (cut \div d) <= cut
    BY <1>4, <2>1, DivisionBounds
  <2> DEFINE q == cut \div d
  <2>3. q \in Nat /\ d * q <= cut
    BY <2>2
  <2> HIDE DEF q
  <2>4. q <= d * q
    BY <2>1, <2>3
  <2>5. q <= cut
    BY <1>4, <2>1, <2>3, <2>4
  <2>6. QED
    BY <2>3, <2>5 DEF q, d
<1> HIDE DEF lba
<1>6. NrZones * ZoneSize \in Nat /\ e.phy_blk \in ZnsBlocks
  BY GeometryAssumption DEF Extent
<1>7. e.phy_blk < NrZones * ZoneSize
  BY <1>6 DEF ZnsBlocks
<1>8. lba \in ZnsBlocks
  BY <1>2, <1>4, <1>5, <1>6, <1>7 DEF ZnsBlocks
<1>9. QED
  BY <1>3, <1>8, ZoneNumberInRange

LEMMA CountTypeType ==
  ASSUME NEW ctr \in [Types -> Nat], NEW type \in Types, NEW n \in Nat
  PROVE  CountType(ctr, type, n) \in [Types -> Nat]
BY DEF CountType

LEMMA CountSegmentsType ==
  ASSUME NEW file \in FileCounters, NEW e \in Extent, NEW n \in Nat
  PROVE  CountSegments(file, e, n) \in FileCounters
<1>1. e.type \in Types /\ FirstSegment(e) \in Nat /\ file.ctr \in [Types -> Nat]
  BY ExtentFacts DEF Extent, FileCounters
<1> DEFINE total == file.segment_ctr + n
           first == FirstSegment(e)
           ctr == CountType(file.ctr, e.type, n)
           counted == [file EXCEPT !.segment_ctr = total, !.last_segment_id = first,
                                   !.ctr = ctr]
<1>2. ctr \in [Types -> Nat] /\ first \in Nat
  BY <1>1, CountTypeType
<1>3. total \in Nat
  BY DEF FileCounters
<1>4. CountSegments(file, e, n) = IF file.last_segment_id = first THEN file ELSE counted
  BY DEF CountSegments
<1> HIDE DEF total, first, ctr
<1>5. counted \in FileCounters
  BY <1>2, <1>3 DEF FileCounters
<1>6. QED
  BY <1>4, <1>5

LEMMA CountZonesType ==
  ASSUME NEW file \in FileCounters, NEW e \in Extent, NEW n \in Nat
  PROVE  CountZones(file, e, n) \in FileCounters
<1> DEFINE zone == SegmentZone(FirstSegment(e))
           more == ((n * SegSize) % ByteWord) \div ZoneCap
           total == file.zone_ctr + more + 1
           counted == [file EXCEPT !.zone_ctr = total, !.last_zone = zone]
<1>1. zone \in Zones
  BY SegmentZoneInRange
<1>2. n * SegSize \in Nat /\ ByteWord \in Nat \ {0} /\ ZoneCap \in Nat \ {0}
  BY SegSizeIsPositive, ReportAssumption
<1>3. more \in Nat
  BY <1>2
<1>4. CountZones(file, e, n) = IF file.last_zone = zone THEN file ELSE counted
  BY DEF CountZones
<1> HIDE DEF zone, more
<1>5. total \in Nat
  BY <1>3 DEF FileCounters
<1> HIDE DEF total
<1>6. counted \in FileCounters
  BY <1>1, <1>5 DEF FileCounters
<1>7. QED
  BY <1>4, <1>6

LEMMA IncreaseType ==
  ASSUME files \in [Names -> FileCounters], NEW e \in Extent, IncreaseFileSegmentCounter(e)
  PROVE  files' \in [Names -> FileCounters]
<1> DEFINE n == NumSegments(e)
           counted == CountZones(CountSegments(files[e.file], e, n), e, n)
<1>1. n \in Nat
  BY ExtentFacts DEF NumSegments
<1>2. e.file \in Names
  BY DEF Extent
<1>3. files' = [files EXCEPT ![e.file] = counted]
  BY DEF IncreaseFileSegmentCounter
<1> HIDE DEF n
<1>4. counted \in FileCounters
  BY <1>1, <1>2, CountSegmentsType, CountZonesType
<1> HIDE DEF counted
<1>5. QED
  BY <1>2, <1>3, <1>4

LEMMA NewStats ==
  ASSUME NEW name \in Names
  PROVE  [filename |-> name, segment_ctr |-> 0, zone_ctr |-> 0, last_zone |-> 0,
          ctr |-> NoCounts] \in StatsEntry
BY DEF StatsEntry, NoCounts

LEMMA FileStatsType ==
  ASSUME fs \in Seq(StatsEntry), NEW name \in Names
  PROVE  FileStats(name) \in Seq(StatsEntry)
BY NewStats DEF FileStats

LEMMA CountInStatsType ==
  ASSUME NEW stats \in StatsEntry, NEW e \in Extent, NEW n \in Nat
  PROVE  /\ CountInStats(stats, e, n) \in StatsEntry
         /\ CountInStats(stats, e, n).filename = stats.filename
<1> DEFINE ctr == CountType(stats.ctr, e.type, n)
<1>1. ctr \in [Types -> Nat] /\ e.zone \in Nat
  <2>1. e.type \in Types /\ stats.ctr \in [Types -> Nat] /\ e.zone \in Zones
    BY DEF Extent, StatsEntry
  <2>2. QED
    BY <2>1, CountTypeType, GeometryAssumption DEF Zones
<1> DEFINE total == stats.segment_ctr + n
           more == IF stats.last_zone = e.zone THEN stats.zone_ctr ELSE stats.zone_ctr + 1
           zone == e.zone
           counted == [stats EXCEPT !.segment_ctr = total, !.zone_ctr = more,
                                    !.last_zone = zone, !.ctr = ctr]
<1>2. total \in Nat /\ more \in Nat /\ zone \in Nat
  BY <1>1 DEF StatsEntry
<1>3. CountInStats(stats, e, n) = IF stats.filename # e.file THEN stats ELSE counted
  BY Zenon DEF CountInStats
<1> HIDE DEF ctr, total, more, zone
<1>4. counted \in StatsEntry /\ counted.filename = stats.filename
  BY <1>1, <1>2 DEF StatsEntry
<1> HIDE DEF counted
<1>5. QED
  BY <1>3, <1>4

(* The counters stay what they are, and segmap_man.fs has the names it had, *)
(* with the name of the extent.                                            *)
LEMMA SetCounters ==
  ASSUME segmap_man \in [segment_ctr : Nat, ctr : [Types -> Nat]], fs \in Seq(StatsEntry),
         NEW e \in Extent, NEW n \in Nat, SetSegmentCounters(e, n)
  PROVE  /\ segmap_man' \in [segment_ctr : Nat, ctr : [Types -> Nat]]
         /\ fs' \in Seq(StatsEntry)
         /\ \/ fs' = fs
            \/ /\ Len(fs') = Len(FileStats(e.file))
               /\ \A k \in 1 .. Len(fs') : fs'[k].filename = FileStats(e.file)[k].filename
<1>1. e.file \in Names /\ e.type \in Types
  BY DEF Extent
<1>2. CASE UNCHANGED <<segmap_man, fs>>
  BY <1>2
<1>3. CASE ~(e.inline /\ ShowInline)
  <2>1. segmap_man' = [segment_ctr |-> segmap_man.segment_ctr + n,
                       ctr |-> CountType(segmap_man.ctr, e.type, n)]
    BY <1>3 DEF SetSegmentCounters
  <2>2. CountType(segmap_man.ctr, e.type, n) \in [Types -> Nat]
    BY <1>1, CountTypeType
  <2>3. segmap_man' \in [segment_ctr : Nat, ctr : [Types -> Nat]]
    BY <2>1, <2>2
  <2> DEFINE stats == FileStats(e.file)
  <2>4. stats \in Seq(StatsEntry)
    BY <1>1, FileStatsType
  <2>5. fs' = IF ShowClassStats /\ nr_files > 1
              THEN [k \in DOMAIN stats |-> CountInStats(stats[k], e, n)]
              ELSE fs
    BY <1>3 DEF SetSegmentCounters
  <2> HIDE DEF stats
  <2> DEFINE counted == [k \in 1 .. Len(stats) |-> CountInStats(stats[k], e, n)]
  <2>6. \A k \in 1 .. Len(stats) : /\ CountInStats(stats[k], e, n) \in StatsEntry
                                   /\ CountInStats(stats[k], e, n).filename = stats[k].filename
    BY <2>4, CountInStatsType
  <2>7. /\ counted \in Seq(StatsEntry)
        /\ Len(counted) = Len(stats)
        /\ \A k \in 1 .. Len(counted) : counted[k].filename = stats[k].filename
    BY <2>4, <2>6
  <2>8. fs' = counted \/ fs' = fs
    BY <2>4, <2>5, SMTT(30)
  <2> HIDE DEF counted
  <2>9. QED
    BY <2>3, <2>7, <2>8 DEF stats
<1>4. QED
  BY <1>2, <1>3 DEF SetSegmentCounters

(* A step that reports nothing prints a zone header at most.               *)
Quiet ==
  \/ lines' = lines
  \/ \E zone \in Zones : lines' = Append(lines, ZoneLine(zone))

LEMMA WhatIsPrinted ==
  ASSUME WalkOK, [Next]_vars
  PROVE  \/ Quiet
         \/ ShowSingle
         \/ ShowBeginning
         \/ ShowMiddle
         \/ ShowRemainder
<1>1. CASE EnterExtent
  <2>1. TheExtent.zone \in Zones
    BY <1>1, TheExtentFacts, ExtentFacts DEF EnterExtent
  <2>2. QED
    BY <1>1, <2>1 DEF EnterExtent, Quiet
<1>2. CASE EnterZone \/ SkipZone \/ LeaveZone \/ ContinueBelowStart \/ NoBeginning
             \/ NoMiddle \/ NoRemainder \/ ShowStats \/ Finished \/ UNCHANGED vars
  BY <1>2 DEF EnterZone, SkipZone, LeaveZone, ContinueBelowStart, NoBeginning, NoMiddle,
     NoRemainder, ShowStats, Finished, vars, Quiet
<1>3. QED
  BY <1>1, <1>2 DEF Next, Walk

LEMMA LogStep ==
  ASSUME WalkOK, LogOK, [Next]_vars
  PROVE  LogOK'
<1>1. current_zone' \in Zones
  <2>1. CASE EnterExtent
    BY <2>1, TheExtentFacts, ExtentFacts DEF EnterExtent
  <2>2. CASE ~EnterExtent
    BY <2>2 DEF Next, Walk, vars, LogOK, EnterZone, SkipZone, LeaveZone, ContinueBelowStart,
         ShowSingle, ShowBeginning, NoBeginning, ShowMiddle, NoMiddle, ShowRemainder,
         NoRemainder, ShowStats, Finished
  <2>3. QED
    BY <2>1, <2>2
<1>2. cur_segment' \in Nat
  <2>1. CASE ShowSingle \/ ShowBeginning \/ ShowMiddle
    BY <2>1 DEF WalkOK, ShowSingle, ShowBeginning, ShowMiddle, ShowInSegment
  <2>2. CASE ShowRemainder
    <3>1. current # <<>>
      BY <2>2 DEF WalkOK, ShowRemainder, Mid
    <3>2. QED
      BY <2>2, <3>1, TheExtentFacts, ExtentFacts DEF ShowRemainder, ShowInSegment
  <2>3. CASE ~(ShowSingle \/ ShowBeginning \/ ShowMiddle \/ ShowRemainder)
    BY <2>3 DEF Next, Walk, vars, LogOK, EnterZone, SkipZone, LeaveZone, ContinueBelowStart,
         EnterExtent, NoBeginning, NoMiddle, NoRemainder, ShowStats, Finished
  <2>4. QED
    BY <2>1, <2>2, <2>3
<1>3. lines' \in Seq(LogLine)
  <2>1. ASSUME NEW e, NEW from, NEW behind, NEW segment, Shows(e, from, behind, segment)
        PROVE  lines' \in Seq(LogLine)
    BY <2>1, LogGrows DEF Shows, LogOK
  <2>2. CASE Quiet
    <3>1. \A zone \in Zones : ZoneLine(zone) \in LogLine
      BY HeaderLines, LineKinds, GeometryAssumption DEF Zones
    <3>2. QED
      BY <2>2, <3>1 DEF Quiet, LogOK
  <2>3. QED
    BY <2>1, <2>2, WhatIsPrinted, SingleShows, BeginningShows, MiddleShows, RemainderShows
<1>4. QED
  BY <1>1, <1>2, <1>3 DEF LogOK

LEMMA CountersStep ==
  ASSUME WalkOK, CountersOK, [Next]_vars
  PROVE  CountersOK'
<1>1. files' \in [Names -> FileCounters]
  <2>1. CASE EnterExtent
    BY <2>1, TheExtentFacts, IncreaseType DEF EnterExtent, CountersOK
  <2>2. CASE ~EnterExtent
    BY <2>2 DEF Next, Walk, vars, CountersOK, EnterZone, SkipZone, LeaveZone,
         ContinueBelowStart, ShowSingle, ShowBeginning, NoBeginning, ShowMiddle, NoMiddle,
         ShowRemainder, NoRemainder, ShowStats, Finished
  <2>3. QED
    BY <2>1, <2>2
<1> DEFINE StatsOK == /\ segmap_man' \in [segment_ctr : Nat, ctr : [Types -> Nat]]
                      /\ fs' \in Seq(StatsEntry)
<1>2. ASSUME UNCHANGED <<segmap_man, fs>>
      PROVE  StatsOK
  BY <1>2 DEF CountersOK
<1>3. ASSUME current # <<>>, NEW n \in Nat, SetSegmentCounters(TheExtent, n)
      PROVE  StatsOK
  BY <1>3, TheExtentFacts, SetCounters DEF CountersOK
<1>4. StatsOK
  <2>1. CASE ShowSingle \/ ShowBeginning \/ ShowRemainder
    <3>1. current # <<>>
      BY <2>1 DEF WalkOK, Mid, ShowSingle, ShowBeginning, ShowRemainder
    <3>2. SetSegmentCounters(TheExtent, 1) \/ UNCHANGED <<segmap_man, fs>>
      BY <2>1 DEF ShowSingle, ShowBeginning, ShowRemainder
    <3>3. QED
      BY <1>2, <1>3, <3>1, <3>2
  <2>2. CASE ShowMiddle
    <3> DEFINE e == TheExtent
               n == EndSegment(e) - segment_id + 1
    <3>1. /\ current # <<>> /\ segment_id \in Nat
          /\ segment_id = FirstSegment(e) \/ segment_id = FirstSegment(e) + 1
      BY <2>2 DEF WalkOK, Mid, ShowMiddle
    <3>2. e \in Extent /\ HasMiddle(e)
      BY <2>2, <3>1, TheExtentFacts DEF ShowMiddle
    <3>3. SetSegmentCounters(e, n) \/ UNCHANGED <<segmap_man, fs>>
      BY <2>2 DEF ShowMiddle
    <3> HIDE DEF e
    <3>4. n \in Nat
      BY <3>1, <3>2, ExtentFacts, PartsFacts
    <3> HIDE DEF n
    <3>5. QED
      BY <1>2, <1>3, <3>1, <3>3, <3>4 DEF e
  <2>3. CASE ~(ShowSingle \/ ShowBeginning \/ ShowMiddle \/ ShowRemainder)
    <3> UNCHANGED <<segmap_man, fs>>
      BY <2>3 DEF Next, Walk, vars, EnterZone, SkipZone, LeaveZone, ContinueBelowStart,
           EnterExtent, NoBeginning, NoMiddle, NoRemainder, ShowStats, Finished
    <3> QED
      BY <1>2
  <2>4. QED
    BY <2>1, <2>2, <2>3
<1>5. QED
  BY <1>1, <1>4 DEF CountersOK

LEMMA LogInit ==
  ASSUME Init
  PROVE  LogOK /\ CountersOK
<1>1. 0 \in Zones
  BY GeometryAssumption DEF Zones
<1>2. NoCounts \in [Types -> Nat]
  BY DEF NoCounts
<1>3. NewFile \in FileCounters
  BY <1>1, <1>2 DEF NewFile, FileCounters
<1>4. LogOK
  BY <1>1 DEF Init, LogOK
<1>5. CountersOK
  BY <1>2, <1>3 DEF Init, CountersOK
<1>6. QED
  BY <1>4, <1>5

ReportOK == WalkOK /\ LogOK /\ CountersOK

LEMMA ReportIsOK == Spec => []ReportOK
<1>1. Init => ReportOK
  BY WalkInit, LogInit DEF ReportOK
<1>2. ReportOK /\ [Next]_vars => ReportOK'
  BY WalkStep, LogStep, CountersStep DEF ReportOK
<1>3. QED
  BY <1>1, <1>2, PTL DEF Spec

(* Every counter, header and entry of the statistics has its type: no      *)
(* count drops below zero, the zone a segment is counted for is one of the *)
(* device although its address is computed with a shift the wrong way and  *)
(* cut to 32 bits, and the loop body runs only with an extent at hand.     *)
THEOREM ReportTypes == Spec => []TypeOK
<1>1. ReportOK => TypeOK
  <2> SUFFICES ASSUME ReportOK
               PROVE  TypeOK
    OBVIOUS
  <2>1. \A n \in DOMAIN lines : lines[n].kind # "extent" => lines[n] \in Line
    <3> SUFFICES ASSUME NEW n \in 1 .. Len(lines), lines[n].kind # "extent"
                 PROVE  lines[n] \in Line
      BY DEF ReportOK, LogOK
    <3>1. lines[n] \in LogLine
      BY DEF ReportOK, LogOK
    <3>2. QED
      BY <3>1 DEF LogLine
  <2>2. QED
    BY <2>1 DEF ReportOK, WalkOK, LogOK, CountersOK, TypeOK, Mid, FileCounters, StatsEntry
<1>2. QED
  BY <1>1, ReportIsOK, PTL

-----------------------------------------------------------------------------
(* The extents the walk is done with, and those still to come.             *)

Walked ==
  {e \in SelectedExtents :
     \/ e.zone < i
     \/ /\ e.zone = i
        /\ pc \in {"list"} \cup Mid
        /\ \A j \in 1 .. Len(current) : current[j] # e}

LEMMA SelectedFacts ==
  ASSUME WalkOK, NEW e \in SelectedExtents
  PROVE  /\ e \in ExtentsIn(zones) /\ e \in Extent /\ e.zone \in Zones
         /\ Selected(e)
         /\ ~BehindEnd(FirstSegment(e), end_zone)
         /\ \E j \in 1 .. Len(zones[e.zone].extents) : zones[e.zone].extents[j] = e
<1>1. e \in ExtentsIn(zones) /\ Selected(e) /\ zones \in ZoneMaps
  BY DEF SelectedExtents, WalkOK
<1>2. QED
  BY <1>1, MapFacts DEF Selected, InZones

LEMMA SelectionStays ==
  ASSUME [Next]_vars
  PROVE  SelectedExtents' = SelectedExtents
BY InputsStay DEF SelectedExtents, Selected

(* A list is left behind the selected zones.                               *)
LEMMA RestIsBehind ==
  ASSUME WalkOK, LeaveZone, NEW j \in 1 .. Len(current)
  PROVE  current[j] \notin SelectedExtents
<1> SUFFICES ASSUME current[j] \in SelectedExtents
             PROVE  FALSE
  OBVIOUS
<1> DEFINE e == current[j]
           list == zones[i].extents
           k == Len(list) - Len(current)
<1>1. /\ current \in Seq(ExtentsIn(zones)) /\ i \in Zones /\ zones \in ZoneMaps
      /\ RestOf(current, list) /\ end_zone \in Nat
  BY GeometryAssumption DEF WalkOK, LeaveZone, Zones
<1>2. current # <<>> /\ Len(current) \in Nat
  BY <1>1
<1>3. BehindEnd(FirstSegment(TheExtent), end_zone)
  BY <1>2 DEF LeaveZone
<1>4. TheExtent \in Extent /\ e \in Extent /\ TheExtent = current[1] /\ 1 \in 1 .. Len(current)
  BY <1>1, <1>2, TheExtentFacts, MapFacts
<1>5. list \in Seq(Extent) /\ Len(list) \in Nat /\ k \in Nat
  <2>1. list \in Seq(Extent)
    BY <1>1, MapFacts
  <2> HIDE DEF list
  <2>2. QED
    BY <1>1, <1>2, <2>1 DEF RestOf
<1>6. TheExtent = list[k + 1] /\ e = list[k + j] /\ k + 1 <= k + j
      /\ k + 1 \in 1 .. Len(list) /\ k + j \in 1 .. Len(list)
  BY <1>1, <1>2, <1>4, <1>5 DEF RestOf
<1>7. \A m, n \in 1 .. Len(list) : m < n => list[m].phy_blk <= list[n].phy_blk
  BY <1>1, MapFacts
<1>8. TheExtent.phy_blk \in Nat /\ e.phy_blk \in Nat
  BY <1>4, ExtentFacts
<1> HIDE DEF e, list, k
<1>9. TheExtent.phy_blk <= e.phy_blk
  <2>1. CASE j = 1
    BY <1>6, <1>8, <2>1
  <2>2. CASE j > 1
    BY <1>5, <1>6, <1>7, <2>2
  <2>3. QED
    BY <2>1, <2>2
<1>10. FirstSegment(TheExtent) <= FirstSegment(e) /\ FirstSegment(TheExtent) \in Nat
       /\ FirstSegment(e) \in Nat
  BY <1>4, <1>8, <1>9, SegmentMonotone, ExtentFacts DEF FirstSegment
<1>11. SegmentStart(FirstSegment(TheExtent)) <= SegmentStart(FirstSegment(e))
       /\ SegmentStart(FirstSegment(TheExtent)) \in Nat
       /\ SegmentStart(FirstSegment(e)) \in Nat
  BY <1>10, StartMonotone, StartFacts
<1>12. end_zone * ZoneSize \in Nat
  BY <1>1, GeometryAssumption
<1>13. BehindEnd(FirstSegment(e), end_zone)
  BY <1>3, <1>11, <1>12 DEF BehindEnd
<1>14. QED
  BY <1>13, SelectedFacts DEF e

LEMMA WalkedInit ==
  ASSUME Init
  PROVE  Walked = {}
<1>1. WalkOK /\ i = 0 /\ pc = "zone"
  BY WalkInit DEF Init
<1>2. \A e \in SelectedExtents : e.zone \in Nat
  BY <1>1, SelectedFacts, GeometryAssumption DEF Zones
<1>3. QED
  BY <1>1, <1>2 DEF Walked, Mid

(* The current extent is selected and not done with.                       *)
LEMMA AtHand ==
  ASSUME WalkOK, pc \in {"list"} \cup Mid, current # <<>>, Selected(TheExtent)
  PROVE  TheExtent \in SelectedExtents \ Walked /\ TheExtent.zone = i
<1>1. /\ i < NrZones /\ i \in Nat
      /\ RestOf(current, zones[i].extents) /\ zones \in ZoneMaps
  BY GeometryAssumption DEF WalkOK
<1>2. TheExtent \in ExtentsIn(zones) /\ TheExtent = current[1] /\ Len(current) \in Nat \ {0}
  BY <1>1, TheExtentFacts
<1>3. TheExtent \in SelectedExtents
  BY <1>1, <1>2 DEF SelectedExtents
<1> DEFINE list == zones[i].extents
<1>4. list \in Seq(Extent) /\ \A j \in 1 .. Len(list) : list[j].zone = i
  BY <1>1, MapFacts, GeometryAssumption DEF Zones
<1>5. RestOf(current, list)
  BY <1>1
<1> HIDE DEF list
<1>6. Len(list) - Len(current) + 1 \in 1 .. Len(list)
      /\ TheExtent = list[Len(list) - Len(current) + 1]
  BY <1>2, <1>4, <1>5 DEF RestOf
<1>7. TheExtent.zone = i
  BY <1>4, <1>6
<1>8. QED
  BY <1>1, <1>2, <1>3, <1>7 DEF Walked

LEMMA InProgress ==
  ASSUME WalkOK, pc \in Mid
  PROVE  /\ TheExtent \in SelectedExtents \ Walked
         /\ TheExtent.zone = i
         /\ current # <<>>
BY AtHand DEF WalkOK

(* A selected extent not done with is the current one or comes after it.   *)
LEMMA StillToCome ==
  ASSUME WalkOK, pc \in {"list"} \cup Mid, NEW e \in SelectedExtents \ Walked
  PROVE  \/ e.zone > i
         \/ e.zone = i /\ \E j \in 1 .. Len(current) : current[j] = e
<1>1. e.zone \in Nat /\ i \in Nat
  BY SelectedFacts, GeometryAssumption DEF Zones, WalkOK
<1>2. QED
  BY <1>1 DEF Walked

LEMMA OneMoreWalked ==
  ASSUME WalkOK, [Next]_vars, Done
  PROVE  Walked' = Walked \cup {TheExtent}
<1>1. /\ pc \in Mid /\ pc' = "list" /\ i' = i /\ current' = Tail(current)
  BY DEF Done, ShowSingle, ShowRemainder, NoRemainder, NextExtent, Mid
<1>2. /\ TheExtent \in SelectedExtents \ Walked /\ current # <<>>
      /\ SelectedExtents' = SelectedExtents
  BY <1>1, InProgress, SelectionStays
<1> DEFINE len == Len(current)
           list == zones[i].extents
           rest == Tail(current)
<1>3. /\ len \in Nat \ {0} /\ TheExtent = current[1]
      /\ Len(rest) = len - 1
      /\ \A j \in 1 .. len - 1 : rest[j] = current[j + 1]
  BY <1>2, TheExtentFacts
<1>4. /\ i \in Zones /\ zones \in ZoneMaps /\ RestOf(current, list)
  BY <1>1, GeometryAssumption DEF WalkOK, Zones
<1>5. /\ list \in Seq(Extent)
      /\ \A j, k \in 1 .. Len(list) : list[j] = list[k] => j = k
  BY <1>4, MapFacts
<1>6. TheExtent.zone = i
  BY <1>1, InProgress
<1> HIDE DEF list, rest
<1>7. \A j \in 1 .. len - 1 : current[j + 1] # TheExtent
  <2> SUFFICES ASSUME NEW j \in 1 .. len - 1, current[j + 1] = current[1]
               PROVE  FALSE
    BY <1>3
  <2> DEFINE k == Len(list) - len
  <2>1. k \in Nat /\ current[1] = list[k + 1] /\ current[j + 1] = list[k + (j + 1)]
    BY <1>3, <1>4, <1>5 DEF RestOf
  <2>2. k + 1 \in 1 .. Len(list) /\ k + (j + 1) \in 1 .. Len(list)
    BY <1>3, <1>4, <1>5 DEF RestOf
  <2>3. QED
    BY <1>5, <2>1, <2>2
<1>8. ASSUME NEW e
      PROVE  (\A j \in 1 .. Len(rest) : rest[j] # e)
               <=> (\A j \in 1 .. len : current[j] # e) \/ e = TheExtent
  <2>1. ASSUME \A j \in 1 .. Len(rest) : rest[j] # e, e # TheExtent, NEW j \in 1 .. len
        PROVE  current[j] # e
    <3>1. CASE j = 1
      BY <1>3, <2>1, <3>1
    <3>2. CASE j # 1
      <4>1. j - 1 \in 1 .. len - 1 /\ rest[j - 1] = current[(j - 1) + 1] /\ (j - 1) + 1 = j
        BY <1>3, <3>2
      <4>2. QED
        BY <1>3, <2>1, <4>1
    <3>3. QED
      BY <3>1, <3>2
  <2>2. ASSUME \A j \in 1 .. len : current[j] # e, NEW j \in 1 .. Len(rest)
        PROVE  rest[j] # e
    BY <1>3, <2>2
  <2>3. ASSUME e = TheExtent, NEW j \in 1 .. Len(rest)
        PROVE  rest[j] # e
    BY <1>3, <1>7, <2>3
  <2>4. QED
    BY <2>1, <2>2, <2>3
<1>9. Walked' = {e \in SelectedExtents :
                   \/ e.zone < i
                   \/ e.zone = i /\ \A j \in 1 .. Len(rest) : rest[j] # e}
  BY <1>1, <1>2 DEF Walked, rest
<1>10. Walked = {e \in SelectedExtents :
                   \/ e.zone < i
                   \/ e.zone = i /\ \A j \in 1 .. len : current[j] # e}
  BY <1>1 DEF Walked
<1>11. QED
  BY <1>2, <1>6, <1>8, <1>9, <1>10

LEMMA NoneWalked ==
  ASSUME WalkOK, [Next]_vars, ~Done
  PROVE  Walked' = Walked
<1> USE DEF Mid
<1>1. /\ SelectedExtents' = SelectedExtents /\ zones \in ZoneMaps /\ i \in Nat
  BY SelectionStays, GeometryAssumption DEF WalkOK
<1>2. \A e \in SelectedExtents : e.zone \in Nat
  BY SelectedFacts, GeometryAssumption DEF Zones
<1>3. ASSUME i' = i, current' = current, pc \in {"list"} \cup Mid, pc' \in {"list"} \cup Mid
      PROVE  Walked' = Walked
  BY <1>1, <1>3 DEF Walked
<1>4. ASSUME i' = i, pc \notin {"list"} \cup Mid, pc' \notin {"list"} \cup Mid
      PROVE  Walked' = Walked
  BY <1>1, <1>4 DEF Walked
<1>5. CASE EnterZone
  <2>1. /\ pc = "zone" /\ pc' = "list" /\ i' = i /\ current' = zones[i].extents
    BY <1>5 DEF EnterZone
  <2>2. \A e \in SelectedExtents : e.zone = i => \E j \in 1 .. Len(current') : current'[j] = e
    BY <2>1, SelectedFacts
  <2>3. QED
    BY <1>1, <2>1, <2>2 DEF Walked
<1>6. CASE SkipZone
  <2>1. /\ pc = "zone" /\ pc' = "zone" /\ i' = i + 1 /\ i \in Zones
        /\ zones[i].extent_ctr = 0
    BY <1>1, <1>6, GeometryAssumption DEF SkipZone, Zones
  <2>2. Len(zones[i].extents) = 0
    BY <1>1, <2>1, MapFacts
  <2>3. \A e \in SelectedExtents : e.zone # i
    BY <2>2, SelectedFacts
  <2>4. QED
    BY <1>1, <1>2, <2>1, <2>3 DEF Walked
<1>7. CASE LeaveZone
  <2>1. pc = "list" /\ pc' = "zone" /\ i' = i + 1
    BY <1>7 DEF LeaveZone
  <2>2. \A e \in SelectedExtents : \A j \in 1 .. Len(current) : current[j] # e
    BY <1>7, RestIsBehind
  <2>3. QED
    BY <1>1, <1>2, <2>1, <2>2 DEF Walked
<1>8. CASE ContinueBelowStart \/ EnterExtent \/ ShowBeginning \/ NoBeginning \/ ShowMiddle
             \/ NoMiddle
  <2>1. i' = i /\ current' = current /\ pc \in {"list"} \cup Mid /\ pc' \in {"list"} \cup Mid
    BY <1>8 DEF ContinueBelowStart, EnterExtent, ShowBeginning, NoBeginning, ShowMiddle,
       NoMiddle, vars
  <2>2. QED
    BY <1>3, <2>1
<1>9. CASE ShowStats \/ Finished
  <2>1. i' = i /\ pc \notin {"list"} \cup Mid /\ pc' \notin {"list"} \cup Mid
    BY <1>9 DEF ShowStats, Finished, vars
  <2>2. QED
    BY <1>4, <2>1
<1>10. CASE UNCHANGED vars
  BY <1>1, <1>10 DEF vars, Walked
<1>11. QED
  BY <1>5, <1>6, <1>7, <1>8, <1>9, <1>10 DEF Next, Walk, Done

LEMMA AllWalked ==
  ASSUME WalkOK, pc = "done"
  PROVE  Walked = SelectedExtents
<1>1. i = NrZones /\ NrZones \in Nat
  BY GeometryAssumption DEF WalkOK
<1>2. \A e \in SelectedExtents : e.zone < i
  BY <1>1, SelectedFacts DEF Zones
<1>3. QED
  BY <1>2 DEF Walked

(* The walk goes through the device in order, if the zones are in order.   *)
LEMMA ZonesInOrder ==
  ASSUME DeviceFitsWord, WalkOK, NEW d \in ExtentsIn(zones), NEW e \in ExtentsIn(zones),
         d.zone < e.zone
  PROVE  d.phy_blk < e.phy_blk
<1>1. zones \in ZoneMaps
  BY DEF WalkOK
<1>2. /\ d \in Extent /\ e \in Extent
      /\ GetZoneNumber(d.phy_blk) = d.zone /\ GetZoneNumber(e.phy_blk) = e.zone
      /\ d.zone \in Nat /\ e.zone \in Nat
  BY <1>1, MapFacts, GeometryAssumption DEF Zones
<1>3. d.phy_blk \in ZnsBlocks /\ e.phy_blk \in ZnsBlocks
  BY <1>2 DEF Extent
<1>4. d.phy_blk < (d.zone + 1) * ZoneSize /\ e.zone * ZoneSize <= e.phy_blk
  BY <1>2, <1>3, ZoneNumberIsZone
<1>5. (d.zone + 1) * ZoneSize <= e.zone * ZoneSize
  BY <1>2, GeometryAssumption
<1>6. d.phy_blk \in Nat /\ e.phy_blk \in Nat
  BY <1>2, ExtentFacts
<1>7. (d.zone + 1) * ZoneSize \in Nat /\ e.zone * ZoneSize \in Nat
  BY <1>2, GeometryAssumption
<1>8. QED
  BY <1>4, <1>5, <1>6, <1>7

(* What is done with starts no later than the current extent, and what is  *)
(* still to come no earlier.                                               *)
LEMMA InOrder ==
  ASSUME DeviceFitsWord, WalkOK, pc \in {"list"} \cup Mid, current # <<>>, NEW e \in SelectedExtents
  PROVE  /\ e \in Walked => e.phy_blk <= TheExtent.phy_blk
         /\ e \notin Walked => TheExtent.phy_blk <= e.phy_blk
<1> DEFINE list == zones[i].extents
           k == Len(list) - Len(current)
<1>1. /\ i \in Zones /\ zones \in ZoneMaps /\ RestOf(current, list)
  BY GeometryAssumption DEF WalkOK, Zones, Mid
<1>2. /\ TheExtent \in ExtentsIn(zones) /\ TheExtent \in Extent
      /\ TheExtent = current[1] /\ Len(current) \in Nat \ {0}
  BY TheExtentFacts
<1>3. /\ list \in Seq(Extent)
      /\ \A j \in 1 .. Len(list) : list[j].zone = i
      /\ \A m, n \in 1 .. Len(list) : m < n => list[m].phy_blk <= list[n].phy_blk
  BY <1>1, MapFacts
<1>4. \E j \in 1 .. Len(zones[e.zone].extents) : zones[e.zone].extents[j] = e
  BY SelectedFacts
<1>5. e.zone = i => \E j \in 1 .. Len(list) : list[j] = e
  BY <1>4
<1> HIDE DEF list
<1>6. k \in Nat /\ TheExtent = list[k + 1] /\ k + 1 \in 1 .. Len(list)
      /\ \A j \in 1 .. Len(current) : current[j] = list[k + j] /\ k + j \in 1 .. Len(list)
  BY <1>1, <1>2, <1>3 DEF RestOf
<1>7. /\ TheExtent.phy_blk \in Nat /\ e.phy_blk \in Nat /\ e.zone \in Nat /\ i \in Nat
      /\ e \in ExtentsIn(zones) /\ TheExtent.zone = i
  <2>1. e \in ExtentsIn(zones) /\ e \in Extent /\ e.zone \in Zones
    BY SelectedFacts
  <2>2. TheExtent.phy_blk \in Nat /\ e.phy_blk \in Nat
    BY <1>2, <2>1, ExtentFacts
  <2>3. e.zone \in Nat /\ i \in Nat
    BY <1>1, <2>1, GeometryAssumption DEF Zones
  <2>4. QED
    BY <1>3, <1>6, <2>1, <2>2, <2>3
<1>8. Len(list) \in Nat /\ Len(list) = k + Len(current)
  BY <1>2, <1>3
<1> HIDE DEF k
<1>9. ASSUME e \in Walked
      PROVE  e.phy_blk <= TheExtent.phy_blk
  <2>1. CASE e.zone < i
    BY <1>2, <1>7, <2>1, ZonesInOrder
  <2>2. CASE ~(e.zone < i)
    <3>1. e.zone = i /\ \A j \in 1 .. Len(current) : current[j] # e
      BY <1>9, <2>2 DEF Walked
    <3>2. PICK m \in 1 .. Len(list) : list[m] = e
      BY <1>5, <3>1
    <3>3. m <= k
      <4> SUFFICES ASSUME m > k
                   PROVE  FALSE
        BY <1>6
      <4>1. m - k \in 1 .. Len(current) /\ k + (m - k) = m
        BY <1>2, <1>6, <1>8
      <4>2. QED
        BY <1>6, <3>1, <3>2, <4>1
    <3>4. m < k + 1
      BY <1>6, <3>3
    <3>5. QED
      BY <1>3, <1>6, <3>2, <3>4
  <2>3. QED
    BY <2>1, <2>2
<1>10. ASSUME e \notin Walked
       PROVE  TheExtent.phy_blk <= e.phy_blk
  <2>1. CASE e.zone > i
    BY <1>2, <1>7, <2>1, ZonesInOrder
  <2>2. CASE ~(e.zone > i)
    <3>1. PICK j \in 1 .. Len(current) : current[j] = e
      BY <1>10, <2>2, StillToCome
    <3>2. e = list[k + j] /\ k + j \in 1 .. Len(list)
      BY <1>6, <3>1
    <3>3. CASE j = 1
      BY <1>6, <1>7, <3>2, <3>3
    <3>4. CASE j > 1
      BY <1>3, <1>6, <3>2, <3>4
    <3>5. QED
      BY <3>3, <3>4
  <2>3. QED
    BY <2>1, <2>2
<1>11. QED
  BY <1>9, <1>10

-----------------------------------------------------------------------------
(* The parts an extent is reported in.                                     *)

LEMMA QuietKeeps ==
  ASSUME LogOK, Quiet, NEW e
  PROVE  /\ TellsOf(lines', e) = TellsOf(lines, e)
         /\ ShownIn(lines', e) = ShownIn(lines, e)
         /\ ApartIn(lines, e) => ApartIn(lines', e)
<1>1. CASE lines' = lines
  BY <1>1
<1>2. CASE \E zone \in Zones : lines' = Append(lines, ZoneLine(zone))
  <2>1. PICK zone \in Zones : lines' = Append(lines, ZoneLine(zone))
    BY <1>2
  <2> DEFINE line == ZoneLine(zone)
  <2>2. lines \in Seq(LogLine) /\ line.kind # "extent"
    BY DEF LogOK, ZoneLine
  <2> HIDE DEF line
  <2>3. /\ DOMAIN lines = 1 .. Len(lines) /\ Len(lines) \in Nat
        /\ DOMAIN lines' = 1 .. Len(lines) + 1
        /\ \A n \in 1 .. Len(lines) : lines'[n] = lines[n]
        /\ lines'[Len(lines) + 1] = line
    <3>1. DOMAIN lines' = 1 .. Len(lines')
      BY <2>1, <2>2 DEF line
    <3>2. Len(lines') = Len(lines) + 1
      BY <2>1, <2>2 DEF line
    <3>3. lines'[Len(lines) + 1] = line
      BY <2>1, <2>2 DEF line
    <3>4. \A n \in 1 .. Len(lines) : lines'[n] = lines[n]
      BY <2>1, <2>2 DEF line
    <3>5. QED
      BY <2>2, <3>1, <3>2, <3>3, <3>4
  <2>4. TellsOf(lines', e) = TellsOf(lines, e)
    BY <2>2, <2>3 DEF TellsOf
  <2>5. \A n \in TellsOf(lines, e) : lines'[n] = lines[n]
    BY <2>3 DEF TellsOf
  <2>6. ShownIn(lines', e) = ShownIn(lines, e)
    BY <2>4, <2>5 DEF ShownIn
  <2>7. ApartIn(lines, e) => ApartIn(lines', e)
    BY <2>4, <2>5 DEF ApartIn
  <2>8. QED
    BY <2>4, <2>6, <2>7
<1>3. QED
  BY <1>1, <1>2 DEF Quiet

LEMMA ShowsKeeps ==
  ASSUME LogOK, NEW e, NEW from, NEW behind, NEW segment,
         Shows(e, from, behind, segment), NEW d, d # e
  PROVE  /\ TellsOf(lines', d) = TellsOf(lines, d)
         /\ ShownIn(lines', d) = ShownIn(lines, d)
         /\ ApartIn(lines, d) => ApartIn(lines', d)
<1>1. PICK headers \in Seq(Line), line \in LogLine :
        lines' = Longer(lines, headers, line) /\ line.kind = "extent" /\ line.of = e
  BY DEF Shows
<1>2. lines \in Seq(LogLine)
  BY DEF LogOK
<1>3. QED
  BY <1>1, <1>2, ShownBefore

LEMMA ShowsMore ==
  ASSUME LogOK, NEW e, NEW from, NEW behind, NEW segment, Shows(e, from, behind, segment),
         ApartIn(lines, e), ShownIn(lines, e) \cap (from .. behind - 1) = {}
  PROVE  /\ TellsOf(lines', e) # {}
         /\ ShownIn(lines', e) = ShownIn(lines, e) \cup (from .. behind - 1)
         /\ ApartIn(lines', e)
<1>1. PICK headers \in Seq(Line), line \in LogLine :
        /\ lines' = Longer(lines, headers, line) /\ line.kind = "extent" /\ line.of = e
        /\ BlocksOfLine(line) = from .. behind - 1
  BY DEF Shows
<1>2. lines \in Seq(LogLine)
  BY DEF LogOK
<1> DEFINE longer == Longer(lines, headers, line)
<1>3. \A b \in BlocksOfLine(line) : b \notin ShownIn(lines, e)
  BY <1>1
<1>4. /\ TellsOf(longer, e) # {}
      /\ ShownIn(longer, e) = ShownIn(lines, e) \cup BlocksOfLine(line)
      /\ ApartIn(longer, e)
  <2>1. line.kind = "extent" /\ line.of = e
    BY <1>1
  <2>2. QED
    BY <1>2, <1>3, <2>1, ShownAfter
<1> HIDE DEF longer
<1>5. lines' = longer
  BY <1>1 DEF longer
<1>6. QED
  BY <1>1, <1>4, <1>5

(* What is shown of an extent when the report is done with it.             *)
Complete(log, e) ==
  /\ TellsOf(log, e) # {}
  /\ ApartIn(log, e)
  /\ ShownIn(log, e) = IF FullThenPart(e)
                       THEN SegmentStart(EndSegment(e)) .. ExtentEnd(e) - 1
                       ELSE BlocksOf(e)

(* What is shown of it before each part.                                   *)
Begun(log, e, at, segment) ==
  /\ ApartIn(log, e)
  /\ at \in {"single", "beginning"} => ShownIn(log, e) = {}
  /\ at = "middle" =>
       /\ ShownIn(log, e) = e.phy_blk .. SegmentStart(segment) - 1
       /\ ~StartsSegment(e) => TellsOf(log, e) # {}
  /\ at = "remainder" /\ FullThenPart(e) => ShownIn(log, e) = {}
  /\ at = "remainder" /\ ~FullThenPart(e) =>
       /\ ShownIn(log, e) = e.phy_blk .. SegmentStart(EndSegment(e)) - 1
       /\ TellsOf(log, e) # {}

PartsOK ==
  /\ \A e : TellsOf(lines, e) # {} => e \in Walked \/ (pc \in Mid /\ e = TheExtent)
  /\ \A e \in Walked : Complete(lines, e)
  /\ pc \in Mid => Begun(lines, TheExtent, pc, segment_id)

LEMMA NothingShown ==
  ASSUME NEW log, NEW e, TellsOf(log, e) = {}
  PROVE  ShownIn(log, e) = {} /\ ApartIn(log, e)
BY DEF ShownIn, ApartIn

(* The report has the parts of an extent one after the other.              *)
LEMMA PartsSingle ==
  ASSUME NEW log, NEW longer, NEW e \in Extent, InOneSegment(e), Begun(log, e, "single", 0),
         TellsOf(longer, e) # {}, ApartIn(longer, e),
         ShownIn(longer, e) = ShownIn(log, e) \cup (e.phy_blk .. ExtentEnd(e) - 1)
  PROVE  Complete(longer, e)
BY DEF Begun, Complete, FullThenPart, BlocksOf

LEMMA PartsBeginning ==
  ASSUME NEW log, NEW longer, NEW e \in Extent, NEW s \in Nat, Begun(log, e, "beginning", s),
         TellsOf(longer, e) # {}, ApartIn(longer, e),
         ShownIn(longer, e) = ShownIn(log, e) \cup (e.phy_blk .. SegmentStart(s + 1) - 1)
  PROVE  Begun(longer, e, "middle", s + 1)
BY DEF Begun

LEMMA PartsNoBeginning ==
  ASSUME NEW log, NEW e \in Extent, StartsSegment(e), Begun(log, e, "beginning", FirstSegment(e))
  PROVE  Begun(log, e, "middle", FirstSegment(e))
<1>1. e.phy_blk = SegmentStart(FirstSegment(e)) /\ e.phy_blk \in Nat
  BY ExtentFacts DEF StartsSegment
<1>2. e.phy_blk .. SegmentStart(FirstSegment(e)) - 1 = {}
  BY <1>1
<1>3. QED
  BY <1>2 DEF Begun

LEMMA PartsMiddle ==
  ASSUME NEW log, NEW longer, NEW e \in Extent, ~InOneSegment(e), HasMiddle(e),
         NEW s \in Nat, s = FirstSegment(e) \/ s = FirstSegment(e) + 1,
         e.phy_blk <= SegmentStart(s), Begun(log, e, "middle", s),
         TellsOf(longer, e) # {}, ApartIn(longer, e),
         ShownIn(longer, e)
           = ShownIn(log, e) \cup (SegmentStart(s) .. SegmentStart(EndSegment(e)) - 1)
  PROVE  Begun(longer, e, "remainder", s)
<1>1. FirstSegment(e) + 2 <= EndSegment(e) /\ FirstSegment(e) \in Nat /\ EndSegment(e) \in Nat
  BY ExtentFacts, PartsFacts
<1>2. s <= EndSegment(e)
  BY <1>1
<1>3. SegmentStart(s) <= SegmentStart(EndSegment(e))
      /\ SegmentStart(s) \in Nat /\ SegmentStart(EndSegment(e)) \in Nat /\ e.phy_blk \in Nat
  BY <1>1, <1>2, StartMonotone, StartFacts, ExtentFacts
<1> DEFINE a == SegmentStart(s)
           b == SegmentStart(EndSegment(e))
<1>4. ShownIn(log, e) = e.phy_blk .. a - 1
  BY DEF Begun
<1>5. a \in Nat /\ b \in Nat /\ a <= b /\ e.phy_blk <= a
  BY <1>3
<1> HIDE DEF a, b
<1>6. (e.phy_blk .. a - 1) \cup (a .. b - 1) = e.phy_blk .. b - 1
  BY <1>3, <1>5
<1>7. ShownIn(longer, e) = e.phy_blk .. b - 1
  BY <1>4, <1>6 DEF a, b
<1>8. ~FullThenPart(e)
  BY DEF FullThenPart
<1>9. QED
  BY <1>7, <1>8 DEF Begun, b

LEMMA PartsNoMiddle ==
  ASSUME NEW log, NEW e \in Extent, ~InOneSegment(e), ~HasMiddle(e),
         NEW s \in Nat, s = (IF StartsSegment(e) THEN FirstSegment(e) ELSE FirstSegment(e) + 1),
         Begun(log, e, "middle", s)
  PROVE  Begun(log, e, "remainder", s)
<1>1. EndSegment(e) = FirstSegment(e) + 1
  BY PartsFacts
<1>2. CASE StartsSegment(e)
  <2>1. e.phy_blk = SegmentStart(FirstSegment(e)) /\ e.phy_blk \in Nat
    BY <1>2, ExtentFacts DEF StartsSegment
  <2>2. e.phy_blk .. SegmentStart(FirstSegment(e)) - 1 = {}
    BY <2>1
  <2>3. FullThenPart(e)
    BY <1>2 DEF FullThenPart
  <2>4. QED
    BY <1>2, <2>2, <2>3 DEF Begun
<1>3. CASE ~StartsSegment(e)
  <2>1. ~FullThenPart(e) /\ s = EndSegment(e)
    BY <1>1, <1>3 DEF FullThenPart
  <2>2. QED
    BY <1>3, <2>1 DEF Begun
<1>4. QED
  BY <1>2, <1>3

LEMMA PartsRemainder ==
  ASSUME NEW log, NEW longer, NEW e \in Extent, ~InOneSegment(e), NEW s,
         Begun(log, e, "remainder", s),
         TellsOf(longer, e) # {}, ApartIn(longer, e),
         ShownIn(longer, e)
           = ShownIn(log, e) \cup (SegmentStart(EndSegment(e)) .. ExtentEnd(e) - 1)
  PROVE  Complete(longer, e)
<1> DEFINE a == SegmentStart(EndSegment(e))
           b == ExtentEnd(e)
<1>1. /\ a \in Nat /\ b \in Nat /\ e.phy_blk \in Nat /\ a <= b
      /\ FirstSegment(e) \in Nat
      /\ e.phy_blk < SegmentStart(FirstSegment(e) + 1)
      /\ SegmentStart(FirstSegment(e) + 1) <= a
      /\ SegmentStart(FirstSegment(e) + 1) \in Nat
  BY ExtentFacts, PartsFacts
<1> HIDE DEF a, b
<1>2. e.phy_blk <= a
  BY <1>1
<1>3. CASE FullThenPart(e)
  BY <1>3 DEF Begun, Complete
<1>4. CASE ~FullThenPart(e)
  <2>1. ShownIn(log, e) = e.phy_blk .. a - 1
    BY <1>4 DEF Begun, a
  <2>2. (e.phy_blk .. a - 1) \cup (a .. b - 1) = e.phy_blk .. b - 1
    BY <1>1, <1>2
  <2>3. ShownIn(longer, e) = e.phy_blk .. b - 1
    BY <2>1, <2>2 DEF a, b
  <2>4. QED
    BY <1>4, <2>3 DEF Complete, BlocksOf, b
<1>5. QED
  BY <1>3, <1>4

LEMMA PartsNoRemainder ==
  ASSUME NEW log, NEW e \in Extent, ~InOneSegment(e), EndsSegment(e), NEW s,
         Begun(log, e, "remainder", s)
  PROVE  Complete(log, e)
<1>1. HasMiddle(e) /\ ExtentEnd(e) = SegmentStart(EndSegment(e))
  BY PartsFacts DEF EndsSegment
<1>2. ~FullThenPart(e)
  BY <1>1 DEF FullThenPart
<1>3. QED
  BY <1>1, <1>2 DEF Begun, Complete, BlocksOf

LEMMA PartsInit ==
  ASSUME Init
  PROVE  PartsOK
<1>1. Walked = {} /\ lines = <<>> /\ pc = "zone"
  BY WalkedInit DEF Init
<1>2. \A e : TellsOf(lines, e) = {}
  BY <1>1 DEF TellsOf
<1>3. QED
  BY <1>1, <1>2 DEF PartsOK, Mid

LEMMA CompleteStays ==
  ASSUME NEW log, NEW longer, NEW e, Complete(log, e),
         TellsOf(longer, e) = TellsOf(log, e), ShownIn(longer, e) = ShownIn(log, e),
         ApartIn(longer, e)
  PROVE  Complete(longer, e)
BY DEF Complete

LEMMA PartsStep ==
  ASSUME ReportOK, PartsOK, [Next]_vars
  PROVE  PartsOK'
<1>1. WalkOK /\ LogOK
  BY DEF ReportOK
<1>2. ASSUME lines' = lines, Walked' = Walked, pc \notin Mid, pc' \notin Mid
      PROVE  PartsOK'
  BY <1>2 DEF PartsOK
<1>3. ASSUME ~Done, NEW e \in Extent, e = TheExtent, e = TheExtent', pc \in Mid, pc' \in Mid,
             NEW from, NEW behind, NEW segment, Shows(e, from, behind, segment),
             Begun(lines', e, pc', segment_id')
      PROVE  PartsOK'
  <2>1. Walked' = Walked
    BY <1>1, <1>3, NoneWalked
  <2>2. e \notin Walked
    BY <1>1, <1>3, InProgress
  <2>3. \A d : d # e => TellsOf(lines', d) = TellsOf(lines, d)
    BY <1>1, <1>3, ShowsKeeps
  <2>4. ASSUME NEW d \in Walked
        PROVE  Complete(lines', d)
    <3>1. d # e /\ Complete(lines, d)
      BY <2>2 DEF PartsOK
    <3>2. ApartIn(lines, d)
      BY <3>1 DEF Complete
    <3>3. QED
      BY <1>1, <1>3, <3>1, <3>2, ShowsKeeps, CompleteStays
  <2>5. QED
    BY <1>3, <2>1, <2>3, <2>4 DEF PartsOK
<1>4. ASSUME Done, NEW e \in Extent, e = TheExtent,
             NEW from, NEW behind, NEW segment, Shows(e, from, behind, segment), Complete(lines', e)
      PROVE  PartsOK'
  <2>1. Walked' = Walked \cup {e} /\ pc' \notin Mid
    BY <1>1, <1>4, OneMoreWalked DEF Done, ShowSingle, ShowRemainder, NoRemainder, NextExtent, Mid
  <2>2. \A d : d # e => TellsOf(lines', d) = TellsOf(lines, d)
    BY <1>1, <1>4, ShowsKeeps
  <2>3. ASSUME NEW d \in Walked, d # e
        PROVE  Complete(lines', d)
    <3>1. Complete(lines, d)
      BY DEF PartsOK
    <3>2. ApartIn(lines, d)
      BY <3>1 DEF Complete
    <3>3. QED
      BY <1>1, <1>4, <2>3, <3>1, <3>2, ShowsKeeps, CompleteStays
  <2>4. QED
    BY <1>4, <2>1, <2>2, <2>3 DEF PartsOK
<1>5. CASE EnterExtent
  <2>1. PICK e : e = TheExtent
    OBVIOUS
  <2>2. /\ pc = "list" /\ current # <<>> /\ Selected(TheExtent) /\ TheExtent' = TheExtent
        /\ pc' \in {"single", "beginning"}
    BY <1>5 DEF EnterExtent, TheExtent
  <2>3. Walked' = Walked /\ e \notin Walked
    BY <1>1, <1>5, <2>1, <2>2, NoneWalked, AtHand
       DEF Done, ShowSingle, ShowRemainder, NoRemainder
  <2>4. Quiet
    BY <1>1, <1>5, <2>2, TheExtentFacts, ExtentFacts DEF EnterExtent, Quiet
  <2>5. TellsOf(lines, e) = {}
    BY <2>2, <2>3 DEF PartsOK, Mid
  <2>6. \A d : TellsOf(lines', d) = TellsOf(lines, d)
    BY <1>1, <2>4, QuietKeeps
  <2>7. ASSUME NEW d \in Walked
        PROVE  Complete(lines', d)
    <3>1. Complete(lines, d)
      BY DEF PartsOK
    <3>2. ApartIn(lines, d)
      BY <3>1 DEF Complete
    <3>3. QED
      BY <1>1, <2>4, <3>1, <3>2, QuietKeeps, CompleteStays
  <2>8. Begun(lines', e, pc', segment_id')
    <3>1. TellsOf(lines', e) = {}
      BY <2>5, <2>6
    <3>2. ShownIn(lines', e) = {} /\ ApartIn(lines', e)
      BY <3>1, NothingShown
    <3>3. QED
      BY <2>2, <3>2 DEF Begun
  <2>9. QED
    BY <2>1, <2>2, <2>3, <2>6, <2>7, <2>8 DEF PartsOK, Mid
<1>6. ASSUME pc \in Mid
      PROVE  /\ TheExtent \in Extent
             /\ Begun(lines, TheExtent, pc, segment_id)
             /\ segment_id \in Nat
             /\ segment_id = IF pc \in {"single", "beginning"} \/ StartsSegment(TheExtent)
                             THEN FirstSegment(TheExtent)
                             ELSE FirstSegment(TheExtent) + 1
             /\ InOneSegment(TheExtent) <=> pc = "single"
  BY <1>1, <1>6, TheExtentFacts DEF PartsOK, WalkOK
<1>7. CASE ShowSingle
  <2>1. PICK e \in Extent : e = TheExtent
    BY <1>6, <1>7 DEF ShowSingle, Mid
  <2>2. pc = "single" /\ InOneSegment(e) /\ Begun(lines, e, pc, segment_id)
    BY <1>6, <1>7, <2>1 DEF ShowSingle, Mid
  <2>3. Shows(e, e.phy_blk, ExtentEnd(e), segment_id)
    BY <1>1, <1>7, <2>1, SingleShows
  <2>4. ShownIn(lines, e) = {} /\ ApartIn(lines, e) /\ Begun(lines, e, "single", 0)
    BY <2>2 DEF Begun
  <2>5. /\ TellsOf(lines', e) # {} /\ ApartIn(lines', e)
        /\ ShownIn(lines', e) = ShownIn(lines, e) \cup (e.phy_blk .. ExtentEnd(e) - 1)
    BY <1>1, <2>3, <2>4, ShowsMore
  <2>6. Complete(lines', e)
    BY <2>2, <2>4, <2>5, PartsSingle
  <2>7. QED
    BY <1>4, <1>7, <2>1, <2>3, <2>6 DEF Done
<1>8. CASE ShowBeginning
  <2>1. PICK e \in Extent : e = TheExtent
    BY <1>6, <1>8 DEF ShowBeginning, Mid
  <2>2. PICK s \in Nat : s = segment_id
    BY <1>1 DEF WalkOK
  <2>3. /\ pc = "beginning" /\ Begun(lines, e, "beginning", s)
        /\ pc' = "middle" /\ segment_id' = s + 1 /\ TheExtent' = e
    BY <1>6, <1>8, <2>1, <2>2 DEF ShowBeginning, Mid, TheExtent
  <2>4. Shows(e, e.phy_blk, SegmentStart(s + 1), s)
    BY <1>1, <1>8, <2>1, <2>2, BeginningShows
  <2>5. ShownIn(lines, e) = {} /\ ApartIn(lines, e)
    BY <2>3 DEF Begun
  <2>6. /\ TellsOf(lines', e) # {} /\ ApartIn(lines', e)
        /\ ShownIn(lines', e) = ShownIn(lines, e) \cup (e.phy_blk .. SegmentStart(s + 1) - 1)
    BY <1>1, <2>4, <2>5, ShowsMore
  <2>7. Begun(lines', e, "middle", s + 1)
    BY <2>3, <2>6, PartsBeginning
  <2>8. ~Done
    BY <2>3 DEF Done, ShowSingle, ShowRemainder, NoRemainder
  <2>9. QED
    BY <1>3, <2>1, <2>3, <2>4, <2>7, <2>8 DEF Mid
<1>9. CASE NoBeginning
  <2>1. PICK e \in Extent : e = TheExtent
    BY <1>6, <1>9 DEF NoBeginning, Mid
  <2>2. /\ pc = "beginning" /\ StartsSegment(e) /\ Begun(lines, e, "beginning", FirstSegment(e))
        /\ pc' = "middle" /\ segment_id' = FirstSegment(e) /\ TheExtent' = e /\ lines' = lines
    BY <1>6, <1>9, <2>1 DEF NoBeginning, Mid, TheExtent
  <2>3. Begun(lines', e, pc', segment_id')
    BY <2>2, PartsNoBeginning
  <2>4. Walked' = Walked
    BY <1>1, <2>2, NoneWalked DEF Done, ShowSingle, ShowRemainder, NoRemainder
  <2>5. QED
    BY <2>1, <2>2, <2>3, <2>4 DEF PartsOK, Mid
<1>10. CASE ShowMiddle
  <2>1. PICK e \in Extent : e = TheExtent
    BY <1>6, <1>10 DEF ShowMiddle, Mid
  <2>2. PICK s \in Nat : s = segment_id
    BY <1>1 DEF WalkOK
  <2>3. /\ pc = "middle" /\ HasMiddle(e) /\ ~InOneSegment(e) /\ Begun(lines, e, "middle", s)
        /\ s = IF StartsSegment(e) THEN FirstSegment(e) ELSE FirstSegment(e) + 1
        /\ pc' = "remainder" /\ segment_id' = s /\ TheExtent' = e
    BY <1>6, <1>10, <2>1, <2>2 DEF ShowMiddle, Mid, TheExtent
  <2>4. Shows(e, SegmentStart(s), SegmentStart(EndSegment(e)), s)
    BY <1>1, <1>10, <2>1, <2>2, MiddleShows
  <2>5. e.phy_blk <= SegmentStart(s)
    BY <2>3, ExtentFacts DEF StartsSegment
  <2>6. ShownIn(lines, e) = e.phy_blk .. SegmentStart(s) - 1 /\ ApartIn(lines, e)
    BY <2>3 DEF Begun
  <2>7. ShownIn(lines, e) \cap (SegmentStart(s) .. SegmentStart(EndSegment(e)) - 1) = {}
    <3>1. SegmentStart(s) \in Nat
      BY StartFacts
    <3>2. QED
      BY <2>6, <3>1
  <2>8. /\ TellsOf(lines', e) # {} /\ ApartIn(lines', e)
        /\ ShownIn(lines', e)
             = ShownIn(lines, e) \cup (SegmentStart(s) .. SegmentStart(EndSegment(e)) - 1)
    BY <1>1, <2>4, <2>6, <2>7, ShowsMore
  <2>9. Begun(lines', e, "remainder", s)
    BY <2>3, <2>5, <2>8, PartsMiddle
  <2>10. ~Done
    BY <2>3 DEF Done, ShowSingle, ShowRemainder, NoRemainder
  <2>11. QED
    BY <1>3, <2>1, <2>3, <2>4, <2>9, <2>10 DEF Mid
<1>11. CASE NoMiddle
  <2>1. PICK e \in Extent : e = TheExtent
    BY <1>6, <1>11 DEF NoMiddle, Mid
  <2>2. PICK s \in Nat : s = segment_id
    BY <1>1 DEF WalkOK
  <2>3. /\ pc = "middle" /\ ~HasMiddle(e) /\ ~InOneSegment(e) /\ Begun(lines, e, "middle", s)
        /\ s = IF StartsSegment(e) THEN FirstSegment(e) ELSE FirstSegment(e) + 1
        /\ pc' = "remainder" /\ segment_id' = s /\ TheExtent' = e /\ lines' = lines
    BY <1>6, <1>11, <2>1, <2>2 DEF NoMiddle, Mid, TheExtent
  <2>4. Begun(lines', e, pc', segment_id')
    BY <2>3, PartsNoMiddle
  <2>5. Walked' = Walked
    BY <1>1, <2>3, NoneWalked DEF Done, ShowSingle, ShowRemainder, NoRemainder
  <2>6. QED
    BY <2>1, <2>3, <2>4, <2>5 DEF PartsOK, Mid
<1>12. CASE ShowRemainder
  <2>1. PICK e \in Extent : e = TheExtent
    BY <1>6, <1>12 DEF ShowRemainder, Mid
  <2>2. pc = "remainder" /\ ~InOneSegment(e) /\ Begun(lines, e, "remainder", segment_id)
    BY <1>6, <1>12, <2>1 DEF ShowRemainder, Mid
  <2>3. Shows(e, SegmentStart(EndSegment(e)), ExtentEnd(e), EndSegment(e))
    BY <1>1, <1>12, <2>1, RemainderShows
  <2>4. /\ ApartIn(lines, e)
        /\ ShownIn(lines, e) = {}
             \/ ShownIn(lines, e) = e.phy_blk .. SegmentStart(EndSegment(e)) - 1
    BY <2>2 DEF Begun
  <2>5. ShownIn(lines, e) \cap (SegmentStart(EndSegment(e)) .. ExtentEnd(e) - 1) = {}
    <3> DEFINE a == SegmentStart(EndSegment(e))
    <3>1. a \in Nat /\ e.phy_blk \in Nat /\ ExtentEnd(e) \in Nat
      BY ExtentFacts
    <3> HIDE DEF a
    <3>2. (e.phy_blk .. a - 1) \cap (a .. ExtentEnd(e) - 1) = {}
      BY <3>1
    <3>3. CASE ShownIn(lines, e) = {}
      BY <3>3
    <3>4. CASE ShownIn(lines, e) = e.phy_blk .. SegmentStart(EndSegment(e)) - 1
      BY <3>2, <3>4 DEF a
    <3>5. QED
      BY <2>4, <3>3, <3>4
  <2>6. /\ TellsOf(lines', e) # {} /\ ApartIn(lines', e)
        /\ ShownIn(lines', e)
             = ShownIn(lines, e) \cup (SegmentStart(EndSegment(e)) .. ExtentEnd(e) - 1)
    BY <1>1, <2>3, <2>4, <2>5, ShowsMore
  <2>7. Complete(lines', e)
    BY <2>2, <2>6, PartsRemainder
  <2>8. QED
    BY <1>4, <1>12, <2>1, <2>3, <2>7 DEF Done
<1>13. CASE NoRemainder
  <2>1. PICK e \in Extent : e = TheExtent
    BY <1>6, <1>13 DEF NoRemainder, Mid
  <2>2. /\ pc = "remainder" /\ ~InOneSegment(e) /\ EndsSegment(e)
        /\ Begun(lines, e, "remainder", segment_id)
        /\ pc' = "list" /\ lines' = lines
    BY <1>6, <1>13, <2>1 DEF NoRemainder, Mid, NextExtent
  <2>3. Complete(lines', e)
    BY <2>2, PartsNoRemainder
  <2>4. Walked' = Walked \cup {e}
    BY <1>1, <1>13, <2>1, OneMoreWalked DEF Done
  <2>5. QED
    BY <2>1, <2>2, <2>3, <2>4 DEF PartsOK, Mid
<1>14. CASE EnterZone \/ SkipZone \/ LeaveZone \/ ShowStats \/ ContinueBelowStart
  <2>1. lines' = lines /\ pc \notin Mid /\ pc' \notin Mid
    BY <1>14 DEF EnterZone, SkipZone, LeaveZone, ShowStats, ContinueBelowStart, Mid, vars
  <2>2. ~Done
    BY <2>1 DEF Done, ShowSingle, ShowRemainder, NoRemainder, Mid
  <2>3. QED
    BY <1>1, <1>2, <2>1, <2>2, NoneWalked
<1>15. CASE UNCHANGED vars
  <2>1. Walked' = Walked
    BY <1>15, SelectionStays DEF Walked, vars
  <2>2. QED
    BY <1>15, <2>1 DEF PartsOK, vars, TheExtent
<1>16. QED
  BY <1>5, <1>7, <1>8, <1>9, <1>10, <1>11, <1>12, <1>13, <1>14, <1>15
     DEF Next, Walk, Finished

(* The part in the second segment is of the extent.                        *)
LEMMA RestIsOfExtent ==
  ASSUME NEW e, e.phy_blk \in Nat, e.len \in Nat, FullThenPart(e)
  PROVE  SegmentStart(EndSegment(e)) .. ExtentEnd(e) - 1 \subseteq BlocksOf(e)
<1>1. PICK phy \in Nat, end \in Nat, seg \in Nat \ {0} :
        phy = e.phy_blk /\ end = ExtentEnd(e) /\ seg = SegSize /\ phy <= end
  BY SegmentAssumption DEF ExtentEnd
<1>2. PICK first \in Nat, last \in Nat :
        /\ first = FirstSegment(e) /\ last = EndSegment(e)
        /\ first = phy \div seg /\ last = end \div seg
  BY <1>1 DEF FirstSegment, EndSegment, SegmentOf
<1>3. first <= last
  BY <1>1, <1>2
<1>4. first * seg <= last * seg /\ last * seg \in Nat
  BY <1>1, <1>2, <1>3
<1>5. phy = first * seg
  BY <1>1, <1>2 DEF FullThenPart, StartsSegment, SegmentStart
<1>6. SegmentStart(EndSegment(e)) = last * seg
  BY <1>1, <1>2 DEF SegmentStart
<1>7. QED
  BY <1>1, <1>4, <1>5, <1>6 DEF BlocksOf

(* When the report ends, every extent of the selected zones was reported,  *)
(* and nothing else; its parts do not overlap and are of its blocks; and   *)
(* together they are its blocks, unless it fills a segment and ends in the *)
(* next.                                                                   *)
THEOREM ReportIsComplete == Spec => []PartsTileExtents
<1>1. Init => PartsOK
  BY PartsInit
<1>2. ReportOK /\ PartsOK /\ [Next]_vars => PartsOK'
  BY PartsStep
<1>3. ReportOK /\ PartsOK => PartsTileExtents
  <2> SUFFICES ASSUME ReportOK, PartsOK, pc = "done"
               PROVE  /\ {lines[n].of : n \in ExtentLines} = SelectedExtents
                      /\ \A e \in SelectedExtents :
                           /\ BlocksShown(e) \subseteq BlocksOf(e)
                           /\ ~FullThenPart(e) => BlocksShown(e) = BlocksOf(e)
                           /\ \A m, n \in LinesOf(e) :
                                m # n => BlocksOfLine(lines[m]) \cap BlocksOfLine(lines[n]) = {}
    BY DEF PartsTileExtents
  <2>1. Walked = SelectedExtents
    BY AllWalked DEF ReportOK
  <2>2. \A e : LinesOf(e) = TellsOf(lines, e)
    BY DEF LinesOf, ExtentLines, TellsOf
  <2>3. \A e \in SelectedExtents : Complete(lines, e)
    BY <2>1 DEF PartsOK
  <2>4. {lines[n].of : n \in ExtentLines} \subseteq SelectedExtents
    <3> SUFFICES ASSUME NEW n \in ExtentLines
                 PROVE  lines[n].of \in SelectedExtents
      OBVIOUS
    <3>1. n \in TellsOf(lines, lines[n].of)
      BY DEF ExtentLines, TellsOf
    <3>2. QED
      BY <2>1, <3>1 DEF PartsOK, Mid
  <2>5. SelectedExtents \subseteq {lines[n].of : n \in ExtentLines}
    BY <2>3 DEF Complete, TellsOf, ExtentLines
  <2>6. ASSUME NEW e \in SelectedExtents
        PROVE  /\ BlocksShown(e) \subseteq BlocksOf(e)
               /\ ~FullThenPart(e) => BlocksShown(e) = BlocksOf(e)
               /\ \A m, n \in LinesOf(e) :
                    m # n => BlocksOfLine(lines[m]) \cap BlocksOfLine(lines[n]) = {}
    <3>1. Complete(lines, e) /\ LinesOf(e) = TellsOf(lines, e)
      BY <2>2, <2>3
    <3>2. BlocksShown(e) = ShownIn(lines, e)
      BY <3>1 DEF ShownIn, BlocksShown
    <3>3. BlocksShown(e) = IF FullThenPart(e)
                           THEN SegmentStart(EndSegment(e)) .. ExtentEnd(e) - 1
                           ELSE BlocksOf(e)
      BY <3>1, <3>2 DEF Complete
    <3>4. e.phy_blk \in Nat /\ e.len \in Nat
      BY MapFacts, ExtentFacts DEF SelectedExtents, ReportOK, WalkOK
    <3>5. BlocksShown(e) \subseteq BlocksOf(e)
      BY <3>3, <3>4, RestIsOfExtent
    <3>6. QED
      BY <3>1, <3>3, <3>5 DEF Complete, ApartIn
  <2>7. QED
    BY <2>4, <2>5, <2>6
<1>4. QED
  BY <1>1, <1>2, <1>3, ReportIsOK, PTL DEF Spec

-----------------------------------------------------------------------------
(* Headers.                                                                *)

(* The report is in a segment before a line: the last header tells.        *)
HeadAt(log, n, segment) ==
  \/ /\ segment = 0
     /\ \A m \in 1 .. n - 1 : log[m].kind # "segment"
  \/ \E m \in 1 .. n - 1 :
       /\ log[m].kind = "segment" /\ log[m].first = segment
       /\ \A k \in m + 1 .. n - 1 : log[k].kind # "segment"

(* A line tells of blocks of that segment, or of a range announced.        *)
UnderAt(log, n) ==
  \A b \in BlocksOfLine(log[n]) :
    \/ HeadAt(log, n, SegmentOf(b))
    \/ \E m \in 1 .. n - 1 :
         /\ log[m].kind = "range" /\ SegmentOf(b) \in log[m].first .. log[m].last
         /\ \A k \in m + 1 .. n - 1 : log[k].kind # "extent"

LEMMA HeadAtStays ==
  ASSUME NEW log, NEW longer, NEW n \in Nat, NEW segment, HeadAt(log, n, segment),
         \A m \in 1 .. n - 1 : longer[m] = log[m]
  PROVE  HeadAt(longer, n, segment)
BY DEF HeadAt

LEMMA UnderAtStays ==
  ASSUME NEW log, NEW longer, NEW n \in Nat \ {0}, UnderAt(log, n),
         \A m \in 1 .. n : longer[m] = log[m]
  PROVE  UnderAt(longer, n)
<1> SUFFICES ASSUME NEW b \in BlocksOfLine(log[n])
             PROVE  \/ HeadAt(longer, n, SegmentOf(b))
                    \/ \E m \in 1 .. n - 1 :
                         /\ longer[m].kind = "range"
                         /\ SegmentOf(b) \in longer[m].first .. longer[m].last
                         /\ \A k \in m + 1 .. n - 1 : longer[k].kind # "extent"
  BY DEF UnderAt
<1>1. \A m \in 1 .. n - 1 : longer[m] = log[m]
  OBVIOUS
<1>2. CASE HeadAt(log, n, SegmentOf(b))
  BY <1>1, <1>2, HeadAtStays
<1>3. CASE ~HeadAt(log, n, SegmentOf(b))
  <2>1. PICK m \in 1 .. n - 1 :
          /\ log[m].kind = "range" /\ SegmentOf(b) \in log[m].first .. log[m].last
          /\ \A k \in m + 1 .. n - 1 : log[k].kind # "extent"
    BY <1>3 DEF UnderAt
  <2>2. \A k \in m + 1 .. n - 1 : longer[k] = log[k]
    BY <1>1
  <2>3. QED
    BY <1>1, <2>1, <2>2
<1>4. QED
  BY <1>2, <1>3

LEMMA LedTo ==
  ASSUME NEW log, NEW headers, NEW longer, NEW L \in Nat, Len(headers) \in Nat,
         \A n \in 1 .. L : longer[n] = log[n],
         \A n \in 1 .. Len(headers) : longer[L + n] = headers[n],
         NEW last \in {L + Len(headers), L + Len(headers) + 1},
         longer[L + Len(headers) + 1].kind # "segment",
         NEW from, NEW to, HeadAt(log, L + 1, from), Leads(headers, from, to)
  PROVE  HeadAt(longer, last + 1, to)
<1> DEFINE H == Len(headers)
<1>1. H \in Nat /\ last \in Nat /\ (last = L + H \/ last = L + H + 1) /\ (last + 1) - 1 = last
  OBVIOUS
<1>2. ASSUME NEW k \in L + 1 .. last
      PROVE  longer[k].kind # "segment" \/ (k - L \in 1 .. H /\ longer[k] = headers[k - L])
  <2>1. CASE k = L + H + 1
    BY <2>1
  <2>2. CASE k # L + H + 1
    <3>1. k - L \in 1 .. H /\ L + (k - L) = k
      BY <1>1, <2>2
    <3>2. QED
      BY <3>1
  <2>3. QED
    BY <2>1, <2>2
<1>3. CASE from = to
  <2>1. \A n \in 1 .. H : headers[n].kind # "segment"
    BY <1>3 DEF Leads
  <2>2. \A k \in L + 1 .. last : longer[k].kind # "segment"
    BY <1>2, <2>1
  <2> HIDE DEF H
  <2>3. CASE to = 0 /\ \A m \in 1 .. L : log[m].kind # "segment"
    <3>1. ASSUME NEW m \in 1 .. last
          PROVE  longer[m].kind # "segment"
      <4>1. CASE m <= L
        <5>1. m \in 1 .. L
          BY <4>1
        <5>2. QED
          BY <2>3, <5>1
      <4>2. CASE m > L
        <5>1. m \in L + 1 .. last
          BY <1>1, <4>2
        <5>2. QED
          BY <2>2, <5>1
      <4>3. QED
        BY <1>1, <4>1, <4>2
    <3>2. QED
      BY <1>1, <2>3, <3>1 DEF HeadAt
  <2>4. CASE \E m \in 1 .. L : /\ log[m].kind = "segment" /\ log[m].first = to
                               /\ \A k \in m + 1 .. L : log[k].kind # "segment"
    <3>1. PICK m \in 1 .. L : /\ log[m].kind = "segment" /\ log[m].first = to
                              /\ \A k \in m + 1 .. L : log[k].kind # "segment"
      BY <2>4
    <3>2. \A k \in m + 1 .. last : longer[k].kind # "segment"
      BY <1>1, <2>2, <3>1
    <3>3. m \in 1 .. last /\ longer[m] = log[m]
      BY <1>1
    <3>4. QED
      BY <1>1, <3>1, <3>2, <3>3 DEF HeadAt
  <2>5. (L + 1) - 1 = L
    OBVIOUS
  <2>6. QED
    BY <1>3, <2>3, <2>4, <2>5 DEF HeadAt
<1>4. CASE from # to
  <2>1. PICK n \in 1 .. H : /\ headers[n].kind = "segment" /\ headers[n].first = to
                            /\ \A m \in 1 .. H : m # n => headers[m].kind # "segment"
    BY <1>4 DEF Leads
  <2>2. L + n \in 1 .. last /\ longer[L + n] = headers[n]
    BY <1>1
  <2>3. ASSUME NEW k \in (L + n) + 1 .. last
        PROVE  longer[k].kind # "segment"
    <3>1. k \in L + 1 .. last /\ k - L # n
      BY <1>1
    <3>2. QED
      BY <1>2, <2>1, <3>1
  <2>4. QED
    BY <1>1, <2>1, <2>2, <2>3 DEF HeadAt
<1>5. QED
  BY <1>3, <1>4

HeadersOK ==
  /\ HeadAt(lines, Len(lines) + 1, cur_segment)
  /\ \A n \in 1 .. Len(lines) : lines[n].kind = "extent" => UnderAt(lines, n)

(* The lines a step that shows something prints.                           *)
LEMMA ShowsLines ==
  ASSUME LogOK, NEW e, NEW from, NEW behind, NEW segment, Shows(e, from, behind, segment)
  PROVE  \E headers \in Seq(Line) :
           /\ Leads(headers, cur_segment, segment)
           /\ Announce(headers, segment, from, behind)
           /\ Len(lines') = Len(lines) + Len(headers) + 1
           /\ Len(headers) \in Nat /\ Len(lines) \in Nat
           /\ \A n \in 1 .. Len(lines) : lines'[n] = lines[n]
           /\ \A n \in 1 .. Len(headers) : lines'[Len(lines) + n] = headers[n]
           /\ lines'[Len(lines')].kind = "extent"
           /\ BlocksOfLine(lines'[Len(lines')]) = from .. behind - 1
<1>1. PICK headers \in Seq(Line), line \in LogLine :
        /\ lines' = Longer(lines, headers, line) /\ line.kind = "extent" /\ line.of = e
        /\ BlocksOfLine(line) = from .. behind - 1
        /\ Leads(headers, cur_segment, segment)
        /\ Announce(headers, segment, from, behind)
  BY DEF Shows
<1>2. lines \in Seq(LogLine)
  BY DEF LogOK
<1> DEFINE longer == Longer(lines, headers, line)
<1>3. /\ Len(longer) = Len(lines) + Len(headers) + 1
      /\ longer[Len(longer)] = line
      /\ \A n \in 1 .. Len(lines) : longer[n] = lines[n]
      /\ \A n \in 1 .. Len(headers) : longer[Len(lines) + n] = headers[n]
  BY <1>2, LogGrows, ZenonT(30)
<1>4. lines' = longer /\ Len(headers) \in Nat /\ Len(lines) \in Nat
  BY <1>1, <1>2
<1> HIDE DEF longer
<1>5. QED
  BY <1>1, <1>3, <1>4

LEMMA HeadersShows ==
  ASSUME LogOK, HeadersOK,
         NEW e, NEW from, NEW behind, NEW segment, Shows(e, from, behind, segment)
  PROVE  HeadersOK'
<1>1. PICK headers \in Seq(Line) :
        /\ Leads(headers, cur_segment, segment)
        /\ Announce(headers, segment, from, behind)
        /\ Len(lines') = Len(lines) + Len(headers) + 1
        /\ Len(headers) \in Nat /\ Len(lines) \in Nat
        /\ \A n \in 1 .. Len(lines) : lines'[n] = lines[n]
        /\ \A n \in 1 .. Len(headers) : lines'[Len(lines) + n] = headers[n]
        /\ lines'[Len(lines')].kind = "extent"
        /\ BlocksOfLine(lines'[Len(lines')]) = from .. behind - 1
  BY ShowsLines
<1>2. cur_segment' = segment
  BY DEF Shows
<1> DEFINE L == Len(lines)
           H == Len(headers)
<1>3. HeadAt(lines', L + H + 1, segment) /\ HeadAt(lines', (L + H + 1) + 1, segment)
  BY <1>1, LedTo DEF HeadersOK
<1>7. ASSUME NEW n \in L + 1 .. L + H
      PROVE  lines'[n].kind # "extent"
  <2> DEFINE k == n - L
  <2>1. k \in 1 .. H /\ L + k = n
    BY <1>1
  <2> HIDE DEF k
  <2>2. headers[k] \in Line /\ lines'[L + k] = headers[k]
    BY <1>1, <2>1
  <2>3. QED
    BY <2>1, <2>2, LineKinds
<1>4. ASSUME NEW n \in 1 .. Len(lines'), lines'[n].kind = "extent"
      PROVE  UnderAt(lines', n)
  <2>1. CASE n \in 1 .. L
    <3>1. UnderAt(lines, n)
      BY <1>1, <1>4, <2>1 DEF HeadersOK
    <3>2. n \in Nat \ {0} /\ \A m \in 1 .. n : lines'[m] = lines[m]
      BY <1>1, <2>1
    <3>3. QED
      BY <3>1, <3>2, UnderAtStays
  <2>2. CASE n \in L + 1 .. L + H
    BY <1>4, <1>7, <2>2
  <2>3. CASE n = L + H + 1
    <3>4. BlocksOfLine(lines'[n]) = from .. behind - 1
      BY <1>1, <2>3
    <3> SUFFICES ASSUME NEW b \in from .. behind - 1
                 PROVE  \/ HeadAt(lines', n, SegmentOf(b))
                        \/ \E m \in 1 .. n - 1 :
                             /\ lines'[m].kind = "range"
                             /\ SegmentOf(b) \in lines'[m].first .. lines'[m].last
                             /\ \A k \in m + 1 .. n - 1 : lines'[k].kind # "extent"
      BY <3>4 DEF UnderAt
    <3>1. CASE SegmentOf(b) = segment
      BY <1>3, <2>3, <3>1
    <3>2. CASE SegmentOf(b) # segment
      <4>1. PICK m \in 1 .. H : headers[m].kind = "range"
                                /\ SegmentOf(b) \in headers[m].first .. headers[m].last
        BY <3>2, <1>1 DEF Announce
      <4>2. L + m \in 1 .. n - 1 /\ lines'[L + m] = headers[m]
        BY <1>1, <2>3
      <4>3. ASSUME NEW k \in (L + m) + 1 .. n - 1
            PROVE  lines'[k].kind # "extent"
        <5>1. k \in L + 1 .. L + H
          BY <1>1, <2>3
        <5>2. QED
          BY <1>7, <5>1
      <4>4. QED
        BY <4>1, <4>2, <4>3
    <3>3. QED
      BY <3>1, <3>2
  <2>4. n \in 1 .. L \/ n \in L + 1 .. L + H \/ n = L + H + 1
    BY <1>1
  <2>5. QED
    BY <2>1, <2>2, <2>3, <2>4
<1>5. HeadAt(lines', Len(lines') + 1, cur_segment')
  BY <1>1, <1>2, <1>3
<1>6. QED
  BY <1>4, <1>5 DEF HeadersOK

LEMMA HeadersQuiet ==
  ASSUME LogOK, HeadersOK, Quiet, cur_segment' = cur_segment
  PROVE  HeadersOK'
<1>1. CASE lines' = lines
  BY <1>1 DEF HeadersOK
<1>2. CASE \E zone \in Zones : lines' = Append(lines, ZoneLine(zone))
  <2>1. PICK line : line.kind = "zone" /\ lines' = Append(lines, line)
    BY <1>2 DEF ZoneLine
  <2> DEFINE L == Len(lines)
             none == <<>>
  <2>2. lines \in Seq(LogLine)
    BY DEF LogOK
  <2>3. /\ L \in Nat /\ Len(lines') = L + 1
        /\ \A n \in 1 .. L : lines'[n] = lines[n]
        /\ lines'[L + 1].kind = "zone"
    BY <2>1, <2>2
  <2>4. Len(none) = 0
    OBVIOUS
  <2> HIDE DEF L, none
  <2>5. Leads(none, cur_segment, cur_segment)
    BY <2>4 DEF Leads
  <2>6. HeadAt(lines, L + 1, cur_segment)
    BY DEF HeadersOK, L
  <2>7. /\ L + Len(none) + 1 = L + 1 /\ Len(none) \in Nat
        /\ lines'[L + Len(none) + 1].kind # "segment"
        /\ \A n \in 1 .. Len(none) : lines'[L + n] = none[n]
    BY <2>3, <2>4
  <2>8. HeadAt(lines', (L + Len(none) + 1) + 1, cur_segment)
    BY <2>3, <2>5, <2>6, <2>7, LedTo
  <2>9. ASSUME NEW n \in 1 .. L + 1, lines'[n].kind = "extent"
        PROVE  UnderAt(lines', n)
    <3>1. n \in 1 .. L
      BY <2>3, <2>9
    <3>2. UnderAt(lines, n) /\ n \in Nat \ {0} /\ \A m \in 1 .. n : lines'[m] = lines[m]
      BY <2>3, <2>9, <3>1 DEF HeadersOK, L
    <3>3. QED
      BY <3>2, UnderAtStays
  <2>10. QED
    BY <2>3, <2>7, <2>8, <2>9 DEF HeadersOK
<1>3. QED
  BY <1>1, <1>2 DEF Quiet

(* Headers in device order, up to the segment the report is in.            *)
Rising(log, segment) ==
  /\ \A n \in 1 .. Len(log) : log[n].kind = "segment" => log[n].first \in 0 .. segment
  /\ \A m, n \in 1 .. Len(log) :
       m < n /\ log[m].kind = "segment" /\ log[n].kind = "segment" =>
         log[m].first < log[n].first

LEMMA RisingShows ==
  ASSUME LogOK, Rising(lines, cur_segment), NEW e, NEW from, NEW behind,
         NEW segment \in Nat, cur_segment <= segment, Shows(e, from, behind, segment)
  PROVE  Rising(lines', segment)
<1>1. PICK headers \in Seq(Line) :
        /\ Leads(headers, cur_segment, segment)
        /\ Len(lines') = Len(lines) + Len(headers) + 1
        /\ Len(headers) \in Nat /\ Len(lines) \in Nat
        /\ \A n \in 1 .. Len(lines) : lines'[n] = lines[n]
        /\ \A n \in 1 .. Len(headers) : lines'[Len(lines) + n] = headers[n]
        /\ lines'[Len(lines')].kind = "extent"
  BY ShowsLines
<1> DEFINE L == Len(lines)
           H == Len(headers)
<1>2. cur_segment \in Nat
  BY DEF LogOK
<1>3. ASSUME NEW n \in 1 .. Len(lines'), lines'[n].kind = "segment"
      PROVE  \/ n \in 1 .. L /\ lines'[n] = lines[n]
             \/ /\ n \in L + 1 .. L + H /\ cur_segment < segment /\ lines'[n].first = segment
                /\ \A m \in L + 1 .. L + H : lines'[m].kind = "segment" => m = n
  <2>1. CASE n \in 1 .. L
    BY <1>1, <2>1
  <2>2. CASE n \in L + 1 .. L + H
    <3>1. \A m \in L + 1 .. L + H : m - L \in 1 .. H /\ lines'[m] = headers[m - L]
      <4> SUFFICES ASSUME NEW m \in L + 1 .. L + H
                   PROVE  m - L \in 1 .. H /\ lines'[m] = headers[m - L]
        OBVIOUS
      <4>1. m - L \in 1 .. H /\ L + (m - L) = m
        BY <1>1
      <4>2. QED
        BY <1>1, <4>1
    <3>2. headers[n - L].kind = "segment" /\ n - L \in 1 .. H
      BY <1>3, <2>2, <3>1
    <3>3. cur_segment # segment
      BY <1>1, <3>2 DEF Leads
    <3>4. PICK k \in 1 .. H : /\ headers[k].first = segment
                              /\ \A m \in 1 .. H : m # k => headers[m].kind # "segment"
      BY <1>1, <3>3 DEF Leads
    <3>5. n - L = k
      BY <3>2, <3>4
    <3>6. ASSUME NEW m \in L + 1 .. L + H, lines'[m].kind = "segment"
          PROVE  m = n
      <4>1. m - L = k
        BY <3>1, <3>4, <3>6
      <4>2. QED
        BY <1>1, <3>5, <4>1
    <3>7. cur_segment < segment
      BY <1>2, <3>3
    <3>8. lines'[n].first = segment
      BY <2>2, <3>1, <3>4, <3>5
    <3>9. QED
      BY <2>2, <3>6, <3>7, <3>8
  <2>3. CASE n = L + H + 1
    BY <1>1, <1>3, <2>3
  <2>4. n \in 1 .. L \/ n \in L + 1 .. L + H \/ n = L + H + 1
    BY <1>1
  <2>5. QED
    BY <2>1, <2>2, <2>3, <2>4
<1>4. ASSUME NEW n \in 1 .. Len(lines'), lines'[n].kind = "segment"
      PROVE  /\ lines'[n].first \in 0 .. segment
             /\ n \in 1 .. L => lines'[n].first <= cur_segment
  <2>1. CASE n \in 1 .. L /\ lines'[n] = lines[n]
    <3>1. lines'[n].first \in 0 .. cur_segment
      BY <1>4, <2>1 DEF Rising
    <3>2. QED
      BY <1>2, <3>1
  <2>2. CASE n \in L + 1 .. L + H /\ lines'[n].first = segment
    <3>1. n \notin 1 .. L
      BY <1>1, <2>2
    <3>2. QED
      BY <2>2, <3>1
  <2>3. QED
    BY <1>3, <1>4, <2>1, <2>2
<1>5. ASSUME NEW m \in 1 .. Len(lines'), NEW n \in 1 .. Len(lines'), m < n,
             lines'[m].kind = "segment", lines'[n].kind = "segment"
      PROVE  lines'[m].first < lines'[n].first
  <2>1. CASE n \in 1 .. L
    <3>1. m \in 1 .. L
      BY <1>5, <2>1
    <3>2. lines'[m] = lines[m] /\ lines'[n] = lines[n]
      BY <1>1, <2>1, <3>1
    <3>3. QED
      BY <1>5, <2>1, <3>1, <3>2 DEF Rising
  <2>2. CASE n \notin 1 .. L
    <3>1. /\ n \in L + 1 .. L + H /\ cur_segment < segment /\ lines'[n].first = segment
          /\ \A k \in L + 1 .. L + H : lines'[k].kind = "segment" => k = n
      BY <1>3, <1>5, <2>2
    <3>2. m \in 1 .. L
      <4>1. m \notin L + 1 .. L + H
        BY <1>5, <3>1
      <4>2. QED
        BY <1>3, <1>5, <4>1
    <3>3. lines'[m].first <= cur_segment /\ lines'[m].first \in 0 .. segment
      BY <1>4, <1>5, <3>2
    <3>4. QED
      BY <1>2, <3>1, <3>3
  <2>3. QED
    BY <2>1, <2>2
<1>6. QED
  BY <1>4, <1>5 DEF Rising

LEMMA RisingQuiet ==
  ASSUME LogOK, Rising(lines, cur_segment), Quiet
  PROVE  Rising(lines', cur_segment)
<1>1. CASE lines' = lines
  BY <1>1
<1>2. CASE \E zone \in Zones : lines' = Append(lines, ZoneLine(zone))
  <2>1. PICK line : line.kind = "zone" /\ lines' = Append(lines, line)
    BY <1>2 DEF ZoneLine
  <2> DEFINE L == Len(lines)
  <2>2. lines \in Seq(LogLine)
    BY DEF LogOK
  <2>3. /\ L \in Nat /\ Len(lines') = L + 1
        /\ \A n \in 1 .. L : lines'[n] = lines[n]
        /\ lines'[L + 1].kind = "zone"
    BY <2>1, <2>2
  <2>4. \A n \in 1 .. Len(lines') : lines'[n].kind = "segment" => n \in 1 .. L
    BY <2>3
  <2>5. QED
    BY <2>3, <2>4 DEF Rising
<1>3. QED
  BY <1>1, <1>2 DEF Quiet

(* Where extents do not overlap, one that is still to come starts no       *)
(* earlier than in the segment the current one ends in.                    *)
LEMMA ComesBehind ==
  ASSUME WalkOK, DeviceFitsWord, Disjoint, pc \in Mid,
         NEW d \in SelectedExtents \ Walked, d # TheExtent
  PROVE  EndSegment(TheExtent) <= FirstSegment(d)
<1>1. TheExtent \in SelectedExtents /\ current # <<>>
  BY InProgress
<1> DEFINE e == TheExtent
<1>2. e \in SelectedExtents /\ e.phy_blk <= d.phy_blk
  BY <1>1, InOrder
<1>3. e \in Extent /\ d \in Extent
  BY <1>1, SelectedFacts
<1>4. ({d.phy_blk} \cup BlocksOf(d)) \cap ({e.phy_blk} \cup BlocksOf(e)) = {}
  BY <1>2 DEF Disjoint
<1> HIDE DEF e
<1>5. e.phy_blk \in Nat /\ e.len \in Nat /\ d.phy_blk \in Nat /\ ExtentEnd(e) = e.phy_blk + e.len
  BY <1>3, ExtentFacts
<1>6. d.phy_blk # e.phy_blk /\ d.phy_blk \notin e.phy_blk .. ExtentEnd(e) - 1
  BY <1>4 DEF BlocksOf
<1>7. ExtentEnd(e) \in Nat /\ ExtentEnd(e) <= d.phy_blk
  BY <1>2, <1>5, <1>6
<1>8. SegmentOf(ExtentEnd(e)) <= SegmentOf(d.phy_blk)
  BY <1>5, <1>7, SegmentMonotone
<1>9. QED
  BY <1>8 DEF EndSegment, FirstSegment, e

(* No segment still to come lies before the one the report is in.          *)
AheadOK ==
  /\ \A d \in SelectedExtents \ Walked :
       (pc \in Mid /\ d = TheExtent) \/ cur_segment <= FirstSegment(d)
  /\ pc \in {"single", "beginning", "middle"} => cur_segment <= segment_id
  /\ pc = "remainder" => cur_segment <= EndSegment(TheExtent)

RiseOK == DeviceFitsWord /\ Disjoint => Rising(lines, cur_segment) /\ AheadOK

LEMMA HeadersInit ==
  ASSUME Init
  PROVE  HeadersOK /\ RiseOK
<1>1. lines = <<>> /\ cur_segment = 0 /\ pc = "zone" /\ WalkOK /\ Len(<<>>) = 0
  BY WalkInit DEF Init
<1>2. HeadersOK
  BY <1>1 DEF HeadersOK, HeadAt
<1>3. \A d \in SelectedExtents : FirstSegment(d) \in Nat
  BY <1>1, SelectedFacts, ExtentFacts
<1>4. Rising(lines, cur_segment) /\ AheadOK
  BY <1>1, <1>3 DEF Rising, AheadOK
<1>5. QED
  BY <1>2, <1>4 DEF RiseOK

(* The segment each part is shown under.                                   *)
LEMMA PartSegments ==
  ASSUME WalkOK, pc \in Mid
  PROVE  /\ TheExtent \in Extent
         /\ segment_id \in Nat /\ EndSegment(TheExtent) \in Nat
         /\ segment_id <= EndSegment(TheExtent)
         /\ pc = "beginning" => segment_id + 1 <= EndSegment(TheExtent)
<1>1. /\ current # <<>> /\ segment_id \in Nat
      /\ segment_id = IF pc \in {"single", "beginning"} \/ StartsSegment(TheExtent)
                      THEN FirstSegment(TheExtent)
                      ELSE FirstSegment(TheExtent) + 1
      /\ InOneSegment(TheExtent) <=> pc = "single"
  BY DEF WalkOK
<1>2. TheExtent \in Extent
  BY <1>1, TheExtentFacts
<1>3. /\ FirstSegment(TheExtent) \in Nat /\ EndSegment(TheExtent) \in Nat
      /\ FirstSegment(TheExtent) <= EndSegment(TheExtent)
      /\ pc # "single" => FirstSegment(TheExtent) + 1 <= EndSegment(TheExtent)
  BY <1>1, <1>2, ExtentFacts, PartsFacts
<1>4. QED
  BY <1>1, <1>2, <1>3 DEF Mid

LEMMA HeadersStep ==
  ASSUME ReportOK, HeadersOK, [Next]_vars
  PROVE  HeadersOK'
<1>1. WalkOK /\ LogOK
  BY DEF ReportOK
<1>2. CASE ShowSingle \/ ShowBeginning \/ ShowMiddle \/ ShowRemainder
  BY <1>1, <1>2, HeadersShows, SingleShows, BeginningShows, MiddleShows, RemainderShows
<1>3. CASE ~(ShowSingle \/ ShowBeginning \/ ShowMiddle \/ ShowRemainder)
  <2>1. Quiet
    BY <1>1, <1>3, WhatIsPrinted
  <2>2. cur_segment' = cur_segment
    BY <1>3 DEF Next, Walk, vars, EnterZone, SkipZone, LeaveZone, ContinueBelowStart,
       EnterExtent, NoBeginning, NoMiddle, NoRemainder, ShowStats, Finished
  <2>3. QED
    BY <1>1, <2>1, <2>2, HeadersQuiet
<1>4. QED
  BY <1>2, <1>3

LEMMA RiseStep ==
  ASSUME ReportOK, RiseOK, [Next]_vars
  PROVE  RiseOK'
<1>1. WalkOK /\ LogOK /\ cur_segment \in Nat
  BY DEF ReportOK, LogOK
<1>2. Disjoint' = Disjoint
  BY SelectionStays DEF Disjoint
<1> SUFFICES ASSUME DeviceFitsWord, Disjoint
             PROVE  Rising(lines', cur_segment') /\ AheadOK'
  BY <1>2 DEF RiseOK
<1>3. Rising(lines, cur_segment) /\ AheadOK
  BY DEF RiseOK
<1>4. SelectedExtents' = SelectedExtents
  BY SelectionStays
<1>5. ASSUME pc \in Mid
      PROVE  \A d \in SelectedExtents \ Walked :
               d # TheExtent => EndSegment(TheExtent) <= FirstSegment(d) /\ FirstSegment(d) \in Nat
  BY <1>1, <1>5, ComesBehind, SelectedFacts, ExtentFacts
<1>6. ASSUME Done, cur_segment' \in Nat, cur_segment' <= EndSegment(TheExtent)
      PROVE  AheadOK'
  <2>1. pc \in Mid /\ pc' = "list"
    BY <1>6 DEF Done, ShowSingle, ShowRemainder, NoRemainder, NextExtent, Mid
  <2>2. Walked' = Walked \cup {TheExtent}
    BY <1>1, <1>6, OneMoreWalked
  <2>3. EndSegment(TheExtent) \in Nat
    BY <1>1, <2>1, PartSegments
  <2>4. \A d \in SelectedExtents \ Walked' : cur_segment' <= FirstSegment(d)
    BY <1>5, <1>6, <2>1, <2>2, <2>3
  <2>5. QED
    BY <1>4, <2>1, <2>4 DEF AheadOK
<1>7. ASSUME ~Done, pc \in Mid, pc' \in Mid, TheExtent' = TheExtent,
             cur_segment' \in Nat, cur_segment' <= EndSegment(TheExtent),
             pc' = "middle" => cur_segment' <= segment_id', pc' \notin {"single", "beginning"}
      PROVE  AheadOK'
  <2>1. Walked' = Walked
    BY <1>1, <1>7, NoneWalked
  <2>2. EndSegment(TheExtent) \in Nat
    BY <1>1, <1>7, PartSegments
  <2>3. \A d \in SelectedExtents \ Walked' : d = TheExtent' \/ cur_segment' <= FirstSegment(d)
    BY <1>5, <1>7, <2>1, <2>2
  <2>4. EndSegment(TheExtent)' = EndSegment(TheExtent)
    BY <1>7
  <2>5. QED
    BY <1>4, <1>7, <2>3, <2>4 DEF AheadOK
<1>8. CASE ShowSingle
  <2>1. pc \in Mid /\ pc = "single" /\ Done
    BY <1>8 DEF ShowSingle, Mid, Done
  <2>2. /\ segment_id \in Nat /\ cur_segment <= segment_id
        /\ segment_id <= EndSegment(TheExtent)
    BY <1>1, <1>3, <2>1, PartSegments DEF AheadOK
  <2>3. Shows(TheExtent, TheExtent.phy_blk, ExtentEnd(TheExtent), segment_id)
    BY <1>1, <1>8, SingleShows
  <2>4. cur_segment' = segment_id
    BY <2>3 DEF Shows
  <2>5. Rising(lines', segment_id)
    BY <1>1, <1>3, <2>2, <2>3, RisingShows
  <2>6. QED
    BY <1>6, <2>1, <2>2, <2>4, <2>5
<1>9. CASE ShowBeginning
  <2>1. pc \in Mid /\ pc = "beginning" /\ pc' = "middle" /\ segment_id' = segment_id + 1
        /\ TheExtent' = TheExtent
    BY <1>9 DEF ShowBeginning, Mid, TheExtent
  <2>2. /\ segment_id \in Nat /\ cur_segment <= segment_id
        /\ segment_id <= EndSegment(TheExtent)
    BY <1>1, <1>3, <2>1, PartSegments DEF AheadOK
  <2>3. Shows(TheExtent, TheExtent.phy_blk, SegmentStart(segment_id + 1), segment_id)
    BY <1>1, <1>9, BeginningShows
  <2>4. cur_segment' = segment_id
    BY <2>3 DEF Shows
  <2>5. Rising(lines', segment_id)
    BY <1>1, <1>3, <2>2, <2>3, RisingShows
  <2>6. ~Done
    BY <2>1 DEF Done, ShowSingle, ShowRemainder, NoRemainder
  <2>7. QED
    BY <1>7, <2>1, <2>2, <2>4, <2>5, <2>6 DEF Mid
<1>10. CASE ShowMiddle
  <2>1. pc \in Mid /\ pc = "middle" /\ pc' = "remainder" /\ TheExtent' = TheExtent
    BY <1>10 DEF ShowMiddle, Mid, TheExtent
  <2>2. /\ segment_id \in Nat /\ cur_segment <= segment_id
        /\ segment_id <= EndSegment(TheExtent)
    BY <1>1, <1>3, <2>1, PartSegments DEF AheadOK
  <2>3. Shows(TheExtent, SegmentStart(segment_id), SegmentStart(EndSegment(TheExtent)),
              segment_id)
    BY <1>1, <1>10, MiddleShows
  <2>4. cur_segment' = segment_id
    BY <2>3 DEF Shows
  <2>5. Rising(lines', segment_id)
    BY <1>1, <1>3, <2>2, <2>3, RisingShows
  <2>6. ~Done
    BY <2>1 DEF Done, ShowSingle, ShowRemainder, NoRemainder
  <2>7. QED
    BY <1>7, <2>1, <2>2, <2>4, <2>5, <2>6 DEF Mid
<1>11. CASE ShowRemainder
  <2>1. pc \in Mid /\ pc = "remainder" /\ Done
    BY <1>11 DEF ShowRemainder, Mid, Done
  <2>2. EndSegment(TheExtent) \in Nat /\ cur_segment <= EndSegment(TheExtent)
    BY <1>1, <1>3, <2>1, PartSegments DEF AheadOK
  <2>3. Shows(TheExtent, SegmentStart(EndSegment(TheExtent)), ExtentEnd(TheExtent),
              EndSegment(TheExtent))
    BY <1>1, <1>11, RemainderShows
  <2>4. cur_segment' = EndSegment(TheExtent)
    BY <2>3 DEF Shows
  <2>5. Rising(lines', EndSegment(TheExtent))
    BY <1>1, <1>3, <2>2, <2>3, RisingShows
  <2>6. QED
    BY <1>6, <2>1, <2>2, <2>4, <2>5
<1>12. ASSUME ~(ShowSingle \/ ShowBeginning \/ ShowMiddle \/ ShowRemainder)
       PROVE  Rising(lines', cur_segment') /\ cur_segment' = cur_segment
  <2>1. Quiet
    BY <1>1, <1>12, WhatIsPrinted
  <2>2. cur_segment' = cur_segment
    BY <1>12 DEF Next, Walk, vars, EnterZone, SkipZone, LeaveZone, ContinueBelowStart,
       EnterExtent, NoBeginning, NoMiddle, NoRemainder, ShowStats, Finished
  <2>3. QED
    BY <1>1, <1>3, <2>1, <2>2, RisingQuiet
<1>13. CASE NoBeginning \/ NoMiddle
  <2>1. /\ pc \in {"beginning", "middle"} /\ pc \in Mid /\ pc' \in {"middle", "remainder"}
        /\ pc' \in Mid
        /\ TheExtent' = TheExtent /\ segment_id' = segment_id
    BY <1>13 DEF NoBeginning, NoMiddle, Mid, TheExtent
  <2>2. ~(ShowSingle \/ ShowBeginning \/ ShowMiddle \/ ShowRemainder) /\ ~Done
    BY <1>13 DEF NoBeginning, NoMiddle, ShowSingle, ShowBeginning, ShowMiddle,
       ShowRemainder, NoRemainder, Done
  <2>3. /\ segment_id \in Nat /\ cur_segment <= segment_id
        /\ segment_id <= EndSegment(TheExtent) /\ EndSegment(TheExtent) \in Nat
    BY <1>1, <1>3, <2>1, PartSegments DEF AheadOK
  <2>4. cur_segment <= EndSegment(TheExtent)
    BY <1>1, <2>3
  <2>5. QED
    BY <1>1, <1>7, <1>12, <2>1, <2>2, <2>3, <2>4
<1>14. CASE NoRemainder
  <2>1. pc \in Mid /\ pc = "remainder" /\ Done
    BY <1>14 DEF NoRemainder, Mid, Done
  <2>2. ~(ShowSingle \/ ShowBeginning \/ ShowMiddle \/ ShowRemainder)
    BY <1>14 DEF NoRemainder, ShowSingle, ShowBeginning, ShowMiddle, ShowRemainder
  <2>3. cur_segment <= EndSegment(TheExtent)
    BY <1>3, <2>1 DEF AheadOK
  <2>4. QED
    BY <1>1, <1>6, <1>12, <2>1, <2>2, <2>3
<1>15. CASE EnterExtent
  <2>1. /\ pc = "list" /\ current # <<>> /\ Selected(TheExtent) /\ TheExtent' = TheExtent
        /\ pc' \in {"single", "beginning"} /\ segment_id' = FirstSegment(TheExtent)
    BY <1>15 DEF EnterExtent, TheExtent
  <2>2. ~(ShowSingle \/ ShowBeginning \/ ShowMiddle \/ ShowRemainder) /\ ~Done
    BY <2>1 DEF ShowSingle, ShowBeginning, ShowMiddle, ShowRemainder, NoRemainder, Done
  <2>3. Walked' = Walked /\ TheExtent \in SelectedExtents \ Walked
    BY <1>1, <2>1, <2>2, NoneWalked, AtHand
  <2>4. \A d \in SelectedExtents \ Walked : cur_segment <= FirstSegment(d)
    BY <1>3, <2>1 DEF AheadOK, Mid
  <2>5. cur_segment' = cur_segment /\ Rising(lines', cur_segment')
    BY <1>12, <2>2
  <2>6. AheadOK'
    BY <1>4, <2>1, <2>3, <2>4, <2>5 DEF AheadOK
  <2>7. QED
    BY <2>5, <2>6
<1>16. CASE EnterZone \/ SkipZone \/ LeaveZone \/ ShowStats \/ ContinueBelowStart
  <2>1. pc \notin Mid /\ pc' \notin Mid
    BY <1>16 DEF EnterZone, SkipZone, LeaveZone, ShowStats, ContinueBelowStart, Mid, vars
  <2>2. ~(ShowSingle \/ ShowBeginning \/ ShowMiddle \/ ShowRemainder) /\ ~Done
    BY <2>1 DEF ShowSingle, ShowBeginning, ShowMiddle, ShowRemainder, NoRemainder, Done, Mid
  <2>3. Walked' = Walked
    BY <1>1, <2>2, NoneWalked
  <2>4. cur_segment' = cur_segment /\ Rising(lines', cur_segment')
    BY <1>12, <2>2
  <2>5. AheadOK'
    BY <1>3, <1>4, <2>1, <2>3, <2>4 DEF AheadOK, Mid
  <2>6. QED
    BY <2>4, <2>5
<1>17. CASE UNCHANGED vars
  <2>1. Walked' = Walked
    BY <1>4, <1>17 DEF Walked, vars
  <2>2. QED
    BY <1>3, <1>4, <1>17, <2>1 DEF AheadOK, vars, TheExtent
<1>18. QED
  BY <1>8, <1>9, <1>10, <1>11, <1>13, <1>14, <1>15, <1>16, <1>17 DEF Next, Walk, Finished

LEMMA MaxIs ==
  ASSUME NEW S, S \subseteq Nat, NEW m \in S, \A x \in S : x <= m
  PROVE  Max(S) = m
<1>1. \A x \in S : x \in Nat
  OBVIOUS
<1>2. m \in S /\ \A y \in S : m >= y
  BY <1>1
<1>3. \A x \in S : (\A y \in S : x >= y) => x = m
  BY <1>1, <1>2
<1>4. QED
  BY <1>2, <1>3 DEF Max

LEMMA HeaderAboveIs ==
  ASSUME NEW n \in Nat, NEW s, HeadAt(lines, n, s)
  PROVE  HeaderAbove(n) = s
<1> DEFINE headers == {m \in 1 .. n - 1 : lines[m].kind = "segment"}
<1>1. HeaderAbove(n) = IF headers = {} THEN 0 ELSE lines[Max(headers)].first
  BY DEF HeaderAbove
<1>2. CASE s = 0 /\ \A m \in 1 .. n - 1 : lines[m].kind # "segment"
  BY <1>1, <1>2
<1>3. CASE ~(s = 0 /\ \A m \in 1 .. n - 1 : lines[m].kind # "segment")
  <2>1. PICK m \in 1 .. n - 1 :
          /\ lines[m].kind = "segment" /\ lines[m].first = s
          /\ \A k \in m + 1 .. n - 1 : lines[k].kind # "segment"
    BY <1>3 DEF HeadAt
  <2>2. m \in headers /\ headers \subseteq Nat
    BY <2>1
  <2>3. \A k \in headers : k <= m
    BY <2>1
  <2> HIDE DEF headers
  <2>4. Max(headers) = m
    BY <2>2, <2>3, MaxIs
  <2>5. QED
    BY <1>1, <2>1, <2>2, <2>4
<1>4. QED
  BY <1>2, <1>3

(* Every extent line is under the header of the segment its blocks lie in, *)
(* or of a range announced with it; and where extents do not overlap, no   *)
(* segment gets a second header and the headers come in device order.      *)
THEOREM HeadersTellTheSegment == Spec => []LinesUnderTheirHeader
<1>1. Init => HeadersOK /\ RiseOK
  BY HeadersInit
<1>2. ReportOK /\ HeadersOK /\ [Next]_vars => HeadersOK'
  BY HeadersStep
<1>3. ReportOK /\ RiseOK /\ [Next]_vars => RiseOK'
  BY RiseStep
<1>4. ReportOK /\ HeadersOK /\ RiseOK => LinesUnderTheirHeader
  <2> SUFFICES ASSUME ReportOK, HeadersOK, RiseOK
               PROVE  LinesUnderTheirHeader
    OBVIOUS
  <2>1. DOMAIN lines = 1 .. Len(lines)
    BY DEF ReportOK, LogOK
  <2>2. ASSUME NEW n \in ExtentLines
        PROVE  {SegmentOf(b) : b \in BlocksOfLine(lines[n])}
                 \subseteq {HeaderAbove(n)} \cup RangeAbove(n)
    <3> SUFFICES ASSUME NEW b \in BlocksOfLine(lines[n])
                 PROVE  SegmentOf(b) \in {HeaderAbove(n)} \cup RangeAbove(n)
      OBVIOUS
    <3>1. n \in Nat /\ UnderAt(lines, n)
      BY <2>1 DEF HeadersOK, ExtentLines
    <3>2. CASE HeadAt(lines, n, SegmentOf(b))
      BY <3>1, <3>2, HeaderAboveIs
    <3>3. CASE ~HeadAt(lines, n, SegmentOf(b))
      <4>1. PICK m \in 1 .. n - 1 :
              /\ lines[m].kind = "range" /\ SegmentOf(b) \in lines[m].first .. lines[m].last
              /\ \A k \in m + 1 .. n - 1 : lines[k].kind # "extent"
        BY <3>1, <3>3 DEF UnderAt
      <4>2. \A k \in m + 1 .. n - 1 : k \notin ExtentLines
        BY <4>1 DEF ExtentLines
      <4>3. SegmentOf(b) \in RangeAbove(n)
        BY <4>1, <4>2 DEF RangeAbove
      <4>4. QED
        BY <4>3
    <3>4. QED
      BY <3>2, <3>3
  <2>3. Disjoint /\ DeviceFitsWord =>
          \A m, n \in DOMAIN lines :
            m < n /\ lines[m].kind = "segment" /\ lines[n].kind = "segment" =>
              lines[m].first < lines[n].first
    BY <2>1 DEF RiseOK, Rising
  <2>4. QED
    BY <2>2, <2>3 DEF LinesUnderTheirHeader
<1>5. QED
  BY <1>1, <1>2, <1>3, <1>4, ReportIsOK, PTL DEF Spec

-----------------------------------------------------------------------------
(* The statistics of the files.                                            *)

(* The entries are of different files that were found.                     *)
StatsOK ==
  /\ \A j, k \in 1 .. Len(fs) : fs[j].filename = fs[k].filename => j = k
  /\ \A k \in 1 .. Len(fs) : \E e \in ExtentsIn(zones) : e.file = fs[k].filename

LEMMA FileStatsNames ==
  ASSUME StatsOK, fs \in Seq(StatsEntry), NEW e \in ExtentsIn(zones), e.file \in Names
  PROVE  LET stats == FileStats(e.file)
         IN  /\ \A j, k \in 1 .. Len(stats) : stats[j].filename = stats[k].filename => j = k
             /\ \A k \in 1 .. Len(stats) :
                  \E d \in ExtentsIn(zones) : d.file = stats[k].filename
<1> DEFINE stats == FileStats(e.file)
<1>1. CASE \E k \in DOMAIN fs : fs[k].filename = e.file
  <2>1. stats = fs
    BY <1>1 DEF FileStats
  <2>2. QED
    BY <2>1 DEF StatsOK
<1>2. CASE ~\E k \in DOMAIN fs : fs[k].filename = e.file
  <2> DEFINE entry == [filename |-> e.file, segment_ctr |-> 0, zone_ctr |-> 0,
                       last_zone |-> 0, ctr |-> NoCounts]
  <2>1. stats = Append(fs, entry)
    BY <1>2 DEF FileStats
  <2>2. entry \in StatsEntry /\ entry.filename = e.file
    BY NewStats
  <2> HIDE DEF entry, stats
  <2>3. /\ Len(fs) \in Nat /\ Len(stats) = Len(fs) + 1
        /\ \A k \in 1 .. Len(fs) : stats[k] = fs[k]
        /\ stats[Len(fs) + 1] = entry
    BY <2>1, <2>2
  <2>4. \A k \in 1 .. Len(fs) : fs[k].filename # e.file
    BY <1>2
  <2>5. \A k \in 1 .. Len(stats) : k \in 1 .. Len(fs) \/ k = Len(fs) + 1
    BY <2>3
  <2>6. \A k \in 1 .. Len(stats) : stats[k].filename = e.file <=> k = Len(fs) + 1
    BY <2>2, <2>3, <2>4, <2>5
  <2>7. \A j, k \in 1 .. Len(stats) : stats[j].filename = stats[k].filename => j = k
    <3> SUFFICES ASSUME NEW j \in 1 .. Len(stats), NEW k \in 1 .. Len(stats),
                        stats[j].filename = stats[k].filename
                 PROVE  j = k
      OBVIOUS
    <3>1. CASE stats[j].filename = e.file
      BY <2>6, <3>1
    <3>2. CASE stats[j].filename # e.file
      <4>1. j \in 1 .. Len(fs) /\ k \in 1 .. Len(fs)
        BY <2>5, <2>6, <3>2
      <4>2. QED
        BY <2>3, <4>1 DEF StatsOK
    <3>3. QED
      BY <3>1, <3>2
  <2>8. \A k \in 1 .. Len(stats) : \E d \in ExtentsIn(zones) : d.file = stats[k].filename
    BY <2>2, <2>3, <2>5 DEF StatsOK
  <2>9. QED
    BY <2>7, <2>8 DEF stats
<1>3. QED
  BY <1>1, <1>2

LEMMA StatsStep ==
  ASSUME ReportOK, StatsOK, [Next]_vars
  PROVE  StatsOK'
<1>1. /\ WalkOK /\ fs \in Seq(StatsEntry) /\ zones' = zones
      /\ segmap_man \in [segment_ctr : Nat, ctr : [Types -> Nat]]
  BY InputsStay DEF ReportOK, CountersOK
<1>2. ASSUME fs' = fs
      PROVE  StatsOK'
  BY <1>1, <1>2 DEF StatsOK
<1>3. ASSUME current # <<>>, NEW n \in Nat, SetSegmentCounters(TheExtent, n)
      PROVE  StatsOK'
  <2>1. PICK e : e = TheExtent
    OBVIOUS
  <2>2. e \in ExtentsIn(zones) /\ e \in Extent
    BY <1>1, <1>3, <2>1, TheExtentFacts
  <2>3. e.file \in Names
    BY <2>2 DEF Extent
  <2> DEFINE stats == FileStats(e.file)
  <2>4. \/ fs' = fs
        \/ /\ Len(fs') = Len(stats)
           /\ \A k \in 1 .. Len(fs') : fs'[k].filename = stats[k].filename
    BY <1>1, <1>3, <2>1, <2>2, SetCounters
  <2>5. /\ \A j, k \in 1 .. Len(stats) : stats[j].filename = stats[k].filename => j = k
        /\ \A k \in 1 .. Len(stats) : \E d \in ExtentsIn(zones) : d.file = stats[k].filename
    BY <1>1, <2>2, <2>3, FileStatsNames
  <2> HIDE DEF stats
  <2>6. CASE fs' # fs
    BY <1>1, <2>4, <2>5, <2>6 DEF StatsOK
  <2>7. QED
    BY <1>2, <2>6
<1>4. CASE ShowSingle \/ ShowBeginning \/ ShowRemainder
  <2>1. current # <<>>
    BY <1>1, <1>4 DEF WalkOK, Mid, ShowSingle, ShowBeginning, ShowRemainder
  <2>2. SetSegmentCounters(TheExtent, 1) \/ fs' = fs
    BY <1>4 DEF ShowSingle, ShowBeginning, ShowRemainder
  <2>3. QED
    BY <1>2, <1>3, <2>1, <2>2
<1>5. CASE ShowMiddle
  <2> DEFINE n == EndSegment(TheExtent) - segment_id + 1
  <2>1. pc \in Mid /\ current # <<>>
    BY <1>1, <1>5 DEF WalkOK, Mid, ShowMiddle
  <2>2. SetSegmentCounters(TheExtent, n) \/ fs' = fs
    BY <1>5 DEF ShowMiddle
  <2>3. n \in Nat
    BY <1>1, <2>1, PartSegments
  <2> HIDE DEF n
  <2>4. QED
    BY <1>2, <1>3, <2>1, <2>2, <2>3
<1>6. CASE ~(ShowSingle \/ ShowBeginning \/ ShowMiddle \/ ShowRemainder)
  <2>1. fs' = fs
    BY <1>6 DEF Next, Walk, vars, EnterZone, SkipZone, LeaveZone, ContinueBelowStart,
       EnterExtent, NoBeginning, NoMiddle, NoRemainder, ShowStats, Finished
  <2>2. QED
    BY <1>2, <2>1
<1>7. QED
  BY <1>4, <1>5, <1>6

(* The numbers from 1 to n, and those below n.                             *)
LEMMA FirstOnes ==
  ASSUME NEW n \in Nat
  PROVE  IsFiniteSet(1 .. n) /\ Cardinality(1 .. n) = n
<1>1. 1 \in Int /\ n \in Int
  OBVIOUS
<1>2. IsFiniteSet(1 .. n) /\ Cardinality(1 .. n) = (IF 1 > n THEN 0 ELSE n - 1 + 1)
  BY <1>1, FS_Interval
<1>3. (IF 1 > n THEN 0 ELSE n - 1 + 1) = n
  OBVIOUS
<1>4. QED
  BY <1>2, <1>3

LEMMA FirstFromZero ==
  ASSUME NEW n \in Nat
  PROVE  IsFiniteSet(0 .. n - 1) /\ Cardinality(0 .. n - 1) = n
<1> DEFINE last == n - 1
<1>1. 0 \in Int /\ last \in Int /\ (IF 0 > last THEN 0 ELSE last - 0 + 1) = n
  OBVIOUS
<1> HIDE DEF last
<1>2. /\ IsFiniteSet(0 .. last)
      /\ Cardinality(0 .. last) = (IF 0 > last THEN 0 ELSE last - 0 + 1)
  BY <1>1, FS_Interval
<1>3. QED
  BY <1>1, <1>2 DEF last

(* An array with an entry for every file scanned is never left, as every   *)
(* name in it is that of a file that was found.                            *)
THEOREM StatsStayInBounds == Spec => []FileStatsInBounds
<1>1. Init => StatsOK
  BY DEF Init, StatsOK
<1>2. ReportOK /\ StatsOK /\ [Next]_vars => StatsOK'
  BY StatsStep
<1>3. ReportOK /\ StatsOK => FileStatsInBounds
  <2> SUFFICES ASSUME ReportOK, StatsOK
               PROVE  Len(fs) <= nr_files
    BY DEF FileStatsInBounds
  <2>1. /\ fs \in Seq(StatsEntry) /\ Len(fs) \in Nat /\ nr_files \in Nat /\ zones \in ZoneMaps
        /\ \A e \in ExtentsIn(zones) : e.fileID < nr_files
    BY DEF ReportOK, WalkOK, CountersOK
  <2>2. \A e \in ExtentsIn(zones) : e.fileID \in 0 .. nr_files - 1
    <3>1. \A e \in ExtentsIn(zones) : e.fileID \in Nat
      BY <2>1, MapFacts DEF Extent
    <3>2. QED
      BY <2>1, <3>1
  <2>3. \A d, e \in ExtentsIn(zones) : d.fileID = e.fileID => d.file = e.file
    BY <2>1, ReportAssumption DEF OneNameEach
  <2> DEFINE of(k) == CHOOSE e \in ExtentsIn(zones) : e.file = fs[k].filename
             id == [k \in 1 .. Len(fs) |-> of(k).fileID]
  <2>4. \A k \in 1 .. Len(fs) : of(k) \in ExtentsIn(zones) /\ of(k).file = fs[k].filename
    BY DEF StatsOK
  <2> HIDE DEF of
  <2>5. id \in [1 .. Len(fs) -> 0 .. nr_files - 1]
    BY <2>2, <2>4
  <2>6. \A j, k \in 1 .. Len(fs) : id[j] = id[k] => j = k
    BY <2>3, <2>4 DEF StatsOK
  <2> HIDE DEF id
  <2> DEFINE n == Len(fs)
             entries == 1 .. n
             found == 0 .. nr_files - 1
  <2>7. n \in Nat
    BY <2>1
  <2>8. id \in [entries -> found] /\ \A j, k \in entries : id[j] = id[k] => j = k
    BY <2>5, <2>6
  <2> HIDE DEF n
  <2>9. IsFiniteSet(entries) /\ Cardinality(entries) = n
    BY <2>7, FirstOnes
  <2>10. IsFiniteSet(found) /\ Cardinality(found) = nr_files
    BY <2>1, FirstFromZero
  <2> HIDE DEF entries, found
  <2>11. ~(Cardinality(found) < Cardinality(entries))
    <3> SUFFICES ASSUME Cardinality(found) < Cardinality(entries)
                 PROVE  FALSE
      OBVIOUS
    <3>1. \E j, k \in entries : j # k /\ id[j] = id[k]
      BY <2>8, <2>9, <2>10, FS_PigeonHole
    <3>2. QED
      BY <2>8, <3>1
  <2>12. ~(nr_files < n)
    BY <2>9, <2>10, <2>11
  <2>13. QED
    BY <2>1, <2>7, <2>12 DEF n
<1>4. QED
  BY <1>1, <1>2, <1>3, ReportIsOK, PTL DEF Spec

-----------------------------------------------------------------------------
(* The segments counted for a file.                                        *)

(* The first segments are counted without repetition, apart from segment   *)
(* 0, which last_segment_id has from the start; none is behind the last.   *)
CountedAs(counters, firsts) ==
  /\ counters.segment_ctr = Cardinality(firsts \ {0})
  /\ counters.last_segment_id \in firsts \cup {0}
  /\ \A s \in firsts : s <= counters.last_segment_id

(* What an extent of one segment does to the counters of its file.         *)
LEMMA Counted ==
  ASSUME NEW counters \in FileCounters, NEW e \in Extent, NEW counted,
         counted = CountZones(CountSegments(counters, e, 1), e, 1)
  PROVE  /\ counted.last_segment_id = FirstSegment(e)
         /\ counted.segment_ctr = IF counters.last_segment_id = FirstSegment(e)
                                  THEN counters.segment_ctr ELSE counters.segment_ctr + 1
<1> DEFINE file == CountSegments(counters, e, 1)
<1>1. file \in FileCounters
  BY CountSegmentsType
<1>2. /\ file.last_segment_id = FirstSegment(e)
      /\ file.segment_ctr = IF counters.last_segment_id = FirstSegment(e)
                            THEN counters.segment_ctr ELSE counters.segment_ctr + 1
  BY DEF CountSegments, FileCounters
<1> HIDE DEF file
<1>3. /\ counted.last_segment_id = file.last_segment_id
      /\ counted.segment_ctr = file.segment_ctr
  <2>1. counted = CountZones(file, e, 1)
    BY DEF file
  <2>2. QED
    BY <1>1, <2>1 DEF CountZones, FileCounters
<1>4. QED
  BY <1>2, <1>3

LEMMA CountOne ==
  ASSUME NEW counters \in FileCounters, NEW firsts \in SUBSET Nat, CountedAs(counters, firsts),
         NEW e \in Extent, \A s \in firsts : s <= FirstSegment(e), NEW counted,
         counted = CountZones(CountSegments(counters, e, 1), e, 1)
  PROVE  CountedAs(counted, firsts \cup {FirstSegment(e)})
<1> DEFINE first == FirstSegment(e)
           last == counters.last_segment_id
           before == firsts \ {0}
           after == (firsts \cup {first}) \ {0}
<1>1. /\ first \in Nat /\ last \in Nat /\ last \in firsts \cup {0}
      /\ counters.segment_ctr = Cardinality(before) /\ \A s \in firsts : s <= last /\ s <= first
      /\ counters.segment_ctr \in Nat
  BY ExtentFacts DEF CountedAs, FileCounters
<1>2. /\ counted.last_segment_id = first
      /\ counted.segment_ctr = IF last = first THEN counters.segment_ctr
                               ELSE counters.segment_ctr + 1
  BY Counted
<1> HIDE DEF first, last
<1>3. counted.segment_ctr = Cardinality(after)
  <2>1. CASE last = first
    <3>1. first \in firsts \/ first = 0
      BY <1>1, <2>1
    <3>2. after = before
      BY <3>1
    <3>3. QED
      BY <1>1, <1>2, <2>1, <3>2
  <2>2. CASE last # first
    <3>1. first # 0 /\ first \notin firsts
      BY <1>1, <2>2
    <3>2. after = before \cup {first} /\ first \notin before
      BY <3>1
    <3>3. before \in SUBSET Nat /\ \A s \in before : s <= last
      BY <1>1
    <3> HIDE DEF before, after
    <3>4. IsFiniteSet(before)
      BY <1>1, <3>3, FS_BoundedSetOfNaturals
    <3>5. Cardinality(after) = Cardinality(before) + 1
      BY <3>2, <3>4, FS_AddElement
    <3>6. QED
      BY <1>1, <1>2, <2>2, <3>5
  <2>3. QED
    BY <2>1, <2>2
<1>4. \A s \in firsts \cup {first} : s <= first
  BY <1>1
<1>5. QED
  BY <1>2, <1>3, <1>4 DEF CountedAs, first

(* The extents that were counted: those done with, and the current one.    *)
Entered == Walked \cup {e \in SelectedExtents : pc \in Mid /\ e = TheExtent}

FirstsOf(extents, name) == {FirstSegment(e) : e \in {d \in extents : d.file = name}}

(* The counters of a file whose extents lie in one segment each.           *)
CountedOK ==
  DeviceFitsWord =>
    \A name \in Names : IsSimple(name) => CountedAs(files[name], FirstsOf(Entered, name))

LEMMA CountedInit ==
  ASSUME Init
  PROVE  CountedOK
<1>1. Entered = {}
  BY WalkedInit DEF Init, Entered, Mid
<1>2. ASSUME NEW name \in Names
      PROVE  CountedAs(files[name], FirstsOf(Entered, name))
  <2>1. FirstsOf(Entered, name) = {}
    BY <1>1 DEF FirstsOf
  <2>2. files[name].segment_ctr = 0 /\ files[name].last_segment_id = 0
    BY DEF Init, NewFile
  <2>3. Cardinality({} \ {0}) = 0
    BY FS_EmptySet
  <2>4. QED
    BY <2>1, <2>2, <2>3 DEF CountedAs
<1>3. QED
  BY <1>2 DEF CountedOK

(* Nothing but EnterExtent counts for a file.                              *)
LEMMA EnteredStays ==
  ASSUME WalkOK, [Next]_vars, ~EnterExtent
  PROVE  Entered' = Entered /\ files' = files
<1>1. SelectedExtents' = SelectedExtents
  BY SelectionStays
<1>2. CASE Done
  <2>1. pc \in Mid /\ pc' = "list" /\ files' = files
    BY <1>2 DEF Done, ShowSingle, ShowRemainder, NoRemainder, NextExtent, Mid
  <2>2. TheExtent \in SelectedExtents /\ Walked' = Walked \cup {TheExtent}
    BY <1>2, <2>1, InProgress, OneMoreWalked
  <2>3. QED
    BY <1>1, <2>1, <2>2 DEF Entered, Mid
<1>3. CASE ~Done
  <2>1. Walked' = Walked
    BY <1>3, NoneWalked
  <2>2. /\ files' = files
        /\ \/ pc \in Mid /\ pc' \in Mid /\ current' = current
           \/ pc \notin Mid /\ pc' \notin Mid
    BY <1>3 DEF Done, Next, Walk, Finished, vars, Mid, EnterZone, SkipZone, LeaveZone,
       ContinueBelowStart, ShowBeginning, NoBeginning, ShowMiddle, NoMiddle, ShowStats
  <2>3. QED
    BY <1>1, <2>1, <2>2 DEF Entered, TheExtent
<1>4. QED
  BY <1>2, <1>3

LEMMA CountedStep ==
  ASSUME ReportOK, CountedOK, [Next]_vars
  PROVE  CountedOK'
<1>1. WalkOK /\ CountersOK
  BY DEF ReportOK
<1>2. SelectedExtents' = SelectedExtents
  BY SelectionStays
<1>3. \A name : IsSimple(name)' <=> IsSimple(name)
  BY <1>2 DEF IsSimple, ExtentsNamed
<1>4. CASE ~EnterExtent
  BY <1>1, <1>3, <1>4, EnteredStays DEF CountedOK
<1>5. CASE EnterExtent
  <2> SUFFICES ASSUME DeviceFitsWord, NEW name \in Names, IsSimple(name)
               PROVE  CountedAs(files'[name], FirstsOf(Entered', name))
    BY <1>3 DEF CountedOK
  <2>1. /\ pc = "list" /\ pc' \in Mid /\ current # <<>> /\ current' = current
        /\ Selected(TheExtent) /\ IncreaseFileSegmentCounter(TheExtent)
    BY <1>5 DEF EnterExtent, Mid
  <2>2. TheExtent \in SelectedExtents
    BY <1>1, <2>1, AtHand
  <2>3. Walked' = Walked
    BY <1>1, <2>1, NoneWalked DEF Done, ShowSingle, ShowRemainder, NoRemainder
  <2>4. PICK e \in Extent : e = TheExtent
    BY <1>1, <2>1, TheExtentFacts
  <2>5. Entered = Walked /\ Entered' = Walked \cup {e}
    BY <1>2, <2>1, <2>2, <2>3, <2>4 DEF Entered, TheExtent, Mid
  <2>6. CountedAs(files[name], FirstsOf(Walked, name))
    BY <2>5 DEF CountedOK
  <2>7. files' = [files EXCEPT ![e.file] =
                    CountZones(CountSegments(@, e, NumSegments(e)), e, NumSegments(e))]
    BY <2>1, <2>4 DEF IncreaseFileSegmentCounter
  <2>8. files \in [Names -> FileCounters]
    BY <1>1 DEF CountersOK
  <2>9. CASE e.file # name
    <3>1. FirstsOf(Walked \cup {e}, name) = FirstsOf(Walked, name)
      BY <2>9 DEF FirstsOf
    <3>2. files'[name] = files[name]
      BY <2>7, <2>8, <2>9
    <3>3. QED
      BY <2>5, <2>6, <3>1, <3>2
  <2>10. CASE e.file = name
    <3>1. NumSegments(e) = 1
      <4>1. EndSegment(e) = FirstSegment(e)
        BY <2>2, <2>4, <2>10 DEF IsSimple, ExtentsNamed
      <4>2. FirstSegment(e) \in Nat
        BY ExtentFacts
      <4>3. QED
        BY <4>1, <4>2 DEF NumSegments
    <3>2. files'[name] = CountZones(CountSegments(files[name], e, 1), e, 1)
      BY <2>7, <2>8, <2>10, <3>1
    <3>3. ASSUME NEW d \in Walked
          PROVE  FirstSegment(d) \in Nat /\ FirstSegment(d) <= FirstSegment(e)
      <4>1. d \in SelectedExtents
        BY DEF Walked
      <4>2. d \in Extent
        BY <1>1, <4>1, SelectedFacts
      <4>3. d.phy_blk <= e.phy_blk
        BY <1>1, <2>1, <2>4, <4>1, InOrder
      <4>4. d.phy_blk \in Nat /\ e.phy_blk \in Nat /\ FirstSegment(d) \in Nat
        BY <4>2, ExtentFacts
      <4>5. QED
        BY <4>3, <4>4, SegmentMonotone DEF FirstSegment
    <3>4. /\ FirstsOf(Walked, name) \in SUBSET Nat
          /\ \A s \in FirstsOf(Walked, name) : s <= FirstSegment(e)
      BY <3>3 DEF FirstsOf
    <3>5. FirstsOf(Walked \cup {e}, name) = FirstsOf(Walked, name) \cup {FirstSegment(e)}
      BY <2>10 DEF FirstsOf
    <3>6. files[name] \in FileCounters
      BY <2>8
    <3>7. CountedAs(files'[name], FirstsOf(Walked, name) \cup {FirstSegment(e)})
      BY <2>6, <3>2, <3>4, <3>6, CountOne
    <3>8. QED
      BY <2>5, <3>5, <3>7
  <2>11. QED
    BY <2>9, <2>10
<1>6. QED
  BY <1>4, <1>5

(* On a device whose zones the walk passes in the order of their           *)
(* addresses, the report counts for a file whose extents lie in one        *)
(* segment each, none of them the first of the device, the segments its    *)
(* extents lie in, whatever extents of other files come between them.      *)
THEOREM SegmentsOfSimpleFiles == Spec => []SimpleFilesCounted
<1>1. Init => CountedOK
  BY CountedInit
<1>2. ReportOK /\ CountedOK /\ [Next]_vars => CountedOK'
  BY CountedStep
<1>3. ReportOK /\ CountedOK => SimpleFilesCounted
  <2> SUFFICES ASSUME ReportOK, CountedOK, DeviceFitsWord, pc = "done", NEW name \in Names,
                      IsSimple(name), 0 \notin SegmentsOfFile(name)
               PROVE  files[name].segment_ctr = Cardinality(SegmentsOfFile(name))
    BY DEF SimpleFilesCounted
  <2>1. Entered = SelectedExtents
    BY AllWalked DEF ReportOK, Entered, Mid
  <2>2. FirstsOf(Entered, name) = SegmentsOfFile(name)
    BY <2>1 DEF FirstsOf, ExtentsNamed, SegmentsOfFile
  <2>3. CountedAs(files[name], FirstsOf(Entered, name))
    BY DEF CountedOK
  <2>4. SegmentsOfFile(name) \ {0} = SegmentsOfFile(name)
    OBVIOUS
  <2>5. QED
    BY <2>2, <2>3, <2>4 DEF CountedAs
<1>4. QED
  BY <1>1, <1>2, <1>3, ReportIsOK, PTL DEF Spec
=============================================================================
