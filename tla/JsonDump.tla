------------------------------ MODULE JsonDump ------------------------------
(***************************************************************************)
(* The JSON dump of zns.segmap (json_dump_f2fs_zonemap in libjson.c): the  *)
(* zone lists are walked as in the report, and turned into an object of    *)
(* zones, each with an object of segments, each with its extents.  Adding  *)
(* a key that an object has already replaces what was there, and a key is  *)
(* a number of which only the first digits are kept.                       *)
(***************************************************************************)
EXTENDS Segments, Integers, FiniteSets

CONSTANTS
  ZoneMaps,     (* the zone maps that may have been collected              *)
  ZoneCap,      (* the capacity the device reports of each zone            *)
  KeyBase,      (* 10: keys are decimal                                    *)
  KeyLimit      (* 1000: the numbers of three digits or less               *)

(* The collected extents lie on the device.                                *)
OnTheDevice(map) ==
  /\ map \in [Zones -> [extents : Seq(ExtentsIn(map)), extent_ctr : Nat]]
  /\ \A e \in ExtentsIn(map) :
       /\ e.phy_blk \in ZnsBlocks
       /\ e.len \in Nat
       /\ ExtentEnd(e) <= NrZones * ZoneSize

(* A zone is made of whole segments: mkfs.f2fs aligns its sections to the  *)
(* zones.                                                                  *)
ASSUME DumpAssumption ==
  /\ ZoneSize % SegSize = 0
  /\ ZoneCap \in 1 .. ZoneSize
  /\ KeyBase \in Nat \ {0, 1}
  /\ KeyLimit \in Nat \ {0}
  /\ \A map \in ZoneMaps : OnTheDevice(map) /\ InDeviceOrder(map) /\ NoneTwice(map)

VARIABLES
  zones,         (* zonemap->zones                                         *)
  start_zone,
  end_zone,
  pc,
  i,             (* the zone the for loop is at                            *)
  current,       (* the extents from the current node of its list on       *)
  current_zone,
  curseg_id,
  curseg,        (* the segment whose extents are collected                *)
  zone_segments, (* the segments of the zone, by key                       *)
  zonemap        (* the zones of the dump, by key                          *)

input_vars == <<zones, start_zone, end_zone>>
vars == <<input_vars, pc, i, current, current_zone, curseg_id, curseg,
          zone_segments, zonemap>>

SegmentObject(info, extents) == [info |-> info, extents |-> extents]

ZoneObject(info, segments) == [info |-> info, segments |-> segments]

NoInfo == [type |-> "none"]    (* an object without seg_info or zone_info  *)

Init ==
  /\ zones \in ZoneMaps
  /\ \E o \in Options : start_zone = o[1] /\ end_zone = o[2]
  /\ pc = "zone"
  /\ i = 0
  /\ current = <<>>
  /\ current_zone = 0
  /\ curseg_id = 0
  /\ curseg = SegmentObject(NoInfo, <<>>)
  /\ zone_segments = <<>>
  /\ zonemap = <<>>

-----------------------------------------------------------------------------
(* uint32_to_string_cast has room for three characters and the final zero: *)
(* a longer number loses its last digits.                                  *)
LeadingDigits[n \in Nat] ==
  IF n < KeyLimit THEN n ELSE LeadingDigits[n \div KeyBase]

Key(number) == LeadingDigits[number]

(* seg_info: the range of the segment, and the type procfs gave for the    *)
(* segment the extent starts in.                                           *)
SegmentInfo(extent, segment) ==
  [type |-> extent.type, pbas |-> SegmentStart(segment),
   pbae |-> SegmentStart(segment) + SegSize]

(* zone_info, as the device reports it for the sector the zone starts at.  *)
ZoneInfo(zone) ==
  [type |-> "zone", lbas |-> zone * ZoneSize, lbae |-> zone * ZoneSize + ZoneCap,
   cap |-> ZoneCap, size |-> ZoneSize]

Put(object, key, value) ==
  [k \in DOMAIN object \cup {key} |-> IF k = key THEN value ELSE object[k]]

(* A part of an extent: its first block and the block behind its last.     *)
Piece(extent, first, behind) == [of |-> extent, pbas |-> first, pbae |-> behind]

(* Wrong on purpose: the block behind the last is counted in.              *)
WholeInclusive(extent) == Piece(extent, extent.phy_blk, ExtentEnd(extent) + 1)

Whole(extent) == Piece(extent, extent.phy_blk, ExtentEnd(extent))

Beginning(extent) ==
  Piece(extent, extent.phy_blk, SegmentStart(FirstSegment(extent) + 1))

Remainder(extent) ==
  Piece(extent, SegmentStart(EndSegment(extent)), ExtentEnd(extent))

(* What an extent adds to the current segment.  The remainder is added to  *)
(* it too, although it lies in another segment.                            *)
Pieces(extent) ==
  IF InOneSegment(extent)
  THEN <<Whole(extent)>>
  ELSE (IF StartsSegment(extent) THEN <<>> ELSE <<Beginning(extent)>>)
         \o (IF EndsSegment(extent) THEN <<>> ELSE <<Remainder(extent)>>)

(* The segment behind the beginning.                                       *)
MiddleSegment(extent) ==
  FirstSegment(extent) + (IF StartsSegment(extent) THEN 0 ELSE 1)

(* The segments between beginning and remainder get one object, with the   *)
(* whole extent: the loop over them adds the same key every time.          *)
AddMiddle(segments, extent) ==
  IF HasMiddle(extent)
  THEN Put(segments, Key(MiddleSegment(extent)),
           SegmentObject(SegmentInfo(extent, MiddleSegment(extent)), <<Whole(extent)>>))
  ELSE segments

(* Wrong on purpose: a single extent is not enough.                        *)
FlushSegmentOfSeveral(segments, next) ==
  IF Len(curseg.extents) <= 1 THEN segments ELSE Put(segments, Key(next), curseg)

(* The extents collected so far are added under the segment coming next.   *)
FlushSegment(segments, next) ==
  IF curseg.extents = <<>> THEN segments ELSE Put(segments, Key(next), curseg)

NewSegment(extent) == SegmentObject(SegmentInfo(extent, FirstSegment(extent)), <<>>)

-----------------------------------------------------------------------------
TheExtent == Head(current)

Selected(extent) == InZones(extent, start_zone, end_zone)

(* Wrong on purpose: the segments of the zone before stay.                 *)
EnterZoneKeepingSegments ==
  /\ pc = "zone"
  /\ i < NrZones
  /\ zones[i].extent_ctr # 0
  /\ pc' = "list"
  /\ current' = zones[i].extents
  /\ UNCHANGED <<input_vars, i, current_zone, curseg_id, curseg, zone_segments, zonemap>>

EnterZone ==
  /\ pc = "zone"
  /\ i < NrZones
  /\ zones[i].extent_ctr # 0
  /\ pc' = "list"
  /\ current' = zones[i].extents
  /\ zone_segments' = <<>>
  /\ UNCHANGED <<input_vars, i, current_zone, curseg_id, curseg, zonemap>>

SkipZone ==
  /\ pc = "zone"
  /\ i < NrZones
  /\ zones[i].extent_ctr = 0
  /\ i' = i + 1
  /\ UNCHANGED <<input_vars, pc, current, current_zone, curseg_id, curseg,
                 zone_segments, zonemap>>

(* An extent below the selected zones: the loop continues with itself.     *)
ContinueBelowStart ==
  /\ pc = "list"
  /\ current # <<>>
  /\ ~BehindEnd(FirstSegment(TheExtent), end_zone)
  /\ BelowStart(FirstSegment(TheExtent), start_zone)
  /\ UNCHANGED vars

(* An extent in the segment of the one before it.                          *)
DumpInSegment ==
  /\ pc = "list"
  /\ current # <<>>
  /\ Selected(TheExtent)
  /\ curseg_id = FirstSegment(TheExtent)
  /\ current_zone' = TheExtent.zone
  /\ curseg' = [curseg EXCEPT !.extents = @ \o Pieces(TheExtent)]
  /\ zone_segments' = AddMiddle(zone_segments, TheExtent)
  /\ current' = Tail(current)
  /\ UNCHANGED <<input_vars, pc, i, curseg_id, zonemap>>

(* An extent in another segment.                                           *)
DumpInNewSegment ==
  /\ pc = "list"
  /\ current # <<>>
  /\ Selected(TheExtent)
  /\ curseg_id # FirstSegment(TheExtent)
  /\ current_zone' = TheExtent.zone
  /\ curseg_id' = FirstSegment(TheExtent)
  /\ curseg' = [NewSegment(TheExtent) EXCEPT !.extents = @ \o Pieces(TheExtent)]
  /\ zone_segments' = AddMiddle(FlushSegment(zone_segments, FirstSegment(TheExtent)),
                                TheExtent)
  /\ current' = Tail(current)
  /\ UNCHANGED <<input_vars, pc, i, zonemap>>

(* The list ends, or the rest lies behind the selected zones.  The zone is *)
(* added under the last zone an extent was dumped of, without information  *)
(* when the device cannot be opened for it.                                *)
LeaveZone ==
  /\ pc = "list"
  /\ IF current = <<>> THEN TRUE ELSE BehindEnd(FirstSegment(TheExtent), end_zone)
  /\ \E info \in {ZoneInfo(current_zone), NoInfo} :
       zonemap' = Put(zonemap, Key(current_zone), ZoneObject(info, zone_segments))
  /\ pc' = "zone"
  /\ i' = i + 1
  /\ UNCHANGED <<input_vars, current, current_zone, curseg_id, curseg, zone_segments>>

(* The object is written to the file.                                      *)
WriteFile ==
  /\ pc = "zone"
  /\ i = NrZones
  /\ pc' = "done"
  /\ UNCHANGED <<input_vars, i, current, current_zone, curseg_id, curseg,
                 zone_segments, zonemap>>

Finished == pc = "done" /\ UNCHANGED vars

Walk ==
  \/ EnterZone \/ SkipZone \/ LeaveZone
  \/ ContinueBelowStart
  \/ DumpInSegment \/ DumpInNewSegment
  \/ WriteFile

Next == Walk \/ Finished

(* One process, scheduled until it exits.                                  *)
Spec == Init /\ [][Next]_vars /\ WF_vars(Walk)
-----------------------------------------------------------------------------
(* Properties.                                                             *)

AllExtents == UNION {Range(zones[z].extents) : z \in Zones}

Extents == {e \in AllExtents : Selected(e)}

PieceType == [of : AllExtents, pbas : ZnsBlocks, pbae : 0 .. NrZones * ZoneSize]

IsSegmentObject(object) ==
  /\ object.info = NoInfo \/ object.info.pbas \in Nat
  /\ object.extents \in Seq(PieceType)

(* The types of the variables; no piece reaches beyond the device.         *)
TypeOK ==
  /\ pc \in {"zone", "list", "done"}
  /\ i \in 0 .. NrZones
  /\ current \in Seq(AllExtents)
  /\ current_zone \in Zones
  /\ curseg_id \in Nat
  /\ IsSegmentObject(curseg)
  /\ \A s \in DOMAIN zone_segments : s < KeyLimit /\ IsSegmentObject(zone_segments[s])
  /\ \A z \in DOMAIN zonemap :
       /\ z < KeyLimit
       /\ zonemap[z].info \in {ZoneInfo(y) : y \in Zones} \cup {NoInfo}
       /\ \A s \in DOMAIN zonemap[z].segments : IsSegmentObject(zonemap[z].segments[s])

(* The segment objects of the dump, by the keys of zone and segment.       *)
Keys == UNION {{<<z, s>> : s \in DOMAIN zonemap[z].segments} : z \in DOMAIN zonemap}

Dumped(key) == zonemap[key[1]].segments[key[2]]

Objects ==
  {Dumped(key) : key \in Keys}
    \cup {zone_segments[s] : s \in DOMAIN zone_segments}
    \cup {curseg}

(* An inlined extent is shorter than the block it lies in.                 *)
Touches(extent, segment) ==
  segment \in SegmentsTouched(extent) \cup {FirstSegment(extent)}

(* The segment an object tells of; without seg_info it is the one the dump *)
(* takes itself to be in from the start.                                   *)
ToldSegment(object) ==
  IF object.info = NoInfo THEN 0 ELSE SegmentOf(object.info.pbas)

SpilledFromBefore(object, zone) ==
  {s \in DOMAIN object.segments :
     \E k \in DOMAIN object.segments[s].extents :
       object.segments[s].extents[k].of.zone # zone}

(* A segment object is filled, added and replaced at three places, under   *)
(* the key of another segment and maybe of another zone.  Still: its       *)
(* extents lie at least partly in the segment its seg_info tells of; no    *)
(* part of an extent is in the dump twice; and of what a zone holds only   *)
(* one segment has extents of a zone before it, the last collected there.  *)
PiecesInPlace ==
  /\ \A object \in Objects : \A k \in DOMAIN object.extents :
       Touches(object.extents[k].of, ToldSegment(object))
  /\ \A j, k \in Keys : \A m \in DOMAIN Dumped(j).extents, n \in DOMAIN Dumped(k).extents :
       Dumped(j).extents[m] = Dumped(k).extents[n] => j = k /\ m = n
  /\ DeviceFitsWord =>
       \A z \in DOMAIN zonemap : zonemap[z].info # NoInfo =>
         LET zone == GetZoneNumber(zonemap[z].info.lbas)
             spilled == SpilledFromBefore(zonemap[z], zone)
         IN  /\ Key(zone) = z
             /\ Cardinality(spilled) <= 1
             /\ \A s \in spilled : \A k \in DOMAIN zonemap[z].segments[s].extents :
                  zonemap[z].segments[s].extents[k].of.zone < zone

DumpedExtents ==
  UNION {{Dumped(key).extents[k].of : k \in DOMAIN Dumped(key).extents} : key \in Keys}

SegmentsDumped == {FirstSegment(e) : e \in Extents}

LastSegment == Max(SegmentsDumped)

NextSegment(segment) == Min({s \in SegmentsDumped : s > segment})

ZoneOfSegment(segment) == GetZoneNumber(SegmentStart(segment))

(* Where the object of a segment is added, unless it is the last.          *)
AddedInZone(segment) == ZoneOfSegment(NextSegment(segment))

(* A later zone with the same key replaces the object of a zone, and so    *)
(* does the next zone with extents when it is left at its first.           *)
ZoneReplaced(zone) ==
  \/ \E s \in SegmentsDumped : ZoneOfSegment(s) > zone /\ Key(ZoneOfSegment(s)) = Key(zone)
  \/ Extents # AllExtents /\ Key(zone) = Key(ZoneOfSegment(LastSegment))

SegmentReplaced(segment) ==
  \E s \in SegmentsDumped \ {LastSegment} :
    /\ s > segment
    /\ AddedInZone(s) = AddedInZone(segment)
    /\ Key(NextSegment(s)) = Key(NextSegment(segment))

Missing(segment) ==
  \/ segment = LastSegment
  \/ SegmentReplaced(segment)
  \/ ZoneReplaced(AddedInZone(segment))

(* What the finished dump has not, when every extent lies within one       *)
(* segment: those of the last segment, whose object is never added; those  *)
(* added under a key whose first digits another segment of the zone has    *)
(* too; and those of a zone whose object is replaced.  Nothing else.       *)
MissingIsKnown ==
  /\ pc = "done"
  /\ DeviceFitsWord
  /\ \A e \in Extents : InOneSegment(e)
  => DumpedExtents = {e \in Extents : ~Missing(FirstSegment(e))}
=============================================================================
