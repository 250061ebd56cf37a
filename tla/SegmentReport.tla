---------------------------- MODULE SegmentReport ----------------------------
(***************************************************************************)
(* The report of zns.segmap on F2FS (show_segment_report in segmap.c): the *)
(* lists of the zone map, as ExtentMap leaves them, are walked zone by     *)
(* zone; each extent is cut into the segments it lies in, segments get a   *)
(* header when the report comes to them, and the counters of the           *)
(* statistics are kept on the way.                                         *)
(***************************************************************************)
EXTENDS Segments, Integers, FiniteSets

CONSTANTS
  Names,          (* path names, cut to MAX_FILE_LENGTH - 1 characters     *)
  ZoneCap,        (* zone_cap of every extent                              *)
  SectorScale,    (* 2^zns_sector_shift: 1, or 8 for sectors of 4 KiB      *)
  ByteWord,       (* 2^32 >> sector_shift: 32 bits of bytes, in sectors    *)
  ShowInline,     (* exclude_flags is 0                                    *)
  ShowClassStats, (* -c or -o, with -p                                     *)
  ZoneMaps,       (* the zone maps that may have been collected            *)
  MaxFiles        (* bound: the files scanned                              *)

Types == {"cold", "warm", "hot", "node"}

Extent == [phy_blk : ZnsBlocks, len : Nat, zone : Zones, ext_nr : Nat, fileID : Nat,
           file : Names, type : Types, inline : BOOLEAN]

ASSUME ReportAssumption ==
  /\ ZoneCap \in Nat \ {0}
  /\ SectorScale \in Nat \ {0}
  /\ ByteWord \in Nat \ {0}
  /\ ShowInline \in BOOLEAN
  /\ ShowClassStats \in BOOLEAN
  /\ MaxFiles \in Nat
  /\ \A map \in ZoneMaps :
       /\ map \in [Zones -> [extents : Seq(Extent), extent_ctr : Nat]]
       /\ InDeviceOrder(map) /\ NoneTwice(map) /\ OneNameEach(map)

VARIABLES
  zones,        (* zonemap->zones                                          *)
  nr_files,     (* ctrl.nr_files                                           *)
  start_zone,
  end_zone,
  pc,
  i,            (* the zone the for loop is at                             *)
  current,      (* the extents from the current node of its list on        *)
  segment_id,   (* where the rest of the current extent starts             *)
  current_zone,
  cur_segment,  (* ctrl.cur_segment                                        *)
  lines,        (* what was printed                                        *)
  files,        (* the segment part of file_counter_map, by name           *)
  segmap_man,   (* the counters of the whole directory                     *)
  fs            (* segmap_man.fs                                           *)

input_vars == <<zones, nr_files, start_zone, end_zone>>
vars == <<input_vars, pc, i, current, segment_id, current_zone, cur_segment,
          lines, files, segmap_man, fs>>

NoCounts == [t \in Types |-> 0]

NewFile == [segment_ctr |-> 0, zone_ctr |-> 0, last_segment_id |-> 0,
            last_zone |-> 0, ctr |-> NoCounts]

Init ==
  /\ zones \in ZoneMaps
  /\ nr_files \in {n \in 1 .. MaxFiles : \A e \in ExtentsIn(zones) : e.fileID < n}
  /\ \E o \in Options : start_zone = o[1] /\ end_zone = o[2]
  /\ pc = "zone"
  /\ i = 0
  /\ current = <<>>
  /\ segment_id = 0
  /\ current_zone = 0
  /\ cur_segment = 0
  /\ lines = <<>>
  /\ files = [name \in Names |-> NewFile]
  /\ segmap_man = [segment_ctr |-> 0, ctr |-> NoCounts]
  /\ fs = <<>>

-----------------------------------------------------------------------------
(* Lines of the report.  An extent line gives the first block, the block   *)
(* behind the last and the size, not always of the same thing.             *)

SegmentLine(segment) == [kind |-> "segment", first |-> segment]
RangeLine(first, last) == [kind |-> "range", first |-> first, last |-> last]
ZoneLine(zone) == [kind |-> "zone", first |-> zone]
ExtentLine(pbas, pbae, size, extent) ==
  [kind |-> "extent", pbas |-> pbas, pbae |-> pbae, size |-> size, of |-> extent]

(* Wrong on purpose: no header for a segment before the current one.       *)
SegmentInfoForward(segment) ==
  IF segment <= cur_segment THEN <<>> ELSE <<SegmentLine(segment)>>

(* show_segment_info prints a header when the report enters a segment.     *)
SegmentInfo(segment) ==
  IF cur_segment = segment THEN <<>> ELSE <<SegmentLine(segment)>>

ShowInSegment(segment, line) ==
  /\ lines' = lines \o SegmentInfo(segment) \o <<line>>
  /\ cur_segment' = segment

-----------------------------------------------------------------------------
(* Counters.                                                               *)

CountType(ctr, type, n) ==
  IF type = "node" THEN ctr ELSE [ctr EXCEPT ![type] = @ + n]

(* Wrong on purpose: the start of the zone instead of its number.          *)
SegmentZoneStart(segment) == GetZoneNumber(segment * SegSize) * ZoneSize

(* The zone of a segment, computed with the shift to sectors of 512 bytes  *)
(* turned the wrong way and cur_segment in 32 bits.                        *)
SegmentZone(segment) ==
  GetZoneNumber(((segment * SegSize) % (Word * SectorScale))
                  \div (SectorScale * SectorScale))

(* Wrong on purpose: every extent counts.                                  *)
CountSegmentsAlways(file, extent, n) ==
  [file EXCEPT !.segment_ctr = @ + n, !.ctr = CountType(@, extent.type, n)]

CountSegments(file, extent, n) ==
  IF file.last_segment_id = FirstSegment(extent)
  THEN file
  ELSE [file EXCEPT !.segment_ctr = @ + n,
                    !.last_segment_id = FirstSegment(extent),
                    !.ctr = CountType(@, extent.type, n)]

CountZones(file, extent, n) ==
  LET zone == SegmentZone(FirstSegment(extent))
  IN  IF file.last_zone = zone
      THEN file
      ELSE [file EXCEPT !.zone_ctr = @ + ((n * SegSize) % ByteWord) \div ZoneCap + 1,
                        !.last_zone = zone]

(* num_segments takes the segment of the end to be occupied.               *)
NumSegments(extent) == EndSegment(extent) - FirstSegment(extent) + 1

IncreaseFileSegmentCounter(extent) ==
  files' = [files EXCEPT ![extent.file] =
              CountZones(CountSegments(@, extent, NumSegments(extent)),
                         extent, NumSegments(extent))]

(* Wrong on purpose: a file is not looked up in segmap_man.fs.             *)
FileStatsAppend(name) ==
  Append(fs, [filename |-> name, segment_ctr |-> 0, zone_ctr |-> 0,
              last_zone |-> 0, ctr |-> NoCounts])

(* get_file_stats_index: segmap_man.fs, with an entry for the name.        *)
FileStats(name) ==
  IF \E k \in DOMAIN fs : fs[k].filename = name
  THEN fs
  ELSE Append(fs, [filename |-> name, segment_ctr |-> 0, zone_ctr |-> 0,
                   last_zone |-> 0, ctr |-> NoCounts])

CountInStats(stats, extent, n) ==
  IF stats.filename # extent.file
  THEN stats
  ELSE [stats EXCEPT
          !.segment_ctr = @ + n,
          !.zone_ctr = IF stats.last_zone = extent.zone THEN @ ELSE @ + 1,
          !.last_zone = extent.zone,
          !.ctr = CountType(@, extent.type, n)]

SetSegmentCounters(extent, n) ==
  IF extent.inline /\ ShowInline
  THEN UNCHANGED <<segmap_man, fs>>
  ELSE /\ segmap_man' = [segment_ctr |-> segmap_man.segment_ctr + n,
                         ctr |-> CountType(segmap_man.ctr, extent.type, n)]
       /\ fs' = IF ShowClassStats /\ nr_files > 1
                THEN [k \in DOMAIN FileStats(extent.file) |->
                        CountInStats(FileStats(extent.file)[k], extent, n)]
                ELSE fs

-----------------------------------------------------------------------------
(* The loops.                                                              *)

TheExtent == Head(current)

(* The next zone with extents.                                             *)
EnterZone ==
  /\ pc = "zone"
  /\ i < NrZones
  /\ zones[i].extent_ctr # 0
  /\ pc' = "list"
  /\ current' = zones[i].extents
  /\ UNCHANGED <<input_vars, i, segment_id, current_zone, cur_segment, lines,
                 files, segmap_man, fs>>

SkipZone ==
  /\ pc = "zone"
  /\ i < NrZones
  /\ zones[i].extent_ctr = 0
  /\ i' = i + 1
  /\ UNCHANGED <<input_vars, pc, current, segment_id, current_zone, cur_segment,
                 lines, files, segmap_man, fs>>

(* The list ends, or the rest lies behind the selected zones.              *)
LeaveZone ==
  /\ pc = "list"
  /\ IF current = <<>> THEN TRUE ELSE BehindEnd(FirstSegment(TheExtent), end_zone)
  /\ pc' = "zone"
  /\ i' = i + 1
  /\ UNCHANGED <<input_vars, current, segment_id, current_zone, cur_segment,
                 lines, files, segmap_man, fs>>

Selected(extent) == InZones(extent, start_zone, end_zone)

(* An extent below the selected zones: the loop continues with itself.     *)
ContinueBelowStart ==
  /\ pc = "list"
  /\ current # <<>>
  /\ ~BehindEnd(FirstSegment(TheExtent), end_zone)
  /\ BelowStart(FirstSegment(TheExtent), start_zone)
  /\ UNCHANGED vars

(* The head of the loop body: zone header and counters of the file.        *)
EnterExtent ==
  /\ pc = "list"
  /\ current # <<>>
  /\ Selected(TheExtent)
  /\ segment_id' = FirstSegment(TheExtent)
  /\ current_zone' = TheExtent.zone
  /\ lines' = IF current_zone = TheExtent.zone
              THEN lines ELSE Append(lines, ZoneLine(TheExtent.zone))
  /\ IncreaseFileSegmentCounter(TheExtent)
  /\ pc' = IF InOneSegment(TheExtent) THEN "single" ELSE "beginning"
  /\ UNCHANGED <<input_vars, i, current, cur_segment, segmap_man, fs>>

NextExtent ==
  /\ pc' = "list"
  /\ current' = Tail(current)

ShowSingle ==
  /\ pc = "single"
  /\ ShowInSegment(segment_id,
       ExtentLine(TheExtent.phy_blk, ExtentEnd(TheExtent), TheExtent.len, TheExtent))
  /\ IF segment_id # cur_segment
     THEN SetSegmentCounters(TheExtent, 1)
     ELSE UNCHANGED <<segmap_man, fs>>
  /\ NextExtent
  /\ UNCHANGED <<input_vars, i, segment_id, current_zone, files>>

(* Wrong on purpose: segment_id is not moved on.                           *)
ShowBeginningOnly ==
  /\ pc = "beginning"
  /\ ~StartsSegment(TheExtent)
  /\ LET behind == SegmentStart(segment_id + 1)
     IN  ShowInSegment(segment_id,
           ExtentLine(TheExtent.phy_blk, behind, behind - TheExtent.phy_blk, TheExtent))
  /\ SetSegmentCounters(TheExtent, 1)
  /\ pc' = "middle"
  /\ UNCHANGED <<input_vars, i, current, segment_id, current_zone, files>>

(* Part 1: from the start of the extent to the end of its segment.         *)
ShowBeginning ==
  /\ pc = "beginning"
  /\ ~StartsSegment(TheExtent)
  /\ LET behind == SegmentStart(segment_id + 1)
     IN  ShowInSegment(segment_id,
           ExtentLine(TheExtent.phy_blk, behind, behind - TheExtent.phy_blk, TheExtent))
  /\ SetSegmentCounters(TheExtent, 1)
  /\ segment_id' = segment_id + 1
  /\ pc' = "middle"
  /\ UNCHANGED <<input_vars, i, current, current_zone, files>>

NoBeginning ==
  /\ pc = "beginning"
  /\ StartsSegment(TheExtent)
  /\ pc' = "middle"
  /\ UNCHANGED <<input_vars, i, current, segment_id, current_zone, cur_segment,
                 lines, files, segmap_man, fs>>

(* Part 2, of one segment: its line starts with the number of the segment  *)
(* instead of its first block.                                             *)
OneSegmentLines ==
  SegmentInfo(segment_id)
    \o <<ExtentLine(segment_id, SegmentStart(EndSegment(TheExtent)), SegSize, TheExtent)>>

(* Part 2, of several: announced as a range, under the header of the first. *)
SegmentRangeLines ==
  <<RangeLine(segment_id, EndSegment(TheExtent) - 1)>>
    \o SegmentInfo(segment_id)
    \o <<ExtentLine(SegmentStart(segment_id), SegmentStart(EndSegment(TheExtent)),
                    (EndSegment(TheExtent) - segment_id) * SegSize, TheExtent)>>

ShowMiddle ==
  /\ pc = "middle"
  /\ HasMiddle(TheExtent)
  /\ lines' = lines \o (IF EndSegment(TheExtent) - segment_id = 1
                        THEN OneSegmentLines ELSE SegmentRangeLines)
  /\ cur_segment' = segment_id
  /\ IF ShowClassStats
     THEN SetSegmentCounters(TheExtent, EndSegment(TheExtent) - segment_id + 1)
     ELSE UNCHANGED <<segmap_man, fs>>
  /\ pc' = "remainder"
  /\ UNCHANGED <<input_vars, i, current, segment_id, current_zone, files>>

NoMiddle ==
  /\ pc = "middle"
  /\ ~HasMiddle(TheExtent)
  /\ pc' = "remainder"
  /\ UNCHANGED <<input_vars, i, current, segment_id, current_zone, cur_segment,
                 lines, files, segmap_man, fs>>

(* Part 3: what lies in the segment of the end.                            *)
ShowRemainder ==
  /\ pc = "remainder"
  /\ ~EndsSegment(TheExtent)
  /\ LET first == SegmentStart(EndSegment(TheExtent))
     IN  ShowInSegment(EndSegment(TheExtent),
           ExtentLine(first, ExtentEnd(TheExtent), ExtentEnd(TheExtent) - first, TheExtent))
  /\ SetSegmentCounters(TheExtent, 1)
  /\ NextExtent
  /\ UNCHANGED <<input_vars, i, segment_id, current_zone, files>>

NoRemainder ==
  /\ pc = "remainder"
  /\ EndsSegment(TheExtent)
  /\ NextExtent
  /\ UNCHANGED <<input_vars, i, segment_id, current_zone, cur_segment, lines,
                 files, segmap_man, fs>>

(* show_segment_stats prints files.                                        *)
ShowStats ==
  /\ pc = "zone"
  /\ i = NrZones
  /\ pc' = "done"
  /\ UNCHANGED <<input_vars, i, current, segment_id, current_zone, cur_segment,
                 lines, files, segmap_man, fs>>

Finished == pc = "done" /\ UNCHANGED vars

Walk ==
  \/ EnterZone \/ SkipZone \/ LeaveZone
  \/ ContinueBelowStart \/ EnterExtent
  \/ ShowSingle
  \/ ShowBeginning \/ NoBeginning
  \/ ShowMiddle \/ NoMiddle
  \/ ShowRemainder \/ NoRemainder
  \/ ShowStats

Next == Walk \/ Finished

(* One process, scheduled until it exits.                                  *)
Spec == Init /\ [][Next]_vars /\ WF_vars(Walk)
-----------------------------------------------------------------------------
(* Properties.                                                             *)

Line ==
  [kind : {"segment", "zone"}, first : Nat]
    \cup [kind : {"range"}, first : Nat, last : Nat]

(* The types of the variables; the lines are records of one of four kinds. *)
TypeOK ==
  /\ pc \in {"zone", "list", "single", "beginning", "middle", "remainder", "done"}
  /\ i \in 0 .. NrZones
  /\ current \in Seq(ExtentsIn(zones))
  /\ pc \in {"single", "beginning", "middle", "remainder"} => current # <<>>
  /\ segment_id \in Nat
  /\ current_zone \in Zones
  /\ cur_segment \in Nat
  /\ \A n \in DOMAIN lines : lines[n].kind # "extent" => lines[n] \in Line
  /\ files \in [Names -> [segment_ctr : Nat, zone_ctr : Nat, last_segment_id : Nat,
                         last_zone : Zones, ctr : [Types -> Nat]]]
  /\ segmap_man \in [segment_ctr : Nat, ctr : [Types -> Nat]]
  /\ fs \in Seq([filename : Names, segment_ctr : Nat, zone_ctr : Nat,
                 last_zone : Nat, ctr : [Types -> Nat]])

SelectedExtents ==
  {e \in ExtentsIn(zones) : Selected(e)}

ExtentLines == {n \in DOMAIN lines : lines[n].kind = "extent"}

LinesOf(extent) == {n \in ExtentLines : lines[n].of = extent}

(* The blocks a line tells of, from its end and its size.  Its start would *)
(* not do: in the line of an extent's only full segment the code prints    *)
(* the number of the segment there (OneSegmentLines).                      *)
BlocksOfLine(line) == line.pbae - line.size .. line.pbae - 1

BlocksShown(extent) == UNION {BlocksOfLine(lines[n]) : n \in LinesOf(extent)}

BlocksOf(extent) == extent.phy_blk .. ExtentEnd(extent) - 1

(* An extent that occupies a full segment and part of the next.            *)
FullThenPart(extent) ==
  /\ StartsSegment(extent)
  /\ ~InOneSegment(extent)
  /\ ~HasMiddle(extent)

(* Every extent of the selected zones is in the report, and no other,      *)
(* although a list is left at its first extent behind them.  Its parts do  *)
(* not overlap and tell of no block that is not its own, and they leave    *)
(* out none; what is shown of an extent that occupies a full segment and   *)
(* part of the next is left to WholeExtentsShown.                          *)
PartsTileExtents ==
  pc = "done" =>
    /\ {lines[n].of : n \in ExtentLines} = SelectedExtents
    /\ \A e \in SelectedExtents :
         /\ BlocksShown(e) \subseteq BlocksOf(e)
         /\ ~FullThenPart(e) => BlocksShown(e) = BlocksOf(e)
         /\ \A m, n \in LinesOf(e) :
              m # n => BlocksOfLine(lines[m]) \cap BlocksOfLine(lines[n]) = {}

(* All of an extent is shown: where it occupies a full segment and part of *)
(* the next, the first as a regular segment and the rest in the next one,  *)
(* as the comments on and in show_consecutive_segments say.                *)
WholeExtentsShown ==
  pc = "done" => \A e \in SelectedExtents : BlocksShown(e) = BlocksOf(e)

(* The segment whose header was printed last before a line; the report     *)
(* takes itself to be in segment 0 from the start.                         *)
HeaderAbove(n) ==
  LET headers == {m \in 1 .. n - 1 : lines[m].kind = "segment"}
  IN  IF headers = {} THEN 0 ELSE lines[Max(headers)].first

(* The range announced for a line.                                         *)
RangeAbove(n) ==
  UNION {lines[m].first .. lines[m].last :
           m \in {m \in 1 .. n - 1 : /\ lines[m].kind = "range"
                                    /\ \A k \in m + 1 .. n - 1 : k \notin ExtentLines}}

(* An inlined extent is shorter than the block it lies in.                 *)
Disjoint ==
  \A d, e \in SelectedExtents :
    d # e => ({d.phy_blk} \cup BlocksOf(d)) \cap ({e.phy_blk} \cup BlocksOf(e)) = {}

(* A header is left out when cur_segment, which four functions set, says   *)
(* that the report is in the segment already.  Nevertheless every extent   *)
(* line is under the header of the segment its blocks lie in, or of the    *)
(* range that was announced, also where extents of different files overlap *)
(* because blocks moved while they were collected; and where they do not,  *)
(* no segment gets a second header, and the headers come in device order.  *)
LinesUnderTheirHeader ==
  /\ \A n \in ExtentLines :
       {SegmentOf(b) : b \in BlocksOfLine(lines[n])} \subseteq {HeaderAbove(n)} \cup RangeAbove(n)
  /\ Disjoint /\ DeviceFitsWord =>
       \A m, n \in DOMAIN lines :
         m < n /\ lines[m].kind = "segment" /\ lines[n].kind = "segment" =>
           lines[m].first < lines[n].first

ExtentsNamed(name) == {e \in SelectedExtents : e.file = name}

SegmentsOfFile(name) == {FirstSegment(e) : e \in ExtentsNamed(name)}

(* Each extent of the file lies within one segment.                        *)
IsSimple(name) == \A e \in ExtentsNamed(name) : EndSegment(e) = FirstSegment(e)

(* The number of segments of a file is right when each of its extents lies *)
(* within one, although extents of other files come between them: on a     *)
(* device whose zones the walk passes in the order of their addresses, for *)
(* a file with nothing in segment 0, the value last_segment_id starts      *)
(* with: what lies there is not counted.                                   *)
SimpleFilesCounted ==
  DeviceFitsWord /\ pc = "done" =>
    \A name \in Names :
      IsSimple(name) /\ 0 \notin SegmentsOfFile(name) =>
        files[name].segment_ctr = Cardinality(SegmentsOfFile(name))

(* segmap_man.fs has nr_files entries, and get_file_stats_index adds one   *)
(* whenever it does not know a name.                                       *)
FileStatsInBounds == Len(fs) <= nr_files

(* The report ends when it starts at the first zone.                       *)
EndsFromFirstZone == start_zone <= 1 => <>(pc = "done")

(* -s shows the mappings from the given zone on.                           *)
MappingsShown == <>({lines[n].of : n \in ExtentLines} = SelectedExtents)
=============================================================================
