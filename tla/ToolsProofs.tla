---------------------------- MODULE ToolsProofs ----------------------------
(***************************************************************************)
(* The tools from their options to their exit, for any commands, devices   *)
(* and files: when they crash, that what they know of the devices is so,   *)
(* the segment information of the extents, and what is printed.            *)
(***************************************************************************)
EXTENDS Tools, WellFoundedInduction, TLAPS

(* Where a tool is once it has asked for its zone map, and once it has     *)
(* asked for the sizes of the zones.                                       *)
Mapped == {"zoned", "sizes", "procfs", "defaults", "collect", "report", "superblock",
           "checkpoint", "inode", "show_inode", "cleanup"}
Sized == Mapped \ {"zoned", "sizes"}

Excused(what) == system.fs = "other" \/ what \in unread

(* Of the control structure no more is needed.                             *)
Fields(c) ==
  /\ {"zns_sector_shift", "znsdev", "fs_info_bytes"} \subseteq DOMAIN c
  /\ "zone_size" \in DOMAIN c.znsdev

(* Only sectors of 4 KiB are more than one of the kernel's.                *)
ShiftOK ==
  \/ ctrl.zns_sector_shift = 0
  \/ ctrl.zns_sector_shift = 3 /\ system.sector = 4096

Typed ==
  /\ program \in Programs
  /\ system \in Systems
  /\ args \in Seq([opt : STRING, arg : Nat])
  /\ Fields(ctrl)
  /\ ShiftOK

(* What a tool divides by or follows a pointer to is there, or could not   *)
(* be read.                                                                *)
CrashInv ==
  /\ pc \in Mapped /\ zonemap = NULL => Excused("zone_map")
  /\ pc \in Sized /\ ctrl.znsdev.zone_size = 0 => Excused("zone_size")
  /\ ctrl.fs_info_bytes > 0 /\ fs_manager = NULL => "procfs" \in unread
  /\ \E S : extents \in Seq(S)
  /\ \A k \in DOMAIN extents : extents[k].zone_cap = 0 => "zone_info" \in unread
  /\ CrashesAreKnown

IInv == Typed /\ CrashInv

-----------------------------------------------------------------------------
(* Who changes what.                                                       *)

Preparing ==
  \/ ParseOption \/ ShowHelp \/ RejectOptions \/ AcceptOptions \/ CallFails
  \/ OpenFile \/ SetFsMagic \/ InitDev \/ ReadSuperBlock \/ InitBdev \/ InitZnsDev
  \/ InitZoneMap \/ ZoneMapNotOpened \/ CheckZoned \/ ReadSizes
  \/ InitFsManager \/ ProcfsMissing \/ Defaults
Collecting ==
  \/ SkipExtent \/ CrashOnExtent \/ RecordExtent \/ EndOfFile \/ CrashOnNull \/ Collected
Reporting ==
  \/ ReportHangs \/ ReportJson \/ ReportSegments \/ CrashOnCapacity \/ ReportFiemap
  \/ Cleanup \/ ShowSuperBlock \/ NoSuperBlock \/ ShowCheckpoint \/ NoCheckpoint
  \/ FindInode \/ CrashOnInode \/ ShowInode
Elsewhere == WriteCheckpoint \/ UNCHANGED vars

LEMMA Phases ==
  ASSUME [Next]_vars
  PROVE  Preparing \/ Collecting \/ Reporting \/ Elsewhere
  BY DEF Next, Finished, Preparing, Collecting, Reporting, Elsewhere

(* What is known of the system, field by field.                            *)
LEMMA SystemTyped ==
  ASSUME ToolsAssumption, NEW s \in Systems
  PROVE  /\ s.fs \in {"F2FS", "Btrfs", "other"}
         /\ s.sector \in {512, 4096}
         /\ s.zoned \in BOOLEAN
         /\ s.zone_sectors \in Nat \ {0}
         /\ s.zone_cap \in Nat \ {0}
         /\ s.nr_zones \in Nat \ {0}
         /\ s.conv_bytes \in Nat
         /\ s.cp_blkaddr \in Nat
         /\ s.main_blkaddr \in Nat
         /\ s.inode_blkaddr \in Nat
         /\ s.segments \in Seq([type : SegmentTypes, valid_blocks : Nat])
         /\ s.files \in Seq(Seq([physical : Nat, length : Nat, inline : BOOLEAN]))
         /\ (s.zone_sectors * 512) % F2FS_SEGMENT_BYTES = 0
         /\ (s.zone_cap * 512) % s.sector = 0
         /\ (s.conv_bytes - s.main_blkaddr * F2FS_BLKSIZE) % F2FS_SEGMENT_BYTES = 0
         /\ s.main_blkaddr * F2FS_BLKSIZE <= s.conv_bytes
         /\ s.fs # "F2FS" => s.conv_bytes = 0
         /\ s.conv_bytes + s.nr_zones * s.zone_sectors * 512 < Word64 - 1
<1>1. s \in SystemType
  BY DEF ToolsAssumption
<1>2. /\ (s.zone_sectors * 512) % F2FS_SEGMENT_BYTES = 0
      /\ (s.zone_cap * 512) % s.sector = 0
      /\ (s.conv_bytes - s.main_blkaddr * F2FS_BLKSIZE) % F2FS_SEGMENT_BYTES = 0
      /\ s.main_blkaddr * F2FS_BLKSIZE <= s.conv_bytes
      /\ s.fs # "F2FS" => s.conv_bytes = 0
      /\ s.conv_bytes + s.nr_zones * s.zone_sectors * 512 < Word64 - 1
  BY DEF ToolsAssumption
<1>3. QED
  BY <1>1, <1>2 DEF SystemType

Frame ==
  /\ UNCHANGED <<program, system>>
  /\ UNCHANGED args \/ ParseOption
  /\ \/ UNCHANGED ctrl
     \/ ParseOption \/ AcceptOptions \/ SetFsMagic \/ InitBdev \/ InitZnsDev
     \/ ReadSizes \/ InitFsManager \/ ProcfsMissing \/ Defaults
  /\ UNCHANGED fs_manager \/ InitFsManager
  /\ UNCHANGED extents \/ RecordExtent
  /\ unread \subseteq unread'
  /\ \/ pc \in Mapped /\ UNCHANGED zonemap
     \/ pc' \notin Mapped
     \/ InitZoneMap \/ ZoneMapNotOpened \/ SetFsMagic
  /\ pc \in Sized \/ pc' \notin Sized \/ ReadSizes \/ SetFsMagic
  /\ pc' = "crash" =>
       pc = "crash" \/ CrashOnExtent \/ CrashOnNull \/ CrashOnCapacity \/ CrashOnInode

LEMMA Frames ==
  ASSUME ToolsAssumption, Typed, [Next]_vars
  PROVE  Frame
<1> USE DEF Frame, Go, Mapped, Sized, outside, init_vars, Set, SetNothing, Show, ShowsJson
<1>1. CASE Preparing
  <2>1. CASE SetFsMagic
    <3>1. system.fs \in {"F2FS", "Btrfs", "other"}
      BY SystemTyped DEF Typed
    <3>2. AfterMagic # "crash"
      BY <3>1 DEF AfterMagic
    <3>3. QED
      BY <2>1, <3>2 DEF SetFsMagic
  <2>2. CASE ~SetFsMagic
    BY <1>1, <2>2, ZenonT(30) DEF Preparing, ParseOption, ShowHelp, RejectOptions, AcceptOptions, CallFails,
       OpenFile, InitDev, ReadSuperBlock, InitBdev, InitZnsDev, InitZoneMap,
       ZoneMapNotOpened, CheckZoned, ReadSizes, InitFsManager, ProcfsMissing, Defaults
  <2>3. QED
    BY <2>1, <2>2
<1>2. CASE Collecting
  BY <1>2 DEF Collecting, SkipExtent, CrashOnExtent, RecordExtent, EndOfFile, CrashOnNull, Collected
<1>3. CASE Reporting
  BY <1>3 DEF Reporting, ReportHangs, ReportJson, ReportSegments, CrashOnCapacity, ReportFiemap,
     Cleanup, ShowSuperBlock, NoSuperBlock, ShowCheckpoint, NoCheckpoint, FindInode,
     CrashOnInode, ShowInode
<1>4. CASE Elsewhere
  <2>1. CASE WriteCheckpoint
    BY <2>1 DEF WriteCheckpoint
  <2>2. CASE UNCHANGED vars
    BY <2>2 DEF vars
  <2>3. QED
    BY <1>4, <2>1, <2>2 DEF Elsewhere
<1>5. QED
  BY <1>1, <1>2, <1>3, <1>4, Phases

-----------------------------------------------------------------------------
(* The control structure.                                                  *)

(* The fields at hand are the same.                                        *)
Same(c, d) ==
  /\ Fields(d)
  /\ d.zns_sector_shift = c.zns_sector_shift
  /\ d.znsdev.zone_size = c.znsdev.zone_size
  /\ d.fs_info_bytes = c.fs_info_bytes

LEMMA OptionSame ==
  ASSUME NEW c, Fields(c), NEW o, NEW p \in Programs
  PROVE  Same(c, SetOption(p, c, o))
<1>1. Same(c, SegmapOption(c, o))
  BY DEF SegmapOption, Same, Fields
<1>2. Same(c, FiemapOption(c, o))
  BY DEF FiemapOption, Same, Fields
<1>3. Same(c, ImapOption(c, o))
  BY DEF ImapOption, Same, Fields
<1>4. QED
  BY <1>1, <1>2, <1>3 DEF SetOption, Programs

LEMMA GeometrySame ==
  ASSUME NEW c, Fields(c)
  PROVE  /\ \A nr_zones : Same(c, WithSegments(c, nr_zones))
         /\ \A sector : LET d == WithSectorSize(c, sector)
                        IN  /\ Fields(d)
                            /\ d.zns_sector_shift = IF sector = 4096 THEN 3 ELSE c.zns_sector_shift
                            /\ d.znsdev.zone_size = c.znsdev.zone_size
                            /\ d.fs_info_bytes = c.fs_info_bytes
         /\ \A multi_dev, offset, zone_size, nr_zones :
              LET d == WithZones(c, multi_dev, offset, zone_size, nr_zones)
              IN  /\ Fields(d)
                  /\ d.zns_sector_shift = c.zns_sector_shift
                  /\ d.znsdev.zone_size = zone_size
                  /\ d.fs_info_bytes = c.fs_info_bytes
<1>1. \A nr_zones : Same(c, WithSegments(c, nr_zones))
  BY DEF WithSegments, Same, Fields
<1>2. \A sector : LET d == WithSectorSize(c, sector)
                  IN  /\ Fields(d)
                      /\ d.zns_sector_shift = IF sector = 4096 THEN 3 ELSE c.zns_sector_shift
                      /\ d.znsdev.zone_size = c.znsdev.zone_size
                      /\ d.fs_info_bytes = c.fs_info_bytes
  BY DEF WithSectorSize, Fields
<1>3. \A multi_dev, offset, zone_size, nr_zones :
        LET d == WithZones(c, multi_dev, offset, zone_size, nr_zones)
        IN  /\ Fields(d)
            /\ d.zns_sector_shift = c.zns_sector_shift
            /\ d.znsdev.zone_size = zone_size
            /\ d.fs_info_bytes = c.fs_info_bytes
  <2> SUFFICES ASSUME NEW multi_dev, NEW offset, NEW zone_size, NEW nr_zones
               PROVE  LET d == WithZones(c, multi_dev, offset, zone_size, nr_zones)
                      IN  /\ Fields(d)
                          /\ d.zns_sector_shift = c.zns_sector_shift
                          /\ d.znsdev.zone_size = zone_size
                          /\ d.fs_info_bytes = c.fs_info_bytes
    OBVIOUS
  <2> DEFINE c1 == [c EXCEPT !.multi_dev = multi_dev, !.offset = offset]
             c2 == [c1 EXCEPT !.znsdev.zone_size = zone_size]
             c3 == [c2 EXCEPT !.znsdev.zone_mask = MaskOf(zone_size, Word)]
             c4 == [c3 EXCEPT !.znsdev.nr_zones = nr_zones]
  <2>1. Same(c, c1)
    BY DEF Same, Fields
  <2>2. WithZones(c, multi_dev, offset, zone_size, nr_zones) = c4
    BY DEF WithZones
  <2> HIDE DEF c1
  <2>3. /\ Fields(c2)
        /\ c2.zns_sector_shift = c1.zns_sector_shift
        /\ c2.znsdev.zone_size = zone_size
        /\ c2.fs_info_bytes = c1.fs_info_bytes
    BY <2>1 DEF Same, Fields
  <2> HIDE DEF c2
  <2>4. Same(c2, c3)
    BY <2>3 DEF Same, Fields
  <2> HIDE DEF c3
  <2>5. Same(c3, c4)
    BY <2>4 DEF Same, Fields
  <2> HIDE DEF c4
  <2>6. QED
    BY <2>1, <2>2, <2>3, <2>4, <2>5 DEF Same
<1>4. QED
  BY <1>1, <1>2, <1>3

-----------------------------------------------------------------------------
(* The steps.                                                              *)

InitsDevice ==
  /\ Fields(ctrl')
  /\ ctrl'.zns_sector_shift = IF system.sector = 4096 THEN 3 ELSE ctrl.zns_sector_shift
  /\ ctrl'.znsdev.zone_size = ctrl.znsdev.zone_size
  /\ ctrl'.fs_info_bytes = ctrl.fs_info_bytes

ReadsSizes ==
  /\ ReadSizes
  /\ Fields(ctrl')
  /\ ctrl'.zns_sector_shift = ctrl.zns_sector_shift
  /\ ctrl'.fs_info_bytes = ctrl.fs_info_bytes
  /\ \/ ctrl'.znsdev.zone_size = ToDevice(ctrl, system.zone_sectors)
     \/ "zone_size" \in unread'

NeedsTable ==
  /\ Fields(ctrl')
  /\ ctrl'.zns_sector_shift = ctrl.zns_sector_shift
  /\ ctrl'.znsdev.zone_size = ctrl.znsdev.zone_size
  /\ fs_manager' = SegmentTable \/ "procfs" \in unread'

LEMMA SizesRead ==
  ASSUME Typed, ReadSizes
  PROVE  ReadsSizes
<1>1. PICK dev_read \in BOOLEAN, zone_read \in BOOLEAN, nr_read \in BOOLEAN :
        /\ zone_read => system.zoned
        /\ nr_read => system.zoned
        /\ ctrl' = WithZones(ctrl, system.fs = "F2FS",
                     IF system.fs # "F2FS" THEN 0
                     ELSE IF dev_read THEN system.conv_bytes ELSE Word64 - 1,
                     IF zone_read THEN ToDevice(ctrl, system.zone_sectors) ELSE 0,
                     IF nr_read THEN system.nr_zones ELSE 0)
        /\ unread' = unread \cup FailedReads(dev_read, "device_size")
                       \cup FailedReads(zone_read, "zone_size")
                       \cup FailedReads(nr_read, "number_of_zones")
  BY Zenon DEF ReadSizes
<1>2. ~zone_read => "zone_size" \in unread'
  BY <1>1 DEF FailedReads
<1> DEFINE size == IF zone_read THEN ToDevice(ctrl, system.zone_sectors) ELSE 0
<1>3. PICK multi_dev, offset, nr_zones :
        ctrl' = WithZones(ctrl, multi_dev, offset, size, nr_zones)
  BY <1>1, Zenon
<1>4. PICK zone_size : zone_size = size
  OBVIOUS
<1>5. ctrl' = WithZones(ctrl, multi_dev, offset, zone_size, nr_zones)
  BY <1>3, <1>4, Zenon
<1>6. /\ Fields(ctrl')
      /\ ctrl'.zns_sector_shift = ctrl.zns_sector_shift
      /\ ctrl'.znsdev.zone_size = zone_size
      /\ ctrl'.fs_info_bytes = ctrl.fs_info_bytes
  BY <1>5, GeometrySame DEF Typed
<1>7. QED
  BY <1>2, <1>4, <1>6 DEF ReadsSizes

LEMMA CtrlSteps ==
  ASSUME ToolsAssumption, Typed, [Next]_vars
  PROVE  Same(ctrl, ctrl') \/ InitsDevice \/ ReadsSizes \/ NeedsTable
<1>1. Fields(ctrl) /\ program \in Programs
  BY DEF Typed
<1>2. CASE UNCHANGED ctrl
  BY <1>1, <1>2 DEF Same
<1>3. CASE ParseOption
  BY <1>1, <1>3, OptionSame DEF ParseOption
<1>4. CASE AcceptOptions \/ SetFsMagic
  BY <1>1, <1>4 DEF AcceptOptions, SetFsMagic, Set, Same, Fields
<1>5. CASE InitBdev
  <2> DEFINE c == [ctrl EXCEPT !.bdev.is_zoned = FALSE]
  <2>1. Same(ctrl, c)
    BY <1>1 DEF Same, Fields
  <2>2. ctrl' = WithSectorSize(c, system.sector)
    BY <1>5 DEF InitBdev, Set
  <2> HIDE DEF c
  <2>3. QED
    BY <2>1, <2>2, GeometrySame DEF Same, InitsDevice
<1>6. CASE InitZnsDev
  <2>1. PICK is_zoned, nr_zones :
          ctrl' = WithSegments(WithSectorSize([ctrl EXCEPT !.znsdev.is_zoned = is_zoned],
                                              system.sector), nr_zones)
    BY <1>6 DEF InitZnsDev, Set
  <2> DEFINE c == [ctrl EXCEPT !.znsdev.is_zoned = is_zoned]
             d == WithSectorSize(c, system.sector)
  <2>2. Same(ctrl, c)
    BY <1>1 DEF Same, Fields
  <2> HIDE DEF c
  <2>3. /\ Fields(d)
        /\ d.zns_sector_shift = IF system.sector = 4096 THEN 3 ELSE c.zns_sector_shift
        /\ d.znsdev.zone_size = c.znsdev.zone_size
        /\ d.fs_info_bytes = c.fs_info_bytes
    BY <2>2, GeometrySame DEF Same
  <2> HIDE DEF d
  <2>4. ctrl' = WithSegments(d, nr_zones)
    BY <2>1 DEF c, d
  <2>5. Same(d, ctrl')
    BY <2>3, <2>4, GeometrySame
  <2>6. QED
    BY <2>2, <2>3, <2>5 DEF Same, InitsDevice
<1>7. CASE ReadSizes
  BY <1>7, SizesRead
<1>8. CASE InitFsManager \/ ProcfsMissing
  BY <1>1, <1>8 DEF InitFsManager, ProcfsMissing, Set, Fields, NeedsTable
<1>9. CASE Defaults
  BY <1>1, <1>9 DEF Defaults, WithDefaults, Set, Same, Fields
<1>10. QED
  BY <1>2, <1>3, <1>4, <1>5, <1>6, <1>7, <1>8, <1>9, Frames DEF Frame

LEMMA InitIInv ==
  ASSUME ControlAssumption, ToolsAssumption, Init
  PROVE  IInv
<1>1. Fields(InitialCtrl(program)) /\ InitialCtrl(program).zns_sector_shift = 0
      /\ InitialCtrl(program).fs_info_bytes = 0
  BY DEF InitialCtrl, Bdev, Fields
<1>2. PICK command \in Commands : program = command.program /\ args = command.args
  BY DEF Init
<1>3. /\ program \in Programs
      /\ args \in Seq([opt : STRING, arg : Nat])
      /\ system \in Systems
      /\ ctrl = InitialCtrl(program)
  BY <1>2 DEF ToolsAssumption, Init
<1>4. Typed
  <2>1. Fields(ctrl) /\ ctrl.zns_sector_shift = 0
    BY <1>1, <1>3, Zenon
  <2>2. ShiftOK
    BY <2>1 DEF ShiftOK
  <2>3. QED
    BY <1>3, <2>1, <2>2, Zenon DEF Typed
<1>5. CrashInv
  <2>1. extents \in Seq({}) /\ DOMAIN extents = {}
    BY DEF Init
  <2>2. QED
    BY <1>1, <1>3, <2>1 DEF Init, CrashInv, Mapped, Sized, CrashesAreKnown
<1>6. QED
  BY <1>4, <1>5 DEF IInv

LEMMA StepTyped ==
  ASSUME ToolsAssumption, Typed, [Next]_vars
  PROVE  Typed'
<1>1. UNCHANGED <<program, system>> /\ (UNCHANGED args \/ ParseOption)
  BY Frames DEF Frame
<1>2. args' \in Seq([opt : STRING, arg : Nat])
  <2>1. CASE UNCHANGED args
    BY <2>1 DEF Typed
  <2>2. CASE ParseOption
    <3>1. args' = Tail(args) /\ args # <<>>
      BY <2>2 DEF ParseOption
    <3>2. args \in Seq([opt : STRING, arg : Nat])
      BY DEF Typed
    <3>3. QED
      BY <3>1, <3>2
  <2>3. QED
    BY <1>1, <2>1, <2>2
<1>3. Fields(ctrl')
  BY CtrlSteps DEF Same, InitsDevice, ReadsSizes, NeedsTable
<1>4. ShiftOK'
  <2>1. CASE ctrl'.zns_sector_shift = ctrl.zns_sector_shift
    BY <1>1, <2>1 DEF Typed, ShiftOK
  <2>2. CASE InitsDevice
    BY <1>1, <2>2 DEF InitsDevice, Typed, ShiftOK
  <2>3. QED
    BY <2>1, <2>2, CtrlSteps DEF Same, ReadsSizes, NeedsTable
<1>5. QED
  BY <1>1, <1>2, <1>3, <1>4 DEF Typed

(* The parts of a zone are whole numbers of its sectors.                   *)
LEMMA ZoneSectors ==
  ASSUME ToolsAssumption, NEW s \in Systems
  PROVE  /\ s.zone_sectors % 4096 = 0
         /\ s.sector = 4096 => s.zone_cap % 8 = 0
<1>1. s.zone_sectors \in Nat /\ s.zone_cap \in Nat
  BY SystemTyped
<1>2. s.zone_sectors % 4096 = 0
  <2>1. (s.zone_sectors * 512) % F2FS_SEGMENT_BYTES = 0
    BY SystemTyped
  <2>2. QED
    BY <1>1, <2>1, SMT DEF F2FS_SEGMENT_BYTES
<1>3. ASSUME s.sector = 4096
      PROVE  s.zone_cap % 8 = 0
  <2>1. (s.zone_cap * 512) % 4096 = 0
    BY <1>3, SystemTyped
  <2>2. QED
    BY <1>1, <2>1, SMT
<1>4. QED
  BY <1>2, <1>3

(* A zone that was read is not empty.                                      *)
LEMMA NotEmpty ==
  ASSUME ToolsAssumption, Typed
  PROVE  ToDevice(ctrl, system.zone_sectors) # 0 /\ ToDevice(ctrl, system.zone_cap) # 0
<1>1. /\ system.zone_sectors \in Nat \ {0} /\ system.zone_cap \in Nat \ {0}
      /\ system.zone_sectors % 4096 = 0
      /\ system.sector = 4096 => system.zone_cap % 8 = 0
  BY SystemTyped, ZoneSectors DEF Typed
<1>2. CASE ctrl.zns_sector_shift = 0
  BY <1>1, <1>2 DEF ToDevice
<1>3. CASE ctrl.zns_sector_shift = 3 /\ system.sector = 4096
  BY <1>1, <1>3 DEF ToDevice
<1>4. QED
  BY <1>2, <1>3 DEF Typed, ShiftOK

LEMMA StepCrashInv ==
  ASSUME ControlAssumption, ToolsAssumption, Typed, CrashInv, [Next]_vars
  PROVE  CrashInv'
<1>1. UNCHANGED system /\ unread \subseteq unread'
  BY Frames DEF Frame
<1>2. \A what : Excused(what) => Excused(what)'
  BY <1>1 DEF Excused
<1>3. ASSUME SetFsMagic, pc' \in Mapped
      PROVE  system.fs = "other"
  <2>1. system.fs \in {"F2FS", "Btrfs", "other"}
    BY SystemTyped DEF Typed
  <2>2. QED
    BY <1>3, <2>1 DEF SetFsMagic, Go, AfterMagic, Mapped
<1>4. pc' \in Mapped /\ zonemap' = NULL => Excused("zone_map")'
  <2> SUFFICES ASSUME pc' \in Mapped, zonemap' = NULL
               PROVE  Excused("zone_map")'
    OBVIOUS
  <2>1. CASE pc \in Mapped /\ UNCHANGED zonemap
    BY <1>2, <2>1 DEF CrashInv
  <2>2. CASE InitZoneMap
    <3>1. PICK n, zones : zonemap' = [nr_zones |-> n, zones |-> zones]
      BY <2>2, ZenonT(30) DEF InitZoneMap
    <3>2. DOMAIN zonemap' # DOMAIN NULL
      <4>1. "zones" \in DOMAIN zonemap' /\ "zones" \notin DOMAIN NULL
        BY <3>1 DEF NULL
      <4>2. QED
        BY <4>1
    <3>3. QED
      BY <3>2
  <2>3. CASE ZoneMapNotOpened
    BY <2>3 DEF ZoneMapNotOpened, Excused
  <2>4. CASE SetFsMagic
    BY <1>1, <1>3, <2>4 DEF Excused
  <2>5. QED
    BY <2>1, <2>2, <2>3, <2>4, Frames DEF Frame
<1>5. pc' \in Sized /\ ctrl'.znsdev.zone_size = 0 => Excused("zone_size")'
  <2> SUFFICES ASSUME pc' \in Sized, ctrl'.znsdev.zone_size = 0
               PROVE  Excused("zone_size")'
    OBVIOUS
  <2>1. CASE pc \in Sized
    <3>1. ~ReadSizes
      BY <2>1 DEF ReadSizes, Go, Sized
    <3>2. ctrl'.znsdev.zone_size = ctrl.znsdev.zone_size
      BY <3>1, CtrlSteps DEF Same, InitsDevice, ReadsSizes, NeedsTable
    <3>3. QED
      BY <1>2, <2>1, <3>2 DEF CrashInv
  <2>2. CASE ReadSizes
    BY <2>2, SizesRead, NotEmpty DEF ReadsSizes, Excused
  <2>3. CASE SetFsMagic
    BY <1>1, <1>3, <2>3 DEF Excused, Sized
  <2>4. QED
    BY <2>1, <2>2, <2>3, Frames DEF Frame
<1>6. ctrl'.fs_info_bytes > 0 /\ fs_manager' = NULL => "procfs" \in unread'
  <2>1. SegmentTable # NULL
    <3>1. PICK n, segments : SegmentTable = [nr_segments |-> n, segments |-> segments]
      BY ZenonT(30) DEF SegmentTable
    <3>2. "segments" \in DOMAIN SegmentTable /\ "segments" \notin DOMAIN NULL
      BY <3>1 DEF NULL
    <3>3. QED
      BY <3>2
  <2>2. CASE InitFsManager
    BY <2>1, <2>2 DEF InitFsManager
  <2>3. CASE UNCHANGED fs_manager
    BY <1>1, <2>1, <2>3, CtrlSteps DEF Same, InitsDevice, ReadsSizes, NeedsTable, CrashInv
  <2>4. QED
    BY <2>2, <2>3, Frames DEF Frame
<1>7. /\ \E S : extents' \in Seq(S)
      /\ \A k \in DOMAIN extents' : extents'[k].zone_cap = 0 => "zone_info" \in unread'
  <2>1. CASE UNCHANGED extents
    BY <1>1, <2>1 DEF CrashInv
  <2>2. CASE RecordExtent
    <3>1. PICK S : extents \in Seq(S)
      BY DEF CrashInv
    <3>2. PICK zone_read \in BOOLEAN :
            /\ extents' = Append(extents, Extent(NextExtent, CapacityTold(zone_read)))
            /\ unread' = unread \cup FailedReads(zone_read, "zone_info")
      BY <2>2, Zenon DEF RecordExtent
    <3>3. PICK new : new = Extent(NextExtent, CapacityTold(zone_read))
      OBVIOUS
    <3>4. new.zone_cap = CapacityTold(zone_read)
      BY <3>3 DEF Extent
    <3>5. new.zone_cap = 0 => "zone_info" \in unread'
      BY <3>2, <3>4, NotEmpty DEF CapacityTold, FailedReads
    <3>6. extents \in Seq(S \cup {new}) /\ extents' = Append(extents, new)
      <4>1. extents \in Seq(S \cup {new})
        BY <3>1
      <4>2. extents' = Append(extents, new)
        BY <3>2, <3>3, Zenon
      <4>3. QED
        BY <4>1, <4>2
    <3>7. /\ extents' \in Seq(S \cup {new})
          /\ \A k \in DOMAIN extents' :
               (k \in DOMAIN extents /\ extents'[k] = extents[k]) \/ extents'[k] = new
      BY <3>6
    <3>8. QED
      BY <1>1, <3>5, <3>7 DEF CrashInv
  <2>3. QED
    BY <2>1, <2>2, Frames DEF Frame
<1>8. CrashesAreKnown'
  <2> SUFFICES ASSUME pc' = "crash"
               PROVE  \/ system.fs = "other"
                      \/ unread' \cap {"zone_map", "zone_size", "procfs", "zone_info"} # {}
    BY <1>1 DEF CrashesAreKnown
  <2>1. CASE pc = "crash"
    <3>1. \/ system.fs = "other"
          \/ unread \cap {"zone_map", "zone_size", "procfs", "zone_info"} # {}
      BY <2>1 DEF CrashInv, CrashesAreKnown
    <3>2. QED
      BY <1>1, <3>1
  <2>2. CASE CrashOnExtent
    <3>1. pc = "collect" /\ CannotRecord
      BY <2>2 DEF CrashOnExtent, Go
    <3>2. Excused("zone_map") \/ Excused("zone_size") \/ "procfs" \in unread
      BY <3>1 DEF CannotRecord, CrashInv, Mapped, Sized
    <3>3. system.fs = "other" \/ "zone_map" \in unread' \/ "zone_size" \in unread'
            \/ "procfs" \in unread'
      BY <1>1, <3>2 DEF Excused
    <3>4. QED
      BY <3>3
  <2>3. CASE CrashOnNull
    <3>1. zonemap = NULL /\ pc \in {"collect", "cleanup"}
      BY <2>3 DEF CrashOnNull
    <3>2. Excused("zone_map")
      BY <3>1 DEF CrashInv, Mapped
    <3>3. system.fs = "other" \/ "zone_map" \in unread'
      BY <1>1, <3>2 DEF Excused
    <3>4. QED
      BY <3>3
  <2>4. CASE CrashOnCapacity
    <3>1. PICK k \in DOMAIN extents : extents[k].zone_cap = 0
      BY <2>4 DEF CrashOnCapacity, InWindow, Recorded
    <3>2. \A n \in DOMAIN extents : extents[n].zone_cap = 0 => "zone_info" \in unread
      BY DEF CrashInv
    <3>3. "zone_info" \in unread
      BY <3>1, <3>2, ZenonT(30)
    <3>4. "zone_info" \in unread'
      BY <1>1, <3>3, ZenonT(30)
    <3>5. QED
      BY <3>4
  <2>5. CASE CrashOnInode
    <3>1. system.fs = "F2FS" /\ ctrl.znsdev.zone_size = 0 /\ pc = "inode"
      BY <2>5 DEF CrashOnInode, Go
    <3>2. Excused("zone_size")
      BY <3>1 DEF CrashInv, Mapped, Sized
    <3>3. "zone_size" \in unread'
      BY <1>1, <3>1, <3>2 DEF Excused
    <3>4. QED
      BY <3>3
  <2>6. QED
    BY <2>1, <2>2, <2>3, <2>4, <2>5, Frames DEF Frame
<1>9. QED
  BY <1>4, <1>5, <1>6, <1>7, <1>8 DEF CrashInv

(* Of all the calls that may fail unnoticed, and the structures they leave *)
(* half made, only four lead to a null pointer or a division by zero.      *)
THEOREM CrashesKnown == Spec => []CrashesAreKnown
<1>1. Init => IInv
  BY ControlAssumption, ToolsAssumption, InitIInv
<1>2. IInv /\ [Next]_vars => IInv'
  BY ControlAssumption, ToolsAssumption, StepTyped, StepCrashInv DEF IInv
<1>3. IInv => CrashesAreKnown
  BY DEF IInv, CrashInv
<1>4. QED
  BY <1>1, <1>2, <1>3, PTL DEF Spec
-----------------------------------------------------------------------------
(* Where a step leads.                                                     *)

(* Once the zoned device is known, its zone map and its sizes.             *)
AfterZns == Mapped \cup {"zonemap", "done", "hang"}
AfterMap == Mapped \cup {"done", "hang"}
AfterSizes == Sized \cup {"done", "hang"}

Early == {"options", "open", "magic", "device", "super", "bdev", "zns", "zonemap"}

Unknown == SetFsMagic /\ system.fs = "other"

Paths ==
  /\ pc' \in AfterZns => pc \in AfterZns \/ InitZnsDev \/ Unknown
  /\ pc' \in AfterMap => pc \in AfterMap \/ InitZoneMap \/ ZoneMapNotOpened \/ Unknown
  /\ pc' \in AfterSizes => pc \in AfterSizes \/ ReadSizes \/ Unknown
  /\ pc' \in Early => pc \in Early
  /\ pc' = "zonemap" => InitZnsDev \/ pc = "zonemap"
  /\ pc' = "procfs" => \/ pc = "procfs"
                       \/ ReadSizes /\ program = "segmap" /\ system.fs = "F2FS"
  /\ pc' \in Steps \/ UNCHANGED pc

Writers ==
  /\ pc \in AfterZns =>
       UNCHANGED ctrl \/ ReadSizes \/ InitFsManager \/ ProcfsMissing \/ Defaults
  /\ UNCHANGED zonemap \/ InitZoneMap
  /\ UNCHANGED sb \/ ReadSuperBlock
  /\ UNCHANGED packs \/ WriteCheckpoint
  /\ UNCHANGED printed \/ EndOfFile \/ ReportJson \/ ReportSegments \/ ReportFiemap
       \/ ShowSuperBlock \/ ShowCheckpoint \/ ShowInode
  /\ UNCHANGED unread \/ ZoneMapNotOpened \/ ReadSizes \/ ProcfsMissing \/ RecordExtent
       \/ ReportJson

LEMMA StepPaths ==
  ASSUME ToolsAssumption, Typed, [Next]_vars
  PROVE  Paths
<1>1. CASE UNCHANGED pc
  BY <1>1 DEF Paths
<1>2. CASE SetFsMagic
  <2>1. system.fs \in {"F2FS", "Btrfs", "other"}
    BY SystemTyped DEF Typed
  <2>2. \/ system.fs = "other" /\ pc' = "defaults"
        \/ pc' \in {"device", "zns"}
    BY <1>2, <2>1 DEF SetFsMagic, Go, AfterMagic
  <2>3. pc = "magic"
    BY <1>2 DEF SetFsMagic, Go
  <2>4. QED
    BY <1>2, <2>2, <2>3
       DEF Paths, Unknown, AfterZns, AfterMap, AfterSizes, Mapped, Sized, Early, Steps
<1>3. CASE ReadSizes
  <2>1. /\ pc = "sizes"
        /\ \/ pc' = "procfs" /\ program = "segmap" /\ system.fs = "F2FS"
           \/ pc' = "defaults"
    BY <1>3 DEF ReadSizes, Go
  <2>2. QED
    BY <1>3, <2>1 DEF Paths, AfterZns, AfterMap, AfterSizes, Mapped, Sized, Early, Steps
<1>4. CASE InitZnsDev \/ InitZoneMap \/ ZoneMapNotOpened
  <2>1. \/ InitZnsDev /\ pc = "zns" /\ pc' = "zonemap"
        \/ (InitZoneMap \/ ZoneMapNotOpened) /\ pc = "zonemap" /\ pc' = "zoned"
    BY <1>4 DEF InitZnsDev, InitZoneMap, ZoneMapNotOpened, Go
  <2>2. QED
    BY <2>1 DEF Paths, AfterZns, AfterMap, AfterSizes, Mapped, Sized, Early, Steps
<1>5. CASE Preparing /\ ~SetFsMagic /\ ~ReadSizes /\ ~InitZnsDev /\ ~InitZoneMap
             /\ ~ZoneMapNotOpened
  <2>1. \/ pc = "options" /\ pc' \in {"options", "help", "error", "open"}
        \/ <<pc, pc'>> \in {<<"open", "magic">>, <<"device", "super">>, <<"super", "bdev">>,
                            <<"bdev", "zns">>, <<"zoned", "sizes">>, <<"procfs", "defaults">>,
                            <<"defaults", "collect">>, <<"defaults", "superblock">>}
        \/ pc' = "error"
    <3>1. CASE ParseOption \/ ShowHelp \/ RejectOptions \/ AcceptOptions \/ CallFails
      BY <3>1 DEF ParseOption, ShowHelp, RejectOptions, AcceptOptions, CallFails, Go
    <3>2. CASE OpenFile \/ InitDev \/ ReadSuperBlock \/ InitBdev
      BY <3>2 DEF OpenFile, InitDev, ReadSuperBlock, InitBdev, Go
    <3>3. CASE CheckZoned
      <4>1. pc = "zoned" /\ pc' \in {"error", "sizes"}
        BY <3>3 DEF CheckZoned, Go
      <4>2. QED
        BY <4>1
    <3>4. CASE Defaults
      <4>1. pc = "defaults" /\ pc' \in {"superblock", "collect"}
        BY <3>4 DEF Defaults, Go
      <4>2. QED
        BY <4>1
    <3>5. CASE InitFsManager \/ ProcfsMissing
      BY <3>5 DEF InitFsManager, ProcfsMissing, Go
    <3>6. QED
      BY <1>5, <3>1, <3>2, <3>3, <3>4, <3>5 DEF Preparing
  <2>2. QED
    BY <2>1 DEF Paths, AfterZns, AfterMap, AfterSizes, Mapped, Sized, Early, Steps, Stopped
<1>6. CASE Collecting
  <2>1. \/ pc = "collect" /\ pc' \in {"collect", "error", "report", "cleanup"}
        \/ pc' = "crash"
    BY <1>6 DEF Collecting, SkipExtent, CrashOnExtent, RecordExtent, EndOfFile, CrashOnNull,
       Collected, Go
  <2>2. QED
    BY <2>1 DEF Paths, AfterZns, AfterMap, AfterSizes, Mapped, Sized, Early, Steps, Stopped
<1>7. CASE Reporting
  <2>1. \/ pc' = "crash"
        \/ <<pc, pc'>> \in {<<"report", "hang">>, <<"report", "cleanup">>, <<"cleanup", "done">>,
                            <<"superblock", "checkpoint">>, <<"checkpoint", "inode">>,
                            <<"inode", "show_inode">>, <<"show_inode", "cleanup">>}
    BY <1>7 DEF Reporting, ReportHangs, ReportJson, ReportSegments, CrashOnCapacity, ReportFiemap,
       Cleanup, ShowSuperBlock, NoSuperBlock, ShowCheckpoint, NoCheckpoint, FindInode,
       CrashOnInode, ShowInode, Go
  <2>2. QED
    BY <2>1 DEF Paths, AfterZns, AfterMap, AfterSizes, Mapped, Sized, Early, Steps, Stopped
<1>8. CASE Elsewhere
  BY <1>1, <1>8 DEF Elsewhere, WriteCheckpoint, vars
<1>9. QED
  BY <1>2, <1>3, <1>4, <1>5, <1>6, <1>7, <1>8, Phases DEF Preparing

LEMMA StepWriters ==
  ASSUME ToolsAssumption, Typed, [Next]_vars
  PROVE  Writers
<1> USE DEF Writers, Go, Mapped, Sized, AfterZns, outside, init_vars, Set, SetNothing, Show, ShowsJson
<1>1. CASE Preparing
  BY <1>1 DEF Preparing, ParseOption, ShowHelp, RejectOptions, AcceptOptions, CallFails,
     OpenFile, SetFsMagic, InitDev, ReadSuperBlock, InitBdev, InitZnsDev, InitZoneMap,
     ZoneMapNotOpened, CheckZoned, ReadSizes, InitFsManager, ProcfsMissing, Defaults
<1>2. CASE Collecting
  BY <1>2
     DEF Collecting, SkipExtent, CrashOnExtent, RecordExtent, EndOfFile, CrashOnNull, Collected
<1>3. CASE Reporting
  BY <1>3 DEF Reporting, ReportHangs, ReportJson, ReportSegments, CrashOnCapacity, ReportFiemap,
     Cleanup, ShowSuperBlock, NoSuperBlock, ShowCheckpoint, NoCheckpoint, FindInode,
     CrashOnInode, ShowInode
<1>4. CASE WriteCheckpoint
  BY <1>4 DEF WriteCheckpoint
<1>5. CASE UNCHANGED vars
  BY <1>5 DEF vars
<1>6. QED
  BY <1>1, <1>2, <1>3, <1>4, <1>5, Phases DEF Elsewhere

-----------------------------------------------------------------------------
(* The control structure keeps its type.                                   *)

LEMMA FlagTyped ==
  ASSUME NEW c \in ControlType, NEW flag \in BOOLEAN
  PROVE  /\ [c EXCEPT !.exclude_inline = flag] \in ControlType
         /\ [c EXCEPT !.show_holes = flag] \in ControlType
         /\ [c EXCEPT !.show_flags = flag] \in ControlType
         /\ [c EXCEPT !.json_dump = flag] \in ControlType
         /\ [c EXCEPT !.procfs = flag] \in ControlType
         /\ [c EXCEPT !.show_class_stats = flag] \in ControlType
         /\ [c EXCEPT !.show_only_stats = flag] \in ControlType
         /\ [c EXCEPT !.show_superblock = flag] \in ControlType
         /\ [c EXCEPT !.show_checkpoint = flag] \in ControlType
<1>1. [c EXCEPT !.exclude_inline = flag] \in ControlType
  BY DEF ControlType
<1>2. [c EXCEPT !.show_holes = flag] \in ControlType
  BY DEF ControlType
<1>3. [c EXCEPT !.show_flags = flag] \in ControlType
  BY DEF ControlType
<1>4. [c EXCEPT !.json_dump = flag] \in ControlType
  BY DEF ControlType
<1>5. [c EXCEPT !.procfs = flag] \in ControlType
  BY DEF ControlType
<1>6. [c EXCEPT !.show_class_stats = flag] \in ControlType
  BY DEF ControlType
<1>7. [c EXCEPT !.show_only_stats = flag] \in ControlType
  BY DEF ControlType
<1>8. [c EXCEPT !.show_superblock = flag] \in ControlType
  BY DEF ControlType
<1>9. [c EXCEPT !.show_checkpoint = flag] \in ControlType
  BY DEF ControlType
<1>10. QED
  BY <1>1, <1>2, <1>3, <1>4, <1>5, <1>6, <1>7, <1>8, <1>9, Zenon

LEMMA FieldTyped ==
  ASSUME NEW c \in ControlType
  PROVE  /\ \A n \in Nat : [c EXCEPT !.start_zone = n] \in ControlType
         /\ \A n \in Nat : [c EXCEPT !.end_zone = n] \in ControlType
         /\ \A n \in Nat : [c EXCEPT !.fs_info_bytes = n] \in ControlType
<1>1. \A n \in Nat : [c EXCEPT !.start_zone = n] \in ControlType
  BY DEF ControlType
<1>2. \A n \in Nat : [c EXCEPT !.end_zone = n] \in ControlType
  BY DEF ControlType
<1>3. \A n \in Nat : [c EXCEPT !.fs_info_bytes = n] \in ControlType
  BY DEF ControlType
<1>4. QED
  BY <1>1, <1>2, <1>3, Zenon

Magics == {"unknown", "F2FS", "Btrfs", "other"}

LEMMA MagicTyped ==
  ASSUME NEW c \in ControlType, NEW fs \in Magics
  PROVE  [c EXCEPT !.fs_magic = fs] \in ControlType
BY DEF ControlType, Magics

LEMMA HeadTyped ==
  ASSUME NEW S, NEW s \in Seq(S), s # <<>>
  PROVE  Head(s) \in S /\ Tail(s) \in Seq(S)
OBVIOUS

LEMMA OptionTyped ==
  ASSUME NEW c \in ControlType, NEW o \in [opt : STRING, arg : Nat], NEW p \in Programs
  PROVE  SetOption(p, c, o) \in ControlType
<1>1. o.arg \in Nat
  OBVIOUS
<1>2. SegmapOption(c, o) \in ControlType
  <2> DEFINE d == [c EXCEPT !.show_only_stats = TRUE]
             e == [c EXCEPT !.start_zone = o.arg]
  <2>1. SegmapOption(c, o) \in
          {c, [c EXCEPT !.exclude_inline = FALSE], [c EXCEPT !.json_dump = TRUE],
           [c EXCEPT !.show_flags = TRUE], e, [c EXCEPT !.start_zone = o.arg, !.end_zone = o.arg],
           [c EXCEPT !.end_zone = o.arg], [c EXCEPT !.procfs = TRUE],
           [c EXCEPT !.show_class_stats = TRUE],
           [c EXCEPT !.show_only_stats = TRUE, !.show_class_stats = TRUE],
           [c EXCEPT !.show_holes = FALSE]}
    BY Zenon DEF SegmapOption
  <2>2. [c EXCEPT !.start_zone = o.arg, !.end_zone = o.arg] = [e EXCEPT !.end_zone = o.arg]
    OBVIOUS
  <2>3. [c EXCEPT !.show_only_stats = TRUE, !.show_class_stats = TRUE]
          = [d EXCEPT !.show_class_stats = TRUE]
    OBVIOUS
  <2>4. d \in ControlType
    BY FlagTyped, Zenon
  <2>5. e \in ControlType
    BY <1>1 DEF ControlType
  <2> HIDE DEF d, e
  <2>6. [d EXCEPT !.show_class_stats = TRUE] \in ControlType
    BY <2>4, FlagTyped, Zenon
  <2>7. [e EXCEPT !.end_zone = o.arg] \in ControlType
    BY <1>1, <2>5 DEF ControlType
  <2>8. [c EXCEPT !.exclude_inline = FALSE] \in ControlType
    BY FlagTyped, Zenon
  <2>9. [c EXCEPT !.json_dump = TRUE] \in ControlType
    BY FlagTyped, Zenon
  <2>10. [c EXCEPT !.show_flags = TRUE] \in ControlType
    BY FlagTyped, Zenon
  <2>11. [c EXCEPT !.end_zone = o.arg] \in ControlType
    BY <1>1 DEF ControlType
  <2>12. [c EXCEPT !.procfs = TRUE] \in ControlType
    BY FlagTyped, Zenon
  <2>13. [c EXCEPT !.show_class_stats = TRUE] \in ControlType
    BY FlagTyped, Zenon
  <2>14. [c EXCEPT !.show_holes = FALSE] \in ControlType
    BY FlagTyped, Zenon
  <2>15. QED
    BY <2>1, <2>2, <2>3, <2>5, <2>6, <2>7, <2>8, <2>9, <2>10, <2>11, <2>12, <2>13, <2>14, Zenon
<1>3. FiemapOption(c, o) \in ControlType
  <2>1. FiemapOption(c, o) \in {c, [c EXCEPT !.show_flags = TRUE], [c EXCEPT !.show_holes = TRUE]}
    BY Zenon DEF FiemapOption
  <2>2. [c EXCEPT !.show_flags = TRUE] \in ControlType
    BY FlagTyped, Zenon
  <2>3. [c EXCEPT !.show_holes = TRUE] \in ControlType
    BY FlagTyped, Zenon
  <2>4. QED
    BY <2>1, <2>2, <2>3, Zenon
<1>4. ImapOption(c, o) \in ControlType
  <2>1. ImapOption(c, o) \in
          {c, [c EXCEPT !.show_superblock = TRUE], [c EXCEPT !.show_checkpoint = TRUE]}
    BY Zenon DEF ImapOption
  <2>2. [c EXCEPT !.show_superblock = TRUE] \in ControlType
    BY FlagTyped, Zenon
  <2>3. [c EXCEPT !.show_checkpoint = TRUE] \in ControlType
    BY FlagTyped, Zenon
  <2>4. QED
    BY <2>1, <2>2, <2>3, Zenon
<1>5. SetOption(p, c, o) \in {SegmapOption(c, o), FiemapOption(c, o), ImapOption(c, o)}
  BY Zenon DEF SetOption, Programs
<1>6. QED
  BY <1>2, <1>3, <1>4, <1>5, Zenon

LEMMA MaskTyped ==
  ASSUME NEW size \in Nat, NEW word \in Nat \ {0}
  PROVE  MaskOf(size, word) \in 0 .. word - 1
BY DEF MaskOf

LEMMA SegmentSectors ==
  /\ F2FS_SEGMENT_BYTES \div 512 = 4096
  /\ F2FS_SEGMENT_BYTES \div 4096 = 512
BY SMT DEF F2FS_SEGMENT_BYTES

LEMMA SectorSizeTyped ==
  ASSUME NEW c \in ControlType, NEW sector \in {512, 4096}
  PROVE  WithSectorSize(c, sector) \in ControlType
<1> DEFINE zns_shift == IF sector = 4096 THEN 3 ELSE c.zns_sector_shift
           shift == IF sector = 512 THEN 12 ELSE 9
           c1 == [c EXCEPT !.sector_size = sector]
           c2 == [c1 EXCEPT !.zns_sector_shift = zns_shift]
           c3 == [c2 EXCEPT !.segment_shift = shift]
<1>1. c.zns_sector_shift \in {0, 3}
  BY DEF ControlType
<1>2. zns_shift \in {0, 3} /\ shift \in {9, 12}
  BY <1>1
<1>3. WithSectorSize(c, sector) = c3
  BY DEF WithSectorSize
<1>4. c1 \in ControlType
  BY DEF ControlType
<1> HIDE DEF c1, zns_shift, shift
<1>5. c2 \in ControlType
  BY <1>2, <1>4 DEF ControlType
<1> HIDE DEF c2
<1>6. c3 \in ControlType
  BY <1>2, <1>5 DEF ControlType
<1>7. QED
  BY <1>3, <1>6

LEMMA SegmentsTyped ==
  ASSUME ControlAssumption, NEW c \in ControlType, NEW nr_zones \in Nat
  PROVE  WithSegments(c, nr_zones) \in ControlType
<1> DEFINE sectors == IF c.sector_size = 512 THEN 4096 ELSE 512
           mask == MaskOf(sectors, Word64)
           shift == IF c.sector_size = 512 THEN 9 ELSE 12
           dev == [c.znsdev EXCEPT !.nr_zones = nr_zones]
           c1 == [c EXCEPT !.znsdev = dev]
           c2 == [c1 EXCEPT !.sector_shift = shift]
           c3 == [c2 EXCEPT !.f2fs_segment_sectors = sectors]
           c4 == [c3 EXCEPT !.f2fs_segment_mask = mask]
<1>1. WithSegments(c, nr_zones) =
        [c EXCEPT !.znsdev.nr_zones = nr_zones, !.sector_shift = shift,
                  !.f2fs_segment_sectors = sectors, !.f2fs_segment_mask = mask]
  <2> DEFINE found == F2FS_SEGMENT_BYTES \div (IF c.sector_size = 512 THEN 512 ELSE 4096)
  <2>1. found = sectors
    BY SegmentSectors
  <2>2. WithSegments(c, nr_zones) =
          [c EXCEPT !.znsdev.nr_zones = nr_zones, !.sector_shift = shift,
                    !.f2fs_segment_sectors = found,
                    !.f2fs_segment_mask = MaskOf(found, Word64)]
    BY Zenon DEF WithSegments
  <2> HIDE DEF found, sectors, shift
  <2>3. QED
    BY <2>1, <2>2, Zenon
<1>2. sectors \in {512, 4096} /\ sectors \in Nat /\ shift \in {9, 12}
  OBVIOUS
<1> HIDE DEF sectors, shift
<1>3. mask \in 0 .. Word64 - 1
  BY <1>2, MaskTyped DEF ControlAssumption
<1> HIDE DEF mask
<1>4. [c EXCEPT !.znsdev.nr_zones = nr_zones, !.sector_shift = shift,
                !.f2fs_segment_sectors = sectors, !.f2fs_segment_mask = mask] = c4
  OBVIOUS
<1>5. c.znsdev \in BdevType
  BY DEF ControlType
<1>6. dev \in BdevType
  BY <1>5 DEF BdevType
<1> HIDE DEF dev
<1>7. c1 \in ControlType
  BY <1>6 DEF ControlType
<1> HIDE DEF c1
<1>8. c2 \in ControlType
  BY <1>2, <1>7 DEF ControlType
<1> HIDE DEF c2
<1>9. c3 \in ControlType
  BY <1>2, <1>8 DEF ControlType
<1> HIDE DEF c3
<1>10. c4 \in ControlType
  BY <1>3, <1>9 DEF ControlType
<1>11. QED
  BY <1>1, <1>4, <1>10, Zenon

LEMMA ZonesTyped ==
  ASSUME ControlAssumption, NEW c \in ControlType, NEW multi_dev \in BOOLEAN,
         NEW offset \in Nat, NEW zone_size \in Nat, NEW nr_zones \in Nat
  PROVE  WithZones(c, multi_dev, offset, zone_size, nr_zones) \in ControlType
<1> DEFINE mask == MaskOf(zone_size, Word)
           dev == [c.znsdev EXCEPT !.zone_size = zone_size, !.zone_mask = mask,
                                   !.nr_zones = nr_zones]
           c1 == [c EXCEPT !.multi_dev = multi_dev]
           c2 == [c1 EXCEPT !.offset = offset]
           c3 == [c2 EXCEPT !.znsdev = dev]
<1>1. mask \in 0 .. Word - 1
  BY MaskTyped DEF ControlAssumption
<1>2. WithZones(c, multi_dev, offset, zone_size, nr_zones) =
        [c EXCEPT !.multi_dev = multi_dev, !.offset = offset, !.znsdev.zone_size = zone_size,
                  !.znsdev.zone_mask = mask, !.znsdev.nr_zones = nr_zones]
  BY Zenon DEF WithZones
<1> HIDE DEF mask
<1>3. [c EXCEPT !.multi_dev = multi_dev, !.offset = offset, !.znsdev.zone_size = zone_size,
                !.znsdev.zone_mask = mask, !.znsdev.nr_zones = nr_zones] = c3
  OBVIOUS
<1>4. c.znsdev \in BdevType
  BY DEF ControlType
<1>5. dev \in BdevType
  BY <1>1, <1>4 DEF BdevType
<1> HIDE DEF dev
<1>6. c1 \in ControlType
  BY DEF ControlType
<1> HIDE DEF c1
<1>7. c2 \in ControlType
  BY <1>6 DEF ControlType
<1> HIDE DEF c2
<1>8. c3 \in ControlType
  BY <1>5, <1>7 DEF ControlType
<1>9. QED
  BY <1>2, <1>3, <1>8, Zenon

-----------------------------------------------------------------------------
(* What the control structure and the zone map tell of the devices.        *)

(* Sectors of the kernel in those of the device.                           *)
OnDevice(sectors) == sectors \div (IF system.sector = 4096 THEN 8 ELSE 1)

SectorsOK ==
  /\ ctrl.sector_size = system.sector
  /\ ctrl.sector_shift = IF system.sector = 512 THEN 9 ELSE 12
  /\ ctrl.zns_sector_shift = IF system.sector = 4096 THEN 3 ELSE 0
  /\ ctrl.f2fs_segment_sectors = IF system.sector = 512 THEN 4096 ELSE 512
  /\ ctrl.f2fs_segment_mask = MaskOf(ctrl.f2fs_segment_sectors, Word64)
  /\ ctrl.segment_shift = IF system.sector = 512 THEN 12 ELSE 9

SizesOK ==
  /\ \/ ctrl.offset = system.conv_bytes
     \/ ctrl.offset = Word64 - 1 /\ "device_size" \in unread
  /\ ctrl.znsdev.nr_zones = system.nr_zones \/ "number_of_zones" \in unread
  /\ \/ ctrl.znsdev.zone_size = OnDevice(system.zone_sectors)
     \/ ctrl.znsdev.zone_size = 0 /\ "zone_size" \in unread
  /\ ctrl.znsdev.zone_mask = MaskOf(ctrl.znsdev.zone_size, Word)

DeviceZone(z) ==
  [zone_number |-> z,
   start       |-> OnDevice(z * system.zone_sectors),
   end         |-> OnDevice(z * system.zone_sectors) + OnDevice(system.zone_cap),
   capacity    |-> OnDevice(system.zone_cap),
   mask        |-> 0]

DeviceMap ==
  [nr_zones |-> system.nr_zones,
   zones |-> [z \in 0 .. system.nr_zones - 1 |-> DeviceZone(z)]]

(* The mask is not looked up before the zone map is filled, and no place   *)
(* before the sizes is reached on a file system the tools do not know.     *)
BeforeSizes ==
  /\ pc \in {"device", "super", "bdev", "zns", "zonemap", "zoned", "sizes", "procfs"}
       => system.fs # "other"
  /\ pc \in Early => ctrl.znsdev.zone_mask = 0
  /\ pc = "zonemap" => ctrl.znsdev.nr_zones \in {0, system.nr_zones}

GeometryInv ==
  /\ ctrl \in ControlType
  /\ BeforeSizes
  /\ pc \in AfterZns /\ system.fs # "other" => SectorsOK
  /\ zonemap = NULL \/ zonemap = DeviceMap
  /\ pc \in AfterMap /\ system.fs # "other" /\ zonemap = NULL => "zone_map" \in unread
  /\ pc \in AfterSizes /\ system.fs # "other" => SizesOK

LEMMA SystemInteger ==
  ASSUME ToolsAssumption, Typed
  PROVE  /\ system.fs \in {"F2FS", "Btrfs", "other"}
         /\ system.sector \in {512, 4096}
         /\ system.zone_sectors \in Nat \ {0}
         /\ system.zone_cap \in Nat \ {0}
         /\ system.nr_zones \in Nat \ {0}
         /\ system.conv_bytes \in Nat
         /\ OnDevice(system.zone_sectors) \in Nat
         /\ system.fs # "F2FS" => system.conv_bytes = 0
<1>1. /\ system.fs \in {"F2FS", "Btrfs", "other"}
      /\ system.sector \in {512, 4096}
      /\ system.zone_sectors \in Nat \ {0}
      /\ system.zone_cap \in Nat \ {0}
      /\ system.nr_zones \in Nat \ {0}
      /\ system.conv_bytes \in Nat
      /\ system.fs # "F2FS" => system.conv_bytes = 0
  BY SystemTyped DEF Typed
<1>2. QED
  BY <1>1 DEF OnDevice

LEMMA TakesSectors ==
  ASSUME ToolsAssumption, Typed, NEW sectors \in Nat,
         ctrl.zns_sector_shift = IF system.sector = 4096 THEN 3 ELSE 0
  PROVE  ToDevice(ctrl, sectors) = OnDevice(sectors) /\ OnDevice(sectors) \in Nat
<1>1. CASE system.sector = 4096
  BY <1>1 DEF ToDevice, OnDevice
<1>2. CASE system.sector # 4096
  BY <1>2 DEF ToDevice, OnDevice
<1>3. QED
  BY <1>1, <1>2

(* The steps that set up the control structure.                            *)
LEMMA BdevTyped ==
  ASSUME NEW c \in ControlType, NEW flag \in BOOLEAN
  PROVE  /\ [c EXCEPT !.bdev.is_zoned = flag] \in ControlType
         /\ [c EXCEPT !.znsdev.is_zoned = flag] \in ControlType
<1> DEFINE bdev == [c.bdev EXCEPT !.is_zoned = flag]
           znsdev == [c.znsdev EXCEPT !.is_zoned = flag]
<1>1. c.bdev \in BdevType /\ c.znsdev \in BdevType
  BY DEF ControlType
<1>2. bdev \in BdevType /\ znsdev \in BdevType
  BY <1>1 DEF BdevType
<1>3. /\ [c EXCEPT !.bdev.is_zoned = flag] = [c EXCEPT !.bdev = bdev]
      /\ [c EXCEPT !.znsdev.is_zoned = flag] = [c EXCEPT !.znsdev = znsdev]
  OBVIOUS
<1> HIDE DEF bdev, znsdev
<1>4. [c EXCEPT !.bdev = bdev] \in ControlType
  BY <1>2 DEF ControlType
<1>5. [c EXCEPT !.znsdev = znsdev] \in ControlType
  BY <1>2 DEF ControlType
<1>6. QED
  BY <1>3, <1>4, <1>5, Zenon

(* What InitZnsDev and ReadSizes are told.                                 *)
LEMMA ZnsDevTold ==
  ASSUME ToolsAssumption, Typed, InitZnsDev
  PROVE  \E is_zoned \in BOOLEAN, nr_zones \in {0, system.nr_zones} :
           ctrl' = WithSegments(WithSectorSize([ctrl EXCEPT !.znsdev.is_zoned = is_zoned],
                                               system.sector), nr_zones)
<1>1. system.zoned \in BOOLEAN
  BY SystemTyped DEF Typed
<1>2. IsZonedTold \subseteq BOOLEAN
  BY <1>1, ZenonT(30) DEF IsZonedTold
<1>3. NrZonesTold \subseteq {0, system.nr_zones}
  BY DEF NrZonesTold
<1> DEFINE told(is_zoned, nr_zones) ==
             WithSegments(WithSectorSize([ctrl EXCEPT !.znsdev.is_zoned = is_zoned],
                                         system.sector), nr_zones)
<1>4. \E is_zoned \in IsZonedTold, nr_zones \in NrZonesTold : ctrl' = told(is_zoned, nr_zones)
  BY DEF InitZnsDev, Set
<1> HIDE DEF told
<1>5. \E is_zoned \in BOOLEAN, nr_zones \in {0, system.nr_zones} :
        ctrl' = told(is_zoned, nr_zones)
  BY <1>2, <1>3, <1>4, Zenon
<1>6. QED
  BY <1>5 DEF told

LEMMA SizesTold ==
  ASSUME Typed, ReadSizes
  PROVE  \E offset, zone_size, nr_zones :
           /\ ctrl' = WithZones(ctrl, system.fs = "F2FS", offset, zone_size, nr_zones)
           /\ \/ offset = IF system.fs = "F2FS" THEN system.conv_bytes ELSE 0
              \/ system.fs = "F2FS" /\ offset = Word64 - 1 /\ "device_size" \in unread'
           /\ \/ zone_size = ToDevice(ctrl, system.zone_sectors)
              \/ zone_size = 0 /\ "zone_size" \in unread'
           /\ \/ nr_zones = system.nr_zones
              \/ nr_zones = 0 /\ "number_of_zones" \in unread'
<1>1. PICK dev_read \in BOOLEAN, zone_read \in BOOLEAN, nr_read \in BOOLEAN :
        /\ ctrl' = WithZones(ctrl, system.fs = "F2FS",
                     IF system.fs # "F2FS" THEN 0
                     ELSE IF dev_read THEN system.conv_bytes ELSE Word64 - 1,
                     IF zone_read THEN ToDevice(ctrl, system.zone_sectors) ELSE 0,
                     IF nr_read THEN system.nr_zones ELSE 0)
        /\ unread' = unread \cup FailedReads(dev_read, "device_size")
                       \cup FailedReads(zone_read, "zone_size")
                       \cup FailedReads(nr_read, "number_of_zones")
  BY Zenon DEF ReadSizes
<1>2. /\ ~dev_read => "device_size" \in unread'
      /\ ~zone_read => "zone_size" \in unread'
      /\ ~nr_read => "number_of_zones" \in unread'
  BY <1>1 DEF FailedReads
<1>3. PICK offset : offset = IF system.fs # "F2FS" THEN 0
                             ELSE IF dev_read THEN system.conv_bytes ELSE Word64 - 1
  OBVIOUS
<1>4. PICK zone_size : zone_size = IF zone_read THEN ToDevice(ctrl, system.zone_sectors) ELSE 0
  OBVIOUS
<1>5. PICK nr_zones : nr_zones = IF nr_read THEN system.nr_zones ELSE 0
  OBVIOUS
<1>6. ctrl' = WithZones(ctrl, system.fs = "F2FS", offset, zone_size, nr_zones)
  BY <1>1, <1>3, <1>4, <1>5, Zenon
<1>7. \/ offset = IF system.fs = "F2FS" THEN system.conv_bytes ELSE 0
      \/ system.fs = "F2FS" /\ offset = Word64 - 1 /\ "device_size" \in unread'
  BY <1>2, <1>3
<1>8. /\ \/ zone_size = ToDevice(ctrl, system.zone_sectors)
         \/ zone_size = 0 /\ "zone_size" \in unread'
      /\ \/ nr_zones = system.nr_zones
         \/ nr_zones = 0 /\ "number_of_zones" \in unread'
  BY <1>2, <1>4, <1>5
<1>9. QED
  BY <1>6, <1>7, <1>8, Zenon

LEMMA StepControl ==
  ASSUME ControlAssumption, ToolsAssumption, Typed, ctrl \in ControlType, [Next]_vars
  PROVE  ctrl' \in ControlType
<1>1. CASE UNCHANGED ctrl
  BY <1>1
<1>2. CASE ParseOption
  <2>1. args \in Seq([opt : STRING, arg : Nat]) /\ args # <<>> /\ program \in Programs
    BY <1>2 DEF ParseOption, Typed
  <2>2. Head(args) \in [opt : STRING, arg : Nat]
    BY <2>1, HeadTyped, ZenonT(30)
  <2>3. QED
    <3>1. ctrl' = SetOption(program, ctrl, Head(args))
      BY <1>2, Zenon DEF ParseOption
    <3>2. PICK o \in [opt : STRING, arg : Nat] : o = Head(args)
      BY <2>2
    <3>3. PICK p \in Programs : p = program
      BY <2>1
    <3>4. SetOption(p, ctrl, o) \in ControlType
      BY OptionTyped
    <3>5. QED
      BY <3>1, <3>2, <3>3, <3>4, Zenon
<1>3. CASE AcceptOptions
  <2> DEFINE flag == ctrl.show_class_stats /\ ctrl.procfs
  <2>1. flag \in BOOLEAN
    BY DEF ControlType
  <2>2. ctrl' = [ctrl EXCEPT !.show_class_stats = flag]
    BY <1>3, Zenon DEF AcceptOptions, Set
  <2> HIDE DEF flag
  <2>3. QED
    BY <2>1, <2>2, FlagTyped, ZenonT(30)
<1>4. CASE SetFsMagic
  <2>1. system.fs \in Magics
    BY SystemInteger DEF Magics
  <2>2. [ctrl EXCEPT !.fs_magic = system.fs] \in ControlType
    BY <2>1, MagicTyped, ZenonT(30)
  <2>3. ctrl' = [ctrl EXCEPT !.fs_magic = system.fs]
    BY <1>4 DEF SetFsMagic, Set
  <2>4. QED
    BY <2>2, <2>3, Zenon
<1>5. CASE InitBdev
  <2> DEFINE c == [ctrl EXCEPT !.bdev.is_zoned = FALSE]
  <2>1. c \in ControlType
    BY BdevTyped, ZenonT(30)
  <2>2. ctrl' = WithSectorSize(c, system.sector)
    BY <1>5 DEF InitBdev, Set
  <2> HIDE DEF c
  <2>3. system.sector \in {512, 4096}
    BY SystemInteger
  <2>4. QED
    BY <2>1, <2>2, <2>3, SectorSizeTyped
<1>6. CASE InitZnsDev
  <2>1. PICK is_zoned \in BOOLEAN, nr_zones \in {0, system.nr_zones} :
          ctrl' = WithSegments(WithSectorSize([ctrl EXCEPT !.znsdev.is_zoned = is_zoned],
                                              system.sector), nr_zones)
    BY <1>6, ZnsDevTold
  <2>2. nr_zones \in Nat /\ system.sector \in {512, 4096}
    BY SystemInteger
  <2> DEFINE c == [ctrl EXCEPT !.znsdev.is_zoned = is_zoned]
             d == WithSectorSize(c, system.sector)
  <2>3. c \in ControlType
    BY BdevTyped, ZenonT(30)
  <2> HIDE DEF c
  <2>4. d \in ControlType
    BY <2>2, <2>3, SectorSizeTyped
  <2>5. ctrl' = WithSegments(d, nr_zones)
    BY <2>1 DEF c
  <2> HIDE DEF d
  <2>6. QED
    BY <2>2, <2>4, <2>5, SegmentsTyped
<1>7. CASE ReadSizes
  <2>1. PICK offset, zone_size, nr_zones :
          /\ ctrl' = WithZones(ctrl, system.fs = "F2FS", offset, zone_size, nr_zones)
          /\ \/ offset = IF system.fs = "F2FS" THEN system.conv_bytes ELSE 0
             \/ system.fs = "F2FS" /\ offset = Word64 - 1 /\ "device_size" \in unread'
          /\ \/ zone_size = ToDevice(ctrl, system.zone_sectors)
             \/ zone_size = 0 /\ "zone_size" \in unread'
          /\ \/ nr_zones = system.nr_zones
             \/ nr_zones = 0 /\ "number_of_zones" \in unread'
    BY <1>7, SizesTold, Zenon
  <2>2. system.conv_bytes \in Nat /\ system.zone_sectors \in Nat /\ system.nr_zones \in Nat
    BY SystemInteger
  <2>3. ToDevice(ctrl, system.zone_sectors) \in Nat
    <3>1. CASE ctrl.zns_sector_shift = 0
      BY <2>2, <3>1 DEF ToDevice
    <3>2. CASE ctrl.zns_sector_shift = 3
      BY <2>2, <3>2 DEF ToDevice
    <3>3. QED
      BY <3>1, <3>2 DEF ControlType
  <2>4. offset \in Nat /\ zone_size \in Nat /\ nr_zones \in Nat
    <3>1. offset \in {system.conv_bytes, 0, Word64 - 1}
      BY <2>1, Zenon
    <3>2. zone_size \in {ToDevice(ctrl, system.zone_sectors), 0}
      BY <2>1, Zenon
    <3>3. nr_zones \in {system.nr_zones, 0}
      BY <2>1, Zenon
    <3>4. Word64 - 1 \in Nat
      BY DEF ControlAssumption
    <3>5. QED
      BY <2>2, <2>3, <3>1, <3>2, <3>3, <3>4
  <2>5. PICK multi_dev \in BOOLEAN : multi_dev = (system.fs = "F2FS")
    OBVIOUS
  <2>6. ctrl' = WithZones(ctrl, multi_dev, offset, zone_size, nr_zones)
    BY <2>1, <2>5, Zenon
  <2>7. QED
    BY <2>4, <2>6, ZonesTyped
<1>8. CASE InitFsManager \/ ProcfsMissing
  <2>1. ctrl' = [ctrl EXCEPT !.fs_info_bytes = FsInfoBytes]
    BY <1>8 DEF InitFsManager, ProcfsMissing
  <2>2. FsInfoBytes \in Nat
    BY DEF FsInfoBytes
  <2>3. QED
    BY <2>1, <2>2, FieldTyped, ZenonT(30)
<1>9. CASE Defaults
  <2> DEFINE first == IF ctrl.start_zone = 0 /\ ~Given("z") THEN 1 ELSE ctrl.start_zone
             last == IF ctrl.end_zone = 0 /\ ~Given("z") THEN ctrl.znsdev.nr_zones
                     ELSE ctrl.end_zone
             c1 == [ctrl EXCEPT !.start_zone = first]
  <2>1. ctrl.start_zone \in Nat /\ ctrl.end_zone \in Nat /\ ctrl.znsdev \in BdevType
    BY DEF ControlType
  <2>2. first \in Nat /\ last \in Nat
    BY <2>1 DEF BdevType
  <2>3. WithDefaults(ctrl) = [ctrl EXCEPT !.start_zone = first, !.end_zone = last]
    BY Zenon DEF WithDefaults
  <2> HIDE DEF first, last
  <2>4. WithDefaults(ctrl) = [c1 EXCEPT !.end_zone = last]
    BY <2>3
  <2>5. c1 \in ControlType
    BY <2>2, FieldTyped, ZenonT(30)
  <2> HIDE DEF c1
  <2>6. [c1 EXCEPT !.end_zone = last] \in ControlType
    BY <2>2, <2>5, FieldTyped, ZenonT(30)
  <2>7. ctrl' \in {ctrl, WithDefaults(ctrl)}
    BY <1>9 DEF Defaults, Set
  <2>8. QED
    BY <2>4, <2>6, <2>7, ZenonT(30)
<1>10. QED
  BY <1>1, <1>2, <1>3, <1>4, <1>5, <1>6, <1>7, <1>8, <1>9, Frames DEF Frame

LEMMA OptionLeavesDevices ==
  ASSUME NEW c \in ControlType, NEW o, NEW p \in Programs
  PROVE  SetOption(p, c, o).znsdev = c.znsdev
<1>1. {"znsdev", "show_flags"} \subseteq DOMAIN c
  BY DEF ControlType
<1>2. SegmapOption(c, o).znsdev = c.znsdev
  BY <1>1 DEF SegmapOption
<1>3. FiemapOption(c, o).znsdev = c.znsdev
  BY <1>1 DEF FiemapOption
<1>4. ImapOption(c, o).znsdev = c.znsdev
  BY <1>1 DEF ImapOption
<1>5. QED
  BY <1>2, <1>3, <1>4 DEF SetOption, Programs

(* What WithSectorSize and WithSegments leave, field by field.             *)
LEMMA SectorSizeFields ==
  ASSUME NEW c \in ControlType, NEW sector \in {512, 4096}
  PROVE  LET d == WithSectorSize(c, sector)
         IN  /\ d.sector_size = sector
             /\ d.zns_sector_shift = IF sector = 4096 THEN 3 ELSE c.zns_sector_shift
             /\ d.segment_shift = IF sector = 512 THEN 12 ELSE 9
             /\ d.znsdev = c.znsdev
<1>1. {"sector_size", "zns_sector_shift", "segment_shift", "znsdev"} \subseteq DOMAIN c
  BY DEF ControlType
<1>2. QED
  BY <1>1 DEF WithSectorSize

LEMMA SegmentsFields ==
  ASSUME NEW c \in ControlType, NEW nr_zones \in Nat
  PROVE  LET d == WithSegments(c, nr_zones)
         IN  /\ d.sector_size = c.sector_size
             /\ d.sector_shift = IF c.sector_size = 512 THEN 9 ELSE 12
             /\ d.zns_sector_shift = c.zns_sector_shift
             /\ d.f2fs_segment_sectors = IF c.sector_size = 512 THEN 4096 ELSE 512
             /\ d.f2fs_segment_mask = MaskOf(d.f2fs_segment_sectors, Word64)
             /\ d.segment_shift = c.segment_shift
             /\ d.znsdev.nr_zones = nr_zones
             /\ d.znsdev.zone_mask = c.znsdev.zone_mask
<1> DEFINE found == F2FS_SEGMENT_BYTES \div (IF c.sector_size = 512 THEN 512 ELSE 4096)
           mask == MaskOf(found, Word64)
<1>1. /\ {"sector_size", "sector_shift", "zns_sector_shift", "f2fs_segment_sectors",
          "f2fs_segment_mask", "segment_shift", "znsdev"} \subseteq DOMAIN c
      /\ {"nr_zones", "zone_mask"} \subseteq DOMAIN c.znsdev
  BY DEF ControlType, BdevType
<1>2. found = IF c.sector_size = 512 THEN 4096 ELSE 512
  BY SegmentSectors
<1>3. WithSegments(c, nr_zones) =
        [c EXCEPT !.znsdev.nr_zones = nr_zones,
                  !.sector_shift = IF c.sector_size = 512 THEN 9 ELSE 12,
                  !.f2fs_segment_sectors = found, !.f2fs_segment_mask = mask]
  BY Zenon DEF WithSegments
<1> HIDE DEF found, mask
<1>4. LET d == WithSegments(c, nr_zones)
      IN  /\ d.sector_size = c.sector_size
          /\ d.sector_shift = IF c.sector_size = 512 THEN 9 ELSE 12
          /\ d.zns_sector_shift = c.zns_sector_shift
          /\ d.f2fs_segment_sectors = found
          /\ d.f2fs_segment_mask = mask
          /\ d.segment_shift = c.segment_shift
          /\ d.znsdev.nr_zones = nr_zones
          /\ d.znsdev.zone_mask = c.znsdev.zone_mask
  BY <1>1, <1>3
<1>5. LET d == WithSegments(c, nr_zones)
      IN  d.f2fs_segment_mask = MaskOf(d.f2fs_segment_sectors, Word64)
  BY <1>4, Zenon DEF mask
<1>6. QED
  BY <1>2, <1>4, <1>5

LEMMA ZonesFields ==
  ASSUME NEW c \in ControlType, NEW multi_dev, NEW offset, NEW zone_size, NEW nr_zones
  PROVE  LET d == WithZones(c, multi_dev, offset, zone_size, nr_zones)
         IN  /\ d.sector_size = c.sector_size
             /\ d.sector_shift = c.sector_shift
             /\ d.zns_sector_shift = c.zns_sector_shift
             /\ d.f2fs_segment_sectors = c.f2fs_segment_sectors
             /\ d.f2fs_segment_mask = c.f2fs_segment_mask
             /\ d.segment_shift = c.segment_shift
             /\ d.offset = offset
             /\ d.znsdev.zone_size = zone_size
             /\ d.znsdev.zone_mask = MaskOf(zone_size, Word)
             /\ d.znsdev.nr_zones = nr_zones
<1> DEFINE mask == MaskOf(zone_size, Word)
<1>1. /\ {"sector_size", "sector_shift", "zns_sector_shift", "f2fs_segment_sectors",
          "f2fs_segment_mask", "segment_shift", "znsdev", "offset", "multi_dev"} \subseteq DOMAIN c
      /\ {"nr_zones", "zone_mask", "zone_size"} \subseteq DOMAIN c.znsdev
  BY DEF ControlType, BdevType
<1>2. WithZones(c, multi_dev, offset, zone_size, nr_zones) =
        [c EXCEPT !.multi_dev = multi_dev, !.offset = offset, !.znsdev.zone_size = zone_size,
                  !.znsdev.zone_mask = mask, !.znsdev.nr_zones = nr_zones]
  BY Zenon DEF WithZones
<1> HIDE DEF mask
<1> DEFINE dev == [c.znsdev EXCEPT !.zone_size = zone_size, !.zone_mask = mask,
                                   !.nr_zones = nr_zones]
<1>3. WithZones(c, multi_dev, offset, zone_size, nr_zones) =
        [c EXCEPT !.multi_dev = multi_dev, !.offset = offset, !.znsdev = dev]
  BY <1>2
<1>4. dev.zone_size = zone_size /\ dev.zone_mask = mask /\ dev.nr_zones = nr_zones
  BY <1>1
<1> HIDE DEF dev
<1>5. LET d == WithZones(c, multi_dev, offset, zone_size, nr_zones)
      IN  /\ d.sector_size = c.sector_size
          /\ d.sector_shift = c.sector_shift
          /\ d.zns_sector_shift = c.zns_sector_shift
          /\ d.f2fs_segment_sectors = c.f2fs_segment_sectors
          /\ d.f2fs_segment_mask = c.f2fs_segment_mask
          /\ d.segment_shift = c.segment_shift
          /\ d.offset = offset
          /\ d.znsdev = dev
  BY <1>1, <1>3
<1>6. QED
  BY <1>4, <1>5 DEF mask

LEMMA StepBeforeSizes ==
  ASSUME ControlAssumption, ToolsAssumption, Typed, GeometryInv, [Next]_vars
  PROVE  BeforeSizes'
<1>1. ctrl \in ControlType /\ BeforeSizes /\ program \in Programs /\ UNCHANGED system
  BY Frames DEF GeometryInv, Typed, Frame
<1>2. ASSUME pc' \in {"device", "super", "bdev", "zns", "zonemap", "zoned", "sizes", "procfs"}
      PROVE  system.fs # "other"
  <2>1. CASE SetFsMagic
    BY <1>2, <2>1 DEF SetFsMagic, Go, AfterMagic
  <2>2. CASE ~SetFsMagic
    <3>1. \/ pc \in {"device", "super", "bdev", "zns", "zonemap", "zoned", "sizes", "procfs"}
          \/ UNCHANGED pc
      <4>1. CASE Preparing
        <5>1. CASE ReadSizes \/ CheckZoned \/ Defaults
          <6>1. ~Defaults
            <7>1. Defaults => pc' \in {"superblock", "collect"}
              BY DEF Defaults, Go
            <7>2. QED
              BY <1>2, <7>1
          <6>2. pc = "sizes" \/ pc = "zoned"
            BY <5>1, <6>1 DEF ReadSizes, CheckZoned, Go
          <6>3. QED
            BY <6>2
        <5>2. CASE ~ReadSizes /\ ~CheckZoned /\ ~Defaults
          BY <1>2, <2>2, <4>1, <5>2 DEF Preparing, ParseOption, ShowHelp, RejectOptions,
             AcceptOptions, CallFails, OpenFile, InitDev, ReadSuperBlock, InitBdev, InitZnsDev,
             InitZoneMap, ZoneMapNotOpened, InitFsManager, ProcfsMissing, Go
        <5>3. QED
          BY <5>1, <5>2
      <4>2. CASE Collecting
        BY <1>2, <4>2 DEF Collecting, SkipExtent, CrashOnExtent, RecordExtent, EndOfFile,
           CrashOnNull, Collected, Go
      <4>3. CASE Reporting
        BY <1>2, <4>3 DEF Reporting, ReportHangs, ReportJson, ReportSegments, CrashOnCapacity,
           ReportFiemap, Cleanup, ShowSuperBlock, NoSuperBlock, ShowCheckpoint, NoCheckpoint,
           FindInode, CrashOnInode, ShowInode, Go
      <4>4. CASE Elsewhere
        BY <4>4 DEF Elsewhere, WriteCheckpoint, vars
      <4>5. QED
        BY <4>1, <4>2, <4>3, <4>4, Phases
    <3>2. QED
      BY <1>1, <1>2, <3>1 DEF BeforeSizes
  <2>3. QED
    BY <2>1, <2>2
<1>3. ASSUME pc' \in Early
      PROVE  ctrl'.znsdev.zone_mask = 0
  <2>1. pc \in Early
    BY <1>3, StepPaths DEF Paths
  <2>2. ctrl.znsdev.zone_mask = 0
    BY <1>1, <2>1 DEF BeforeSizes
  <2>3. \/ UNCHANGED ctrl \/ ParseOption \/ AcceptOptions \/ SetFsMagic \/ InitBdev \/ InitZnsDev
    <3>1. ~ReadSizes /\ ~InitFsManager /\ ~ProcfsMissing /\ ~Defaults
      BY <2>1 DEF ReadSizes, InitFsManager, ProcfsMissing, Defaults, Go, Early
    <3>2. QED
      BY <3>1, Frames DEF Frame
  <2>4. CASE ParseOption
    BY <1>1, <2>2, <2>4, OptionLeavesDevices DEF ParseOption
  <2>5. CASE AcceptOptions \/ SetFsMagic
    <3>1. ctrl'.znsdev = ctrl.znsdev
      <4>1. "znsdev" \in DOMAIN ctrl
        BY <1>1 DEF ControlType
      <4>2. QED
        BY <2>5, <4>1 DEF AcceptOptions, SetFsMagic, Set
    <3>2. QED
      BY <2>2, <3>1
  <2>6. CASE InitBdev
    <3> DEFINE c == [ctrl EXCEPT !.bdev.is_zoned = FALSE]
    <3>1. c \in ControlType
      BY <1>1, BdevTyped, ZenonT(30)
    <3>2. c.znsdev = ctrl.znsdev
      BY <1>1 DEF ControlType
    <3>3. ctrl' = WithSectorSize(c, system.sector) /\ system.sector \in {512, 4096}
      BY <2>6, SystemInteger DEF InitBdev, Set
    <3> HIDE DEF c
    <3>4. QED
      BY <2>2, <3>1, <3>2, <3>3, SectorSizeFields
  <2>7. CASE InitZnsDev
    <3>1. PICK is_zoned \in BOOLEAN, nr_zones \in {0, system.nr_zones} :
            ctrl' = WithSegments(WithSectorSize([ctrl EXCEPT !.znsdev.is_zoned = is_zoned],
                                                system.sector), nr_zones)
      BY <2>7, ZnsDevTold
    <3> DEFINE c == [ctrl EXCEPT !.znsdev.is_zoned = is_zoned]
               d == WithSectorSize(c, system.sector)
    <3>2. c \in ControlType
      BY <1>1, BdevTyped, ZenonT(30)
    <3>3. c.znsdev.zone_mask = ctrl.znsdev.zone_mask
      BY <1>1 DEF ControlType, BdevType
    <3> HIDE DEF c
    <3>4. system.sector \in {512, 4096} /\ nr_zones \in Nat
      BY SystemInteger
    <3>5. d \in ControlType /\ d.znsdev = c.znsdev
      BY <3>2, <3>4, SectorSizeTyped, SectorSizeFields
    <3>6. ctrl' = WithSegments(d, nr_zones)
      BY <3>1 DEF c
    <3> HIDE DEF d
    <3>7. QED
      BY <2>2, <3>3, <3>4, <3>5, <3>6, SegmentsFields
  <2>8. QED
    BY <2>2, <2>3, <2>4, <2>5, <2>6, <2>7
<1>4. ASSUME pc' = "zonemap"
      PROVE  ctrl'.znsdev.nr_zones \in {0, system.nr_zones}
  <2>1. CASE pc = "zonemap"
    <3>1. UNCHANGED ctrl
      BY <2>1, Frames DEF Frame, ParseOption, AcceptOptions, SetFsMagic, InitBdev, InitZnsDev,
         ReadSizes, InitFsManager, ProcfsMissing, Defaults, Go
    <3>2. QED
      BY <1>1, <2>1, <3>1 DEF BeforeSizes
  <2>2. CASE InitZnsDev
    <3>1. PICK is_zoned \in BOOLEAN, nr_zones \in {0, system.nr_zones} :
            ctrl' = WithSegments(WithSectorSize([ctrl EXCEPT !.znsdev.is_zoned = is_zoned],
                                                system.sector), nr_zones)
      BY <2>2, ZnsDevTold
    <3> DEFINE c == [ctrl EXCEPT !.znsdev.is_zoned = is_zoned]
               d == WithSectorSize(c, system.sector)
    <3>2. c \in ControlType
      BY <1>1, BdevTyped, ZenonT(30)
    <3> HIDE DEF c
    <3>3. system.sector \in {512, 4096} /\ nr_zones \in Nat
      BY SystemInteger
    <3>4. d \in ControlType
      BY <3>2, <3>3, SectorSizeTyped
    <3>5. ctrl' = WithSegments(d, nr_zones)
      BY <3>1 DEF c
    <3> HIDE DEF d
    <3>6. QED
      BY <3>3, <3>4, <3>5, SegmentsFields
  <2>3. QED
    BY <1>4, <2>1, <2>2, StepPaths DEF Paths
<1>5. QED
  BY <1>1, <1>2, <1>3, <1>4 DEF BeforeSizes

(* Steps that leave the sectors of the device as they were.                *)
LEMMA KeepsSectors ==
  ASSUME Typed, ctrl \in ControlType, SectorsOK, UNCHANGED system,
         UNCHANGED ctrl \/ ReadSizes \/ InitFsManager \/ ProcfsMissing \/ Defaults
  PROVE  SectorsOK'
<1>1. CASE UNCHANGED ctrl
  BY <1>1 DEF SectorsOK
<1>2. CASE ReadSizes
  <2>1. PICK offset, zone_size, nr_zones :
          /\ ctrl' = WithZones(ctrl, system.fs = "F2FS", offset, zone_size, nr_zones)
          /\ \/ offset = IF system.fs = "F2FS" THEN system.conv_bytes ELSE 0
             \/ system.fs = "F2FS" /\ offset = Word64 - 1 /\ "device_size" \in unread'
          /\ \/ zone_size = ToDevice(ctrl, system.zone_sectors)
             \/ zone_size = 0 /\ "zone_size" \in unread'
          /\ \/ nr_zones = system.nr_zones
             \/ nr_zones = 0 /\ "number_of_zones" \in unread'
    BY <1>2, SizesTold, Zenon
  <2>2. PICK multi_dev : multi_dev = (system.fs = "F2FS")
    OBVIOUS
  <2>3. ctrl' = WithZones(ctrl, multi_dev, offset, zone_size, nr_zones)
    BY <2>1, <2>2, Zenon
  <2>4. QED
    BY <2>3, ZonesFields DEF SectorsOK
<1>3. CASE InitFsManager \/ ProcfsMissing
  <2>1. {"sector_size", "sector_shift", "zns_sector_shift", "f2fs_segment_sectors",
         "f2fs_segment_mask", "segment_shift"} \subseteq DOMAIN ctrl
    BY DEF ControlType
  <2>2. ctrl' = [ctrl EXCEPT !.fs_info_bytes = FsInfoBytes]
    BY <1>3 DEF InitFsManager, ProcfsMissing
  <2>3. QED
    BY <2>1, <2>2 DEF SectorsOK
<1>4. CASE Defaults
  <2>1. {"sector_size", "sector_shift", "zns_sector_shift", "f2fs_segment_sectors",
         "f2fs_segment_mask", "segment_shift"} \subseteq DOMAIN ctrl
    BY DEF ControlType
  <2>2. CASE ctrl' = ctrl
    BY <2>2 DEF SectorsOK
  <2>3. CASE ctrl' = WithDefaults(ctrl)
    <3>1. /\ ctrl'.sector_size = ctrl.sector_size
          /\ ctrl'.sector_shift = ctrl.sector_shift
          /\ ctrl'.zns_sector_shift = ctrl.zns_sector_shift
          /\ ctrl'.f2fs_segment_sectors = ctrl.f2fs_segment_sectors
          /\ ctrl'.f2fs_segment_mask = ctrl.f2fs_segment_mask
          /\ ctrl'.segment_shift = ctrl.segment_shift
      BY <2>1, <2>3 DEF WithDefaults
    <3>2. QED
      BY <3>1 DEF SectorsOK
  <2>4. QED
    BY <1>4, <2>2, <2>3 DEF Defaults, Set
<1>5. QED
  BY <1>1, <1>2, <1>3, <1>4

LEMMA StepSectors ==
  ASSUME ToolsAssumption, Typed, GeometryInv, [Next]_vars
  PROVE  pc' \in AfterZns /\ system.fs # "other" => SectorsOK'
<1> SUFFICES ASSUME pc' \in AfterZns, system.fs # "other"
             PROVE  SectorsOK'
  OBVIOUS
<1>1. ctrl \in ControlType /\ UNCHANGED system
  BY Frames DEF GeometryInv, Frame
<1>2. CASE pc \in AfterZns
  <2>1. SectorsOK
    BY <1>2 DEF GeometryInv
  <2>2. UNCHANGED ctrl \/ ReadSizes \/ InitFsManager \/ ProcfsMissing \/ Defaults
    BY <1>2, StepWriters DEF Writers
  <2>3. QED
    BY <1>1, <2>1, <2>2, KeepsSectors
<1>3. CASE InitZnsDev
  <2>1. PICK is_zoned \in BOOLEAN, nr_zones \in {0, system.nr_zones} :
          ctrl' = WithSegments(WithSectorSize([ctrl EXCEPT !.znsdev.is_zoned = is_zoned],
                                              system.sector), nr_zones)
    BY <1>3, ZnsDevTold
  <2> DEFINE c == [ctrl EXCEPT !.znsdev.is_zoned = is_zoned]
             d == WithSectorSize(c, system.sector)
  <2>2. c \in ControlType
    BY <1>1, BdevTyped
  <2>3. c.zns_sector_shift = ctrl.zns_sector_shift
    BY <1>1 DEF ControlType
  <2> HIDE DEF c
  <2>4. system.sector \in {512, 4096} /\ nr_zones \in Nat
    BY SystemInteger
  <2>5. /\ d \in ControlType
        /\ d.sector_size = system.sector
        /\ d.zns_sector_shift = IF system.sector = 4096 THEN 3 ELSE c.zns_sector_shift
        /\ d.segment_shift = IF system.sector = 512 THEN 12 ELSE 9
    BY <2>2, <2>4, SectorSizeTyped, SectorSizeFields
  <2>6. ctrl' = WithSegments(d, nr_zones)
    BY <2>1 DEF c
  <2> HIDE DEF d
  <2>7. /\ ctrl'.sector_size = d.sector_size
        /\ ctrl'.sector_shift = IF d.sector_size = 512 THEN 9 ELSE 12
        /\ ctrl'.zns_sector_shift = d.zns_sector_shift
        /\ ctrl'.f2fs_segment_sectors = IF d.sector_size = 512 THEN 4096 ELSE 512
        /\ ctrl'.f2fs_segment_mask = MaskOf(ctrl'.f2fs_segment_sectors, Word64)
        /\ ctrl'.segment_shift = d.segment_shift
    BY <2>4, <2>5, <2>6, SegmentsFields
  <2>8. d.zns_sector_shift = IF system.sector = 4096 THEN 3 ELSE 0
    BY <2>3, <2>4, <2>5 DEF Typed, ShiftOK
  <2>9. QED
    BY <1>1, <2>4, <2>5, <2>7, <2>8 DEF SectorsOK
<1>4. QED
  BY <1>2, <1>3, StepPaths DEF Paths, Unknown

LEMMA StepMap ==
  ASSUME ToolsAssumption, Typed, GeometryInv, [Next]_vars
  PROVE  /\ (zonemap = NULL \/ zonemap = DeviceMap)'
         /\ pc' \in AfterMap /\ system.fs # "other" /\ zonemap' = NULL => "zone_map" \in unread'
<1>1. UNCHANGED system /\ unread \subseteq unread'
  BY Frames DEF Frame
<1>2. DeviceMap' = DeviceMap
  BY <1>1 DEF DeviceMap, DeviceZone, OnDevice
<1>3. DeviceMap # NULL
  <2>1. "zones" \in DOMAIN DeviceMap /\ "zones" \notin DOMAIN NULL
    BY DEF DeviceMap, NULL
  <2>2. QED
    BY <2>1
<1>4. CASE InitZoneMap
  <2>1. /\ pc = "zonemap"
        /\ ctrl.znsdev.nr_zones > 0
        /\ zonemap' = [nr_zones |-> ctrl.znsdev.nr_zones,
                       zones |-> [z \in 0 .. ctrl.znsdev.nr_zones - 1 |-> ZoneOf(ctrl, z)]]
    BY <1>4 DEF InitZoneMap, Go
  <2>2. /\ system.fs # "other"
        /\ ctrl.znsdev.zone_mask = 0
        /\ ctrl.znsdev.nr_zones \in {0, system.nr_zones}
        /\ SectorsOK
    BY <2>1 DEF GeometryInv, BeforeSizes, Early, AfterZns
  <2>3. ctrl.znsdev.nr_zones = system.nr_zones
    BY <2>1, <2>2
  <2>4. ASSUME NEW z \in 0 .. system.nr_zones - 1
        PROVE  ZoneOf(ctrl, z) = DeviceZone(z)
    <3>1. z * system.zone_sectors \in Nat /\ system.zone_cap \in Nat
      BY SystemInteger
    <3>2. /\ ToDevice(ctrl, z * system.zone_sectors) = OnDevice(z * system.zone_sectors)
          /\ ToDevice(ctrl, system.zone_cap) = OnDevice(system.zone_cap)
      <4>1. ctrl.zns_sector_shift = IF system.sector = 4096 THEN 3 ELSE 0
        BY <2>2 DEF SectorsOK
      <4>2. ToDevice(ctrl, system.zone_cap) = OnDevice(system.zone_cap)
        BY <3>1, <4>1, TakesSectors, SMTT(30)
      <4>3. PICK start \in Nat : start = z * system.zone_sectors
        BY <3>1
      <4>4. ToDevice(ctrl, start) = OnDevice(start)
        BY <4>1, TakesSectors
      <4>5. QED
        BY <4>2, <4>3, <4>4, Zenon
    <3>3. QED
      BY <2>2, <3>2, ZenonT(30) DEF ZoneOf, DeviceZone
  <2>5. [z \in 0 .. ctrl.znsdev.nr_zones - 1 |-> ZoneOf(ctrl, z)]
          = [z \in 0 .. system.nr_zones - 1 |-> DeviceZone(z)]
    BY <2>3, <2>4, Zenon
  <2>6. zonemap' = DeviceMap
    BY <2>1, <2>3, <2>5, Zenon DEF DeviceMap
  <2>7. QED
    BY <1>2, <1>3, <2>6, Zenon
<1>5. CASE ~InitZoneMap
  <2>1. UNCHANGED zonemap
    BY <1>5, StepWriters DEF Writers
  <2>2. zonemap = NULL \/ zonemap = DeviceMap
    BY DEF GeometryInv
  <2>3. ASSUME pc' \in AfterMap, system.fs # "other", zonemap = NULL
        PROVE  "zone_map" \in unread'
    <3>1. CASE pc \in AfterMap
      <4>1. "zone_map" \in unread
        BY <2>3, <3>1 DEF GeometryInv
      <4>2. QED
        BY <1>1, <4>1
    <3>2. CASE ZoneMapNotOpened
      BY <3>2 DEF ZoneMapNotOpened
    <3>3. QED
      BY <1>5, <2>3, <3>1, <3>2, StepPaths DEF Paths, Unknown
  <2>4. QED
    BY <1>2, <2>1, <2>2, <2>3
<1>6. QED
  BY <1>4, <1>5

LEMMA StepSizes ==
  ASSUME ToolsAssumption, Typed, GeometryInv, [Next]_vars
  PROVE  pc' \in AfterSizes /\ system.fs # "other" => SizesOK'
<1> SUFFICES ASSUME pc' \in AfterSizes, system.fs # "other"
             PROVE  SizesOK'
  OBVIOUS
<1>1. ctrl \in ControlType /\ UNCHANGED system /\ unread \subseteq unread'
  BY Frames DEF GeometryInv, Frame
<1>2. OnDevice(system.zone_sectors)' = OnDevice(system.zone_sectors)
  BY <1>1 DEF OnDevice
<1>3. CASE pc \in AfterSizes
  <2>1. SizesOK
    BY <1>3 DEF GeometryInv
  <2>2. ~ReadSizes
    BY <1>3 DEF ReadSizes, Go, AfterSizes, Sized
  <2>3. pc \in AfterZns
    BY <1>3 DEF AfterSizes, AfterZns, Sized
  <2>4. ctrl'.offset = ctrl.offset /\ ctrl'.znsdev = ctrl.znsdev
    <3>1. {"offset", "znsdev", "start_zone", "end_zone", "fs_info_bytes"} \subseteq DOMAIN ctrl
      BY <1>1 DEF ControlType
    <3>2. CASE InitFsManager \/ ProcfsMissing
      <4>1. ctrl' = [ctrl EXCEPT !.fs_info_bytes = FsInfoBytes]
        BY <3>2 DEF InitFsManager, ProcfsMissing
      <4>2. QED
        BY <3>1, <4>1
    <3>3. CASE Defaults
      <4>1. ctrl' = ctrl \/ ctrl' = WithDefaults(ctrl)
        BY <3>3 DEF Defaults, Set
      <4> DEFINE first == IF ctrl.start_zone = 0 /\ ~Given("z") THEN 1 ELSE ctrl.start_zone
                 last == IF ctrl.end_zone = 0 /\ ~Given("z") THEN ctrl.znsdev.nr_zones
                         ELSE ctrl.end_zone
      <4>2. WithDefaults(ctrl) = [ctrl EXCEPT !.start_zone = first, !.end_zone = last]
        BY DEF WithDefaults
      <4> HIDE DEF first, last
      <4>3. WithDefaults(ctrl).offset = ctrl.offset
        BY <3>1, <4>2
      <4>4. WithDefaults(ctrl).znsdev = ctrl.znsdev
        BY <3>1, <4>2
      <4>5. QED
        BY <4>1, <4>3, <4>4
    <3>4. QED
      BY <2>2, <2>3, <3>2, <3>3, StepWriters DEF Writers
  <2>5. QED
    <3>1. /\ \/ ctrl'.offset = system.conv_bytes
             \/ ctrl'.offset = Word64 - 1 /\ "device_size" \in unread'
          /\ ctrl'.znsdev.nr_zones = system.nr_zones \/ "number_of_zones" \in unread'
      BY <1>1, <2>1, <2>4 DEF SizesOK
    <3>2. \/ ctrl'.znsdev.zone_size = OnDevice(system.zone_sectors)
          \/ ctrl'.znsdev.zone_size = 0 /\ "zone_size" \in unread'
      BY <1>1, <2>1, <2>4 DEF SizesOK
    <3>3. ctrl'.znsdev.zone_mask = MaskOf(ctrl'.znsdev.zone_size, Word)
      BY <2>1, <2>4 DEF SizesOK
    <3>4. QED
      BY <1>1, <1>2, <3>1, <3>2, <3>3 DEF SizesOK
<1>4. CASE ReadSizes
  <2>1. PICK offset, zone_size, nr_zones :
          /\ ctrl' = WithZones(ctrl, system.fs = "F2FS", offset, zone_size, nr_zones)
          /\ \/ offset = IF system.fs = "F2FS" THEN system.conv_bytes ELSE 0
             \/ system.fs = "F2FS" /\ offset = Word64 - 1 /\ "device_size" \in unread'
          /\ \/ zone_size = ToDevice(ctrl, system.zone_sectors)
             \/ zone_size = 0 /\ "zone_size" \in unread'
          /\ \/ nr_zones = system.nr_zones
             \/ nr_zones = 0 /\ "number_of_zones" \in unread'
    BY <1>4, SizesTold, Zenon
  <2>2. PICK multi_dev : multi_dev = (system.fs = "F2FS")
    OBVIOUS
  <2>3. ctrl' = WithZones(ctrl, multi_dev, offset, zone_size, nr_zones)
    BY <2>1, <2>2, Zenon
  <2>4. /\ ctrl'.offset = offset
        /\ ctrl'.znsdev.zone_size = zone_size
        /\ ctrl'.znsdev.zone_mask = MaskOf(zone_size, Word)
        /\ ctrl'.znsdev.nr_zones = nr_zones
    BY <1>1, <2>3, ZonesFields
  <2>5. SectorsOK
    BY <1>4 DEF ReadSizes, Go, GeometryInv, AfterZns, Mapped
  <2>6. ToDevice(ctrl, system.zone_sectors) = OnDevice(system.zone_sectors)
    <3>1. ctrl.zns_sector_shift = IF system.sector = 4096 THEN 3 ELSE 0
      BY <2>5 DEF SectorsOK
    <3>2. system.zone_sectors \in Nat
      BY SystemInteger
    <3>3. QED
      BY <3>1, <3>2, TakesSectors
  <2>7. \/ offset = system.conv_bytes
        \/ offset = Word64 - 1 /\ "device_size" \in unread'
    <3>1. system.fs # "F2FS" => system.conv_bytes = 0
      BY SystemInteger
    <3>2. QED
      BY <2>1, <3>1
  <2>8. /\ \/ zone_size = OnDevice(system.zone_sectors)
           \/ zone_size = 0 /\ "zone_size" \in unread'
        /\ nr_zones = system.nr_zones \/ "number_of_zones" \in unread'
    BY <2>1, <2>6, Zenon
  <2>9. QED
    BY <1>1, <1>2, <2>4, <2>7, <2>8, Zenon DEF SizesOK
<1>5. QED
  BY <1>3, <1>4, StepPaths DEF Paths, Unknown

LEMMA InitGeometry ==
  ASSUME ControlAssumption, ToolsAssumption, Init
  PROVE  GeometryInv
<1>1. PICK command \in Commands : program = command.program
  BY DEF Init
<1>2. ctrl = InitialCtrl(program) /\ pc = "options" /\ zonemap = NULL
  BY DEF Init
<1>3. Bdev \in BdevType
  BY DEF Bdev, BdevType, ControlAssumption
<1>4. PICK flag \in BOOLEAN : flag = (program = "segmap")
  OBVIOUS
<1>5. ctrl \in ControlType
  <2>1. InitialCtrl(program) =
          [exclude_inline |-> flag, show_holes |-> flag,
           show_flags |-> FALSE, json_dump |-> FALSE, procfs |-> FALSE,
           show_class_stats |-> FALSE, show_only_stats |-> FALSE,
           show_superblock |-> FALSE, show_checkpoint |-> FALSE,
           start_zone |-> 0, end_zone |-> 0,
           fs_magic |-> "unknown", multi_dev |-> FALSE, offset |-> 0,
           bdev |-> Bdev, znsdev |-> Bdev,
           sector_size |-> 0, sector_shift |-> 0, zns_sector_shift |-> 0,
           f2fs_segment_sectors |-> 0, f2fs_segment_mask |-> 0, segment_shift |-> 0,
           fs_info_bytes |-> 0]
    BY <1>4, Zenon DEF InitialCtrl
  <2>2. 0 \in 0 .. Word64 - 1
    BY DEF ControlAssumption
  <2>3. PICK no \in BOOLEAN : no = FALSE
    OBVIOUS
  <2>4. [exclude_inline |-> flag, show_holes |-> flag,
         show_flags |-> no, json_dump |-> no, procfs |-> no,
         show_class_stats |-> no, show_only_stats |-> no,
         show_superblock |-> no, show_checkpoint |-> no,
         start_zone |-> 0, end_zone |-> 0,
         fs_magic |-> "unknown", multi_dev |-> no, offset |-> 0,
         bdev |-> Bdev, znsdev |-> Bdev,
         sector_size |-> 0, sector_shift |-> 0, zns_sector_shift |-> 0,
         f2fs_segment_sectors |-> 0, f2fs_segment_mask |-> 0, segment_shift |-> 0,
         fs_info_bytes |-> 0] \in ControlType
    BY <1>3, <2>2 DEF ControlType
  <2>5. QED
    BY <1>2, <2>1, <2>3, <2>4, ZenonT(30)
<1>6. ctrl.znsdev.zone_mask = 0
  BY <1>2 DEF InitialCtrl, Bdev
<1>7. QED
  BY <1>2, <1>5, <1>6
     DEF GeometryInv, BeforeSizes, AfterZns, AfterMap, AfterSizes, Mapped, Sized

LEMMA StepGeometry ==
  ASSUME ControlAssumption, ToolsAssumption, Typed, GeometryInv, [Next]_vars
  PROVE  GeometryInv'
<1>1. UNCHANGED system
  BY Frames DEF Frame
<1>2. ctrl' \in ControlType
  BY StepControl DEF GeometryInv
<1>3. QED
  BY <1>1, <1>2, StepBeforeSizes, StepSectors, StepMap, StepSizes DEF GeometryInv

-----------------------------------------------------------------------------
(* The geometry, as GeometryIsTheDevices puts it.                          *)

LEMMA Powers == 2 ^ 0 = 1 /\ 2 ^ 3 = 8 /\ 2 ^ 9 = 512 /\ 2 ^ 12 = 4096
BY SMT

LEMMA MaskOfSize ==
  ASSUME NEW size \in Nat \ {0}, NEW word \in Nat, size <= word
  PROVE  MaskOf(size, word) = word - size
BY DEF MaskOf

LEMMA SmallRemainder ==
  ASSUME NEW w \in Nat \ {0}, NEW x \in 0 .. w - 1
  PROVE  x % w = x
BY SMT

LEMMA QuotientOfSum ==
  ASSUME NEW z \in Nat, NEW a \in Nat \ {0}, NEW s \in 0 .. a - 1
  PROVE  (z * a + s) \div a = z
BY SMT

(* A zone as long as a number of others ends before them all.              *)
LEMMA ZoneWithin ==
  ASSUME NEW n \in Nat \ {0}, NEW a \in Nat \ {0}, NEW z \in 0 .. n - 1, NEW s \in 0 .. a - 1
  PROVE  z * a + s < n * a /\ z * a + s \in Nat /\ a <= n * a
<1>1. z * a \in Nat /\ n * a \in Nat /\ (z + 1) * a = z * a + a
  BY SMT
<1>2. (z + 1) * a <= n * a
  BY z + 1 <= n, SMT
<1>3. a <= n * a
  BY 1 <= n, SMT
<1>4. QED
  BY <1>1, <1>2, <1>3

(* What is on a device of whole sectors.                                   *)
LEMMA WholeSectors ==
  ASSUME ToolsAssumption, Typed
  PROVE  /\ OnDevice(system.zone_sectors) \in Nat \ {0}
         /\ OnDevice(system.zone_sectors) <= system.zone_sectors
         /\ OnDevice(system.zone_sectors) * system.sector = system.zone_sectors * 512
         /\ OnDevice(system.zone_sectors) * (IF system.sector = 4096 THEN 8 ELSE 1)
              = system.zone_sectors
         /\ OnDevice(system.zone_cap) * system.sector = system.zone_cap * 512
         /\ \A z \in Nat :
              OnDevice(z * system.zone_sectors) * system.sector = z * system.zone_sectors * 512
<1>1. /\ system.sector \in {512, 4096}
      /\ system.zone_sectors \in Nat \ {0}
      /\ system.zone_cap \in Nat \ {0}
  BY SystemInteger
<1>2. system.zone_sectors % 4096 = 0 /\ (system.sector = 4096 => system.zone_cap % 8 = 0)
  BY ZoneSectors DEF Typed
<1>3. PICK q \in Nat : system.zone_sectors = 4096 * q
  <2>1. system.zone_sectors = 4096 * (system.zone_sectors \div 4096)
    BY <1>1, <1>2
  <2>2. QED
    BY <1>1, <2>1
<1>4. \A z \in Nat :
        OnDevice(z * system.zone_sectors) * system.sector = z * system.zone_sectors * 512
  <2> SUFFICES ASSUME NEW z \in Nat
               PROVE  OnDevice(z * system.zone_sectors) * system.sector
                        = z * system.zone_sectors * 512
    OBVIOUS
  <2>1. PICK r \in Nat : r = z * q
    OBVIOUS
  <2>2. z * system.zone_sectors = 4096 * r
    BY <1>3, <2>1, SMT
  <2>3. QED
    BY <1>1, <2>2 DEF OnDevice
<1>5. CASE system.sector = 512
  <2>1. OnDevice(system.zone_sectors) = system.zone_sectors
    BY <1>1, <1>5 DEF OnDevice
  <2>2. OnDevice(system.zone_cap) = system.zone_cap
    BY <1>1, <1>5 DEF OnDevice
  <2>3. QED
    BY <1>1, <1>4, <1>5, <2>1, <2>2, SMTT(30)
<1>6. CASE system.sector = 4096
  <2>1. OnDevice(system.zone_sectors) = 512 * q /\ q # 0
    BY <1>1, <1>3, <1>6 DEF OnDevice
  <2>2. system.zone_cap = 8 * OnDevice(system.zone_cap) /\ OnDevice(system.zone_cap) \in Nat
    BY <1>1, <1>2, <1>6 DEF OnDevice
  <2>3. QED
    BY <1>1, <1>3, <1>4, <1>6, <2>1, <2>2
<1>7. QED
  BY <1>1, <1>5, <1>6

LEMMA GeometryFollows ==
  ASSUME ControlAssumption, ToolsAssumption, Typed, GeometryInv
  PROVE  GeometryIsTheDevices
<1> SUFFICES ASSUME Initialised, system.fs # "other"
             PROVE  /\ ctrl.sector_size = system.sector
                    /\ 2 ^ ctrl.sector_shift = system.sector
                    /\ 512 * 2 ^ ctrl.zns_sector_shift = system.sector
                    /\ ctrl.f2fs_segment_sectors * system.sector = F2FS_SEGMENT_BYTES
                    /\ 2 ^ ctrl.segment_shift = ctrl.f2fs_segment_sectors
                    /\ ctrl.f2fs_segment_mask + ctrl.f2fs_segment_sectors = Word64
                    /\ ctrl.offset = system.conv_bytes \/ "device_size" \in unread
                    /\ ctrl.znsdev.nr_zones = system.nr_zones \/ "number_of_zones" \in unread
                    /\ \/ "zone_size" \in unread
                       \/ /\ ctrl.znsdev.zone_size * system.sector = system.zone_sectors * 512
                          /\ system.nr_zones * system.zone_sectors <= Word =>
                               /\ ctrl.znsdev.zone_mask + ctrl.znsdev.zone_size = Word
                               /\ \A z \in 0 .. system.nr_zones - 1,
                                     s \in {0, system.zone_sectors - 1} :
                                    GetZoneNumber(ctrl, z * system.zone_sectors + s) = z
                    /\ \/ zonemap = NULL /\ "zone_map" \in unread
                       \/ /\ zonemap.nr_zones = system.nr_zones
                          /\ \A z \in 0 .. system.nr_zones - 1 :
                               /\ zonemap.zones[z].start * system.sector
                                    = z * system.zone_sectors * 512
                               /\ zonemap.zones[z].capacity * system.sector
                                    = system.zone_cap * 512
                               /\ zonemap.zones[z].end
                                    = zonemap.zones[z].start + zonemap.zones[z].capacity
  BY DEF GeometryIsTheDevices
<1>1. pc \in AfterZns /\ pc \in AfterMap /\ pc \in AfterSizes
  BY DEF Initialised, AfterZns, AfterMap, AfterSizes, Mapped, Sized
<1>2. SectorsOK /\ SizesOK
  BY <1>1 DEF GeometryInv
<1>3. /\ system.sector \in {512, 4096}
      /\ system.zone_sectors \in Nat \ {0}
      /\ system.nr_zones \in Nat \ {0}
      /\ system.conv_bytes \in Nat
  BY SystemInteger
<1>4. /\ ctrl.sector_size = system.sector
      /\ 2 ^ ctrl.sector_shift = system.sector
      /\ 512 * 2 ^ ctrl.zns_sector_shift = system.sector
      /\ 2 ^ ctrl.segment_shift = ctrl.f2fs_segment_sectors
  BY <1>2, <1>3, Powers DEF SectorsOK
<1>5. ctrl.f2fs_segment_sectors * system.sector = F2FS_SEGMENT_BYTES
  BY <1>2, <1>3, SMT DEF SectorsOK, F2FS_SEGMENT_BYTES
<1>6. ctrl.f2fs_segment_mask + ctrl.f2fs_segment_sectors = Word64
  <2>1. ctrl.f2fs_segment_sectors \in Nat \ {0} /\ ctrl.f2fs_segment_sectors <= 4096
    BY <1>2, <1>3 DEF SectorsOK
  <2>2. 4096 <= Word64
    BY DEF ControlAssumption, F2FS_SEGMENT_BYTES
  <2>3. ctrl.f2fs_segment_mask = Word64 - ctrl.f2fs_segment_sectors
    <3>1. ctrl.f2fs_segment_mask = MaskOf(ctrl.f2fs_segment_sectors, Word64)
      BY <1>2 DEF SectorsOK
    <3>2. Word64 \in Nat /\ ctrl.f2fs_segment_sectors <= Word64
      BY <2>1, <2>2 DEF ControlAssumption
    <3>3. PICK size \in Nat \ {0} : size = ctrl.f2fs_segment_sectors /\ size <= Word64
      BY <2>1, <3>2
    <3>4. MaskOf(size, Word64) = Word64 - size
      BY <3>2, <3>3, MaskOfSize
    <3>5. QED
      BY <3>1, <3>3, <3>4
  <2>4. QED
    BY <2>1, <2>3 DEF ControlAssumption
<1>7. /\ ctrl.offset = system.conv_bytes \/ "device_size" \in unread
      /\ ctrl.znsdev.nr_zones = system.nr_zones \/ "number_of_zones" \in unread
  BY <1>2 DEF SizesOK
<1>8. ASSUME "zone_size" \notin unread
      PROVE  /\ ctrl.znsdev.zone_size * system.sector = system.zone_sectors * 512
             /\ system.nr_zones * system.zone_sectors <= Word =>
                  /\ ctrl.znsdev.zone_mask + ctrl.znsdev.zone_size = Word
                  /\ \A z \in 0 .. system.nr_zones - 1, s \in {0, system.zone_sectors - 1} :
                       GetZoneNumber(ctrl, z * system.zone_sectors + s) = z
  <2>1. /\ ctrl.znsdev.zone_size = OnDevice(system.zone_sectors)
        /\ ctrl.znsdev.zone_mask = MaskOf(ctrl.znsdev.zone_size, Word)
    BY <1>2, <1>8 DEF SizesOK
  <2>2. ctrl.znsdev.zone_size * system.sector = system.zone_sectors * 512
    BY <2>1, WholeSectors
  <2>3. ASSUME system.nr_zones * system.zone_sectors <= Word
        PROVE  ctrl.znsdev.zone_mask + ctrl.znsdev.zone_size = Word
    <3>1. ctrl.znsdev.zone_size \in Nat \ {0} /\ ctrl.znsdev.zone_size <= system.zone_sectors
      BY <2>1, WholeSectors
    <3>2. PICK all \in Nat : all = system.nr_zones * system.zone_sectors
      BY <1>3
    <3>3. system.zone_sectors <= all /\ all <= Word
      BY <1>3, <2>3, <3>2, ZoneWithin
    <3>4. ctrl.znsdev.zone_size <= Word /\ Word \in Nat
      BY <1>3, <3>1, <3>3 DEF ControlAssumption
    <3>5. ctrl.znsdev.zone_mask = Word - ctrl.znsdev.zone_size
      <4>1. ctrl.znsdev.zone_mask = MaskOf(ctrl.znsdev.zone_size, Word)
        BY <1>2, Zenon DEF SizesOK
      <4>2. PICK size \in Nat \ {0} : size = ctrl.znsdev.zone_size /\ size <= Word
        BY <3>1, <3>4
      <4>3. PICK w \in Nat : w = Word
        BY <3>4
      <4>4. size <= w
        BY <4>2, <4>3
      <4>5. MaskOf(size, w) = w - size
        BY <4>4, MaskOfSize
      <4>6. QED
        BY <4>1, <4>2, <4>3, <4>5
    <3>6. QED
      BY <3>1, <3>4, <3>5
  <2>4. ASSUME system.nr_zones * system.zone_sectors <= Word,
               NEW z \in 0 .. system.nr_zones - 1, NEW s \in {0, system.zone_sectors - 1}
        PROVE  GetZoneNumber(ctrl, z * system.zone_sectors + s) = z
    <3>1. s \in 0 .. system.zone_sectors - 1
      BY <1>3
    <3>2. PICK lba \in Nat : lba = z * system.zone_sectors + s
      BY <1>3, <3>1, ZoneWithin
    <3>3. PICK all \in Nat : all = system.nr_zones * system.zone_sectors
      BY <1>3
    <3>4. lba < all /\ all <= Word
      <4>1. z * system.zone_sectors + s < system.nr_zones * system.zone_sectors
        <5>1. PICK n \in Nat \ {0} : n = system.nr_zones
          BY <1>3
        <5>2. PICK a \in Nat \ {0} : a = system.zone_sectors
          BY <1>3
        <5>3. z \in 0 .. n - 1 /\ s \in 0 .. a - 1
          BY <3>1, <5>1, <5>2
        <5>4. z * a + s < n * a
          BY <5>3, ZoneWithin
        <5>5. QED
          BY <5>1, <5>2, <5>4, Zenon
      <4>2. QED
        BY <2>4, <3>2, <3>3, <4>1
    <3>5. lba % Word = lba
      <4>1. PICK w \in Nat \ {0} : w = Word
        BY DEF ControlAssumption
      <4>2. lba < w
        BY <3>2, <3>3, <3>4, <4>1
      <4>3. lba % w = lba
        BY <3>2, <4>2
      <4>4. QED
        BY <4>1, <4>3
    <3>6. ToKernel(ctrl, ctrl.znsdev.zone_size) = system.zone_sectors
      <4>1. 2 ^ ctrl.zns_sector_shift = IF system.sector = 4096 THEN 8 ELSE 1
        BY <1>2, <1>3, Powers DEF SectorsOK
      <4>2. QED
        BY <2>1, <4>1, WholeSectors DEF ToKernel
    <3>7. lba \div system.zone_sectors = z
      <4>1. z \in Nat
        BY <1>3
      <4>2. (z * system.zone_sectors + s) \div system.zone_sectors = z
        <5>1. PICK a \in Nat \ {0} : a = system.zone_sectors
          BY <1>3
        <5>2. s \in 0 .. a - 1
          BY <3>1, <5>1
        <5>3. PICK y \in Nat : y = z
          BY <4>1
        <5>4. PICK t \in 0 .. a - 1 : t = s
          BY <5>2
        <5>5. (y * a + t) \div a = y
          BY QuotientOfSum
        <5>6. QED
          BY <5>1, <5>3, <5>4, <5>5, Zenon
      <4>3. QED
        BY <3>2, <4>2, Zenon
    <3>8. QED
      BY <3>2, <3>5, <3>6, <3>7, Zenon DEF GetZoneNumber
  <2>5. QED
    BY <2>2, <2>3, <2>4
<1>9. ASSUME ~(zonemap = NULL /\ "zone_map" \in unread)
      PROVE  /\ zonemap.nr_zones = system.nr_zones
             /\ \A z \in 0 .. system.nr_zones - 1 :
                  /\ zonemap.zones[z].start * system.sector = z * system.zone_sectors * 512
                  /\ zonemap.zones[z].capacity * system.sector = system.zone_cap * 512
                  /\ zonemap.zones[z].end = zonemap.zones[z].start + zonemap.zones[z].capacity
  <2>1. zonemap = DeviceMap
    BY <1>1, <1>9 DEF GeometryInv
  <2>2. zonemap.nr_zones = system.nr_zones
    BY <2>1 DEF DeviceMap
  <2>3. ASSUME NEW z \in 0 .. system.nr_zones - 1
        PROVE  /\ zonemap.zones[z].start * system.sector = z * system.zone_sectors * 512
               /\ zonemap.zones[z].capacity * system.sector = system.zone_cap * 512
               /\ zonemap.zones[z].end = zonemap.zones[z].start + zonemap.zones[z].capacity
    <3>1. zonemap.zones[z] = DeviceZone(z)
      BY <2>1 DEF DeviceMap
    <3>2. /\ zonemap.zones[z].start = OnDevice(z * system.zone_sectors)
          /\ zonemap.zones[z].capacity = OnDevice(system.zone_cap)
          /\ zonemap.zones[z].end = OnDevice(z * system.zone_sectors) + OnDevice(system.zone_cap)
      BY <3>1 DEF DeviceZone
    <3>3. z \in Nat
      OBVIOUS
    <3>4. QED
      BY <3>2, <3>3, WholeSectors
  <2>4. QED
    BY <2>2, <2>3
<1>10. QED
  BY <1>4, <1>5, <1>6, <1>7, <1>8, <1>9

LEMMA GeometryInvariant == Spec => [](IInv /\ GeometryInv)
<1>1. Init => IInv /\ GeometryInv
  BY ControlAssumption, ToolsAssumption, InitIInv, InitGeometry
<1>2. IInv /\ GeometryInv /\ [Next]_vars => IInv' /\ GeometryInv'
  BY ControlAssumption, ToolsAssumption, StepTyped, StepCrashInv, StepGeometry DEF IInv
<1>3. QED
  BY <1>1, <1>2, PTL DEF Spec

(* The control structure and the zone map describe the devices on every    *)
(* path through init_ctrl and check_dir_init_ctrl that ends well, for      *)
(* devices of any size.                                                    *)
THEOREM GeometryOfTheDevices == Spec => []GeometryIsTheDevices
<1>1. IInv /\ GeometryInv => GeometryIsTheDevices
  BY ControlAssumption, ToolsAssumption, GeometryFollows DEF IInv
<1>2. QED
  BY <1>1, GeometryInvariant, PTL

-----------------------------------------------------------------------------
(* The segment table, the checkpoint packs and what is still to collect.   *)

SbType == [cp_blkaddr : Nat, main_blkaddr : Nat, segment_count_main : Nat]

(* The table has as many segments as the superblock says, and only F2FS    *)
(* has one.                                                                *)
TableOK ==
  /\ pc = "procfs" => system.fs = "F2FS"
  /\ sb \in SbType
  /\ pc \in {"bdev", "zns", "zonemap", "zoned", "sizes", "procfs"} /\ system.fs = "F2FS"
       => sb.segment_count_main = Len(system.segments)
  /\ \/ fs_manager = NULL
     \/ /\ fs_manager = SegmentTable
        /\ system.fs = "F2FS"
        /\ sb.segment_count_main = Len(system.segments)

(* The packs are written in turn.                                          *)
PacksOK ==
  /\ packs \in [1 .. 2 -> 0 .. MaxCheckpoints + 1]
  /\ packs[1] = packs[2] + 1 \/ packs[2] = packs[1] + 1

(* The extents there may be on the devices of the system.                  *)
OnDevices ==
  {e \in [physical : Nat, length : Nat, inline : BOOLEAN] :
     /\ e.physical < system.conv_bytes + system.nr_zones * system.zone_sectors * 512
     /\ system.fs = "F2FS" =>
          e.physical < system.main_blkaddr * F2FS_BLKSIZE
                         + Len(system.segments) * F2FS_SEGMENT_BYTES}

TodoOK == todo \in Seq(Seq(OnDevices))

LEMMA SeqOfSubset ==
  ASSUME NEW S, NEW T, NEW s \in Seq(S), \A k \in DOMAIN s : s[k] \in T
  PROVE  s \in Seq(T)
BY SMT

LEMMA WiderSeq ==
  ASSUME NEW S, NEW T, NEW s \in Seq(S)
  PROVE  s \in Seq(S \cup T)
BY SMT

LEMMA FilesOnDevices ==
  ASSUME ToolsAssumption, system \in Systems
  PROVE  system.files \in Seq(Seq(OnDevices))
<1> DEFINE Some == [physical : Nat, length : Nat, inline : BOOLEAN]
<1>1. system.files \in Seq(Seq(Some))
  BY SystemTyped
<1> HIDE DEF Some
<1>2. ASSUME NEW n \in DOMAIN system.files
      PROVE  system.files[n] \in Seq(OnDevices)
  <2>1. system.files[n] \in Seq(Some)
    BY <1>1
  <2>2. ASSUME NEW k \in DOMAIN system.files[n]
        PROVE  system.files[n][k] \in OnDevices
    <3>1. system.files[n][k] \in Some
      BY <2>1, <2>2
    <3>2. /\ system.files[n][k].physical
               < system.conv_bytes + system.nr_zones * system.zone_sectors * 512
          /\ system.fs = "F2FS" =>
               system.files[n][k].physical
                 < system.main_blkaddr * F2FS_BLKSIZE
                     + Len(system.segments) * F2FS_SEGMENT_BYTES
      BY <2>2 DEF ToolsAssumption
    <3>3. QED
      BY <3>1, <3>2, Zenon DEF OnDevices, Some
  <2>3. QED
    BY <2>1, <2>2, SeqOfSubset
<1>3. QED
  BY <1>1, <1>2, SeqOfSubset

LEMMA StepTodo ==
  ASSUME ToolsAssumption, Typed, TodoOK, [Next]_vars
  PROVE  TodoOK'
<1>1. UNCHANGED system
  BY Frames DEF Frame
<1>2. OnDevices' = OnDevices
  BY <1>1 DEF OnDevices
<1>3. todo' = todo \/ (todo # <<>> /\ Head(todo) # <<>> /\ RestOfFile)
        \/ (todo # <<>> /\ todo' = Tail(todo))
  <2>1. CASE Preparing
    BY <2>1 DEF Preparing, ParseOption, ShowHelp, RejectOptions, AcceptOptions, CallFails,
       OpenFile, SetFsMagic, InitDev, ReadSuperBlock, InitBdev, InitZnsDev, InitZoneMap,
       ZoneMapNotOpened, CheckZoned, ReadSizes, InitFsManager, ProcfsMissing, Defaults,
       Set, SetNothing
  <2>2. CASE Collecting
    BY <2>2 DEF Collecting, SkipExtent, CrashOnExtent, RecordExtent, EndOfFile, CrashOnNull,
       Collected, SetNothing, InFile
  <2>3. CASE Reporting
    BY <2>3 DEF Reporting, ReportHangs, ReportJson, ReportSegments, CrashOnCapacity,
       ReportFiemap, Cleanup, ShowSuperBlock, NoSuperBlock, ShowCheckpoint, NoCheckpoint,
       FindInode, CrashOnInode, ShowInode, SetNothing, Show, ShowsJson
  <2>4. CASE Elsewhere
    BY <2>4 DEF Elsewhere, WriteCheckpoint, vars
  <2>5. QED
    BY <2>1, <2>2, <2>3, <2>4, Phases
<1>4. PICK S : S = OnDevices
  OBVIOUS
<1>5. todo \in Seq(Seq(S))
  BY <1>4 DEF TodoOK
<1>6. CASE todo # <<>> /\ Head(todo) # <<>> /\ RestOfFile
  <2>1. todo' = <<Tail(Head(todo))>> \o Tail(todo)
    BY <1>6 DEF RestOfFile
  <2>2. Head(todo) \in Seq(S) /\ Tail(todo) \in Seq(Seq(S))
    BY <1>5, <1>6, HeadTyped
  <2>3. Tail(Head(todo)) \in Seq(S)
    BY <1>6, <2>2, HeadTyped
  <2>4. PICK rest \in Seq(S) : rest = Tail(Head(todo))
    BY <2>3
  <2>5. PICK others \in Seq(Seq(S)) : others = Tail(todo)
    BY <2>2
  <2>6. <<rest>> \o others \in Seq(Seq(S))
    OBVIOUS
  <2>7. QED
    BY <1>2, <1>4, <2>1, <2>4, <2>5, <2>6, Zenon DEF TodoOK
<1>7. CASE todo # <<>> /\ todo' = Tail(todo)
  <2>1. Tail(todo) \in Seq(Seq(S))
    BY <1>5, <1>7, HeadTyped
  <2>2. QED
    BY <1>2, <1>4, <1>7, <2>1, Zenon DEF TodoOK
<1>8. QED
  BY <1>2, <1>3, <1>6, <1>7 DEF TodoOK

LEMMA StepPacks ==
  ASSUME ToolsAssumption, Typed, PacksOK, [Next]_vars
  PROVE  PacksOK'
<1>1. CASE UNCHANGED packs
  BY <1>1 DEF PacksOK
<1>2. CASE WriteCheckpoint
  <2> DEFINE old == IF packs[1] < packs[2] THEN 1 ELSE 2
             next == Newest(packs) + 1
  <2>1. packs \in [1 .. 2 -> 0 .. MaxCheckpoints + 1] /\ MaxCheckpoints \in Nat
    BY DEF PacksOK, ToolsAssumption
  <2>2. packs' = [packs EXCEPT ![old] = next] /\ Newest(packs) <= MaxCheckpoints
    BY <1>2 DEF WriteCheckpoint
  <2>3. packs[1] \in Nat /\ packs[2] \in Nat
    BY <2>1
  <2>4. next \in 0 .. MaxCheckpoints + 1
    BY <2>1, <2>2, <2>3 DEF Newest
  <2>5. CASE packs[1] < packs[2]
    BY <2>1, <2>2, <2>3, <2>4, <2>5 DEF PacksOK, Newest
  <2>6. CASE ~(packs[1] < packs[2])
    BY <2>1, <2>2, <2>3, <2>4, <2>6 DEF PacksOK, Newest
  <2>7. QED
    BY <2>5, <2>6
<1>3. QED
  BY <1>1, <1>2, StepWriters DEF Writers

LEMMA StepTable ==
  ASSUME ToolsAssumption, Typed, TableOK, [Next]_vars
  PROVE  TableOK'
<1>1. UNCHANGED system /\ (UNCHANGED fs_manager \/ InitFsManager)
        /\ (UNCHANGED sb \/ ReadSuperBlock)
  BY Frames, StepWriters DEF Frame, Writers
<1>2. SegmentTable' = SegmentTable
  BY <1>1 DEF SegmentTable
<1>3. Len(system.segments) \in Nat
  <2>1. PICK S : system.segments \in Seq(S)
    BY SystemTyped DEF Typed
  <2>2. QED
    BY <2>1
<1>4. ASSUME ReadSuperBlock
      PROVE  sb' \in SbType /\ sb'.segment_count_main = Len(system.segments) /\ pc' = "bdev"
  <2>1. system.cp_blkaddr \in Nat /\ system.main_blkaddr \in Nat
    BY SystemTyped DEF Typed
  <2>2. QED
    BY <1>3, <1>4, <2>1 DEF ReadSuperBlock, Go, SbType
<1>5. pc' = "procfs" => system.fs = "F2FS"
  BY StepPaths DEF Paths, TableOK
<1>6. sb' \in SbType
  BY <1>1, <1>4 DEF TableOK
<1>7. ASSUME pc' \in {"bdev", "zns", "zonemap", "zoned", "sizes", "procfs"},
             system.fs = "F2FS"
      PROVE  sb'.segment_count_main = Len(system.segments)
  <2>1. CASE ReadSuperBlock
    BY <1>4, <2>1
  <2>2. CASE ~ReadSuperBlock
    <3>1. \/ UNCHANGED pc
          \/ pc \in {"bdev", "zns", "zonemap", "zoned", "sizes", "procfs"}
      <4>1. CASE Preparing
        <5>1. CASE ReadSizes \/ CheckZoned \/ Defaults
          <6>1. ~Defaults
            <7>1. Defaults => pc' \in {"superblock", "collect"}
              BY DEF Defaults, Go
            <7>2. QED
              BY <1>7, <7>1
          <6>2. pc = "sizes" \/ pc = "zoned"
            BY <5>1, <6>1 DEF ReadSizes, CheckZoned, Go
          <6>3. QED
            BY <6>2
        <5>2. CASE SetFsMagic
          <6>1. pc' = "device"
            BY <1>7, <5>2 DEF SetFsMagic, Go, AfterMagic
          <6>2. QED
            BY <1>7, <6>1
        <5>3. CASE ~ReadSizes /\ ~CheckZoned /\ ~Defaults /\ ~SetFsMagic
          BY <1>7, <2>2, <4>1, <5>3 DEF Preparing, ParseOption, ShowHelp, RejectOptions,
             AcceptOptions, CallFails, OpenFile, InitDev, InitBdev, InitZnsDev,
             InitZoneMap, ZoneMapNotOpened, InitFsManager, ProcfsMissing, Go
        <5>4. QED
          BY <5>1, <5>2, <5>3
      <4>2. CASE Collecting
        BY <1>7, <4>2 DEF Collecting, SkipExtent, CrashOnExtent, RecordExtent, EndOfFile,
           CrashOnNull, Collected, Go
      <4>3. CASE Reporting
        BY <1>7, <4>3 DEF Reporting, ReportHangs, ReportJson, ReportSegments, CrashOnCapacity,
           ReportFiemap, Cleanup, ShowSuperBlock, NoSuperBlock, ShowCheckpoint, NoCheckpoint,
           FindInode, CrashOnInode, ShowInode, Go
      <4>4. CASE Elsewhere
        BY <4>4 DEF Elsewhere, WriteCheckpoint, vars
      <4>5. QED
        BY <4>1, <4>2, <4>3, <4>4, Phases
    <3>2. QED
      BY <1>1, <1>7, <2>2, <3>1 DEF TableOK
  <2>3. QED
    BY <2>1, <2>2
<1>8. \/ fs_manager' = NULL
      \/ /\ fs_manager' = SegmentTable
         /\ system.fs = "F2FS"
         /\ sb'.segment_count_main = Len(system.segments)
  <2>1. CASE InitFsManager
    <3>1. fs_manager' = SegmentTable /\ pc = "procfs" /\ UNCHANGED sb
      BY <2>1 DEF InitFsManager, Go
    <3>2. QED
      BY <3>1 DEF TableOK
  <2>2. CASE UNCHANGED fs_manager
    BY <1>1, <1>4, <2>2 DEF TableOK
  <2>3. QED
    BY <1>1, <2>1, <2>2
<1>9. QED
  BY <1>1, <1>2, <1>5, <1>6, <1>7, <1>8 DEF TableOK

TablesInv == TableOK /\ PacksOK /\ TodoOK

LEMMA InitTables ==
  ASSUME ToolsAssumption, Init
  PROVE  TablesInv
<1>1. MaxCheckpoints \in Nat
  BY DEF ToolsAssumption
<1>2. PacksOK
  BY <1>1 DEF Init, PacksOK
<1>3. TodoOK
  BY FilesOnDevices DEF Init, TodoOK
<1>4. TableOK
  BY DEF Init, TableOK, EmptySb, SbType
<1>5. QED
  BY <1>2, <1>3, <1>4 DEF TablesInv

-----------------------------------------------------------------------------
(* The extents recorded.                                                   *)

(* Blocks of the file system's addresses in a segment.                     *)
SegmentBlocks == IF system.sector = 512 THEN 4096 ELSE 512

(* An entry of the segment table.                                          *)
InfoAt(segment) ==
  [id |-> segment, type |-> system.segments[segment + 1].type,
   valid_blocks |-> system.segments[segment + 1].valid_blocks]

ExtentOK(x) ==
  /\ x \in ExtentType
  /\ x.info # NoFsInfo =>
       /\ x.info = InfoAt(x.phy_blk \div SegmentBlocks)
       /\ x.info.id = x.phy_blk \div SegmentBlocks
       /\ x.info.id < Len(system.segments)

ExtentsOK == \A k \in DOMAIN extents : ExtentOK(extents[k])

(* A byte within so many segments is in one of them.                       *)
LEMMA SegmentOfByte ==
  ASSUME NEW q \in Nat, NEW n \in Nat, q < n * F2FS_SEGMENT_BYTES
  PROVE  /\ (q \div 512) \div 4096 \in 0 .. n - 1
         /\ (q \div 4096) \div 512 \in 0 .. n - 1
<1>1. q < 2097152 * n
  BY SMT DEF F2FS_SEGMENT_BYTES
<1>2. (q \div 512) \div 4096 \in 0 .. n - 1
  BY <1>1, SMT
<1>3. (q \div 4096) \div 512 \in 0 .. n - 1
  BY <1>1, SMT
<1>4. QED
  BY <1>2, <1>3

Shifts == {0, 3, 9, 12}

LEMMA Shifted ==
  ASSUME NEW x \in Nat, NEW s \in Shifts
  PROVE  /\ x \div 2 ^ s \in Nat
         /\ x * 2 ^ s \in Nat
<1>1. CASE s = 0
  BY <1>1, Powers
<1>2. CASE s = 3
  BY <1>2, Powers
<1>3. CASE s = 9
  BY <1>3, Powers
<1>4. CASE s = 12
  BY <1>4, Powers
<1>5. QED
  BY <1>1, <1>2, <1>3, <1>4 DEF Shifts

LEMMA ElementTyped ==
  ASSUME NEW S, NEW s \in Seq(S), NEW k \in 1 .. Len(s)
  PROVE  s[k] \in S
OBVIOUS

Recordable ==
  /\ pc = "collect"
  /\ InFile
  /\ ~Excluded(NextExtent)
  /\ ~CannotRecord

LEMMA NextOnDevices ==
  ASSUME TodoOK, InFile
  PROVE  NextExtent \in OnDevices
<1>1. PICK S : S = OnDevices
  OBVIOUS
<1>2. todo \in Seq(Seq(S)) /\ todo # <<>> /\ Head(todo) # <<>>
  BY <1>1 DEF TodoOK, InFile
<1>3. Head(todo) \in Seq(S)
  BY <1>2, HeadTyped
<1>4. Head(Head(todo)) \in S
  BY <1>2, <1>3, HeadTyped
<1>5. QED
  BY <1>1, <1>4 DEF NextExtent

(* The numbers of an extent.                                               *)
LEMMA NumbersOfNext ==
  ASSUME ControlAssumption, ToolsAssumption, Typed, GeometryInv, TablesInv, Recordable
  PROVE  LET phy_blk == (NextExtent.physical - ctrl.offset) \div 2 ^ ctrl.sector_shift
         IN  /\ NextExtent.physical \in Nat
             /\ ctrl.offset \in Nat
             /\ ctrl.offset <= NextExtent.physical
             /\ phy_blk \in Nat
             /\ NextExtent.length \div 2 ^ ctrl.sector_shift \in Nat
             /\ GetZoneNumber(ctrl, ToKernel(ctrl, phy_blk)) \in Nat
<1> DEFINE phy_blk == (NextExtent.physical - ctrl.offset) \div 2 ^ ctrl.sector_shift
<1>1. NextExtent \in OnDevices
  BY NextOnDevices DEF TablesInv, Recordable
<1>2. NextExtent.physical \in Nat /\ NextExtent.length \in Nat
  BY <1>1 DEF OnDevices
<1>3. /\ ctrl.offset \in Nat
      /\ ctrl.sector_shift \in Shifts
      /\ ctrl.zns_sector_shift \in Shifts
      /\ ctrl.znsdev \in BdevType
  <2>1. ctrl \in ControlType
    BY DEF GeometryInv
  <2>2. ctrl.offset \in Nat /\ ctrl.znsdev \in BdevType
    BY <2>1 DEF ControlType
  <2>3. ctrl.sector_shift \in {0, 9, 12} /\ ctrl.zns_sector_shift \in {0, 3}
    BY <2>1 DEF ControlType
  <2>4. QED
    BY <2>2, <2>3 DEF Shifts
<1>4. ctrl.offset <= NextExtent.physical
  BY <1>2, <1>3 DEF Recordable, Excluded
<1>5. NextExtent.physical - ctrl.offset \in Nat
  BY <1>2, <1>3, <1>4
<1> DEFINE moved == NextExtent.physical - ctrl.offset
           length == NextExtent.length
           shift == ctrl.sector_shift
           zns_shift == ctrl.zns_sector_shift
<1>11. moved \in Nat /\ length \in Nat /\ shift \in Shifts /\ zns_shift \in Shifts
  BY <1>2, <1>3, <1>5
<1> HIDE DEF moved, length, shift, zns_shift
<1>12. moved \div 2 ^ shift \in Nat /\ length \div 2 ^ shift \in Nat
  BY <1>11, Shifted, ZenonT(30)
<1>6. phy_blk \in Nat
  BY <1>12 DEF moved, shift
<1>7. NextExtent.length \div 2 ^ ctrl.sector_shift \in Nat
  BY <1>12 DEF length, shift
<1> HIDE DEF phy_blk
<1>8. GetZoneNumber(ctrl, ToKernel(ctrl, phy_blk)) \in Nat
  <2>1. PICK lba \in Nat : lba = ToKernel(ctrl, phy_blk)
    <3>1. phy_blk * 2 ^ zns_shift \in Nat
      BY <1>6, <1>11, Shifted, ZenonT(30)
    <3>2. QED
      BY <3>1 DEF ToKernel, zns_shift
  <2>2. PICK off \in Nat : off = lba % Word
    BY DEF ControlAssumption
  <2>3. ctrl.znsdev.zone_size \in Nat \ {0}
    BY <1>3 DEF BdevType, Recordable, CannotRecord
  <2>4. PICK size \in Nat \ {0} : size = ToKernel(ctrl, ctrl.znsdev.zone_size)
    <3>1. /\ ctrl.znsdev.zone_size * 2 ^ ctrl.zns_sector_shift \in Nat
          /\ ctrl.znsdev.zone_size * 2 ^ ctrl.zns_sector_shift # 0
      <4>1. PICK x \in Nat : x = ctrl.znsdev.zone_size /\ x # 0
        BY <2>3
      <4>2. CASE ctrl.zns_sector_shift = 0
        BY <4>1, <4>2, Powers
      <4>3. CASE ctrl.zns_sector_shift = 3
        BY <4>1, <4>3, Powers
      <4>4. ctrl.zns_sector_shift \in {0, 3}
        BY DEF GeometryInv, ControlType
      <4>5. QED
        BY <4>2, <4>3, <4>4
    <3>2. QED
      BY <3>1 DEF ToKernel
  <2>5. off \div size \in Nat
    OBVIOUS
  <2>6. QED
    BY <2>1, <2>2, <2>4, <2>5, Zenon DEF GetZoneNumber
<1>9. QED
  BY <1>2, <1>3, <1>4, <1>6, <1>7, <1>8 DEF phy_blk

LEMMA SystemSegments ==
  ASSUME ToolsAssumption, NEW s \in Systems
  PROVE  s.segments \in Seq([type : SegmentTypes, valid_blocks : Nat])
<1>1. s \in SystemType
  BY DEF ToolsAssumption
<1>2. QED
  BY <1>1 DEF SystemType

(* The segment information of an extent.                                   *)
LEMMA InfoOfNext ==
  ASSUME ControlAssumption, ToolsAssumption, Typed, GeometryInv, TablesInv, Recordable,
         ctrl.fs_info_bytes > 0
  PROVE  LET phy_blk == (NextExtent.physical - ctrl.offset) \div 2 ^ ctrl.sector_shift
         IN  /\ FsInfo(FsSegment(phy_blk)) \in SegmentInfoType
             /\ FsInfo(FsSegment(phy_blk)) = InfoAt(phy_blk \div SegmentBlocks)
             /\ FsInfo(FsSegment(phy_blk)).id = phy_blk \div SegmentBlocks
             /\ FsInfo(FsSegment(phy_blk)).id < Len(system.segments)
<1> DEFINE phy_blk == (NextExtent.physical - ctrl.offset) \div 2 ^ ctrl.sector_shift
<1>1. fs_manager = SegmentTable /\ system.fs = "F2FS"
  BY DEF Recordable, CannotRecord, TablesInv, TableOK
<1>2. SectorsOK /\ SizesOK
  BY <1>1 DEF Recordable, GeometryInv, AfterZns, AfterSizes, Mapped, Sized
<1>3. /\ system.sector \in {512, 4096}
      /\ system.conv_bytes \in Nat
      /\ system.main_blkaddr * F2FS_BLKSIZE \in Nat
      /\ system.main_blkaddr * F2FS_BLKSIZE <= system.conv_bytes
      /\ system.conv_bytes + system.nr_zones * system.zone_sectors * 512 < Word64 - 1
      /\ system.segments \in Seq([type : SegmentTypes, valid_blocks : Nat])
  <2>1. system.main_blkaddr \in Nat
    BY SystemTyped DEF Typed
  <2>2. system.main_blkaddr * F2FS_BLKSIZE \in Nat
    BY <2>1 DEF F2FS_BLKSIZE
  <2>3. QED
    <3>1. /\ system.sector \in {512, 4096}
          /\ system.conv_bytes \in Nat
      BY SystemInteger
    <3>2. system.main_blkaddr * F2FS_BLKSIZE <= system.conv_bytes
      BY SystemTyped DEF Typed
    <3>3. system.conv_bytes + system.nr_zones * system.zone_sectors * 512 < Word64 - 1
      BY SystemTyped DEF Typed
    <3>4. system \in Systems
      BY DEF Typed
    <3>5. system.segments \in Seq([type : SegmentTypes, valid_blocks : Nat])
      BY <3>4, SystemSegments, ZenonT(30)
    <3>6. QED
      BY <2>2, <3>1, <3>2, <3>3, <3>5
<1>4. /\ NextExtent.physical \in Nat
      /\ ctrl.offset <= NextExtent.physical
      /\ NextExtent.physical < system.conv_bytes + system.nr_zones * system.zone_sectors * 512
      /\ NextExtent.physical < system.main_blkaddr * F2FS_BLKSIZE
                                 + Len(system.segments) * F2FS_SEGMENT_BYTES
  <2>1. NextExtent \in OnDevices
    BY NextOnDevices DEF TablesInv, Recordable
  <2>2. NextExtent.physical \in Nat /\ ctrl.offset <= NextExtent.physical
    BY NumbersOfNext
  <2>3. QED
    BY <1>1, <2>1, <2>2 DEF OnDevices
<1>5. ctrl.offset = system.conv_bytes
  <2>1. PICK zoned : zoned = system.nr_zones * system.zone_sectors * 512
    OBVIOUS
  <2>2. zoned \in Nat
    <3>1. system.nr_zones \in Nat /\ system.zone_sectors \in Nat
      BY SystemInteger
    <3>2. PICK all \in Nat : all = system.nr_zones * system.zone_sectors
      BY <3>1
    <3>3. QED
      BY <2>1, <3>2
  <2>3. ctrl.offset # Word64 - 1
    BY <1>3, <1>4, <2>1, <2>2 DEF ControlAssumption
  <2>4. QED
    BY <1>2, <2>3 DEF SizesOK
<1> DEFINE n == Len(system.segments)
<1>6. n \in Nat
  BY <1>3
<1> DEFINE q == NextExtent.physical - system.conv_bytes
<1>7. q \in Nat /\ q < n * F2FS_SEGMENT_BYTES
  <2>1. PICK all \in Int : all = n * F2FS_SEGMENT_BYTES
    BY <1>6 DEF F2FS_SEGMENT_BYTES
  <2>2. PICK base \in Nat : /\ base = system.main_blkaddr * F2FS_BLKSIZE
                           /\ base <= system.conv_bytes
    BY <1>3
  <2>3. NextExtent.physical < base + all
    BY <1>4, <2>1, <2>2
  <2>4. /\ NextExtent.physical \in Nat
        /\ system.conv_bytes \in Nat
        /\ system.conv_bytes <= NextExtent.physical
    BY <1>3, <1>4, <1>5
  <2>5. q \in Nat /\ q < all
    BY <2>2, <2>3, <2>4
  <2>6. QED
    BY <2>1, <2>5
<1>8. FsSegment(phy_blk) = phy_blk \div SegmentBlocks /\ FsSegment(phy_blk) \in 0 .. n - 1
  <2>1. /\ (q \div 512) \div 4096 \in 0 .. n - 1
        /\ (q \div 4096) \div 512 \in 0 .. n - 1
    <3> HIDE DEF q, n
    <3>1. QED
      BY <1>6, <1>7, SegmentOfByte
  <2>2. CASE system.sector = 512
    <3>1. phy_blk = q \div 512
      BY <1>2, <1>5, <2>2, Powers DEF SectorsOK
    <3> HIDE DEF phy_blk, q, n
    <3>2. FsSegment(phy_blk) = phy_blk \div 4096 /\ SegmentBlocks = 4096
      BY <1>2, <2>2, Powers DEF SectorsOK, FsSegment, SegmentIndex, SegmentBlocks
    <3>3. QED
      BY <2>1, <3>1, <3>2
  <2>3. CASE system.sector = 4096
    <3>1. phy_blk = q \div 4096
      BY <1>2, <1>5, <2>3, Powers DEF SectorsOK
    <3> HIDE DEF phy_blk, q, n
    <3>2. FsSegment(phy_blk) = phy_blk \div 512 /\ SegmentBlocks = 512
      BY <1>2, <2>3, Powers DEF SectorsOK, FsSegment, SegmentIndex, SegmentBlocks
    <3>3. QED
      BY <2>1, <3>1, <3>2
  <2>4. QED
    BY <1>3, <2>2, <2>3
<1>9. ASSUME NEW k \in 0 .. n - 1
      PROVE  /\ FsInfo(k) \in SegmentInfoType
             /\ FsInfo(k) = InfoAt(k)
             /\ FsInfo(k).id = k
             /\ k < Len(system.segments)
  <2>0. FsInfo(k) = InfoAt(k)
    BY <1>1 DEF FsInfo, SegmentTable, InfoAt
  <2>1. FsInfo(k) = [id |-> k, type |-> system.segments[k + 1].type,
                     valid_blocks |-> system.segments[k + 1].valid_blocks]
    BY <2>0 DEF InfoAt
  <2>2. k + 1 \in 1 .. n /\ k \in Nat
    BY <1>6
  <2>3. system.segments[k + 1] \in [type : SegmentTypes, valid_blocks : Nat]
    <3>1. PICK S : S = [type : SegmentTypes, valid_blocks : Nat]
      BY ZenonT(30)
    <3>2. system.segments \in Seq(S)
      BY <1>3, <3>1
    <3>3. system.segments[k + 1] \in S
      BY <2>2, <3>2, ElementTyped
    <3>4. QED
      BY <3>1, <3>3, Zenon
  <2>4. FsInfo(k) \in SegmentInfoType /\ FsInfo(k).id = k
    BY <2>1, <2>2, <2>3 DEF SegmentInfoType
  <2>5. k < Len(system.segments)
    BY <1>6
  <2>6. QED
    BY <2>0, <2>4, <2>5
<1>10. PICK segment : segment = FsSegment(phy_blk)
  OBVIOUS
<1>11. segment \in 0 .. n - 1 /\ segment = phy_blk \div SegmentBlocks
  BY <1>8, <1>10
<1>12. /\ FsInfo(segment) \in SegmentInfoType
       /\ FsInfo(segment) = InfoAt(segment)
       /\ FsInfo(segment).id = segment
       /\ segment < Len(system.segments)
  BY <1>9, <1>11
<1> HIDE DEF phy_blk, n, q
<1>13. /\ FsInfo(FsSegment(phy_blk)) \in SegmentInfoType
       /\ FsInfo(FsSegment(phy_blk)) = InfoAt(phy_blk \div SegmentBlocks)
       /\ FsInfo(FsSegment(phy_blk)).id = phy_blk \div SegmentBlocks
       /\ FsInfo(FsSegment(phy_blk)).id < Len(system.segments)
  <2>1. segment = phy_blk \div SegmentBlocks
    BY <1>11
  <2>2. FsInfo(FsSegment(phy_blk)) = FsInfo(segment)
    BY <1>10, Zenon
  <2>3. /\ FsInfo(FsSegment(phy_blk)) \in SegmentInfoType
        /\ FsInfo(FsSegment(phy_blk)) = InfoAt(segment)
        /\ FsInfo(FsSegment(phy_blk)).id = segment
    BY <1>12, <2>2, Zenon
  <2>4. FsInfo(FsSegment(phy_blk)).id < Len(system.segments)
    BY <1>12, <2>3, Zenon
  <2>5. QED
    BY <2>1, <2>3, <2>4, Zenon
<1>14. QED
  BY <1>13 DEF phy_blk

LEMMA StepExtents ==
  ASSUME ControlAssumption, ToolsAssumption, IInv, GeometryInv, TablesInv, ExtentsOK,
         [Next]_vars
  PROVE  ExtentsOK'
<1>1. UNCHANGED system /\ (UNCHANGED extents \/ RecordExtent)
  BY Frames DEF Frame, IInv
<1>2. SegmentBlocks' = SegmentBlocks
  BY <1>1 DEF SegmentBlocks
<1>3. CASE UNCHANGED extents
  BY <1>1, <1>2, <1>3 DEF ExtentsOK, ExtentOK, InfoAt
<1>4. CASE RecordExtent
  <2>1. PICK zone_read \in BOOLEAN :
          extents' = Append(extents, Extent(NextExtent, CapacityTold(zone_read)))
    BY <1>4 DEF RecordExtent
  <2>2. Recordable
    BY <1>4 DEF RecordExtent, Recordable, Go
  <2>3. CapacityTold(zone_read) \in Nat
    <3>1. ctrl.zns_sector_shift \in Shifts
      <4>1. ctrl \in ControlType
        BY DEF GeometryInv
      <4>2. ctrl.zns_sector_shift \in {0, 3}
        BY <4>1 DEF ControlType
      <4>3. QED
        BY <4>2 DEF Shifts
    <3>2. system.zone_cap \in Nat
      BY SystemInteger DEF IInv
    <3> DEFINE cap == system.zone_cap
               shift == ctrl.zns_sector_shift
    <3>6. cap \in Nat /\ shift \in Shifts
      BY <3>1, <3>2
    <3> HIDE DEF cap, shift
    <3>7. cap \div 2 ^ shift \in Nat
      BY <3>6, Shifted
    <3>3. system.zone_cap \div 2 ^ ctrl.zns_sector_shift \in Nat
      BY <3>7 DEF cap, shift
    <3>4. QED
      BY <3>3 DEF CapacityTold, ToDevice
  <2>4. PICK cap \in Nat : cap = CapacityTold(zone_read)
    BY <2>3
  <2>5. PICK x : x = Extent(NextExtent, cap)
    OBVIOUS
  <2>6. ExtentOK(x)
    <3> DEFINE phy_blk == (NextExtent.physical - ctrl.offset) \div 2 ^ ctrl.sector_shift
               length == NextExtent.length \div 2 ^ ctrl.sector_shift
               zone == GetZoneNumber(ctrl, ToKernel(ctrl, phy_blk))
               info == IF ctrl.fs_info_bytes > 0 THEN FsInfo(FsSegment(phy_blk)) ELSE NoFsInfo
    <3>1. phy_blk \in Nat /\ length \in Nat /\ zone \in Nat
      BY <2>2, NumbersOfNext DEF IInv
    <3>2. /\ info \in SegmentInfoType \cup {NoFsInfo}
          /\ info # NoFsInfo =>
               /\ info = InfoAt(phy_blk \div SegmentBlocks)
               /\ info.id = phy_blk \div SegmentBlocks
               /\ info.id < Len(system.segments)
      <4>1. CASE ctrl.fs_info_bytes > 0
        <5>1. /\ FsInfo(FsSegment(phy_blk)) \in SegmentInfoType
              /\ FsInfo(FsSegment(phy_blk)) = InfoAt(phy_blk \div SegmentBlocks)
              /\ FsInfo(FsSegment(phy_blk)).id = phy_blk \div SegmentBlocks
              /\ FsInfo(FsSegment(phy_blk)).id < Len(system.segments)
          BY <2>2, <4>1, InfoOfNext DEF IInv
        <5>2. QED
          BY <4>1, <5>1, Zenon
      <4>2. CASE ~(ctrl.fs_info_bytes > 0)
        BY <4>2
      <4>3. QED
        BY <4>1, <4>2
    <3>3. x = [phy_blk |-> phy_blk, len |-> length, zone |-> zone, zone_cap |-> cap,
               info |-> info]
      BY <2>5 DEF Extent
    <3> HIDE DEF phy_blk, length, zone, info
    <3>4. x \in ExtentType
      BY <3>1, <3>2, <3>3 DEF ExtentType
    <3>5. x.info = info /\ x.phy_blk = phy_blk
      BY <3>3
    <3>6. QED
      BY <3>2, <3>4, <3>5 DEF ExtentOK
  <2>7. extents' = Append(extents, x)
    BY <2>1, <2>4, <2>5, Zenon
  <2>8. ASSUME NEW k \in DOMAIN extents'
        PROVE  ExtentOK(extents'[k])
    <3>1. PICK S : extents \in Seq(S)
      BY DEF IInv, CrashInv
    <3>2. \/ k \in DOMAIN extents /\ extents'[k] = extents[k]
          \/ extents'[k] = x
      BY <2>7, <2>8, <3>1
    <3>3. QED
      BY <2>6, <3>2 DEF ExtentsOK
  <2>9. QED
    BY <1>1, <1>2, <2>8 DEF ExtentsOK, ExtentOK, InfoAt
<1>5. QED
  BY <1>1, <1>3, <1>4

ToolsInv == IInv /\ GeometryInv /\ TablesInv /\ ExtentsOK

LEMMA ToolsInvariant == Spec => []ToolsInv
<1>1. Init => ToolsInv
  <2>1. Init => ExtentsOK
    BY DEF Init, ExtentsOK
  <2>2. QED
    BY <2>1, ControlAssumption, ToolsAssumption, InitIInv, InitGeometry, InitTables DEF ToolsInv
<1>2. ToolsInv /\ [Next]_vars => ToolsInv'
  <2> SUFFICES ASSUME ToolsInv, [Next]_vars
               PROVE  ToolsInv'
    OBVIOUS
  <2>1. IInv' /\ GeometryInv'
    BY ControlAssumption, ToolsAssumption, StepTyped, StepCrashInv, StepGeometry
       DEF IInv, ToolsInv
  <2>2. TablesInv'
    BY ToolsAssumption, StepTable, StepPacks, StepTodo DEF IInv, ToolsInv, TablesInv
  <2>3. ExtentsOK'
    BY ControlAssumption, ToolsAssumption, StepExtents DEF ToolsInv
  <2>4. QED
    BY <2>1, <2>2, <2>3 DEF ToolsInv
<1>3. QED
  BY <1>1, <1>2, PTL DEF Spec

(* If the main area starts with the zoned device, the segments of both are *)
(* counted from there.                                                     *)
LEMMA InfoFollows ==
  ASSUME ToolsAssumption, Typed, ExtentsOK
  PROVE  SegmentInfoOfMainArea
<1>1. ASSUME NEW k \in DOMAIN extents, extents[k].info # NoFsInfo
      PROVE  extents[k].info.id < Len(system.segments)
  BY <1>1 DEF ExtentsOK, ExtentOK
<1>2. ASSUME system.main_blkaddr * F2FS_BLKSIZE = system.conv_bytes,
             NEW k \in DOMAIN extents, extents[k].info # NoFsInfo
      PROVE  HasItsOwnInfo(extents[k])
  <2>1. PICK blk \in Nat : blk = extents[k].phy_blk
    BY DEF ExtentsOK, ExtentOK, ExtentType
  <2>2. PICK sector \in {512, 4096} : sector = system.sector
    BY SystemInteger
  <2>3. PICK blocks : blocks = SegmentBlocks
    OBVIOUS
  <2>4. extents[k].info = InfoAt(blk \div blocks)
    BY <1>2, <2>1, <2>3 DEF ExtentsOK, ExtentOK
  <2>5. PICK conv \in Nat : conv = system.conv_bytes /\ conv = system.main_blkaddr * F2FS_BLKSIZE
    BY <1>2, SystemInteger
  <2>6. MainSegment(extents[k]) = (conv + blk * sector - conv) \div F2FS_SEGMENT_BYTES
    BY <2>1, <2>2, <2>5 DEF MainSegment
  <2>7. (conv + blk * sector - conv) \div F2FS_SEGMENT_BYTES = blk \div blocks
    <3>1. CASE sector = 512
      <4>1. blocks = 4096
        BY <2>2, <2>3, <3>1 DEF SegmentBlocks
      <4>2. conv + blk * 512 - conv = blk * 512
        OBVIOUS
      <4>3. (blk * 512) \div 2097152 = blk \div 4096
        BY SMT
      <4>4. QED
        BY <3>1, <4>1, <4>2, <4>3 DEF F2FS_SEGMENT_BYTES
    <3>2. CASE sector = 4096
      <4>1. blocks = 512
        BY <2>2, <2>3, <3>2 DEF SegmentBlocks
      <4>2. conv + blk * 4096 - conv = blk * 4096
        OBVIOUS
      <4>3. (blk * 4096) \div 2097152 = blk \div 512
        BY SMT
      <4>4. QED
        BY <3>2, <4>1, <4>2, <4>3 DEF F2FS_SEGMENT_BYTES
    <3>3. QED
      BY <3>1, <3>2
  <2>8. PICK segment : segment = MainSegment(extents[k])
    OBVIOUS
  <2>9. extents[k].info = InfoAt(segment)
    BY <2>4, <2>6, <2>7, <2>8
  <2>10. HasItsOwnInfo(extents[k]) <=> extents[k].info = InfoAt(MainSegment(extents[k]))
    BY DEF HasItsOwnInfo, InfoAt
  <2>11. QED
    BY <2>8, <2>9, <2>10
<1>3. QED
  BY <1>1, <1>2 DEF SegmentInfoOfMainArea, SegmentInfoIsItsOwn

(* Whatever is skipped, fails or was read before, the information recorded *)
(* with an extent is in the table, and is that of its own segment if the   *)
(* main area starts with the zoned device.                                 *)
THEOREM SegmentInfo == Spec => []SegmentInfoOfMainArea
<1>1. ToolsInv => SegmentInfoOfMainArea
  BY ToolsAssumption, InfoFollows DEF ToolsInv, IInv
<1>2. QED
  BY <1>1, ToolsInvariant, PTL

-----------------------------------------------------------------------------
(* What zns.imap prints.                                                   *)

InodeSector == ((system.inode_blkaddr * F2FS_BLKSIZE) % Word) \div system.sector

KnownShift == ctrl.zns_sector_shift = IF system.sector = 4096 THEN 3 ELSE 0

EntryOK(x) ==
  /\ x.kind = "checkpoint" => x.version \in {x.newest, x.newest - 1}
  /\ x.kind = "inode" =>
       /\ x.pbas = InodeSector
       /\ x.zone = (InodeSector % Word) \div system.zone_sectors
       /\ KnownShift

ShowingInode == pc = "show_inode"

PrintedOK ==
  /\ ShowingInode => system.fs = "F2FS" /\ ctrl.znsdev.zone_size # 0
  /\ \E S : printed \in Seq(S)
  /\ \A k \in DOMAIN printed : EntryOK(printed[k])

(* Once the shift is that of the sectors, no step takes it back.           *)
LEMMA KeepsShift ==
  ASSUME ToolsAssumption, Typed, [Next]_vars, KnownShift
  PROVE  KnownShift'
<1>1. UNCHANGED system
  BY Frames DEF Frame
<1>2. \/ ctrl'.zns_sector_shift = ctrl.zns_sector_shift
      \/ ctrl'.zns_sector_shift = IF system.sector = 4096 THEN 3 ELSE ctrl.zns_sector_shift
  BY CtrlSteps, Zenon DEF Same, InitsDevice, ReadsSizes, NeedsTable
<1>3. QED
  BY <1>1, <1>2 DEF KnownShift

LEMMA Magic ==
  ASSUME ToolsAssumption, Typed
  PROVE  AfterMagic = "device" \/ AfterMagic = "zns" \/ AfterMagic = "defaults"
BY SystemTyped DEF Typed, AfterMagic

LEMMA FoundInode ==
  ASSUME ToolsAssumption, Typed, [Next]_vars, ShowingInode'
  PROVE  FindInode \/ ShowingInode
<1> USE DEF ShowingInode, Go
<1>1. CASE Preparing
  <2>1. CASE ReadSizes \/ CheckZoned \/ Defaults \/ SetFsMagic
    <3>1. ReadSizes => pc' = "procfs" \/ pc' = "defaults"
      BY Zenon DEF ReadSizes
    <3>2. CheckZoned => pc' = "error" \/ pc' = "sizes"
      BY Zenon DEF CheckZoned
    <3>3. Defaults => pc' = "superblock" \/ pc' = "collect"
      BY Zenon DEF Defaults
    <3>4. SetFsMagic => pc' = "device" \/ pc' = "zns" \/ pc' = "defaults"
      BY Magic, Zenon DEF SetFsMagic
    <3>5. QED
      BY <2>1, <3>1, <3>2, <3>3, <3>4, Zenon
  <2>2. CASE ~ReadSizes /\ ~CheckZoned /\ ~Defaults /\ ~SetFsMagic
    BY <1>1, <2>2, Zenon DEF Preparing, ParseOption, ShowHelp, RejectOptions,
       AcceptOptions, CallFails, OpenFile, InitDev, ReadSuperBlock, InitBdev, InitZnsDev,
       InitZoneMap, ZoneMapNotOpened, InitFsManager, ProcfsMissing
  <2>3. QED
    BY <2>1, <2>2, Zenon
<1>2. CASE Collecting
  <2>1. Collected => pc' = "cleanup" \/ pc' = "report"
    BY Zenon DEF Collected
  <2>2. QED
    BY <1>2, <2>1, Zenon DEF Collecting, SkipExtent, CrashOnExtent, RecordExtent, EndOfFile,
       CrashOnNull
<1>3. CASE Reporting
  BY <1>3, Zenon DEF Reporting, ReportHangs, ReportJson, ReportSegments, CrashOnCapacity,
     ReportFiemap, Cleanup, ShowSuperBlock, NoSuperBlock, ShowCheckpoint, NoCheckpoint,
     CrashOnInode, ShowInode
<1>4. CASE Elsewhere
  BY <1>4, Zenon DEF Elsewhere, WriteCheckpoint, vars
<1>5. QED
  BY <1>1, <1>2, <1>3, <1>4, Phases, Zenon

(* The inode is shown where the control structure describes the devices.   *)
LEMMA InodeEntry ==
  ASSUME ControlAssumption, ToolsAssumption, Typed, GeometryInv, PrintedOK, ShowingInode
  PROVE  /\ KnownShift
         /\ InodeLba = InodeSector
         /\ GetZoneNumber(ctrl, InodeLba) = (InodeSector % Word) \div system.zone_sectors
<1>1. system.fs = "F2FS" /\ ctrl.znsdev.zone_size # 0
  BY DEF PrintedOK
<1>2. SectorsOK /\ SizesOK
  <2>1. pc \in AfterZns /\ pc \in AfterSizes
    BY Zenon DEF ShowingInode, AfterZns, AfterSizes, Mapped, Sized
  <2>2. QED
    BY <1>1, <2>1 DEF GeometryInv
<1>3. KnownShift
  BY <1>2 DEF SectorsOK, KnownShift
<1>4. system.sector \in {512, 4096}
  BY SystemInteger
<1>5. 2 ^ ctrl.sector_shift = system.sector
  BY <1>2, <1>4, Powers DEF SectorsOK
<1>6. InodeLba = InodeSector
  BY <1>5, Zenon DEF InodeLba, InodeSector
<1>7. ToKernel(ctrl, ctrl.znsdev.zone_size) = system.zone_sectors
  <2>1. ctrl.znsdev.zone_size = OnDevice(system.zone_sectors)
    BY <1>1, <1>2, Zenon DEF SizesOK
  <2>2. 2 ^ ctrl.zns_sector_shift = IF system.sector = 4096 THEN 8 ELSE 1
    BY <1>3, <1>4, Powers DEF KnownShift
  <2>3. OnDevice(system.zone_sectors) * (IF system.sector = 4096 THEN 8 ELSE 1)
          = system.zone_sectors
    BY WholeSectors
  <2>4. CASE system.sector = 4096
    BY <2>1, <2>2, <2>3, <2>4 DEF ToKernel
  <2>5. CASE system.sector # 4096
    BY <2>1, <2>2, <2>3, <2>5 DEF ToKernel
  <2>6. QED
    BY <2>4, <2>5
<1>8. QED
  BY <1>3, <1>6, <1>7, Zenon DEF GetZoneNumber

NoneFound == "none_found"

LEMMA StepEntry ==
  ASSUME ControlAssumption, ToolsAssumption, Typed, GeometryInv, TablesInv, PrintedOK,
         [Next]_vars
  PROVE  \/ UNCHANGED printed
         \/ \E x : printed' = Append(printed, x) /\ EntryOK(x)
<1>1. CASE EndOfFile \/ ReportJson \/ ReportSegments \/ ReportFiemap \/ ShowSuperBlock
  <2>1. \/ UNCHANGED printed
        \/ \E x : /\ printed' = Append(printed, x)
                  /\ x.kind # "checkpoint" /\ x.kind # "inode"
    <3>1. CASE EndOfFile
      <4> DEFINE x == [kind |-> NoneFound]
      <4>1. UNCHANGED printed \/ printed' = Append(printed, x)
        BY <3>1, Zenon DEF EndOfFile, NoneFound
      <4>2. NoneFound # "checkpoint" /\ NoneFound # "inode"
        BY Zenon DEF NoneFound
      <4>3. x.kind # "checkpoint" /\ x.kind # "inode"
        BY <4>2
      <4>4. QED
        BY <4>1, <4>3
    <3>2. CASE ReportJson
      <4>1. PICK shown : \/ UNCHANGED printed
                         \/ printed' = Append(printed, [kind |-> "json", info |-> JsonInfo(ctrl),
                                                         shown |-> shown])
        BY <3>2, Zenon DEF ReportJson, ShowsJson, Show
      <4> DEFINE x == [kind |-> "json", info |-> JsonInfo(ctrl), shown |-> shown]
      <4>2. x.kind # "checkpoint" /\ x.kind # "inode"
        OBVIOUS
      <4>3. QED
        BY <4>1, <4>2
    <3>3. CASE ReportSegments
      BY <3>3 DEF ReportSegments, Show
    <3>4. CASE ReportFiemap
      BY <3>4 DEF ReportFiemap, Show
    <3>5. CASE ShowSuperBlock
      BY <3>5 DEF ShowSuperBlock, Show
    <3>6. QED
      BY <1>1, <3>1, <3>2, <3>3, <3>4, <3>5
  <2>2. QED
    BY <2>1 DEF EntryOK
<1>2. CASE ShowCheckpoint
  <2> DEFINE x == [kind |-> "checkpoint", version |-> PackRead, newest |-> Newest(packs)]
  <2>1. printed' = Append(printed, x)
    BY <1>2 DEF ShowCheckpoint, Show
  <2>2. PackRead \in {Newest(packs), Newest(packs) - 1}
    <3>1. packs[1] \in Nat /\ packs[2] \in Nat
      BY DEF TablesInv, PacksOK, ToolsAssumption
    <3>2. packs[1] = packs[2] + 1 \/ packs[2] = packs[1] + 1
      BY DEF TablesInv, PacksOK
    <3>3. QED
      BY <3>1, <3>2 DEF PackRead, Newest
  <2>3. EntryOK(x)
    BY <2>2 DEF EntryOK
  <2>4. QED
    BY <2>1, <2>3
<1>3. CASE ShowInode
  <2> DEFINE x == [kind |-> "inode", zone |-> GetZoneNumber(ctrl, InodeLba),
                   pbas |-> InodeLba, pbae |-> InodeLba + F2FS_SECS_PER_BLOCK]
  <2>1. printed' = Append(printed, x) /\ ShowingInode
    BY <1>3, Zenon DEF ShowInode, Show, Go, ShowingInode
  <2>2. EntryOK(x)
    BY <2>1, InodeEntry DEF EntryOK
  <2>3. QED
    BY <2>1, <2>2
<1>4. QED
  BY <1>1, <1>2, <1>3, StepWriters DEF Writers

LEMMA StepPrinted ==
  ASSUME ControlAssumption, ToolsAssumption, Typed, GeometryInv, TablesInv, PrintedOK,
         [Next]_vars
  PROVE  PrintedOK'
<1>1. UNCHANGED system
  BY Frames DEF Frame
<1>2. InodeSector' = InodeSector
  BY <1>1 DEF InodeSector
<1>3. ASSUME NEW x, EntryOK(x)
      PROVE  EntryOK(x)'
  BY <1>1, <1>2, <1>3, KeepsShift DEF EntryOK
<1>4. ShowingInode' => (system.fs = "F2FS" /\ ctrl.znsdev.zone_size # 0)'
  <2>1. CASE FindInode
    BY <2>1, Zenon DEF FindInode, SetNothing, init_vars, outside
  <2>2. CASE ShowingInode
    <3>1. UNCHANGED ctrl
      <4>1. ~ReadSizes /\ ~InitFsManager /\ ~ProcfsMissing /\ ~Defaults
        BY <2>2, Zenon DEF ReadSizes, InitFsManager, ProcfsMissing, Defaults, Go, ShowingInode
      <4>2. pc \in AfterZns
        BY <2>2, Zenon DEF AfterZns, Mapped, ShowingInode
      <4>3. QED
        BY <4>1, <4>2, StepWriters DEF Writers
    <3>2. QED
      BY <1>1, <2>2, <3>1 DEF PrintedOK
  <2>3. QED
    BY <2>1, <2>2, FoundInode
<1>5. PICK S : printed \in Seq(S)
  BY DEF PrintedOK
<1>6. CASE UNCHANGED printed
  <2>1. (\E T : printed \in Seq(T))'
    BY <1>5, <1>6
  <2>2. (\A k \in DOMAIN printed : EntryOK(printed[k]))'
    BY <1>3, <1>6 DEF PrintedOK
  <2>3. QED
    BY <1>4, <2>1, <2>2 DEF PrintedOK
<1>7. CASE \E x : printed' = Append(printed, x) /\ EntryOK(x)
  <2>1. PICK x : printed' = Append(printed, x) /\ EntryOK(x)
    BY <1>7
  <2>2. (\E T : printed \in Seq(T))'
    <3>1. printed \in Seq(S \cup {x})
      BY <1>5, WiderSeq
    <3>2. printed' \in Seq(S \cup {x})
      BY <2>1, <3>1
    <3>3. QED
      BY <3>2
  <2>3. ASSUME NEW k \in DOMAIN printed'
        PROVE  EntryOK(printed'[k])
    <3>1. \/ k \in DOMAIN printed /\ printed'[k] = printed[k]
          \/ printed'[k] = x
      BY <1>5, <2>1, <2>3
    <3>2. QED
      BY <2>1, <3>1 DEF PrintedOK
  <2>4. (\A k \in DOMAIN printed : EntryOK(printed[k]))'
    BY <1>3, <2>3
  <2>5. QED
    BY <1>4, <2>2, <2>4 DEF PrintedOK
<1>8. QED
  BY <1>6, <1>7, StepEntry

ImapInv == ToolsInv /\ PrintedOK

LEMMA ImapInvariant == Spec => []ImapInv
<1>1. Init => PrintedOK
  <2> SUFFICES ASSUME Init
               PROVE  PrintedOK
    OBVIOUS
  <2>1. ~ShowingInode
    BY Zenon DEF Init, ShowingInode
  <2>2. printed = <<>>
    BY Zenon DEF Init
  <2>3. QED
    BY <2>1, <2>2 DEF PrintedOK
<1>2. ToolsInv /\ PrintedOK /\ [Next]_vars => PrintedOK'
  BY ControlAssumption, ToolsAssumption, StepPrinted DEF ToolsInv, IInv
<1>3. QED
  BY <1>1, <1>2, ToolsInvariant, PTL DEF Spec, ImapInv

(* The numbers of an inode as near the start of the zoned device as the    *)
(* first device is long.                                                   *)
LEMMA InodeNumbers ==
  ASSUME ControlAssumption, ToolsAssumption, Typed, KnownShift,
         system.conv_bytes = Word,
         system.inode_blkaddr * F2FS_BLKSIZE - system.conv_bytes \in 0 .. Word - 1
  PROVE  LET bytes == system.inode_blkaddr * F2FS_BLKSIZE - system.conv_bytes
         IN  /\ InodeSector * system.sector = bytes
             /\ (InodeSector % Word) \div system.zone_sectors
                  = (bytes \div (system.zone_sectors * 512)) \div 2 ^ ctrl.zns_sector_shift
<1>1. /\ system.inode_blkaddr \in Nat
      /\ system.main_blkaddr \in Nat
      /\ (system.conv_bytes - system.main_blkaddr * F2FS_BLKSIZE) % F2FS_SEGMENT_BYTES = 0
      /\ Word \in Nat \ {0}
      /\ system.zone_sectors \in Nat \ {0}
      /\ system.sector \in {512, 4096}
  BY SystemTyped DEF Typed, ControlAssumption
<1>2. PICK inode \in Nat : inode = system.inode_blkaddr
  BY <1>1
<1>3. PICK main \in Nat : main = system.main_blkaddr
  BY <1>1
<1>4. PICK w \in Nat \ {0} : w = Word
  BY <1>1
<1>5. PICK z \in Nat \ {0} : z = system.zone_sectors
  BY <1>1
<1>6. PICK ratio \in {1, 8} : ratio = 2 ^ ctrl.zns_sector_shift
                              /\ ratio = IF system.sector = 4096 THEN 8 ELSE 1
  BY <1>1, Powers DEF KnownShift
<1>7. PICK t \in Int : w - main * 4096 = t * F2FS_SEGMENT_BYTES
  <2>1. (w - main * F2FS_BLKSIZE) % F2FS_SEGMENT_BYTES = 0
    BY <1>1, <1>3, <1>4
  <2>2. QED
    BY <2>1, SMT DEF F2FS_SEGMENT_BYTES, F2FS_BLKSIZE
<1>8. PICK bytes \in Nat : bytes = inode * F2FS_BLKSIZE - w /\ bytes < w
  <2>1. inode * F2FS_BLKSIZE - w \in 0 .. w - 1
    BY <1>1, <1>2, <1>4
  <2>2. QED
    BY <2>1
<1>9. PICK c \in Nat : bytes = 4096 * c
  <2>1. PICK c \in Int : c = inode - main - 512 * t
    OBVIOUS
  <2>2. bytes = 4096 * c
    BY <1>7, <1>8, <2>1, SMT DEF F2FS_SEGMENT_BYTES, F2FS_BLKSIZE
  <2>3. c \in Nat
    BY <2>2
  <2>4. QED
    BY <2>2, <2>3
<1>10. (inode * F2FS_BLKSIZE) % w = bytes
  BY <1>8, SMT DEF F2FS_BLKSIZE
<1>11. PICK at \in Nat : /\ at = bytes \div system.sector
                         /\ at * system.sector = bytes
                         /\ at < w
                         /\ at \div z = (bytes \div (z * 512)) \div ratio
  <2>1. CASE system.sector = 512
    <3>1. PICK s \in Nat : s = 8 * c
      OBVIOUS
    <3>2. s = bytes \div 512 /\ s * 512 = bytes /\ s < w
      BY <1>8, <1>9, <3>1
    <3>3. s \div z = (bytes \div (z * 512)) \div 1
      BY <3>2, SMT
    <3>4. ratio = 1
      BY <1>6, <2>1
    <3>5. s \div z = (bytes \div (z * 512)) \div ratio
      BY <3>3, <3>4
    <3>6. QED
      BY <2>1, <3>2, <3>5
  <2>2. CASE system.sector = 4096
    <3>1. c = bytes \div 4096 /\ c * 4096 = bytes /\ c < w
      BY <1>8, <1>9
    <3>2. c \div z = (bytes \div (z * 512)) \div 8
      <4>1. c \div z = ((4096 * c) \div (z * 512)) \div 8
        BY SMT
      <4>2. QED
        BY <1>9, <4>1
    <3>3. ratio = 8
      BY <1>6, <2>2
    <3>4. c \div z = (bytes \div (z * 512)) \div ratio
      BY <3>2, <3>3
    <3>5. QED
      BY <2>2, <3>1, <3>4
  <2>3. QED
    BY <1>1, <2>1, <2>2
<1>12. at % w = at
  <2>1. at \in 0 .. w - 1
    BY <1>11
  <2>2. QED
    BY <2>1, SmallRemainder
<1>13. InodeSector = at
  BY <1>2, <1>4, <1>10, <1>11 DEF InodeSector
<1>14. bytes = system.inode_blkaddr * F2FS_BLKSIZE - system.conv_bytes
  BY <1>2, <1>4, <1>8
<1>15. InodeSector * system.sector = bytes
  BY <1>11, <1>13
<1>16. (InodeSector % Word) \div system.zone_sectors
       = (bytes \div (system.zone_sectors * 512)) \div 2 ^ ctrl.zns_sector_shift
  <2>1. InodeSector % Word = at
    BY <1>4, <1>12, <1>13
  <2>2. at \div system.zone_sectors = at \div z
    BY <1>5
  <2>3. (bytes \div (system.zone_sectors * 512)) \div 2 ^ ctrl.zns_sector_shift
          = (bytes \div (z * 512)) \div ratio
    BY <1>5, <1>6, ZenonT(30)
  <2>4. at \div z = (bytes \div (z * 512)) \div ratio
    BY <1>11
  <2>5. QED
    BY <2>1, <2>2, <2>3, <2>4, ZenonT(30)
<1>17. QED
  BY <1>14, <1>15, <1>16

LEMMA ImapFollows ==
  ASSUME ControlAssumption, ToolsAssumption, Typed, PrintedOK
  PROVE  ImapReport
<1> SUFFICES ASSUME NEW k \in DOMAIN printed
             PROVE  /\ printed[k].kind = "checkpoint" =>
                         printed[k].version \in {printed[k].newest, printed[k].newest - 1}
                    /\ printed[k].kind = "inode" /\ InodeIsAddressed =>
                         /\ printed[k].pbas * system.sector = InodeByteOnZns
                         /\ system.sector = 512 => printed[k].zone = InodeZone
  BY DEF ImapReport
<1>1. EntryOK(printed[k])
  BY DEF PrintedOK
<1>2. CASE printed[k].kind = "checkpoint"
  BY <1>1, <1>2 DEF EntryOK
<1>3. CASE printed[k].kind = "inode" /\ InodeIsAddressed
  <2>1. /\ printed[k].pbas = InodeSector
        /\ printed[k].zone = (InodeSector % Word) \div system.zone_sectors
        /\ KnownShift
    BY <1>1, <1>3 DEF EntryOK
  <2>2. PICK bytes : bytes = InodeByteOnZns
    OBVIOUS
  <2>3. bytes \in Nat
    BY <1>3, <2>2, ControlAssumption DEF InodeIsAddressed, ControlAssumption
  <2>4. PICK zone : zone = InodeZone
    OBVIOUS
  <2>5. zone = bytes \div (system.zone_sectors * 512)
    BY <2>2, <2>4 DEF InodeZone
  <2>6. /\ InodeSector * system.sector = bytes
        /\ (InodeSector % Word) \div system.zone_sectors = zone \div 2 ^ ctrl.zns_sector_shift
    BY <1>3, <2>1, <2>2, <2>5, InodeNumbers DEF InodeIsAddressed, InodeByteOnZns
  <2>7. ASSUME system.sector = 512
        PROVE  printed[k].zone = zone
    <3>1. 2 ^ ctrl.zns_sector_shift = 1
      BY <2>1, <2>7, Powers DEF KnownShift
    <3>2. PICK size \in Nat \ {0} : size = system.zone_sectors * 512
      BY SystemInteger
    <3>3. zone \in Nat
      <4>1. ASSUME NEW m \in Nat, NEW d \in Nat \ {0}
            PROVE  m \div d \in Nat
        BY <4>1
      <4>2. bytes \div size \in Nat
        BY <2>3, <4>1
      <4>3. zone = bytes \div size
        BY <2>5, <3>2, Zenon
      <4>4. QED
        BY <4>2, <4>3
    <3>4. zone \div 1 = zone
      BY <3>3
    <3>5. QED
      BY <2>1, <2>6, <3>1, <3>4
  <2>8. QED
    BY <1>3, <2>1, <2>2, <2>4, <2>6, <2>7
<1>4. QED
  BY <1>2, <1>3

(* Of two checkpoint packs written in turn the one read is the newest or   *)
(* the one before it, and the address of an inode, on sectors of 512 bytes *)
(* also its zone, are right under the conditions of ImapReport, for        *)
(* devices and zones of any size.                                          *)
THEOREM ImapReports == Spec => []ImapReport
<1>1. ImapInv => ImapReport
  BY ControlAssumption, ToolsAssumption, ImapFollows DEF ImapInv, ToolsInv, IInv
<1>2. QED
  BY <1>1, ImapInvariant, PTL

-----------------------------------------------------------------------------
(* The types.                                                              *)

Reads == {"zone_map", "device_size", "zone_size", "number_of_zones", "procfs", "zone_info",
          "json_file"}

StepsOK == pc \in Steps /\ unread \subseteq Reads

LEMMA FailedOf ==
  ASSUME NEW S, NEW what \in S, NEW read
  PROVE  FailedReads(read, what) \subseteq S
BY DEF FailedReads

LEMMA NamesOfReads ==
  /\ "zone_map" \in Reads /\ "device_size" \in Reads /\ "zone_size" \in Reads
  /\ "number_of_zones" \in Reads /\ "procfs" \in Reads /\ "zone_info" \in Reads
  /\ "json_file" \in Reads
BY Zenon DEF Reads

LEMMA StepSteps ==
  ASSUME ToolsAssumption, Typed, StepsOK, [Next]_vars
  PROVE  StepsOK'
<1>1. Steps' = Steps /\ Reads' = Reads
  OBVIOUS
<1>2. pc' \in Steps
  BY StepPaths DEF Paths, StepsOK
<1>3. PICK S : S = Reads
  OBVIOUS
<1>4. unread \subseteq S
  BY <1>3 DEF StepsOK
<1>5. unread' \subseteq S
  <2>1. CASE UNCHANGED unread
    BY <1>4, <2>1
  <2>2. CASE ZoneMapNotOpened
    BY <1>3, <1>4, <2>2, NamesOfReads, Zenon DEF ZoneMapNotOpened
  <2>3. CASE ReadSizes
    <3>1. PICK dev_read \in BOOLEAN, zone_read \in BOOLEAN, nr_read \in BOOLEAN :
            unread' = unread \cup FailedReads(dev_read, "device_size")
                        \cup FailedReads(zone_read, "zone_size")
                        \cup FailedReads(nr_read, "number_of_zones")
      BY <2>3 DEF ReadSizes
    <3>2. FailedReads(dev_read, "device_size") \subseteq S
      BY <1>3, NamesOfReads, FailedOf, Zenon
    <3>3. FailedReads(zone_read, "zone_size") \subseteq S
      BY <1>3, NamesOfReads, FailedOf, Zenon
    <3>4. FailedReads(nr_read, "number_of_zones") \subseteq S
      BY <1>3, NamesOfReads, FailedOf, Zenon
    <3>5. QED
      BY <1>4, <3>1, <3>2, <3>3, <3>4, Zenon
  <2>4. CASE ProcfsMissing
    BY <1>3, <1>4, <2>4, NamesOfReads, ZenonT(30) DEF ProcfsMissing
  <2>5. CASE RecordExtent
    <3>1. PICK zone_read \in BOOLEAN :
            unread' = unread \cup FailedReads(zone_read, "zone_info")
      BY <2>5, ZenonT(30) DEF RecordExtent
    <3>2. FailedReads(zone_read, "zone_info") \subseteq S
      BY <1>3, NamesOfReads, FailedOf, Zenon
    <3>3. QED
      BY <1>4, <3>1, <3>2, Zenon
  <2>6. CASE ReportJson
    <3>1. UNCHANGED unread \/ unread' = unread \cup {"json_file"}
      BY <2>6, Zenon DEF ReportJson, Show, ShowsJson
    <3>2. QED
      BY <1>3, <1>4, <3>1, NamesOfReads, ZenonT(30)
  <2>7. QED
    BY <2>1, <2>2, <2>3, <2>4, <2>5, <2>6, StepWriters, Zenon DEF Writers
<1>6. QED
  BY <1>1, <1>2, <1>3, <1>5, Zenon DEF StepsOK

LEMMA StepsInvariant == Spec => [](ToolsInv /\ StepsOK)
<1>1. Init => StepsOK
  BY Zenon DEF Init, StepsOK, Steps
<1>2. ToolsInv /\ StepsOK /\ [Next]_vars => StepsOK'
  BY ToolsAssumption, StepSteps DEF ToolsInv, IInv
<1>3. QED
  BY <1>1, <1>2, ToolsInvariant, PTL DEF Spec

LEMMA MapTyped ==
  ASSUME ControlAssumption, ToolsAssumption, Typed
  PROVE  /\ DeviceMap.nr_zones \in Nat \ {0}
         /\ DeviceMap.zones \in [0 .. DeviceMap.nr_zones - 1 -> ZoneType]
<1>1. system.nr_zones \in Nat \ {0}
  BY SystemInteger
<1>2. ASSUME NEW z \in 0 .. system.nr_zones - 1
      PROVE  DeviceZone(z) \in ZoneType
  <2>1. PICK start \in Nat : start = OnDevice(z * system.zone_sectors)
    <3>1. PICK zs \in Nat : zs = system.zone_sectors
      BY SystemInteger
    <3>2. z \in Nat
      BY <1>1
    <3>3. z * zs \in Nat
      BY <3>2
    <3>4. OnDevice(z * zs) \in Nat
      BY <3>3 DEF OnDevice
    <3>5. QED
      BY <3>1, <3>4
  <2>2. PICK cap \in Nat : cap = OnDevice(system.zone_cap)
    BY SystemInteger DEF OnDevice
  <2>3. DeviceZone(z) = [zone_number |-> z, start |-> start, end |-> start + cap,
                         capacity |-> cap, mask |-> 0]
    BY <2>1, <2>2, Zenon DEF DeviceZone
  <2>4. z \in Nat /\ start + cap \in Nat /\ 0 \in 0 .. Word - 1
    BY <1>1 DEF ControlAssumption
  <2>5. QED
    BY <2>3, <2>4 DEF ZoneType
<1>3. DeviceMap.nr_zones = system.nr_zones
  BY DEF DeviceMap
<1>4. DeviceMap.zones = [z \in 0 .. system.nr_zones - 1 |-> DeviceZone(z)]
  BY DEF DeviceMap
<1>5. QED
  BY <1>1, <1>2, <1>3, <1>4

LEMMA TableTyped ==
  ASSUME ToolsAssumption, Typed
  PROVE  /\ SegmentTable.nr_segments = Len(system.segments)
         /\ SegmentTable.segments
              \in [0 .. SegmentTable.nr_segments - 1 -> SegmentInfoType]
<1> DEFINE Segment == [type : SegmentTypes, valid_blocks : Nat]
           n == Len(system.segments)
           entry(k) == [id |-> k, type |-> system.segments[k + 1].type,
                        valid_blocks |-> system.segments[k + 1].valid_blocks]
<1>1. system.segments \in Seq(Segment)
  BY SystemSegments DEF Typed
<1>2. n \in Nat
  <2> HIDE DEF Segment
  <2>1. QED
    BY <1>1
<1>3. ASSUME NEW k \in 0 .. n - 1
      PROVE  entry(k) \in SegmentInfoType
  <2>1. k \in Nat /\ k + 1 \in 1 .. n
    BY <1>2
  <2>2. system.segments[k + 1] \in Segment
    <3> HIDE DEF Segment
    <3>1. QED
      BY <1>1, <2>1, ElementTyped
  <2>3. QED
    BY <2>1, <2>2 DEF SegmentInfoType
<1>4. SegmentTable = [nr_segments |-> n, segments |-> [k \in 0 .. n - 1 |-> entry(k)]]
  BY DEF SegmentTable
<1> HIDE DEF n, entry
<1>5. SegmentTable.nr_segments = n /\ SegmentTable.segments = [k \in 0 .. n - 1 |-> entry(k)]
  BY <1>4
<1>6. [k \in 0 .. n - 1 |-> entry(k)] \in [0 .. n - 1 -> SegmentInfoType]
  BY <1>3
<1>7. QED
  BY <1>5, <1>6 DEF n

LEMMA TypesFollow ==
  ASSUME ControlAssumption, ToolsAssumption, ToolsInv, StepsOK
  PROVE  TypeOK
<1>1. program \in Programs /\ system \in Systems
  BY DEF ToolsInv, IInv, Typed
<1>2. packs \in [1 .. 2 -> 0 .. MaxCheckpoints + 1]
  BY DEF ToolsInv, TablesInv, PacksOK
<1>3. pc \in Steps
  BY DEF StepsOK
<1>4. ctrl \in ControlType
  BY DEF ToolsInv, GeometryInv
<1>5. \/ zonemap = NULL
      \/ /\ zonemap.nr_zones \in Nat \ {0}
         /\ zonemap.zones \in [0 .. zonemap.nr_zones - 1 -> ZoneType]
  <2>1. zonemap = NULL \/ zonemap = DeviceMap
    BY DEF ToolsInv, GeometryInv
  <2>2. QED
    BY <2>1, MapTyped, ZenonT(30) DEF ToolsInv, IInv
<1>6. \/ fs_manager = NULL
      \/ /\ fs_manager.nr_segments = sb.segment_count_main
         /\ fs_manager.segments \in [0 .. fs_manager.nr_segments - 1 -> SegmentInfoType]
  <2>1. \/ fs_manager = NULL
        \/ fs_manager = SegmentTable /\ sb.segment_count_main = Len(system.segments)
    BY DEF ToolsInv, TablesInv, TableOK
  <2>2. QED
    BY <2>1, TableTyped, Zenon DEF ToolsInv, IInv
<1>7. sb \in [cp_blkaddr : Nat, main_blkaddr : Nat, segment_count_main : Nat]
  BY DEF ToolsInv, TablesInv, TableOK, SbType
<1>8. Recorded \subseteq ExtentType
  BY DEF ToolsInv, ExtentsOK, ExtentOK, Recorded
<1>9. unread \subseteq Reads
  BY DEF StepsOK
<1>10. QED
  BY <1>1, <1>2, <1>3, <1>4, <1>5, <1>6, <1>7, <1>8, <1>9, Zenon DEF TypeOK, Reads

(* Whatever fails, the control structure, the zone map, the segment table  *)
(* and every extent have their types.                                      *)
THEOREM TypesOfTools == Spec => []TypeOK
<1>1. ToolsInv /\ StepsOK => TypeOK
  BY ControlAssumption, ToolsAssumption, TypesFollow
<1>2. QED
  BY <1>1, StepsInvariant, PTL

-----------------------------------------------------------------------------
(* The options, the files and the extents found in them.                   *)

(* Nothing is collected before.                                            *)
BeforeCollecting == Early \cup {"zoned", "sizes", "procfs", "defaults"}

(* What the reports ask for has been read.                                 *)
Told ==
  /\ system.fs # "other"
  /\ unread \cap {"device_size", "zone_size", "number_of_zones"} = {}

(* The last option with one of the letters has the argument, which is 0    *)
(* without one.                                                            *)
LastIs(list, letters, arg) ==
  \/ /\ arg = 0
     /\ \A k \in DOMAIN list : list[k].opt \notin letters
  \/ \E k \in DOMAIN list :
       /\ list[k].opt \in letters
       /\ list[k].arg = arg
       /\ \A j \in DOMAIN list : list[j].opt \in letters => j <= k

StartLetters == {"s", "z"}
EndLetters == {"e", "z"}

OptionsOK ==
  /\ given \in Seq([opt : STRING, arg : Nat])
  /\ ctrl.exclude_inline <=> ~InlineShown
  /\ ctrl.show_only_stats <=> program = "segmap" /\ Given("o")
  /\ program = "segmap" /\ pc \in BeforeCollecting =>
       /\ LastIs(given, StartLetters, ctrl.start_zone)
       /\ LastIs(given, EndLetters, ctrl.end_zone)

(* The defaults are those of AskedZones.                                   *)
WindowOK ==
  program = "segmap" /\ Told /\ pc \in {"collect", "report"} =>
    AskedZones = ctrl.start_zone - 1 .. ctrl.end_zone - 1

(* A list of files without the first ones, and the first of the others     *)
(* without its first extents.                                              *)
RestOf(files, list) ==
  /\ Len(list) <= Len(files)
  /\ \A n \in 1 .. Len(list) :
       LET f == files[Len(files) - Len(list) + n]
       IN  /\ Len(list[n]) <= Len(f)
           /\ n # 1 => Len(list[n]) = Len(f)
           /\ \A k \in 1 .. Len(list[n]) : list[n][k] = f[Len(f) - Len(list[n]) + k]

(* The k-th extent of the n-th file is not in the rest.                    *)
Passed(files, list, n, k) ==
  \/ n + Len(list) <= Len(files)
  \/ n + Len(list) = Len(files) + 1 /\ k + Len(list[1]) <= Len(files[n])

IsOnZns(e) == e.physical >= system.conv_bytes /\ (e.inline => InlineShown)

StagesOK ==
  /\ pc \in BeforeCollecting => todo = system.files /\ extents = <<>> /\ printed = <<>>
  /\ system.fs = "other" => zonemap = NULL
  /\ pc = "report" => todo = <<>> /\ zonemap # NULL
  /\ RestOf(system.files, todo)

(* The extents recorded are those passed that are on the zoned device.     *)
FoundOK ==
  Told =>
    /\ \A j \in DOMAIN extents :
         \E n \in DOMAIN system.files : \E k \in DOMAIN system.files[n] :
           /\ IsOnZns(system.files[n][k])
           /\ extents[j].phy_blk = SectorAt(system.files[n][k])
    /\ \A n \in DOMAIN system.files : \A k \in DOMAIN system.files[n] :
         Passed(system.files, todo, n, k) /\ IsOnZns(system.files[n][k]) =>
           \E j \in DOMAIN extents : extents[j].phy_blk = SectorAt(system.files[n][k])

StatsOnly == BySegment /\ Given("o")

ShowsWhatWasAsked(x) ==
  /\ x.kind \in {"segments", "fiemap"} =>
       SectorsShown(x) = IF StatsOnly THEN {} ELSE SectorsAsked
  /\ x.kind = "json" => SectorsShown(x) \subseteq SectorsAsked

HangsForAReason ==
  \E e \in OnZns(AllFiles) : ~AskedFor(e) /\ \A z \in AskedZones : ZoneAt(e) < z

NoneThere ==
  OnZns({system.files[n] : n \in 1 .. Len(system.files) - Len(todo) + 1}) = {}

Entries == {printed[k] : k \in DOMAIN printed}

(* What an entry shows.                                                    *)
Claim(x) ==
  /\ x.kind \in {"json", "segments", "fiemap", "none_found"} => system.fs # "other"
  /\ Told =>
       /\ ShowsWhatWasAsked(x)
       /\ x.kind = NoneFound => pc = "error" /\ NoneThere

ReportsOK ==
  /\ \A x \in Entries : Claim(x)
  /\ pc = "hang" => system.fs # "other" /\ (Told => HangsForAReason)

LEMMA LastOfAppended ==
  ASSUME NEW S, NEW list \in Seq(S), NEW o, NEW letters, NEW arg
  PROVE  /\ o.opt \in letters => LastIs(Append(list, o), letters, o.arg)
         /\ o.opt \notin letters /\ LastIs(list, letters, arg) =>
              LastIs(Append(list, o), letters, arg)
<1>1. PICK longer : longer = Append(list, o)
  OBVIOUS
<1>2. PICK n \in Nat : n = Len(list)
  OBVIOUS
<1>3. /\ DOMAIN list = 1 .. n
      /\ DOMAIN longer = 1 .. n + 1
      /\ longer[n + 1] = o
      /\ \A k \in 1 .. n : longer[k] = list[k]
  BY <1>1, <1>2
<1>4. CASE o.opt \in letters
  <2>1. \A j \in DOMAIN longer : longer[j].opt \in letters => j <= n + 1
    BY <1>3
  <2>2. LastIs(longer, letters, o.arg)
    BY <1>3, <1>4, <2>1 DEF LastIs
  <2>3. QED
    BY <1>1, <1>4, <2>2
<1>5. CASE o.opt \notin letters /\ LastIs(list, letters, arg)
  <2>1. \A j \in DOMAIN longer :
          longer[j].opt \in letters => j \in DOMAIN list /\ list[j].opt \in letters
    BY <1>3, <1>5
  <2>2. CASE arg = 0 /\ \A k \in DOMAIN list : list[k].opt \notin letters
    BY <1>1, <1>5, <2>1, <2>2 DEF LastIs
  <2>3. CASE \E k \in DOMAIN list :
               /\ list[k].opt \in letters
               /\ list[k].arg = arg
               /\ \A j \in DOMAIN list : list[j].opt \in letters => j <= k
    <3>1. PICK k \in DOMAIN list :
            /\ list[k].opt \in letters
            /\ list[k].arg = arg
            /\ \A j \in DOMAIN list : list[j].opt \in letters => j <= k
      BY <2>3
    <3>2. k \in DOMAIN longer /\ longer[k] = list[k]
      BY <1>3
    <3>3. \A j \in DOMAIN longer : longer[j].opt \in letters => j <= k
      BY <2>1, <3>1
    <3>4. LastIs(longer, letters, arg)
      BY <3>1, <3>2, <3>3 DEF LastIs
    <3>5. QED
      BY <1>1, <1>5, <3>4
  <2>4. QED
    BY <1>5, <2>2, <2>3 DEF LastIs
<1>6. QED
  BY <1>4, <1>5

(* What is the last of the options given is what LastArg returns.          *)
LEMMA LastOfGiven ==
  ASSUME given \in Seq([opt : STRING, arg : Nat]), NEW letters, NEW arg,
         LastIs(given, letters, arg), NEW default
  PROVE  \/ /\ arg = 0 /\ LastArg(letters, default) = default
            /\ \A k \in DOMAIN given : given[k].opt \notin letters
         \/ /\ LastArg(letters, default) = arg
            /\ \E k \in DOMAIN given : given[k].opt \in letters
<1> DEFINE places == {k \in DOMAIN given : given[k].opt \in letters}
<1>1. LastArg(letters, default)
        = IF places = {} THEN default
          ELSE given[CHOOSE k \in places : \A j \in places : j <= k].arg
  BY DEF LastArg
<1>2. CASE arg = 0 /\ \A k \in DOMAIN given : given[k].opt \notin letters
  BY <1>1, <1>2
<1>3. CASE \E k \in DOMAIN given :
             /\ given[k].opt \in letters
             /\ given[k].arg = arg
             /\ \A j \in DOMAIN given : given[j].opt \in letters => j <= k
  <2>1. PICK k \in places : given[k].arg = arg /\ \A j \in places : j <= k
    BY <1>3
  <2>2. places \subseteq Nat
    OBVIOUS
  <2> DEFINE last == CHOOSE i \in places : \A j \in places : j <= i
  <2>3. last \in places /\ \A j \in places : j <= last
    BY <2>1
  <2> HIDE DEF last
  <2>4. k \in places /\ k <= last /\ last <= k /\ k \in Nat /\ last \in Nat
    BY <2>1, <2>2, <2>3
  <2>5. last = k
    BY <2>4
  <2>6. QED
    BY <1>1, <1>3, <2>1, <2>5 DEF last
<1>4. QED
  BY <1>2, <1>3 DEF LastIs

LEMMA OneFewer ==
  ASSUME NEW m \in Nat, NEW l \in Nat, NEW n \in 1 .. m, n + (l - 1) <= m
  PROVE  n + l <= m \/ n + l = m + 1
OBVIOUS

LEMMA Places ==
  ASSUME NEW m \in Nat, NEW l \in Nat, l <= m, l >= 1, NEW n \in 1 .. m
  PROVE  /\ n + (l - 1) = m + 1 => 2 \in 1 .. l /\ m - l + 2 = n
         /\ n + l = m + 1 => n = m - l + 1
         /\ n \in 1 .. l - 1 =>
              n + 1 \in 1 .. l /\ m - (l - 1) + n = m - l + (n + 1) /\ n + 1 # 1
OBVIOUS

LEMMA WholeRest ==
  ASSUME NEW S, NEW files \in Seq(Seq(S))
  PROVE  /\ RestOf(files, files)
         /\ \A n \in DOMAIN files : \A k \in DOMAIN files[n] : ~Passed(files, files, n, k)
<1>1. \A n \in DOMAIN files : files[n] \in Seq(S)
  OBVIOUS
<1>2. PICK m \in Nat : m = Len(files) /\ DOMAIN files = 1 .. m
  OBVIOUS
<1>3. RestOf(files, files)
  <2> SUFFICES ASSUME NEW n \in 1 .. m
               PROVE  LET f == files[m - m + n]
                      IN  /\ Len(files[n]) <= Len(f)
                          /\ n # 1 => Len(files[n]) = Len(f)
                          /\ \A k \in 1 .. Len(files[n]) :
                               files[n][k] = f[Len(f) - Len(files[n]) + k]
    BY <1>2 DEF RestOf
  <2>1. m - m + n = n
    BY <1>2
  <2>2. PICK f \in Seq(S) : f = files[n]
    BY <1>1, <1>2
  <2>3. \A k \in 1 .. Len(f) : Len(f) - Len(f) + k = k
    OBVIOUS
  <2>4. QED
    BY <2>1, <2>2, <2>3
<1>4. ASSUME NEW n \in DOMAIN files, NEW k \in DOMAIN files[n]
      PROVE  ~Passed(files, files, n, k)
  <2>1. n \in 1 .. m /\ files[n] \in Seq(S) /\ k \in 1 .. Len(files[n])
    BY <1>1, <1>2
  <2>2. n + m = m + 1 => n = 1
    BY <2>1
  <2>3. n = 1 => ~(k + Len(files[1]) <= Len(files[n]))
    BY <2>1
  <2>4. ~(n + m <= m)
    BY <2>1
  <2>5. QED
    BY <1>2, <2>2, <2>3, <2>4 DEF Passed
<1>5. QED
  BY <1>3, <1>4

(* A file is left behind when none of it is to do.                         *)
LEMMA RestWithoutFile ==
  ASSUME NEW S, NEW files \in Seq(Seq(S)), NEW list \in Seq(Seq(S)), RestOf(files, list),
         list # <<>>, Head(list) = <<>>
  PROVE  /\ RestOf(files, Tail(list))
         /\ \A n \in DOMAIN files : \A k \in DOMAIN files[n] :
              Passed(files, Tail(list), n, k) => Passed(files, list, n, k)
<1>1. PICK m \in Nat, l \in Nat : m = Len(files) /\ l = Len(list) /\ l <= m /\ l >= 1
  BY DEF RestOf
<1> l \in Nat /\ m \in Nat /\ l <= m /\ l >= 1
  BY <1>1
<1>2. PICK rest \in Seq(Seq(S)) : rest = Tail(list)
  BY HeadTyped
<1>3. Len(rest) = l - 1 /\ \A n \in 1 .. l - 1 : rest[n] = list[n + 1]
  BY <1>1, <1>2
<1>4. \A n \in 1 .. l : list[n] \in Seq(S)
  BY <1>1
<1>5. \A n \in 1 .. m : files[n] \in Seq(S)
  BY <1>1
<1>6. \A n \in 1 .. l :
        LET f == files[m - l + n]
        IN  /\ Len(list[n]) <= Len(f)
            /\ n # 1 => Len(list[n]) = Len(f)
            /\ \A k \in 1 .. Len(list[n]) : list[n][k] = f[Len(f) - Len(list[n]) + k]
  BY <1>1 DEF RestOf
<1>7. RestOf(files, rest)
  <2> SUFFICES ASSUME NEW n \in 1 .. l - 1
               PROVE  LET f == files[m - (l - 1) + n]
                      IN  /\ Len(rest[n]) <= Len(f)
                          /\ n # 1 => Len(rest[n]) = Len(f)
                          /\ \A k \in 1 .. Len(rest[n]) :
                               rest[n][k] = f[Len(f) - Len(rest[n]) + k]
    <3>1. Len(rest) = l - 1 /\ Len(files) = m /\ l - 1 <= m
      BY <1>1, <1>3
    <3>2. QED
      BY <3>1, ZenonT(30) DEF RestOf
  <2>1. n \in 1 .. m
    OBVIOUS
  <2>2. n + 1 \in 1 .. l /\ m - (l - 1) + n = m - l + (n + 1) /\ n + 1 # 1
    BY <2>1, Places
  <2>3. rest[n] = list[n + 1]
    BY <1>3
  <2>4. QED
    BY <1>6, <2>2, <2>3, Zenon
<1>8. ASSUME NEW n \in DOMAIN files, NEW k \in DOMAIN files[n], Passed(files, rest, n, k)
      PROVE  Passed(files, list, n, k)
  <2>1. n \in 1 .. m /\ files[n] \in Seq(S)
    BY <1>1, <1>5
  <2>2. k \in 1 .. Len(files[n])
    BY <2>1, SMTT(30)
  <2>3. CASE n + (l - 1) <= m
    <3>1. n + l <= m \/ n + l = m + 1
      BY <2>1, <2>3, OneFewer, Zenon
    <3>2. k + Len(list[1]) <= Len(files[n])
      <4>1. list[1] = <<>>
        BY <1>1
      <4>2. QED
        BY <2>1, <2>2, <4>1
    <3>3. QED
      BY <1>1, <3>1, <3>2 DEF Passed
  <2>4. CASE n + (l - 1) = m + 1 /\ k + Len(rest[1]) <= Len(files[n])
    <3>1. 2 \in 1 .. l /\ m - l + 2 = n
      BY <2>1, <2>4, Places
    <3>2. Len(list[2]) = Len(files[n]) /\ rest[1] = list[2]
      <4>1. 1 \in 1 .. l - 1 /\ 1 + 1 = 2 /\ 2 # 1
        BY <3>1
      <4>2. rest[1] = list[2]
        BY <1>3, <4>1, Zenon
      <4>3. Len(list[2]) = Len(files[n])
        BY <1>6, <3>1, <4>1, Zenon
      <4>4. QED
        BY <4>2, <4>3
    <3>3. QED
      BY <2>1, <2>2, <2>4, <3>2, SMTT(30)
  <2>5. QED
    BY <1>1, <1>3, <1>8, <2>3, <2>4 DEF Passed
<1>9. QED
  BY <1>2, <1>7, <1>8

(* Of the extents passed now, only this one was not before.                *)
OneMorePassed(files, list, after, e) ==
  /\ \A n \in DOMAIN files : \A k \in DOMAIN files[n] :
       Passed(files, after, n, k) => Passed(files, list, n, k) \/ files[n][k] = e
  /\ \E n \in DOMAIN files : \E k \in DOMAIN files[n] : files[n][k] = e

(* An extent is left behind, and passed.                                   *)
LEMMA RestWithoutExtent ==
  ASSUME NEW S, NEW files \in Seq(Seq(S)), NEW list \in Seq(Seq(S)), RestOf(files, list),
         list # <<>>, Head(list) # <<>>,
         NEW after, after = <<Tail(Head(list))>> \o Tail(list)
  PROVE  RestOf(files, after) /\ OneMorePassed(files, list, after, Head(Head(list)))
<1>1. PICK m \in Nat, l \in Nat : m = Len(files) /\ l = Len(list) /\ l <= m /\ l >= 1
  BY DEF RestOf
<1> l \in Nat /\ m \in Nat /\ l <= m /\ l >= 1
  BY <1>1
<1>2. PICK first \in Seq(S) : first = Head(list) /\ first = list[1] /\ first # <<>>
  BY HeadTyped
<1>3. PICK short \in Seq(S) : short = Tail(first)
  BY <1>2, HeadTyped
<1>4. /\ Len(short) = Len(first) - 1
      /\ \A k \in 1 .. Len(short) : short[k] = first[k + 1]
      /\ first[1] = Head(first)
      /\ Len(first) \in Nat \ {0}
  BY <1>2, <1>3
<1>5. PICK others \in Seq(Seq(S)) : others = Tail(list)
  BY HeadTyped
<1>6. PICK rest \in Seq(Seq(S)) : rest = <<short>> \o others
  <2>1. <<short>> \o others \in Seq(Seq(S))
    OBVIOUS
  <2>2. QED
    BY <2>1
<1>7. Len(others) = l - 1 /\ \A n \in 1 .. l - 1 : others[n] = list[n + 1]
  BY <1>1, <1>5
<1>8. Len(rest) = l /\ rest[1] = short
  <2>1. Len(<<short>> \o others) = 1 + Len(others) /\ (<<short>> \o others)[1] = short
    OBVIOUS
  <2>2. 1 + (l - 1) = l
    OBVIOUS
  <2>3. QED
    BY <1>6, <1>7, <2>1, <2>2, Zenon
<1>9. ASSUME NEW n \in 1 .. l, n # 1
      PROVE  rest[n] = list[n]
  <2>1. n - 1 \in 1 .. l - 1 /\ (n - 1) + 1 = n
    BY <1>1, <1>9
  <2>2. rest[n] = others[n - 1]
    BY <1>6, <1>7, <2>1
  <2>3. QED
    BY <1>7, <2>1, <2>2
<1>10. \A n \in 1 .. l :
        LET f == files[m - l + n]
        IN  /\ Len(list[n]) <= Len(f)
            /\ n # 1 => Len(list[n]) = Len(f)
            /\ \A k \in 1 .. Len(list[n]) : list[n][k] = f[Len(f) - Len(list[n]) + k]
  BY <1>1 DEF RestOf
<1>11. PICK at \in 1 .. m : at = m - l + 1
  <2>1. m - l + 1 \in 1 .. m
    OBVIOUS
  <2>2. QED
    BY <2>1
<1>12. PICK f \in Seq(S) : f = files[at]
  BY <1>1
<1>13. /\ Len(first) <= Len(f)
       /\ \A k \in 1 .. Len(first) : first[k] = f[Len(f) - Len(first) + k]
  <2>1. 1 \in 1 .. l /\ m - l + 1 = at
    BY <1>11
  <2>2. QED
    BY <1>2, <1>10, <1>12, <2>1
<1>14. /\ Len(short) <= Len(f)
       /\ \A k \in 1 .. Len(short) : short[k] = f[Len(f) - Len(short) + k]
  <2>1. Len(short) <= Len(f)
    BY <1>4, <1>13
  <2>2. ASSUME NEW k \in 1 .. Len(short)
        PROVE  short[k] = f[Len(f) - Len(short) + k]
    <3>1. /\ k + 1 \in 1 .. Len(first)
          /\ Len(f) - Len(first) + (k + 1) = Len(f) - Len(short) + k
      BY <1>4
    <3>2. QED
      BY <1>4, <1>13, <3>1
  <2>3. QED
    BY <2>1, <2>2
<1>15. RestOf(files, rest)
  <2> SUFFICES ASSUME NEW n \in 1 .. l
               PROVE  LET g == files[m - l + n]
                      IN  /\ Len(rest[n]) <= Len(g)
                          /\ n # 1 => Len(rest[n]) = Len(g)
                          /\ \A k \in 1 .. Len(rest[n]) :
                               rest[n][k] = g[Len(g) - Len(rest[n]) + k]
    BY <1>1, <1>8 DEF RestOf
  <2>1. CASE n = 1
    BY <1>8, <1>11, <1>12, <1>14, <2>1
  <2>2. CASE n # 1
    BY <1>9, <1>10, <2>2, ZenonT(30)
  <2>3. QED
    BY <2>1, <2>2
<1>16. /\ Len(f) - Len(first) + 1 \in 1 .. Len(f)
       /\ f[Len(f) - Len(first) + 1] = Head(Head(list))
  <2>1. 1 \in 1 .. Len(first) /\ Len(f) - Len(first) + 1 \in 1 .. Len(f)
    BY <1>4, <1>13
  <2>2. QED
    BY <1>2, <1>4, <1>13, <2>1
<1>17. ASSUME NEW n \in DOMAIN files, NEW k \in DOMAIN files[n], Passed(files, rest, n, k)
       PROVE  Passed(files, list, n, k) \/ files[n][k] = Head(Head(list))
  <2>1. n \in 1 .. m
    BY <1>1
  <2>2. CASE n + l <= m
    BY <1>1, <2>2 DEF Passed
  <2>3. CASE n + l = m + 1 /\ k + Len(short) <= Len(files[n])
    <3>1. n = at
      BY <1>11, <2>1, <2>3, Places
    <3>2. k \in 1 .. Len(f) /\ k + Len(first) - 1 <= Len(f)
      <4>1. files[n] = f
        BY <1>12, <3>1
      <4>2. k \in 1 .. Len(f) /\ k + Len(short) <= Len(f)
        BY <2>3, <4>1, SMTT(30)
      <4>3. QED
        BY <1>4, <4>2
    <3>3. CASE k + Len(first) <= Len(f)
      BY <1>1, <1>2, <1>12, <2>3, <3>1, <3>3 DEF Passed
    <3>4. CASE ~(k + Len(first) <= Len(f))
      <4>1. k = Len(f) - Len(first) + 1
        BY <1>4, <3>2, <3>4, SMTT(30)
      <4>2. QED
        BY <1>12, <1>16, <3>1, <4>1
    <3>5. QED
      BY <3>3, <3>4
  <2>4. QED
    BY <1>1, <1>8, <1>17, <2>2, <2>3 DEF Passed
<1>18. \E n \in DOMAIN files : \E k \in DOMAIN files[n] : files[n][k] = Head(Head(list))
  <2>1. at \in DOMAIN files /\ Len(f) - Len(first) + 1 \in DOMAIN files[at]
    BY <1>1, <1>12, <1>16
  <2>2. QED
    BY <1>12, <1>16, <2>1
<1>19. rest = after
  BY <1>2, <1>3, <1>5, <1>6
<1>20. QED
  BY <1>15, <1>17, <1>18, <1>19 DEF OneMorePassed

Flow ==
  /\ pc' \in BeforeCollecting => pc \in BeforeCollecting
  /\ pc \in BeforeCollecting \/ UNCHANGED <<given, ctrl>>
  /\ UNCHANGED given \/ ParseOption
  /\ UNCHANGED todo \/ SkipExtent \/ RecordExtent \/ EndOfFile
  /\ pc \notin BeforeCollecting \/ UNCHANGED <<todo, extents, printed>>
  /\ pc = "error" => pc' = "error" /\ UNCHANGED <<todo, printed>>
  /\ pc' = "report" => pc = "report" \/ Collected
  /\ pc' = "hang" => pc = "hang" \/ ReportHangs
  /\ pc' = "collect" => pc = "collect" \/ Defaults

LEMMA StepFlow ==
  ASSUME ToolsAssumption, Typed, [Next]_vars
  PROVE  Flow
<1> USE DEF BeforeCollecting, Early, Go, outside, init_vars, Set, SetNothing, Show, ShowsJson
<1>1. CASE SetFsMagic
  <2>1. system.fs \in {"F2FS", "Btrfs", "other"}
    BY SystemTyped DEF Typed
  <2>2. pc = "magic" /\ pc' \in {"defaults", "device", "zns"}
    BY <1>1, <2>1 DEF SetFsMagic, AfterMagic
  <2>3. UNCHANGED <<given, todo, extents, printed>>
    BY <1>1 DEF SetFsMagic
  <2>4. QED
    BY <2>2, <2>3 DEF Flow
<1>2. CASE Preparing /\ ~SetFsMagic
  <2>1. CASE ParseOption \/ ShowHelp \/ RejectOptions \/ AcceptOptions \/ OpenFile
    BY <2>1 DEF ParseOption, ShowHelp, RejectOptions, AcceptOptions, OpenFile, Flow
  <2>2. CASE CallFails
    BY <2>2 DEF CallFails, Flow
  <2>3. CASE InitDev \/ ReadSuperBlock \/ InitBdev \/ InitZnsDev \/ InitZoneMap
    BY <2>3 DEF InitDev, ReadSuperBlock, InitBdev, InitZnsDev, InitZoneMap, Flow
  <2>4. CASE ZoneMapNotOpened \/ CheckZoned \/ ReadSizes
    BY <2>4 DEF ZoneMapNotOpened, CheckZoned, ReadSizes, Flow
  <2>5. CASE InitFsManager \/ ProcfsMissing \/ Defaults
    BY <2>5 DEF InitFsManager, ProcfsMissing, Defaults, Flow
  <2>6. QED
    BY <1>2, <2>1, <2>2, <2>3, <2>4, <2>5 DEF Preparing
<1>3. CASE Collecting
  <2>1. /\ UNCHANGED <<given, ctrl>>
        /\ UNCHANGED todo \/ SkipExtent \/ RecordExtent \/ EndOfFile
        /\ pc \in {"collect", "cleanup"}
        /\ pc' \in {"collect", "crash", "error", "cleanup"} \/ (pc' = "report" /\ Collected)
    BY <1>3
       DEF Collecting, SkipExtent, CrashOnExtent, RecordExtent, EndOfFile, CrashOnNull, Collected
  <2>2. pc' = "collect" => pc = "collect"
    BY <1>3
       DEF Collecting, SkipExtent, CrashOnExtent, RecordExtent, EndOfFile, CrashOnNull, Collected
  <2>3. QED
    BY <2>1, <2>2 DEF Flow
<1>4. CASE Reporting
  <2>1. /\ UNCHANGED <<given, ctrl, todo>>
        /\ pc \in {"report", "cleanup", "superblock", "checkpoint", "inode", "show_inode"}
        /\ \/ pc' \in {"crash", "cleanup", "done", "checkpoint", "inode", "show_inode"}
           \/ pc' = "hang" /\ ReportHangs
    BY <1>4 DEF Reporting, ReportHangs, ReportJson, ReportSegments, CrashOnCapacity,
       ReportFiemap, Cleanup, ShowSuperBlock, NoSuperBlock, ShowCheckpoint, NoCheckpoint,
       FindInode, CrashOnInode, ShowInode
  <2>2. QED
    BY <2>1 DEF Flow
<1>5. CASE Elsewhere
  BY <1>5 DEF Elsewhere, WriteCheckpoint, vars, Flow
<1>6. QED
  BY <1>1, <1>2, <1>3, <1>4, <1>5, Phases

-----------------------------------------------------------------------------
(* The options.                                                            *)

(* The fields an option sets.                                              *)
KeepsOptions(c, d) ==
  /\ d.exclude_inline = c.exclude_inline
  /\ d.show_only_stats = c.show_only_stats
  /\ d.start_zone = c.start_zone
  /\ d.end_zone = c.end_zone

LEMMA GeometryKeepsOptions ==
  ASSUME NEW c \in ControlType
  PROVE  /\ \A sector : KeepsOptions(c, WithSectorSize(c, sector))
         /\ \A nr_zones : KeepsOptions(c, WithSegments(c, nr_zones))
         /\ \A multi_dev, offset, zone_size, nr_zones :
              KeepsOptions(c, WithZones(c, multi_dev, offset, zone_size, nr_zones))
<1>1. {"exclude_inline", "show_only_stats", "start_zone", "end_zone"} \subseteq DOMAIN c
  BY DEF ControlType
<1>2. \A sector : KeepsOptions(c, WithSectorSize(c, sector))
  BY <1>1 DEF WithSectorSize, KeepsOptions
<1>3. \A nr_zones : KeepsOptions(c, WithSegments(c, nr_zones))
  BY <1>1 DEF WithSegments, KeepsOptions
<1>4. \A multi_dev, offset, zone_size, nr_zones :
        KeepsOptions(c, WithZones(c, multi_dev, offset, zone_size, nr_zones))
  BY <1>1 DEF WithZones, KeepsOptions
<1>5. QED
  BY <1>2, <1>3, <1>4

LEMMA OptionSets ==
  ASSUME NEW c \in ControlType, NEW o \in [opt : STRING, arg : Nat], NEW p \in Programs
  PROVE  LET d == SetOption(p, c, o)
         IN  /\ d.exclude_inline = (c.exclude_inline /\ ~(p = "segmap" /\ o.opt = "i"))
             /\ d.show_only_stats = (c.show_only_stats \/ (p = "segmap" /\ o.opt = "o"))
             /\ p = "segmap" =>
                  /\ d.start_zone = IF o.opt \in StartLetters THEN o.arg ELSE c.start_zone
                  /\ d.end_zone = IF o.opt \in EndLetters THEN o.arg ELSE c.end_zone
<1>1. {"exclude_inline", "show_only_stats", "start_zone", "end_zone"} \subseteq DOMAIN c
      /\ c.exclude_inline \in BOOLEAN /\ c.show_only_stats \in BOOLEAN
  BY DEF ControlType
<1>2. LET d == SegmapOption(c, o)
      IN  /\ d.exclude_inline = (c.exclude_inline /\ o.opt # "i")
          /\ d.show_only_stats = (c.show_only_stats \/ o.opt = "o")
          /\ d.start_zone = IF o.opt \in StartLetters THEN o.arg ELSE c.start_zone
          /\ d.end_zone = IF o.opt \in EndLetters THEN o.arg ELSE c.end_zone
  <2>1. CASE o.opt = "i"
    <3>1. SegmapOption(c, o) = [c EXCEPT !.exclude_inline = FALSE]
      BY <2>1 DEF SegmapOption
    <3>2. QED
      BY <1>1, <2>1, <3>1 DEF StartLetters, EndLetters
  <2>2. CASE o.opt = "s"
    <3>1. SegmapOption(c, o) = [c EXCEPT !.start_zone = o.arg]
      BY <2>2 DEF SegmapOption
    <3>2. QED
      BY <1>1, <2>2, <3>1 DEF StartLetters, EndLetters
  <2>3. CASE o.opt = "z"
    <3>1. SegmapOption(c, o) = [c EXCEPT !.start_zone = o.arg, !.end_zone = o.arg]
      BY <2>3 DEF SegmapOption
    <3>2. QED
      BY <1>1, <2>3, <3>1 DEF StartLetters, EndLetters
  <2>4. CASE o.opt = "e"
    <3>1. SegmapOption(c, o) = [c EXCEPT !.end_zone = o.arg]
      BY <2>4 DEF SegmapOption
    <3>2. QED
      BY <1>1, <2>4, <3>1 DEF StartLetters, EndLetters
  <2>5. CASE o.opt = "o"
    <3>1. SegmapOption(c, o)
            = [c EXCEPT !.show_only_stats = TRUE, !.show_class_stats = TRUE]
      BY <2>5 DEF SegmapOption
    <3>2. QED
      BY <1>1, <2>5, <3>1 DEF StartLetters, EndLetters
  <2>6. CASE o.opt \notin {"i", "s", "z", "e", "o"}
    <3>1. KeepsOptions(c, SegmapOption(c, o))
      BY <1>1, <2>6 DEF SegmapOption, KeepsOptions
    <3>2. QED
      BY <1>1, <2>6, <3>1 DEF StartLetters, EndLetters, KeepsOptions
  <2>7. QED
    BY <2>1, <2>2, <2>3, <2>4, <2>5, <2>6
<1>3. /\ FiemapOption(c, o).exclude_inline = c.exclude_inline
      /\ FiemapOption(c, o).show_only_stats = c.show_only_stats
  BY <1>1 DEF FiemapOption
<1>4. /\ ImapOption(c, o).exclude_inline = c.exclude_inline
      /\ ImapOption(c, o).show_only_stats = c.show_only_stats
  BY <1>1 DEF ImapOption
<1>5. CASE p = "segmap"
  BY <1>2, <1>5 DEF SetOption
<1>6. CASE p = "fiemap"
  BY <1>1, <1>3, <1>6 DEF SetOption
<1>7. CASE p = "imap"
  BY <1>1, <1>4, <1>7 DEF SetOption
<1>8. QED
  BY <1>5, <1>6, <1>7 DEF Programs

(* Options are counted from the first, and only the defaults come after.   *)
LEMMA KeptOptions ==
  ASSUME ControlAssumption, ToolsAssumption, Typed, ctrl \in ControlType, [Next]_vars,
         ~ParseOption, ~Defaults
  PROVE  KeepsOptions(ctrl, ctrl')
<1>0. {"exclude_inline", "show_only_stats", "start_zone", "end_zone", "show_class_stats", "fs_magic", "bdev",
       "znsdev", "fs_info_bytes"} \subseteq DOMAIN ctrl
  BY DEF ControlType
<1>1. CASE UNCHANGED ctrl
  BY <1>1 DEF KeepsOptions
<1>2. CASE AcceptOptions \/ SetFsMagic
  BY <1>0, <1>2 DEF AcceptOptions, SetFsMagic, Set, KeepsOptions
<1>3. CASE InitBdev
  <2> DEFINE c == [ctrl EXCEPT !.bdev.is_zoned = FALSE]
  <2>1. c \in ControlType
    BY BdevTyped, ZenonT(30)
  <2>2. KeepsOptions(ctrl, c)
    BY <1>0 DEF KeepsOptions
  <2>3. ctrl' = WithSectorSize(c, system.sector)
    BY <1>3 DEF InitBdev, Set
  <2> HIDE DEF c
  <2>4. KeepsOptions(c, ctrl')
    BY <2>1, <2>3, GeometryKeepsOptions, ZenonT(30)
  <2>5. QED
    BY <2>2, <2>4 DEF KeepsOptions
<1>4. CASE InitZnsDev
  <2>1. PICK is_zoned \in BOOLEAN, nr_zones \in {0, system.nr_zones} :
          ctrl' = WithSegments(WithSectorSize([ctrl EXCEPT !.znsdev.is_zoned = is_zoned],
                                              system.sector), nr_zones)
    BY <1>4, ZnsDevTold
  <2>2. system.sector \in {512, 4096}
    BY SystemInteger
  <2> DEFINE c == [ctrl EXCEPT !.znsdev.is_zoned = is_zoned]
             d == WithSectorSize(c, system.sector)
  <2>3. c \in ControlType
    BY BdevTyped, ZenonT(30)
  <2>4. KeepsOptions(ctrl, c)
    BY <1>0 DEF KeepsOptions
  <2>5. ctrl' = WithSegments(d, nr_zones)
    BY <2>1
  <2> HIDE DEF c
  <2>6. d \in ControlType /\ KeepsOptions(c, d)
    BY <2>2, <2>3, SectorSizeTyped, GeometryKeepsOptions
  <2> HIDE DEF d
  <2>7. KeepsOptions(d, ctrl')
    BY <2>5, <2>6, GeometryKeepsOptions, ZenonT(30)
  <2>8. QED
    BY <2>4, <2>6, <2>7 DEF KeepsOptions
<1>5. CASE ReadSizes
  <2>1. PICK offset, zone_size, nr_zones :
          /\ ctrl' = WithZones(ctrl, system.fs = "F2FS", offset, zone_size, nr_zones)
          /\ \/ offset = IF system.fs = "F2FS" THEN system.conv_bytes ELSE 0
             \/ system.fs = "F2FS" /\ offset = Word64 - 1 /\ "device_size" \in unread'
          /\ \/ zone_size = ToDevice(ctrl, system.zone_sectors)
             \/ zone_size = 0 /\ "zone_size" \in unread'
          /\ \/ nr_zones = system.nr_zones
             \/ nr_zones = 0 /\ "number_of_zones" \in unread'
    BY <1>5, SizesTold, Zenon
  <2>2. QED
    BY <2>1, GeometryKeepsOptions, ZenonT(30)
<1>6. CASE InitFsManager \/ ProcfsMissing
  BY <1>0, <1>6 DEF InitFsManager, ProcfsMissing, Set, KeepsOptions
<1>7. QED
  BY <1>1, <1>2, <1>3, <1>4, <1>5, <1>6, Frames DEF Frame

LEMMA StepOptions ==
  ASSUME ControlAssumption, ToolsAssumption, Typed, ctrl \in ControlType, OptionsOK,
         [Next]_vars
  PROVE  OptionsOK'
<1>1. /\ UNCHANGED <<program, system>>
      /\ Flow
  BY Frames, StepFlow DEF Frame
<1>2. ctrl.exclude_inline \in BOOLEAN /\ ctrl.show_only_stats \in BOOLEAN
  BY DEF ControlType
<1>3. CASE ParseOption
  <2>1. PICK o \in [opt : STRING, arg : Nat] : o = Head(args)
    <3>1. args \in Seq([opt : STRING, arg : Nat]) /\ args # <<>>
      BY <1>3 DEF ParseOption, Typed
    <3>2. QED
      BY <3>1, HeadTyped, ZenonT(30)
  <2>2. ctrl' = SetOption(program, ctrl, o) /\ given' = Append(given, o)
    BY <1>3, <2>1 DEF ParseOption
  <2>3. pc = "options" /\ pc' = "options"
    BY <1>3 DEF ParseOption, Go
  <2>4. given \in Seq([opt : STRING, arg : Nat])
    BY DEF OptionsOK
  <2>5. given' \in Seq([opt : STRING, arg : Nat])
    BY <2>2, <2>4
  <2>6. ASSUME NEW letter
        PROVE  Given(letter)' <=> Given(letter) \/ o.opt = letter
    <3>1. PICK n \in Nat : n = Len(given)
      BY <2>4
    <3>2. /\ DOMAIN given = 1 .. n
          /\ DOMAIN given' = 1 .. n + 1
          /\ given'[n + 1] = o
          /\ \A k \in 1 .. n : given'[k] = given[k]
      BY <2>2, <2>4, <3>1
    <3>3. n + 1 \in 1 .. n + 1 /\ 1 .. n \subseteq 1 .. n + 1
          /\ \A k \in 1 .. n + 1 : k \in 1 .. n \/ k = n + 1
      OBVIOUS
    <3>4. Given(letter)' <=> \E k \in 1 .. n + 1 : given'[k].opt = letter
      BY <3>2, ZenonT(30) DEF Given
    <3>5. Given(letter) <=> \E k \in 1 .. n : given[k].opt = letter
      BY <3>2, ZenonT(30) DEF Given
    <3>6. (\E k \in 1 .. n : given[k].opt = letter) <=> \E k \in 1 .. n : given'[k].opt = letter
      BY <3>2, ZenonT(30)
    <3>7. QED
      BY <3>2, <3>3, <3>4, <3>5, <3>6
  <2>7. program \in Programs
    BY DEF Typed
  <2>8. /\ ctrl'.exclude_inline = (ctrl.exclude_inline /\ ~(program = "segmap" /\ o.opt = "i"))
        /\ ctrl'.show_only_stats = (ctrl.show_only_stats \/ (program = "segmap" /\ o.opt = "o"))
        /\ program = "segmap" =>
             /\ ctrl'.start_zone = IF o.opt \in StartLetters THEN o.arg ELSE ctrl.start_zone
             /\ ctrl'.end_zone = IF o.opt \in EndLetters THEN o.arg ELSE ctrl.end_zone
    BY <2>2, <2>7, OptionSets, SMTT(30)
  <2>9. /\ ctrl'.exclude_inline <=> ~InlineShown'
        /\ ctrl'.show_only_stats <=> program' = "segmap" /\ Given("o")'
    <3>1. ctrl'.exclude_inline <=> ~InlineShown'
      BY <1>1, <1>2, <2>6, <2>8, ZenonT(30) DEF OptionsOK, InlineShown
    <3>2. ctrl'.show_only_stats <=> program' = "segmap" /\ Given("o")'
      BY <1>1, <1>2, <2>6, <2>8, ZenonT(30) DEF OptionsOK
    <3>3. QED
      BY <3>1, <3>2
  <2>10. CASE program = "segmap"
    <3>1. LastIs(given, StartLetters, ctrl.start_zone) /\ LastIs(given, EndLetters, ctrl.end_zone)
      BY <2>3, <2>10 DEF OptionsOK, BeforeCollecting, Early
    <3>2. LastIs(given', StartLetters, ctrl'.start_zone)
      BY <2>2, <2>4, <2>8, <2>10, <3>1, LastOfAppended
    <3>3. LastIs(given', EndLetters, ctrl'.end_zone)
      BY <2>2, <2>4, <2>8, <2>10, <3>1, LastOfAppended
    <3>4. QED
      BY <2>5, <2>9, <3>2, <3>3 DEF OptionsOK
  <2>11. QED
    BY <1>1, <2>5, <2>9, <2>10 DEF OptionsOK
<1>4. CASE Defaults
  <2>1. UNCHANGED given /\ pc' \notin BeforeCollecting
    BY <1>4 DEF Defaults, Go, Set, BeforeCollecting, Early
  <2>2. /\ ctrl'.exclude_inline = ctrl.exclude_inline
        /\ ctrl'.show_only_stats = ctrl.show_only_stats
    <3>1. {"exclude_inline", "show_only_stats", "start_zone", "end_zone"} \subseteq DOMAIN ctrl
      BY DEF ControlType
    <3>2. QED
      BY <1>4, <3>1 DEF Defaults, Set, WithDefaults
  <2>3. QED
    BY <1>1, <2>1, <2>2 DEF OptionsOK, InlineShown, Given
<1>5. CASE ~ParseOption /\ ~Defaults
  <2>1. UNCHANGED given /\ KeepsOptions(ctrl, ctrl')
    BY <1>1, <1>5, KeptOptions DEF Flow
  <2>2. pc' \in BeforeCollecting => pc \in BeforeCollecting
    BY <1>1 DEF Flow
  <2>3. InlineShown' = InlineShown /\ Given("o")' = Given("o")
    BY <1>1, <2>1 DEF InlineShown, Given
  <2>4. QED
    BY <1>1, <2>1, <2>2, <2>3 DEF OptionsOK, KeepsOptions
<1>6. QED
  BY <1>3, <1>4, <1>5

LEMMA ToldBefore ==
  ASSUME ToolsAssumption, Typed, [Next]_vars, Told'
  PROVE  Told
BY Frames, ZenonT(30) DEF Frame, Told

LEMMA StepWindow ==
  ASSUME ControlAssumption, ToolsAssumption, Typed, GeometryInv, OptionsOK, WindowOK,
         [Next]_vars
  PROVE  WindowOK'
<1>1. /\ UNCHANGED <<program, system>>
      /\ Flow
  BY Frames, StepFlow DEF Frame
<1>2. SUFFICES ASSUME program = "segmap", Told, pc' \in {"collect", "report"}
               PROVE  AskedZones' = ctrl'.start_zone - 1 .. ctrl'.end_zone - 1
  BY <1>1, ToldBefore DEF WindowOK
<1>3. ASSUME UNCHANGED given
      PROVE  AskedZones' = AskedZones
  BY <1>1, <1>3 DEF AskedZones, LastArg, Given
<1>4. CASE pc \in {"collect", "report"}
  <2>1. UNCHANGED <<given, ctrl>>
    BY <1>1, <1>4 DEF Flow, BeforeCollecting, Early
  <2>2. QED
    BY <1>2, <1>3, <1>4, <2>1 DEF WindowOK
<1>5. CASE Defaults
  <2>1. UNCHANGED given /\ pc = "defaults" /\ ctrl' = WithDefaults(ctrl)
    BY <1>2, <1>5 DEF Defaults, Go, Set
  <2>2. LastIs(given, StartLetters, ctrl.start_zone) /\ LastIs(given, EndLetters, ctrl.end_zone)
    BY <1>2, <2>1 DEF OptionsOK, BeforeCollecting
  <2>3. ctrl.znsdev.nr_zones = system.nr_zones
    <3>1. SizesOK
      BY <1>2, <2>1, Zenon DEF GeometryInv, AfterSizes, Sized, Mapped, Told
    <3>2. "number_of_zones" \notin unread
      BY <1>2 DEF Told
    <3>3. QED
      BY <3>1, <3>2 DEF SizesOK
  <2>4. {"exclude_inline", "show_only_stats", "start_zone", "end_zone"} \subseteq DOMAIN ctrl
    BY DEF GeometryInv, ControlType
  <2>5. /\ ctrl'.start_zone = IF ctrl.start_zone = 0 /\ ~Given("z") THEN 1 ELSE ctrl.start_zone
        /\ ctrl'.end_zone = IF ctrl.end_zone = 0 /\ ~Given("z") THEN system.nr_zones
                            ELSE ctrl.end_zone
    BY <2>1, <2>3, <2>4 DEF WithDefaults
  <2>6. given \in Seq([opt : STRING, arg : Nat])
    BY DEF OptionsOK
  <2>7. PICK first : first = LastArg(StartLetters, 1)
    OBVIOUS
  <2>8. PICK last : last = LastArg(EndLetters, 0)
    OBVIOUS
  <2>9. \/ ctrl.start_zone = 0 /\ first = 1 /\ ~Given("z")
        \/ first = ctrl.start_zone
    BY <2>2, <2>6, <2>7, LastOfGiven DEF Given, StartLetters
  <2>10. last = ctrl.end_zone
    BY <2>2, <2>6, <2>8, LastOfGiven
  <2>11. (IF Given("z") THEN first ELSE IF first = 0 THEN 1 ELSE first) = ctrl'.start_zone
    BY <2>5, <2>9
  <2>12. (IF last = 0 /\ ~Given("z") THEN system.nr_zones ELSE last) = ctrl'.end_zone
    BY <2>5, <2>10
  <2>13. AskedZones = ctrl'.start_zone - 1 .. ctrl'.end_zone - 1
    BY <2>7, <2>8, <2>11, <2>12, Zenon DEF AskedZones, StartLetters, EndLetters
  <2>14. QED
    BY <1>3, <2>1, <2>13
<1>6. QED
  <2>1. Collected => pc = "collect"
    BY DEF Collected, Go
  <2>2. QED
    BY <1>1, <1>2, <1>4, <1>5, <2>1 DEF Flow

-----------------------------------------------------------------------------
(* The files.                                                              *)

(* An extent is left behind, in one of two ways.                           *)
LEMMA ExtentSteps ==
  ASSUME SkipExtent \/ RecordExtent
  PROVE  /\ pc = "collect" /\ pc' = "collect"
         /\ todo # <<>> /\ Head(todo) # <<>>
         /\ todo' = <<Tail(Head(todo))>> \o Tail(todo)
BY DEF SkipExtent, RecordExtent, InFile, RestOfFile, Go

LEMMA StepStages ==
  ASSUME ToolsAssumption, Typed, GeometryInv, TodoOK, StagesOK, [Next]_vars
  PROVE  StagesOK'
<1>1. /\ UNCHANGED <<program, system>>
      /\ Flow
      /\ UNCHANGED zonemap \/ InitZoneMap
  BY Frames, StepFlow, StepWriters DEF Frame, Writers
<1>2. (pc \in BeforeCollecting => todo = system.files /\ extents = <<>> /\ printed = <<>>)'
  BY <1>1 DEF StagesOK, Flow
<1>3. (system.fs = "other" => zonemap = NULL)'
  <2>1. CASE InitZoneMap
    <3>1. pc = "zonemap"
      BY <2>1 DEF InitZoneMap, Go
    <3>2. QED
      BY <1>1, <3>1 DEF GeometryInv, BeforeSizes
  <2>2. QED
    BY <1>1, <2>1 DEF StagesOK
<1>4. (pc = "report" => todo = <<>> /\ zonemap # NULL)'
  <2>1. CASE Collected
    BY <2>1 DEF Collected, SetNothing, init_vars
  <2>2. CASE pc = "report"
    <3>1. ~SkipExtent /\ ~RecordExtent /\ ~EndOfFile /\ ~InitZoneMap
      BY <2>2 DEF SkipExtent, RecordExtent, EndOfFile, InitZoneMap, Go
    <3>2. QED
      BY <1>1, <2>2, <3>1 DEF StagesOK, Flow
  <2>3. QED
    BY <1>1, <2>1, <2>2 DEF Flow
<1>5. RestOf(system.files, todo)'
  <2>1. PICK S : S = OnDevices
    OBVIOUS
  <2>2. system.files \in Seq(Seq(S)) /\ todo \in Seq(Seq(S))
    BY <2>1, FilesOnDevices DEF Typed, TodoOK
  <2>3. RestOf(system.files, todo)
    BY DEF StagesOK
  <2>4. CASE UNCHANGED todo
    BY <1>1, <2>3, <2>4
  <2>5. CASE SkipExtent \/ RecordExtent
    <3>1. /\ todo # <<>> /\ Head(todo) # <<>>
          /\ todo' = <<Tail(Head(todo))>> \o Tail(todo)
      BY <2>5, ExtentSteps
    <3>2. RestOf(system.files, todo')
      BY <2>2, <2>3, <3>1, RestWithoutExtent, ZenonT(30)
    <3>3. QED
      BY <1>1, <3>2
  <2>6. CASE EndOfFile /\ ~UNCHANGED todo
    <3>1. todo # <<>> /\ Head(todo) = <<>> /\ todo' = Tail(todo)
      BY <2>6 DEF EndOfFile
    <3>2. QED
      BY <1>1, <2>2, <2>3, <3>1, RestWithoutFile
  <2>7. QED
    BY <1>1, <2>4, <2>5, <2>6 DEF Flow
<1>6. QED
  BY <1>2, <1>3, <1>4, <1>5 DEF StagesOK

(* The next extent is left out when it is not on the zoned device, and     *)
(* recorded with its sector when it is.                                    *)
LEMMA NextFound ==
  ASSUME ControlAssumption, ToolsAssumption, Typed, GeometryInv, TodoOK, OptionsOK, Told,
         SkipExtent \/ RecordExtent
  PROVE  /\ SkipExtent => ~IsOnZns(NextExtent) /\ UNCHANGED extents
         /\ RecordExtent => /\ IsOnZns(NextExtent)
                            /\ \E x : /\ extents' = Append(extents, x)
                                      /\ x.phy_blk = SectorAt(NextExtent)
<1>1. pc = "collect" /\ InFile
  BY DEF SkipExtent, RecordExtent, Go
<1>2. SizesOK /\ SectorsOK
  BY <1>1, Zenon DEF GeometryInv, AfterSizes, AfterZns, Sized, Mapped, Told
<1>3. ctrl.offset = system.conv_bytes
  BY <1>2 DEF SizesOK, Told
<1>4. NextExtent \in OnDevices
  BY <1>1, NextOnDevices
<1>5. NextExtent.physical \in Nat /\ NextExtent.inline \in BOOLEAN /\ system.conv_bytes \in Nat
  BY <1>4, SystemInteger DEF OnDevices
<1>6. ctrl.exclude_inline <=> ~InlineShown
  BY DEF OptionsOK
<1>7. Excluded(NextExtent) <=> ~IsOnZns(NextExtent)
  BY <1>3, <1>5, <1>6 DEF Excluded, IsOnZns
<1>8. CASE SkipExtent
  <2>1. ~RecordExtent
    BY <1>8 DEF SkipExtent, RecordExtent
  <2>2. QED
    BY <1>7, <1>8, <2>1 DEF SkipExtent
<1>9. CASE RecordExtent
  <2>1. PICK cap : extents' = Append(extents, Extent(NextExtent, cap))
    BY <1>9 DEF RecordExtent
  <2>2. Extent(NextExtent, cap).phy_blk
          = (NextExtent.physical - ctrl.offset) \div 2 ^ ctrl.sector_shift
    BY DEF Extent
  <2>3. 2 ^ ctrl.sector_shift = system.sector
    <3>1. system.sector \in {512, 4096}
      BY SystemInteger
    <3>2. CASE system.sector = 512
      BY <1>2, <3>2, Powers DEF SectorsOK
    <3>3. CASE system.sector = 4096
      BY <1>2, <3>3, Powers DEF SectorsOK
    <3>4. QED
      BY <3>1, <3>2, <3>3
  <2>4. Extent(NextExtent, cap).phy_blk = SectorAt(NextExtent)
    BY <1>3, <2>2, <2>3, Zenon DEF SectorAt
  <2>5. ~SkipExtent /\ IsOnZns(NextExtent)
    BY <1>7, <1>9 DEF SkipExtent, RecordExtent
  <2>6. QED
    BY <2>1, <2>4, <2>5
<1>10. QED
  BY <1>8, <1>9

LEMMA StepFound ==
  ASSUME ControlAssumption, ToolsAssumption, IInv, GeometryInv, TodoOK, OptionsOK,
         StagesOK, FoundOK, [Next]_vars
  PROVE  FoundOK'
<1>1. /\ UNCHANGED <<program, system>>
      /\ Flow
      /\ UNCHANGED extents \/ RecordExtent
      /\ Typed
  BY Frames, StepFlow DEF Frame, IInv
<1>2. SUFFICES ASSUME Told'
               PROVE  FoundOK'
  BY DEF FoundOK
<1>3. Told
  BY <1>1, <1>2, ToldBefore
<1>4. PICK S : S = OnDevices
  OBVIOUS
<1>5. system.files \in Seq(Seq(S)) /\ todo \in Seq(Seq(S))
  BY <1>1, <1>4, FilesOnDevices DEF Typed, TodoOK
<1>6. RestOf(system.files, todo)
  BY DEF StagesOK
<1>7. CASE pc \in BeforeCollecting
  <2>1. todo' = system.files /\ extents' = <<>>
    BY <1>1, <1>7 DEF Flow, StagesOK
  <2>2. \A n \in DOMAIN system.files : \A k \in DOMAIN system.files[n] :
          ~Passed(system.files, system.files, n, k)
    BY <1>5, WholeRest
  <2>3. QED
    BY <1>1, <2>1, <2>2 DEF FoundOK
<1>8. CASE pc \notin BeforeCollecting
  <2>1. UNCHANGED given
    BY <1>1, <1>8 DEF Flow
  <2>2. /\ \A e : IsOnZns(e)' = IsOnZns(e)
        /\ \A e : SectorAt(e)' = SectorAt(e)
    BY <1>1, <2>1 DEF IsOnZns, SectorAt, InlineShown, Given
  <2> DEFINE files == system.files
             Old(j) == \E n \in DOMAIN files : \E k \in DOMAIN files[n] :
                         /\ IsOnZns(files[n][k])
                         /\ extents[j].phy_blk = SectorAt(files[n][k])
             New(j) == \E n \in DOMAIN files : \E k \in DOMAIN files[n] :
                         /\ IsOnZns(files[n][k])
                         /\ extents'[j].phy_blk = SectorAt(files[n][k])
  <2>3. SUFFICES /\ \A j \in DOMAIN extents' : New(j)
                 /\ \A n \in DOMAIN files : \A k \in DOMAIN files[n] :
                      Passed(files, todo', n, k) /\ IsOnZns(files[n][k]) =>
                        \E j \in DOMAIN extents' : extents'[j].phy_blk = SectorAt(files[n][k])
    BY <1>1, <2>2 DEF FoundOK
  <2>4. /\ \A j \in DOMAIN extents : Old(j)
        /\ \A n \in DOMAIN files : \A k \in DOMAIN files[n] :
             Passed(files, todo, n, k) /\ IsOnZns(files[n][k]) =>
               \E j \in DOMAIN extents : extents[j].phy_blk = SectorAt(files[n][k])
    BY <1>3 DEF FoundOK
  <2>5. CASE UNCHANGED <<todo, extents>>
    BY <2>4, <2>5
  <2>6. CASE SkipExtent \/ RecordExtent
    <3>1. todo # <<>> /\ Head(todo) # <<>> /\ todo' = <<Tail(Head(todo))>> \o Tail(todo)
      BY <2>6, ExtentSteps
    <3>2. PICK e : e = NextExtent
      OBVIOUS
    <3>3. /\ \A n \in DOMAIN files : \A k \in DOMAIN files[n] :
               Passed(files, todo', n, k) => Passed(files, todo, n, k) \/ files[n][k] = e
          /\ \E n \in DOMAIN files : \E k \in DOMAIN files[n] : files[n][k] = e
      <4>1. OneMorePassed(files, todo, todo', Head(Head(todo)))
        BY <1>5, <1>6, <3>1, RestWithoutExtent, ZenonT(30)
      <4>2. e = Head(Head(todo))
        BY <3>2 DEF NextExtent
      <4>3. QED
        BY <4>1, <4>2 DEF OneMorePassed
    <3>4. CASE SkipExtent
      <4>1. ~IsOnZns(e) /\ UNCHANGED extents
        BY <1>1, <1>3, <3>2, <3>4, NextFound
      <4>2. QED
        BY <2>4, <3>3, <4>1
    <3>5. CASE RecordExtent
      <4>1. IsOnZns(e)
        BY <1>1, <1>3, <3>2, <3>5, NextFound
      <4>2. PICK x : extents' = Append(extents, x) /\ x.phy_blk = SectorAt(e)
        BY <1>1, <1>3, <3>2, <3>5, NextFound
      <4>3. PICK T : extents \in Seq(T)
        BY DEF IInv, CrashInv
      <4>4. /\ \A j \in DOMAIN extents' :
                 \/ j \in DOMAIN extents /\ extents'[j] = extents[j]
                 \/ extents'[j] = x
            /\ \A j \in DOMAIN extents : j \in DOMAIN extents' /\ extents'[j] = extents[j]
            /\ \E j \in DOMAIN extents' : extents'[j] = x
        <5>1. PICK m \in Nat : m = Len(extents)
          BY <4>3
        <5>2. /\ DOMAIN extents = 1 .. m
              /\ DOMAIN extents' = 1 .. m + 1
              /\ extents'[m + 1] = x
              /\ \A j \in 1 .. m : extents'[j] = extents[j]
          BY <4>2, <4>3, <5>1
        <5>3. m + 1 \in 1 .. m + 1 /\ 1 .. m \subseteq 1 .. m + 1
              /\ \A k \in 1 .. m + 1 : k \in 1 .. m \/ k = m + 1
          OBVIOUS
        <5>4. QED
          BY <5>2, <5>3
      <4>5. ASSUME NEW j \in DOMAIN extents'
            PROVE  New(j)
        <5>1. CASE j \in DOMAIN extents /\ extents'[j] = extents[j]
          BY <2>4, <5>1
        <5>2. CASE extents'[j] = x
          BY <3>3, <4>1, <4>2, <5>2
        <5>3. QED
          BY <4>4, <5>1, <5>2
      <4>6. ASSUME NEW n \in DOMAIN files, NEW k \in DOMAIN files[n],
                   Passed(files, todo', n, k), IsOnZns(files[n][k])
            PROVE  \E j \in DOMAIN extents' : extents'[j].phy_blk = SectorAt(files[n][k])
        <5>1. CASE Passed(files, todo, n, k)
          <6>1. PICK j \in DOMAIN extents : extents[j].phy_blk = SectorAt(files[n][k])
            BY <2>4, <4>6, <5>1
          <6>2. QED
            BY <4>4, <6>1
        <5>2. CASE files[n][k] = e
          BY <4>2, <4>4, <5>2
        <5>3. QED
          BY <3>3, <4>6, <5>1, <5>2
      <4>7. QED
        BY <4>5, <4>6
    <3>6. QED
      BY <2>6, <3>4, <3>5
  <2>7. CASE EndOfFile /\ ~UNCHANGED todo
    <3>1. todo # <<>> /\ Head(todo) = <<>> /\ todo' = Tail(todo) /\ UNCHANGED extents
      BY <2>7 DEF EndOfFile
    <3>2. \A n \in DOMAIN files : \A k \in DOMAIN files[n] :
            Passed(files, todo', n, k) => Passed(files, todo, n, k)
      BY <1>5, <1>6, <3>1, RestWithoutFile, ZenonT(30)
    <3>3. QED
      BY <2>4, <3>1, <3>2
  <2>8. QED
    BY <1>1, <2>5, <2>6, <2>7 DEF Flow, EndOfFile
<1>9. QED
  BY <1>7, <1>8

-----------------------------------------------------------------------------
(* The zones.                                                              *)

(* The sectors of a segment.                                               *)
InSegment(sector, blocks) ==
  \/ sector = 512 /\ blocks = 4096
  \/ sector = 4096 /\ blocks = 512

(* Whole zones and whole segments of the zoned device are in step.         *)
LEMMA SegmentsInZones ==
  ASSUME NEW d \in Nat, NEW q \in Nat \ {0}, NEW m \in Nat, NEW sector, NEW blocks,
         InSegment(sector, blocks)
  PROVE  /\ d \div (F2FS_SEGMENT_BYTES * q) \in Nat
         /\ ((d \div sector) \div blocks) * blocks \in Nat
         /\ ((d \div sector) \div blocks) * blocks >= m * (blocks * q)
              <=> d \div (F2FS_SEGMENT_BYTES * q) >= m
<1>1. PICK s \in Nat : s = d \div 2097152
  BY SMT
<1>2. 2097152 * s <= d /\ d < 2097152 * s + 2097152
  BY <1>1, SMT
<1>3. (d \div sector) \div blocks = s
  <2>1. CASE sector = 512 /\ blocks = 4096
    <3>1. (d \div 512) \div 4096 = s
      BY <1>1, SMT
    <3>2. QED
      BY <2>1, <3>1
  <2>2. CASE sector = 4096 /\ blocks = 512
    <3>1. (d \div 4096) \div 512 = s
      BY <1>1, SMT
    <3>2. QED
      BY <2>2, <3>1
  <2>3. QED
    BY <2>1, <2>2 DEF InSegment
<1>4. PICK z \in Nat, r \in Nat : s = z * q + r /\ r < q
  <2>1. PICK u \in Nat : u = s \div q
    BY SMT
  <2>2. PICK t \in Nat : t = s % q
    BY SMT
  <2>3. t < q
    BY <2>2, SMT
  <2>4. s = u * q + t
    BY <2>1, <2>2, SMT
  <2>5. QED
    BY <2>3, <2>4
<1>5. PICK a \in Nat : a = z * q
  BY SMT
<1>6. PICK w \in Nat \ {0} : w = 2097152 * q
  BY SMT
<1>7. d \div w = z
  <2>1. z * w = 2097152 * a
    BY <1>5, <1>6, SMT
  <2>2. PICK t \in Int : t = d - 2097152 * a
    BY SMT
  <2>3. t \in 0 .. w - 1
    BY <1>2, <1>4, <1>5, <1>6, <2>2, SMT
  <2>4. d = z * w + t
    BY <2>1, <2>2, SMT
  <2>5. (z * w + t) \div w = z
    BY <2>3, QuotientOfSum
  <2>6. QED
    BY <2>4, <2>5
<1>8. PICK b \in Nat : b = m * q
  BY SMT
<1>9. s >= b <=> z >= m
  <2>1. CASE z >= m
    <3>1. z * q >= m * q
      BY <2>1, SMT
    <3>2. QED
      BY <1>4, <1>5, <1>8, <2>1, <3>1, SMT
  <2>2. CASE z + 1 <= m
    <3>1. (z + 1) * q <= m * q /\ (z + 1) * q = z * q + q
      BY <2>2, SMT
    <3>2. a + q <= b
      BY <1>5, <1>8, <3>1, SMT
    <3>3. s < b
      BY <1>4, <1>5, <3>2, SMT
    <3>4. QED
      BY <2>2, <3>3, SMT
  <2>3. QED
    BY <2>1, <2>2, SMT
<1>10. blocks = 512 \/ blocks = 4096
  BY DEF InSegment
<1>11. m * (blocks * q) = blocks * b
  <2>1. CASE blocks = 512
    BY <1>8, <2>1, SMT
  <2>2. CASE blocks = 4096
    BY <1>8, <2>2, SMT
  <2>3. QED
    BY <1>10, <2>1, <2>2
<1>12. s * blocks \in Nat /\ (s * blocks >= blocks * b <=> s >= b)
  <2>1. CASE blocks = 512
    BY <2>1, SMT
  <2>2. CASE blocks = 4096
    BY <2>2, SMT
  <2>3. QED
    BY <1>10, <2>1, <2>2
<1>13. QED
  <2>1. F2FS_SEGMENT_BYTES * q = w
    BY <1>6, SMT DEF F2FS_SEGMENT_BYTES
  <2>2. QED
    BY <1>3, <1>7, <1>9, <1>11, <1>12, <2>1

(* Where the reports start and end, in the zones of an extent.             *)
LEMMA WindowOfExtent ==
  ASSUME ControlAssumption, ToolsAssumption, Typed, ctrl \in ControlType, SectorsOK, SizesOK,
         "zone_size" \notin unread, "device_size" \notin unread,
         NEW e, e.physical \in Nat, e.physical >= system.conv_bytes,
         NEW x, x.phy_blk = SectorAt(e)
  PROVE  /\ ZoneAt(e) \in Nat
         /\ BehindEnd(x) <=> ZoneAt(e) >= ctrl.end_zone
         /\ BelowStart(x) <=> ZoneAt(e) + 1 < ctrl.start_zone
<1>1. /\ system.sector \in {512, 4096}
      /\ system.zone_sectors \in Nat \ {0}
      /\ system.conv_bytes \in Nat
  BY SystemInteger
<1>2. PICK d \in Nat : d = e.physical - system.conv_bytes
  <2>1. e.physical - system.conv_bytes \in Nat
    BY <1>1
  <2>2. QED
    BY <2>1
<1>3. PICK sector : sector = system.sector
  OBVIOUS
<1>4. PICK blocks : InSegment(sector, blocks)
  <2>1. sector = 512 => InSegment(sector, 4096)
    BY DEF InSegment
  <2>2. sector = 4096 => InSegment(sector, 512)
    BY DEF InSegment
  <2>3. QED
    BY <1>1, <1>3, <2>1, <2>2, SMT
<1>5. PICK q \in Nat \ {0} : system.zone_sectors = 4096 * q
  <2>1. system.zone_sectors % 4096 = 0
    BY ZoneSectors DEF Typed
  <2>2. PICK n \in Nat \ {0} : n = system.zone_sectors
    BY <1>1
  <2>3. n % 4096 = 0
    BY <2>1, <2>2
  <2>4. n = 4096 * (n \div 4096) /\ n \div 4096 \in Nat \ {0}
    BY <2>3, SMT
  <2>5. QED
    BY <2>2, <2>4
<1>6. x.phy_blk = d \div sector
  BY <1>2, <1>3 DEF SectorAt
<1>7. PICK size \in Nat \ {0} : size = blocks * q /\ ctrl.znsdev.zone_size = size
  <2>1. blocks * q \in Nat \ {0}
    <3>1. blocks = 512 \/ blocks = 4096
      BY <1>4 DEF InSegment
    <3>2. QED
      BY <3>1, SMT
  <2>2. OnDevice(system.zone_sectors) = blocks * q
    <3>1. CASE sector = 512 /\ blocks = 4096
      BY <1>3, <1>5, <3>1 DEF OnDevice
    <3>2. CASE sector = 4096 /\ blocks = 512
      <4>1. (4096 * q) \div 8 = 512 * q
        BY SMT
      <4>2. QED
        BY <1>3, <1>5, <3>2, <4>1 DEF OnDevice
    <3>3. QED
      BY <1>4, <3>1, <3>2 DEF InSegment
  <2>3. ctrl.znsdev.zone_size = OnDevice(system.zone_sectors)
    BY DEF SizesOK
  <2>4. QED
    BY <2>1, <2>2, <2>3
<1>8. PICK zone : zone = ZoneAt(e)
  OBVIOUS
<1>9. zone = d \div (F2FS_SEGMENT_BYTES * q)
  <2>1. system.zone_sectors * 512 = F2FS_SEGMENT_BYTES * q
    BY <1>5, SMT DEF F2FS_SEGMENT_BYTES
  <2>2. QED
    BY <1>2, <1>8, <2>1, Zenon DEF ZoneAt
<1>10. PICK start : start = SegmentStart(x)
  OBVIOUS
<1>11. start = ((d \div sector) \div blocks) * blocks
  <2>1. 2 ^ ctrl.segment_shift = blocks
    <3>1. CASE sector = 512 /\ blocks = 4096
      BY <1>3, <3>1, Powers DEF SectorsOK
    <3>2. CASE sector = 4096 /\ blocks = 512
      BY <1>3, <3>2, Powers DEF SectorsOK
    <3>3. QED
      BY <1>4, <3>1, <3>2 DEF InSegment
  <2>2. start = (x.phy_blk \div 2 ^ ctrl.segment_shift) * 2 ^ ctrl.segment_shift
    BY <1>10 DEF SegmentStart, FsSegment, SegmentIndex
  <2>3. QED
    BY <1>6, <2>1, <2>2, Zenon
<1>12. ASSUME NEW m \in Nat
       PROVE  zone \in Nat /\ start \in Nat /\ (start >= m * size <=> zone >= m)
  <2>1. /\ d \div (F2FS_SEGMENT_BYTES * q) \in Nat
        /\ ((d \div sector) \div blocks) * blocks \in Nat
        /\ ((d \div sector) \div blocks) * blocks >= m * (blocks * q)
             <=> d \div (F2FS_SEGMENT_BYTES * q) >= m
    BY <1>4, SegmentsInZones, ZenonT(30)
  <2>2. QED
    BY <1>7, <1>9, <1>11, <2>1, ZenonT(30)
<1>13. zone \in Nat /\ start \in Nat
  <2>1. 0 \in Nat
    OBVIOUS
  <2>2. QED
    BY <1>12, <2>1, ZenonT(30)
<1>14. ctrl.end_zone \in Nat /\ ctrl.start_zone \in Nat
  BY DEF ControlType
<1>15. BehindEnd(x) <=> zone >= ctrl.end_zone
  BY <1>7, <1>10, <1>12, <1>14, Zenon DEF BehindEnd
<1>16. BelowStart(x) <=> zone + 1 < ctrl.start_zone
  <2>1. PICK first \in Nat : first = ctrl.start_zone
    BY <1>14
  <2>2. BelowStart(x) <=> start + size < first * size
    BY <1>7, <1>10, <2>1 DEF BelowStart
  <2>3. CASE first = 0
    BY <1>13, <2>1, <2>2, <2>3
  <2>4. CASE first # 0
    <3>1. PICK m \in Nat : first = m + 1
      <4>1. first - 1 \in Nat /\ first = (first - 1) + 1
        BY <2>4
      <4>2. QED
        BY <4>1
    <3>2. PICK t \in Nat : t = m * size /\ first * size = t + size
      <4>1. m * size \in Nat /\ (m + 1) * size = m * size + size
        BY SMT
      <4>2. QED
        BY <3>1, <4>1
    <3>3. BelowStart(x) <=> start < t
      BY <1>13, <2>2, <3>2, SMTT(30)
    <3>4. start >= t <=> zone >= m
      BY <1>12, <3>2
    <3>5. BelowStart(x) <=> zone < m
      BY <1>13, <3>2, <3>3, <3>4
    <3>6. QED
      BY <1>13, <2>1, <3>1, <3>5
  <2>5. QED
    BY <2>3, <2>4
<1>17. QED
  BY <1>8, <1>13, <1>15, <1>16

-----------------------------------------------------------------------------
(* The reports.                                                            *)

LEMMA ExtentsOfFiles ==
  ASSUME NEW e
  PROVE  e \in OnZns(AllFiles) <=>
           /\ IsOnZns(e)
           /\ \E n \in DOMAIN system.files : \E k \in DOMAIN system.files[n] :
                e = system.files[n][k]
BY DEF OnZns, AllFiles, IsOnZns

LEMMA PhysicalOfExtent ==
  ASSUME ToolsAssumption, Typed, NEW e \in OnZns(AllFiles)
  PROVE  e.physical \in Nat /\ e.physical >= system.conv_bytes
<1>1. PICK n \in DOMAIN system.files : \E k \in DOMAIN system.files[n] : e = system.files[n][k]
  BY ExtentsOfFiles
<1>2. IsOnZns(e)
  BY ExtentsOfFiles
<1>3. PICK S : S = OnDevices
  OBVIOUS
<1>4. system.files \in Seq(Seq(S))
  BY <1>3, FilesOnDevices DEF Typed
<1>5. system.files[n] \in Seq(S)
  BY <1>4
<1>6. e \in OnDevices
  BY <1>1, <1>3, <1>5
<1>7. QED
  BY <1>2, <1>6 DEF OnDevices, IsOnZns

(* What has been recorded when a report begins.                            *)
LEMMA AllFound ==
  ASSUME ToolsAssumption, Typed, StagesOK, FoundOK, Told, pc = "report"
  PROVE  /\ \A x \in Recorded : \E e \in OnZns(AllFiles) : x.phy_blk = SectorAt(e)
         /\ \A e \in OnZns(AllFiles) : \E x \in Recorded : x.phy_blk = SectorAt(e)
<1>1. todo = <<>>
  BY DEF StagesOK
<1>2. ASSUME NEW x \in Recorded
      PROVE  \E e \in OnZns(AllFiles) : x.phy_blk = SectorAt(e)
  <2>1. PICK j \in DOMAIN extents : x = extents[j]
    BY DEF Recorded
  <2>2. PICK n \in DOMAIN system.files : \E k \in DOMAIN system.files[n] :
          /\ IsOnZns(system.files[n][k])
          /\ extents[j].phy_blk = SectorAt(system.files[n][k])
    BY DEF FoundOK
  <2>3. PICK k \in DOMAIN system.files[n] :
          /\ IsOnZns(system.files[n][k])
          /\ extents[j].phy_blk = SectorAt(system.files[n][k])
    BY <2>2
  <2>4. system.files[n][k] \in OnZns(AllFiles)
    BY <2>3, ExtentsOfFiles
  <2>5. QED
    BY <2>1, <2>3, <2>4
<1>3. ASSUME NEW e \in OnZns(AllFiles)
      PROVE  \E x \in Recorded : x.phy_blk = SectorAt(e)
  <2>1. PICK n \in DOMAIN system.files : \E i \in DOMAIN system.files[n] : e = system.files[n][i]
    BY ExtentsOfFiles
  <2>2. PICK k \in DOMAIN system.files[n] : e = system.files[n][k]
    BY <2>1
  <2>3. IsOnZns(e)
    BY ExtentsOfFiles
  <2>4. Passed(system.files, todo, n, k)
    <3>1. PICK S : S = OnDevices
      OBVIOUS
    <3>2. system.files \in Seq(Seq(S))
      BY <3>1, FilesOnDevices DEF Typed
    <3>3. n \in Nat /\ n <= Len(system.files) /\ Len(todo) = 0
      BY <1>1, <3>2
    <3>4. n + Len(todo) <= Len(system.files)
      BY <3>2, <3>3
    <3>5. QED
      BY <3>4 DEF Passed
  <2>5. PICK j \in DOMAIN extents : extents[j].phy_blk = SectorAt(e)
    BY <2>2, <2>3, <2>4 DEF FoundOK
  <2>6. QED
    BY <2>5 DEF Recorded
<1>4. QED
  BY <1>2, <1>3

(* The window of a report is what was asked for.                           *)
LEMMA WindowOfReport ==
  ASSUME ControlAssumption, ToolsAssumption, Typed, GeometryInv, WindowOK, Told,
         pc = "report", BySegment, NEW e \in OnZns(AllFiles), NEW x, x.phy_blk = SectorAt(e)
  PROVE  /\ ~BehindEnd(x) /\ ~BelowStart(x) <=> AskedFor(e)
         /\ StuckOn(x) => ~AskedFor(e) /\ \A z \in AskedZones : ZoneAt(e) < z
<1>1. SizesOK /\ SectorsOK /\ ctrl \in ControlType
  BY Zenon DEF GeometryInv, AfterSizes, AfterZns, Sized, Mapped, Told
<1>2. "zone_size" \notin unread /\ "device_size" \notin unread
  BY DEF Told
<1>3. e.physical \in Nat /\ e.physical >= system.conv_bytes
  BY PhysicalOfExtent
<1>4. PICK zone : zone = ZoneAt(e)
  OBVIOUS
<1>5. /\ zone \in Nat
      /\ BehindEnd(x) <=> zone >= ctrl.end_zone
      /\ BelowStart(x) <=> zone + 1 < ctrl.start_zone
  BY <1>1, <1>2, <1>3, <1>4, WindowOfExtent
<1>6. AskedZones = ctrl.start_zone - 1 .. ctrl.end_zone - 1
  BY DEF WindowOK, BySegment
<1>7. AskedFor(e) <=> zone \in AskedZones
  BY <1>4 DEF AskedFor
<1>8. ctrl.start_zone \in Nat /\ ctrl.end_zone \in Nat
  BY <1>1 DEF ControlType
<1>9. ~BehindEnd(x) /\ ~BelowStart(x) <=> AskedFor(e)
  BY <1>5, <1>6, <1>7, <1>8
<1>10. ASSUME StuckOn(x)
       PROVE  ~AskedFor(e) /\ \A z \in AskedZones : zone < z
  <2>1. zone + 1 < ctrl.start_zone
    BY <1>5, <1>10 DEF StuckOn
  <2>2. QED
    BY <1>5, <1>6, <1>7, <1>8, <2>1
<1>11. QED
  BY <1>4, <1>9, <1>10

LEMMA ShownIsAsked ==
  ASSUME ControlAssumption, ToolsAssumption, Typed, GeometryInv, WindowOK, StagesOK, FoundOK,
         Told, pc = "report", NEW entry,
         \/ BySegment /\ (\A x \in Recorded : ~StuckOn(x)) /\ entry.shown = InWindow
         \/ ~BySegment /\ entry.shown = Recorded
  PROVE  SectorsShown(entry) = SectorsAsked
<1>1. /\ \A x \in Recorded : \E e \in OnZns(AllFiles) : x.phy_blk = SectorAt(e)
      /\ \A e \in OnZns(AllFiles) : \E x \in Recorded : x.phy_blk = SectorAt(e)
  BY AllFound
<1>2. entry.shown \subseteq Recorded
  BY DEF InWindow
<1>3. ASSUME NEW e \in OnZns(AllFiles), NEW x \in Recorded, x.phy_blk = SectorAt(e)
      PROVE  x \in entry.shown <=> AskedFor(e)
  <2>1. CASE BySegment /\ (\A y \in Recorded : ~StuckOn(y)) /\ entry.shown = InWindow
    <3>1. ~StuckOn(x)
      BY <1>3, <2>1
    <3>2. ~BehindEnd(x) /\ ~BelowStart(x) <=> AskedFor(e)
      BY <1>3, <2>1, WindowOfReport
    <3>3. QED
      BY <1>3, <2>1, <3>1, <3>2 DEF InWindow, StuckOn
  <2>2. CASE ~BySegment /\ entry.shown = Recorded
    BY <1>3, <2>2 DEF AskedFor
  <2>3. QED
    BY <2>1, <2>2
<1>4. ASSUME NEW x \in entry.shown
      PROVE  \E e \in OnZns(AllFiles) : AskedFor(e) /\ x.phy_blk = SectorAt(e)
  BY <1>1, <1>2, <1>3
<1>5. ASSUME NEW e \in OnZns(AllFiles), AskedFor(e)
      PROVE  \E x \in entry.shown : x.phy_blk = SectorAt(e)
  BY <1>1, <1>3, <1>5
<1>6. QED
  BY <1>4, <1>5 DEF SectorsShown, SectorsAsked

(* What a step prints.                                                     *)
EntryClaim(x) ==
  /\ x.kind \in {"json", "segments", "fiemap", "none_found"} => system.fs # "other"
  /\ Told =>
       /\ ShowsWhatWasAsked(x)
       /\ x.kind = NoneFound => pc' = "error" /\ UNCHANGED todo /\ NoneThere

LEMMA FirstFiles ==
  ASSUME NEW m \in Nat, NEW l \in Nat, l >= 1, l <= m, NEW n \in 1 .. m - l + 1
  PROVE  n \in 1 .. m /\ n \in Nat /\ (n + l <= m \/ n + l = m + 1)
<1>1. n \in Int /\ 1 <= n /\ n <= m - l + 1
  OBVIOUS
<1>2. QED
  BY <1>1

(* When no extents are recorded at the end of a file, none were passed.    *)
LEMMA NothingFound ==
  ASSUME ToolsAssumption, Typed, TodoOK, StagesOK, FoundOK, Told, todo # <<>>,
         Head(todo) = <<>>, extents = <<>>
  PROVE  NoneThere
<1>1. SUFFICES ASSUME NEW n \in 1 .. Len(system.files) - Len(todo) + 1,
                      NEW k \in DOMAIN system.files[n], IsOnZns(system.files[n][k])
               PROVE  FALSE
  BY DEF NoneThere, OnZns, IsOnZns
<1>2. PICK S : S = OnDevices
  OBVIOUS
<1>3. system.files \in Seq(Seq(S)) /\ todo \in Seq(Seq(S))
  BY <1>2, FilesOnDevices DEF Typed, TodoOK
<1>4. PICK m \in Nat, l \in Nat : m = Len(system.files) /\ l = Len(todo) /\ l >= 1 /\ l <= m
  BY <1>3 DEF StagesOK, RestOf
<1>5. n \in 1 .. m - l + 1
  BY <1>4
<1>6. n \in 1 .. m /\ n \in Nat /\ (n + l <= m \/ n + l = m + 1)
  BY <1>4, <1>5, FirstFiles, SMTT(30)
<1>7. n \in DOMAIN system.files
  BY <1>3, <1>4, <1>6
<1>8. Passed(system.files, todo, n, k)
  <2>1. system.files[n] \in Seq(S)
    BY <1>3, <1>7
  <2>2. k \in Nat /\ k <= Len(system.files[n])
    BY <2>1
  <2>3. Len(todo[1]) = 0
    BY <1>3
  <2>4. k + Len(todo[1]) <= Len(system.files[n])
    BY <2>1, <2>2, <2>3
  <2>5. QED
    BY <1>4, <1>6, <2>4 DEF Passed
<1>9. PICK j \in DOMAIN extents : extents[j].phy_blk = SectorAt(system.files[n][k])
  BY <1>1, <1>7, <1>8 DEF FoundOK
<1>10. QED
  BY <1>9

LEMMA StepClaim ==
  ASSUME ControlAssumption, ToolsAssumption, Typed, GeometryInv, TodoOK, OptionsOK, WindowOK,
         StagesOK, FoundOK, [Next]_vars
  PROVE  UNCHANGED printed \/ \E x : printed' = Append(printed, x) /\ EntryClaim(x)
<1>1. CASE EndOfFile /\ ~UNCHANGED printed
  <2>1. /\ todo # <<>> /\ Head(todo) = <<>> /\ zonemap # NULL /\ extents = <<>>
        /\ pc' = "error" /\ UNCHANGED todo
        /\ printed' = Append(printed, [kind |-> "none_found"])
    BY <1>1 DEF EndOfFile, Go
  <2>2. system.fs # "other"
    BY <2>1 DEF StagesOK
  <2>3. Told => NoneThere
    BY <2>1, NothingFound
  <2>4. EntryClaim([kind |-> "none_found"])
    BY <2>1, <2>2, <2>3 DEF EntryClaim, ShowsWhatWasAsked
  <2>5. QED
    BY <2>1, <2>4
<1>2. CASE (ReportJson \/ ReportSegments \/ ReportFiemap) /\ ~UNCHANGED printed
  <2>1. pc = "report"
    BY <1>2 DEF ReportJson, ReportSegments, ReportFiemap, Go
  <2>2. system.fs # "other"
    BY <2>1 DEF StagesOK
  <2>3. PICK x : /\ printed' = Append(printed, x)
                 /\ x.kind \in {"json", "segments", "fiemap"}
                 /\ Told => ShowsWhatWasAsked(x)
    <3>1. CASE ReportJson
      <4>1. PICK shown \in Dumps :
              printed' = Append(printed, [kind |-> "json", info |-> JsonInfo(ctrl),
                                          shown |-> shown])
        BY <1>2, <3>1 DEF ReportJson, Show, ShowsJson
      <4>2. BySegment /\ \A y \in Recorded : ~StuckOn(y)
        BY <3>1 DEF ReportJson
      <4> DEFINE x == [kind |-> "json", info |-> JsonInfo(ctrl), shown |-> shown]
                 whole == [shown |-> InWindow]
      <4>3. shown \subseteq InWindow
        BY <4>1 DEF Dumps
      <4>4. Told => SectorsShown(whole) = SectorsAsked
        BY <2>1, <4>2, ShownIsAsked
      <4>5. SectorsShown(x) \subseteq SectorsShown(whole)
        BY <4>3 DEF SectorsShown
      <4>6. Told => ShowsWhatWasAsked(x)
        BY <4>4, <4>5 DEF ShowsWhatWasAsked
      <4>7. x.kind = "json"
        OBVIOUS
      <4> HIDE DEF x
      <4>8. printed' = Append(printed, x)
        BY <4>1 DEF x
      <4>9. QED
        BY <4>6, <4>7, <4>8
    <3>2. CASE ReportSegments
      <4> DEFINE x == [kind |-> "segments", stats |-> ctrl.show_class_stats,
                       only_stats |-> ctrl.show_only_stats,
                       shown |-> {e \in InWindow : ~ctrl.show_only_stats}]
      <4>1. printed' = Append(printed, x)
        BY <3>2 DEF ReportSegments, Show
      <4>2. BySegment /\ \A y \in Recorded : ~StuckOn(y)
        BY <3>2 DEF ReportSegments
      <4>3. ctrl.show_only_stats <=> StatsOnly
        BY <4>2 DEF OptionsOK, StatsOnly, BySegment
      <4>4. CASE StatsOnly
        <5>1. x.shown = {}
          BY <4>3, <4>4
        <5>2. SectorsShown(x) = {}
          BY <5>1 DEF SectorsShown
        <5>3. x.kind = "segments"
          OBVIOUS
        <5> HIDE DEF x
        <5>4. QED
          BY <4>1, <4>4, <5>2, <5>3 DEF ShowsWhatWasAsked
      <4>5. CASE ~StatsOnly
        <5>1. x.shown = InWindow
          BY <4>3, <4>5
        <5>2. x.kind = "segments"
          OBVIOUS
        <5> HIDE DEF x
        <5>3. Told => SectorsShown(x) = SectorsAsked
          BY <2>1, <4>2, <5>1, ShownIsAsked
        <5>4. QED
          BY <4>1, <4>5, <5>2, <5>3 DEF ShowsWhatWasAsked
      <4>6. QED
        BY <4>4, <4>5
    <3>3. CASE ReportFiemap
      <4> DEFINE x == [kind |-> "fiemap", holes |-> ctrl.show_holes, shown |-> Recorded]
      <4>1. printed' = Append(printed, x)
        BY <3>3 DEF ReportFiemap, Show
      <4>2. ~BySegment
        BY <3>3 DEF ReportFiemap
      <4>3. x.shown = Recorded /\ x.kind = "fiemap"
        OBVIOUS
      <4> HIDE DEF x
      <4>4. Told => SectorsShown(x) = SectorsAsked
        BY <2>1, <4>2, <4>3, ShownIsAsked
      <4>5. QED
        BY <4>1, <4>2, <4>3, <4>4 DEF ShowsWhatWasAsked, StatsOnly
    <3>4. QED
      BY <1>2, <3>1, <3>2, <3>3
  <2>4. x.kind # NoneFound
    BY <2>3 DEF NoneFound
  <2>5. EntryClaim(x)
    BY <2>2, <2>3, <2>4 DEF EntryClaim
  <2>6. QED
    BY <2>3, <2>5
<1>3. CASE ShowSuperBlock \/ ShowCheckpoint \/ ShowInode
  <2>1. PICK x : /\ printed' = Append(printed, x)
                 /\ x.kind \in {"superblock", "checkpoint", "inode"}
    <3>1. CASE ShowSuperBlock
      BY <3>1 DEF ShowSuperBlock, Show
    <3>2. CASE ShowCheckpoint
      BY <3>2 DEF ShowCheckpoint, Show
    <3>3. CASE ShowInode
      <4>1. printed' = Append(printed,
                         [kind |-> "inode", zone |-> GetZoneNumber(ctrl, InodeLba),
                          pbas |-> InodeLba, pbae |-> InodeLba + F2FS_SECS_PER_BLOCK])
        BY <3>3 DEF ShowInode, Show
      <4>2. QED
        BY <4>1
    <3>4. QED
      BY <1>3, <3>1, <3>2, <3>3
  <2>2. EntryClaim(x)
    BY <2>1 DEF EntryClaim, NoneFound, ShowsWhatWasAsked
  <2>3. QED
    BY <2>1, <2>2
<1>4. QED
  BY <1>1, <1>2, <1>3, StepWriters DEF Writers

LEMMA StepReports ==
  ASSUME ControlAssumption, ToolsAssumption, Typed, GeometryInv, TodoOK, PrintedOK, OptionsOK,
         WindowOK, StagesOK, FoundOK, ReportsOK, [Next]_vars
  PROVE  ReportsOK'
<1>1. UNCHANGED <<program, system>> /\ Flow
  BY Frames, StepFlow DEF Frame
<1>2. CASE pc \in BeforeCollecting
  <2>1. printed' = <<>>
    BY <1>1, <1>2 DEF Flow, StagesOK
  <2> Entries' = {}
    BY <2>1 DEF Entries
  <2>2. pc' # "hang"
    <3>1. pc # "hang" /\ pc # "report"
      BY <1>2 DEF BeforeCollecting, Early
    <3>2. ~ReportHangs
      BY <3>1 DEF ReportHangs, Go
    <3>3. QED
      BY <1>1, <3>1, <3>2 DEF Flow
  <2>3. QED
    BY <2>1, <2>2 DEF ReportsOK
<1>3. CASE pc \notin BeforeCollecting
  <2>1. UNCHANGED given
    BY <1>1, <1>3 DEF Flow
  <2>2. /\ AskedZones' = AskedZones
        /\ OnZns(AllFiles)' = OnZns(AllFiles)
        /\ \A e : /\ AskedFor(e)' = AskedFor(e)
                  /\ ZoneAt(e)' = ZoneAt(e)
                  /\ SectorAt(e)' = SectorAt(e)
    <3>1. AskedZones' = AskedZones
      BY <1>1, <2>1 DEF AskedZones, LastArg, Given
    <3>2. OnZns(AllFiles)' = OnZns(AllFiles)
      BY <1>1, <2>1 DEF OnZns, AllFiles, InlineShown, Given
    <3>3. \A e : ZoneAt(e)' = ZoneAt(e) /\ SectorAt(e)' = SectorAt(e)
      BY <1>1 DEF ZoneAt, SectorAt
    <3>4. \A e : AskedFor(e)' = AskedFor(e)
      BY <1>1, <3>1, <3>3 DEF AskedFor, BySegment
    <3>5. QED
      BY <3>1, <3>2, <3>3, <3>4
  <2>3. ASSUME NEW x, ShowsWhatWasAsked(x)
        PROVE  ShowsWhatWasAsked(x)'
    <3>1. SectorsAsked' = SectorsAsked
      <4>1. {e \in OnZns(AllFiles) : AskedFor(e)}' = {e \in OnZns(AllFiles) : AskedFor(e)}
        BY <2>2
      <4>2. \A e : SectorAt(e)' = SectorAt(e)
        BY <2>2
      <4>3. QED
        BY <4>1, <4>2 DEF SectorsAsked
    <3>2. StatsOnly' = StatsOnly
      BY <1>1, <2>1 DEF StatsOnly, BySegment, Given
    <3>3. SectorsShown(x)' = SectorsShown(x)
      BY DEF SectorsShown
    <3>4. QED
      BY <2>3, <3>1, <3>2, <3>3, Zenon DEF ShowsWhatWasAsked
  <2>4. HangsForAReason => HangsForAReason'
    BY <2>2 DEF HangsForAReason
  <2>5. UNCHANGED todo /\ NoneThere => NoneThere'
    BY <1>1, <2>1 DEF NoneThere, OnZns, InlineShown, Given
  <2>6. Told' => Told
    BY ToldBefore
  <2>7. (pc = "hang" => system.fs # "other" /\ (Told => HangsForAReason))'
    <3>1. CASE pc = "hang"
      BY <1>1, <2>4, <2>6, <3>1 DEF ReportsOK
    <3>2. CASE ReportHangs
      <4>1. PICK x \in Recorded : StuckOn(x)
        BY <3>2 DEF ReportHangs
      <4>2. pc = "report" /\ BySegment
        BY <3>2 DEF ReportHangs, Go
      <4>3. Told => HangsForAReason
        <5>1. SUFFICES ASSUME Told
                       PROVE  HangsForAReason
          OBVIOUS
        <5>2. PICK e \in OnZns(AllFiles) : x.phy_blk = SectorAt(e)
          BY <4>1, <4>2, <5>1, AllFound
        <5>3. ~AskedFor(e) /\ \A z \in AskedZones : ZoneAt(e) < z
          BY <4>1, <4>2, <5>1, <5>2, WindowOfReport
        <5>4. QED
          BY <5>3 DEF HangsForAReason
      <4>4. system.fs # "other"
        BY <4>2 DEF StagesOK
      <4>5. QED
        BY <1>1, <2>4, <2>6, <4>3, <4>4
    <3>3. QED
      BY <1>1, <3>1, <3>2 DEF Flow
  <2>8. pc = "error" => pc' = "error" /\ UNCHANGED <<todo, printed>>
    BY <1>1 DEF Flow
  <2>9. ASSUME NEW x \in Entries', x \in Entries => UNCHANGED printed \/ pc # "error",
               x \notin Entries => EntryClaim(x)
        PROVE  Claim(x)'
    <3>1. CASE x \in Entries
      <4>1. Claim(x)
        BY <3>1 DEF ReportsOK
      <4>2. Told' /\ x.kind = NoneFound => pc' = "error" /\ NoneThere'
        BY <2>5, <2>6, <2>8, <4>1 DEF Claim
      <4>3. Told' => ShowsWhatWasAsked(x)'
        BY <2>3, <2>6, <4>1 DEF Claim
      <4>4. QED
        BY <1>1, <4>1, <4>2, <4>3 DEF Claim
    <3>2. CASE x \notin Entries
      <4>1. EntryClaim(x)
        BY <2>9, <3>2
      <4>2. Told' /\ x.kind = NoneFound => pc' = "error" /\ NoneThere'
        BY <2>5, <2>6, <4>1 DEF EntryClaim
      <4>3. Told' => ShowsWhatWasAsked(x)'
        BY <2>3, <2>6, <4>1 DEF EntryClaim
      <4>4. QED
        BY <1>1, <4>1, <4>2, <4>3 DEF Claim, EntryClaim
    <3>3. QED
      BY <3>1, <3>2
  <2>10. ASSUME NEW x \in Entries'
         PROVE  Claim(x)'
    <3>1. CASE UNCHANGED printed
      <4>1. x \in Entries
        BY <2>10, <3>1 DEF Entries
      <4>2. QED
        BY <2>9, <2>10, <3>1, <4>1
    <3>2. CASE ~UNCHANGED printed
      <4>1. PICK y : printed' = Append(printed, y) /\ EntryClaim(y)
        BY <3>2, StepClaim
      <4>2. PICK S : printed \in Seq(S)
        BY DEF PrintedOK
      <4>3. x \in Entries \/ x = y
        BY <2>10, <4>1, <4>2 DEF Entries
      <4>4. pc # "error"
        BY <2>8, <3>2
      <4>5. QED
        BY <2>9, <2>10, <4>1, <4>3, <4>4
    <3>3. QED
      BY <3>1, <3>2
  <2>11. QED
    BY <2>7, <2>10 DEF ReportsOK
<1>4. QED
  BY <1>2, <1>3

ReportsInv == ImapInv /\ OptionsOK /\ WindowOK /\ StagesOK /\ FoundOK /\ ReportsOK

LEMMA InitReports ==
  ASSUME ControlAssumption, ToolsAssumption, Init
  PROVE  OptionsOK /\ WindowOK /\ StagesOK /\ FoundOK /\ ReportsOK
<1>1. /\ given = <<>> /\ pc = "options" /\ zonemap = NULL /\ todo = system.files
      /\ extents = <<>> /\ printed = <<>> /\ ctrl = InitialCtrl(program)
  BY DEF Init
<1>2. system \in Systems /\ program \in Programs
  BY DEF Init, ToolsAssumption
<1>3. OptionsOK
  <2>1. /\ ctrl.exclude_inline = (program = "segmap")
        /\ ctrl.show_only_stats = FALSE
        /\ ctrl.start_zone = 0
        /\ ctrl.end_zone = 0
    BY <1>1 DEF InitialCtrl
  <2>2. ~Given("i") /\ ~Given("o")
    BY <1>1 DEF Given
  <2>3. given \in Seq([opt : STRING, arg : Nat])
    BY <1>1
  <2>4. \A letters : LastIs(given, letters, 0)
    BY <1>1 DEF LastIs
  <2>5. ctrl.exclude_inline <=> ~InlineShown
    BY <2>1, <2>2, Zenon DEF InlineShown
  <2>6. LastIs(given, StartLetters, ctrl.start_zone) /\ LastIs(given, EndLetters, ctrl.end_zone)
    BY <2>1, <2>4
  <2>7. QED
    BY <2>1, <2>2, <2>3, <2>5, <2>6 DEF OptionsOK
<1>4. WindowOK
  BY <1>1 DEF WindowOK
<1>5. PICK S : S = OnDevices
  OBVIOUS
<1>6. system.files \in Seq(Seq(S))
  BY <1>2, <1>5, FilesOnDevices
<1>7. StagesOK
  BY <1>1, <1>6, WholeRest DEF StagesOK
<1>8. FoundOK
  BY <1>1, <1>6, WholeRest DEF FoundOK
<1>9. ReportsOK
  BY <1>1 DEF ReportsOK, Entries
<1>10. QED
  BY <1>3, <1>4, <1>7, <1>8, <1>9

LEMMA ReportsInvariant == Spec => []ReportsInv
<1>1. Init => OptionsOK /\ WindowOK /\ StagesOK /\ FoundOK /\ ReportsOK
  BY ControlAssumption, ToolsAssumption, InitReports
<1>2. /\ ImapInv /\ OptionsOK /\ WindowOK /\ StagesOK /\ FoundOK /\ ReportsOK
      /\ [Next]_vars
      => OptionsOK' /\ WindowOK' /\ StagesOK' /\ FoundOK' /\ ReportsOK'
  <2> SUFFICES ASSUME ImapInv, OptionsOK, WindowOK, StagesOK, FoundOK, ReportsOK, [Next]_vars
               PROVE  OptionsOK' /\ WindowOK' /\ StagesOK' /\ FoundOK' /\ ReportsOK'
    OBVIOUS
  <2>1. /\ ControlAssumption /\ ToolsAssumption /\ Typed /\ IInv /\ GeometryInv /\ TodoOK
        /\ PrintedOK /\ ctrl \in ControlType
    BY ControlAssumption, ToolsAssumption DEF ImapInv, ToolsInv, IInv, TablesInv, GeometryInv
  <2>2. OptionsOK'
    BY <2>1, StepOptions
  <2>3. WindowOK'
    BY <2>1, StepWindow
  <2>4. StagesOK'
    BY <2>1, StepStages
  <2>5. FoundOK'
    BY <2>1, StepFound
  <2>6. ReportsOK'
    BY <2>1, StepReports
  <2>7. QED
    BY <2>2, <2>3, <2>4, <2>5, <2>6
<1>3. QED
  BY <1>1, <1>2, ImapInvariant, PTL DEF Spec, ReportsInv

(* The lines of a report are those of the extents on the zoned device in   *)
(* the zones asked for, none with -o, and the JSON file has none but       *)
(* those, for any options, files and zones, whatever call failed before    *)
(* without an exit, unless it was one of those for the sizes.              *)
THEOREM ReportsAreAsAsked == Spec => []ReportIsWhatWasAsked
<1>1. ReportsInv => ReportIsWhatWasAsked
  <2> SUFFICES ASSUME ReportsInv, unread \cap {"device_size", "zone_size", "number_of_zones"} = {}
               PROVE  /\ \A k \in DOMAIN printed :
                           /\ printed[k].kind \in {"segments", "fiemap"} =>
                                SectorsShown(printed[k])
                                  = IF BySegment /\ Given("o") THEN {} ELSE SectorsAsked
                           /\ printed[k].kind = "json" =>
                                SectorsShown(printed[k]) \subseteq SectorsAsked
                           /\ printed[k].kind = "none_found" =>
                                OnZns({system.files[n] :
                                         n \in 1 .. Len(system.files) - Len(todo) + 1}) = {}
                      /\ pc = "hang" =>
                           \E e \in OnZns(AllFiles) :
                             ~AskedFor(e) /\ \A z \in AskedZones : ZoneAt(e) < z
    BY DEF ReportIsWhatWasAsked
  <2>1. ReportsOK
    BY DEF ReportsInv
  <2>2. system.fs # "other" => Told
    BY DEF Told
  <2>3. ASSUME NEW k \in DOMAIN printed
        PROVE  /\ ShowsWhatWasAsked(printed[k])
               /\ printed[k].kind = "none_found" => NoneThere
    <3>1. Claim(printed[k])
      BY <2>1 DEF ReportsOK, Entries
    <3>2. QED
      BY <2>2, <3>1 DEF Claim, NoneFound, ShowsWhatWasAsked
  <2>4. pc = "hang" => HangsForAReason
    BY <2>1, <2>2 DEF ReportsOK
  <2>5. QED
    BY <2>3, <2>4, Zenon DEF ShowsWhatWasAsked, StatsOnly, NoneThere, HangsForAReason
<1>2. QED
  BY <1>1, ReportsInvariant, PTL

-----------------------------------------------------------------------------
(* The digits of a number, and the powers of their base.                    *)

(* Dividing rounds down.                                                   *)
LEMMA DivisionBounds ==
  ASSUME NEW x \in Nat, NEW d \in Nat \ {0}
  PROVE  /\ x \div d \in Nat
         /\ d * (x \div d) <= x
         /\ x < d * (x \div d) + d
  OBVIOUS

(* The step of the recursion: shortening a number makes it smaller.        *)
LEMMA Shorter ==
  ASSUME NEW n \in Nat, ~(n < HexLimit)
  PROVE  n \div HexBase \in Nat /\ n \div HexBase < n
<1>1. HexBase \in Nat /\ HexBase >= 2 /\ HexLimit \in Nat /\ HexLimit >= 1
  BY ControlAssumption
<1>2. n >= 1
  BY <1>1
<1> DEFINE q == n \div HexBase
<1>3. q \in Nat /\ HexBase * q <= n
  BY <1>1, DivisionBounds
<1> HIDE DEF q
<1>4. q < n
  <2> SUFFICES ASSUME n <= q
               PROVE  FALSE
    BY <1>3
  <2>1. PICK p \in Nat : p = HexBase * q
    BY <1>1, <1>3
  <2>2. 2 * q <= p
    BY <1>1, <1>3, <2>1
  <2>3. QED
    BY <1>2, <1>3, <2>1, <2>2
<1>5. QED
  BY <1>3, <1>4 DEF q

(* The digits of the numbers up to n.                                      *)
DigitsUpTo(n, g) ==
  g = [m \in 0 .. n |-> IF m < HexLimit THEN m ELSE g[m \div HexBase]]

(* A set of naturals that has a member has a least one.                    *)
LEMMA LeastMember ==
  ASSUME NEW S, S \subseteq Nat, S # {}
  PROVE  \E m \in S : \A x \in S : m <= x
<1>1. PICK m \in S : \A x \in S : ~(<<x, m>> \in OpToRel(<, Nat))
  BY NatLessThanWellFounded, WFMin
<1>2. ASSUME NEW x \in S, x < m
      PROVE  FALSE
  <2>1. <<x, m>> \in Nat \X Nat
    OBVIOUS
  <2>2. <<x, m>>[1] < <<x, m>>[2]
    BY <1>2
  <2>3. <<x, m>> \in OpToRel(<, Nat)
    BY <2>1, <2>2, Zenon DEF OpToRel
  <2>4. QED
    BY <1>1, <2>3, Zenon
<1>3. \A x \in S : m <= x
  BY <1>2
<1>4. QED
  BY <1>3

LEMMA DigitsAgree ==
  ASSUME NEW a \in Nat, NEW g, DigitsUpTo(a, g), NEW b \in Nat, NEW h, DigitsUpTo(b, h),
         NEW n \in Nat, n <= a, n <= b
  PROVE  g[n] = h[n]
<1> DEFINE bad == {m \in Nat : m <= a /\ m <= b /\ g[m] # h[m]}
<1> SUFFICES ASSUME bad # {}
             PROVE  FALSE
  OBVIOUS
<1>1. PICK m \in bad : \A x \in bad : m <= x
  BY LeastMember
<1>2. m \in 0 .. a /\ m \in 0 .. b /\ g[m] # h[m]
  BY <1>1
<1>3. /\ g[m] = IF m < HexLimit THEN m ELSE g[m \div HexBase]
      /\ h[m] = IF m < HexLimit THEN m ELSE h[m \div HexBase]
  BY <1>2 DEF DigitsUpTo
<1>4. ~(m < HexLimit)
  BY <1>2, <1>3
<1>5. PICK q \in Nat : q = m \div HexBase /\ q < m
  BY <1>2, <1>4, Shorter
<1>6. g[q] # h[q]
  BY <1>2, <1>3, <1>4, <1>5
<1>7. q \in bad
  BY <1>2, <1>5, <1>6
<1>8. QED
  BY <1>1, <1>2, <1>5, <1>7

LEMMA DigitsExist ==
  ASSUME NEW n \in Nat
  PROVE  \E g : DigitsUpTo(n, g)
<1> DEFINE bad == {m \in Nat : ~ \E g : DigitsUpTo(m, g)}
<1> SUFFICES ASSUME bad # {}
             PROVE  FALSE
  OBVIOUS
<1>1. PICK m \in bad : \A x \in bad : m <= x
  BY LeastMember
<1>2. \A x \in Nat : x < m => \E g : DigitsUpTo(x, g)
  BY <1>1
<1>3. HexLimit \in Nat
  BY ControlAssumption
<1>4. CASE m = 0
  <2> DEFINE g == [x \in 0 .. 0 |-> 0]
  <2>1. 0 < HexLimit
    BY ControlAssumption
  <2>2. g = [x \in 0 .. 0 |-> IF x < HexLimit THEN x ELSE g[x \div HexBase]]
    BY <2>1
  <2>3. DigitsUpTo(0, g)
    BY <2>2 DEF DigitsUpTo
  <2>4. QED
    BY <1>1, <1>4, <2>3
<1>5. CASE m # 0
  <2>1. m - 1 \in Nat /\ m - 1 < m
    BY <1>5
  <2>2. PICK g : DigitsUpTo(m - 1, g)
    BY <1>2, <2>1
  <2> DEFINE h == [x \in 0 .. m |-> IF x \in 0 .. m - 1 THEN g[x]
                                    ELSE IF x < HexLimit THEN x ELSE g[x \div HexBase]]
  <2>3. \A x \in 0 .. m - 1 : g[x] = IF x < HexLimit THEN x ELSE g[x \div HexBase]
    BY <2>2 DEF DigitsUpTo
  <2>4. ASSUME NEW x \in 0 .. m
        PROVE  h[x] = IF x < HexLimit THEN x ELSE h[x \div HexBase]
    <3>1. h[x] = IF x < HexLimit THEN x ELSE g[x \div HexBase]
      BY <2>3
    <3>2. CASE x < HexLimit
      BY <3>1, <3>2
    <3>3. CASE ~(x < HexLimit)
      <4>1. PICK q \in Nat : q = x \div HexBase /\ q < x
        BY <3>3, Shorter
      <4>2. q \in 0 .. m - 1 /\ q \in 0 .. m
        BY <4>1
      <4>3. h[q] = g[q]
        BY <4>2
      <4>4. QED
        BY <3>1, <3>3, <4>1, <4>3
    <3>4. QED
      BY <3>2, <3>3
  <2>5. DOMAIN h = 0 .. m
    OBVIOUS
  <2>6. h = [x \in 0 .. m |-> h[x]]
    OBVIOUS
  <2> HIDE DEF h
  <2>7. h = [x \in 0 .. m |-> IF x < HexLimit THEN x ELSE h[x \div HexBase]]
    BY <2>4, <2>6
  <2>8. DigitsUpTo(m, h)
    BY <2>7 DEF DigitsUpTo
  <2>9. QED
    BY <1>1, <2>8
<1>6. QED
  BY <1>4, <1>5

(* The recursive definition of HexDigits defines a function.           *)
LEMMA HexDigitsIs ==
  HexDigits = [n \in Nat |-> IF n < HexLimit THEN n ELSE HexDigits[n \div HexBase]]
<1> DEFINE part(n) == CHOOSE g : DigitsUpTo(n, g)
           f == [n \in Nat |-> part(n)[n]]
<1>1. \A n \in Nat : DigitsUpTo(n, part(n))
  BY DigitsExist
<1> HIDE DEF part
<1>2. ASSUME NEW n \in Nat
      PROVE  f[n] = IF n < HexLimit THEN n ELSE f[n \div HexBase]
  <2>1. n \in 0 .. n
    OBVIOUS
  <2>2. f[n] = IF n < HexLimit THEN n ELSE part(n)[n \div HexBase]
    BY <1>1, <2>1 DEF DigitsUpTo
  <2>3. CASE ~(n < HexLimit)
    <3>1. PICK q \in Nat : q = n \div HexBase /\ q < n
      BY <2>3, Shorter
    <3>2. part(n)[q] = part(q)[q]
      BY <1>1, <3>1, DigitsAgree
    <3>3. QED
      BY <2>2, <2>3, <3>1, <3>2
  <2>4. QED
    BY <2>2, <2>3
<1>3. f = [n \in Nat |-> f[n]]
  OBVIOUS
<1> HIDE DEF f
<1>4. f = [n \in Nat |-> IF n < HexLimit THEN n ELSE f[n \div HexBase]]
  BY <1>2, <1>3
<1>5. QED
  BY <1>4 DEF HexDigits

(* The powers up to the n-th.                                              *)
PowersUpTo(n, g) == g = [m \in 0 .. n |-> IF m = 0 THEN 1 ELSE HexBase * g[m - 1]]

LEMMA PowersAgree ==
  ASSUME NEW a \in Nat, NEW g, PowersUpTo(a, g), NEW b \in Nat, NEW h, PowersUpTo(b, h),
         NEW n \in Nat, n <= a, n <= b
  PROVE  g[n] = h[n]
<1> DEFINE bad == {m \in Nat : m <= a /\ m <= b /\ g[m] # h[m]}
<1> SUFFICES ASSUME bad # {}
             PROVE  FALSE
  OBVIOUS
<1>1. PICK m \in bad : \A x \in bad : m <= x
  BY LeastMember
<1>2. m \in 0 .. a /\ m \in 0 .. b /\ g[m] # h[m]
  BY <1>1
<1>3. /\ g[m] = IF m = 0 THEN 1 ELSE HexBase * g[m - 1]
      /\ h[m] = IF m = 0 THEN 1 ELSE HexBase * h[m - 1]
  BY <1>2 DEF PowersUpTo
<1>4. m # 0
  BY <1>2, <1>3
<1>5. PICK q \in Nat : q = m - 1 /\ q < m
  BY <1>2, <1>4
<1>6. g[q] # h[q]
  BY <1>2, <1>3, <1>4, <1>5
<1>7. q \in bad
  BY <1>2, <1>5, <1>6
<1>8. QED
  BY <1>1, <1>2, <1>5, <1>7

LEMMA PowersExist ==
  ASSUME NEW n \in Nat
  PROVE  \E g : PowersUpTo(n, g)
<1> DEFINE bad == {m \in Nat : ~ \E g : PowersUpTo(m, g)}
<1> SUFFICES ASSUME bad # {}
             PROVE  FALSE
  OBVIOUS
<1>1. PICK m \in bad : \A x \in bad : m <= x
  BY LeastMember
<1>2. CASE m = 0
  <2> DEFINE g == [x \in 0 .. 0 |-> 1]
  <2>1. g = [x \in 0 .. 0 |-> IF x = 0 THEN 1 ELSE HexBase * g[x - 1]]
    OBVIOUS
  <2>2. PowersUpTo(0, g)
    BY <2>1 DEF PowersUpTo
  <2>3. QED
    BY <1>1, <1>2, <2>2
<1>3. CASE m # 0
  <2>1. m \in Nat /\ m - 1 \in Nat /\ m - 1 < m
    BY <1>1, <1>3
  <2>2. PICK g : PowersUpTo(m - 1, g)
    BY <1>1, <2>1
  <2> DEFINE h == [x \in 0 .. m |-> IF x = 0 THEN 1 ELSE HexBase * g[x - 1]]
  <2>3. ASSUME NEW x \in 0 .. m, x # 0
        PROVE  h[x - 1] = g[x - 1]
    <3>1. PICK y \in 0 .. m - 1 : y = x - 1
      BY <2>1, <2>3
    <3>2. g[y] = IF y = 0 THEN 1 ELSE HexBase * g[y - 1]
      BY <2>2 DEF PowersUpTo
    <3>3. h[y] = IF y = 0 THEN 1 ELSE HexBase * g[y - 1]
      BY <2>1
    <3>4. QED
      BY <3>1, <3>2, <3>3
  <2>4. h = [x \in 0 .. m |-> IF x = 0 THEN 1 ELSE HexBase * h[x - 1]]
    BY <2>3
  <2>5. PowersUpTo(m, h)
    BY <2>4 DEF PowersUpTo
  <2>6. QED
    BY <1>1, <2>5
<1>4. QED
  BY <1>2, <1>3

LEMMA HexPowerIs ==
  HexPower = [n \in Nat |-> IF n = 0 THEN 1 ELSE HexBase * HexPower[n - 1]]
<1> DEFINE part(n) == CHOOSE g : PowersUpTo(n, g)
           f == [n \in Nat |-> part(n)[n]]
<1>1. \A n \in Nat : PowersUpTo(n, part(n))
  BY PowersExist
<1> HIDE DEF part
<1>2. ASSUME NEW n \in Nat
      PROVE  f[n] = IF n = 0 THEN 1 ELSE HexBase * f[n - 1]
  <2>1. n \in 0 .. n
    OBVIOUS
  <2>2. f[n] = IF n = 0 THEN 1 ELSE HexBase * part(n)[n - 1]
    BY <1>1, <2>1 DEF PowersUpTo
  <2>3. CASE n # 0
    <3>1. PICK q \in Nat : q = n - 1 /\ q <= n
      BY <2>3
    <3>2. part(n)[q] = part(q)[q]
      BY <1>1, <3>1, PowersAgree
    <3>3. QED
      BY <2>2, <2>3, <3>1, <3>2
  <2>4. QED
    BY <2>2, <2>3
<1>3. f = [n \in Nat |-> f[n]]
  OBVIOUS
<1> HIDE DEF f
<1>4. f = [n \in Nat |-> IF n = 0 THEN 1 ELSE HexBase * f[n - 1]]
  BY <1>2, <1>3
<1>5. QED
  BY <1>4 DEF HexPower

LEMMA PowersArePositive ==
  ASSUME NEW n \in Nat
  PROVE  HexPower[n] \in Nat \ {0}
<1> DEFINE bad == {m \in Nat : HexPower[m] \notin Nat \ {0}}
<1> SUFFICES ASSUME bad # {}
             PROVE  FALSE
  OBVIOUS
<1>1. PICK m \in bad : \A x \in bad : m <= x
  BY LeastMember
<1>2. HexPower[m] = IF m = 0 THEN 1 ELSE HexBase * HexPower[m - 1]
  BY <1>1, HexPowerIs
<1>3. m # 0
  BY <1>1, <1>2
<1>4. PICK q \in Nat : q = m - 1 /\ q < m
  BY <1>1, <1>3
<1>5. HexPower[q] \in Nat \ {0}
  BY <1>1, <1>4
<1>6. HexBase \in Nat \ {0}
  BY ControlAssumption
<1>7. PICK p \in Nat \ {0} : p = HexPower[q]
  BY <1>5
<1>8. HexBase * p \in Nat \ {0}
  BY <1>6, SMT
<1>9. QED
  BY <1>1, <1>2, <1>3, <1>4, <1>7, <1>8

(* Dividing twice is dividing once by the product.                         *)
LEMMA QuotientOfQuotient ==
  ASSUME NEW n \in Nat, NEW a \in Nat \ {0}, NEW b \in Nat \ {0}
  PROVE  (n \div a) \div b = n \div (a * b)
<1>1. PICK q \in Nat : q = n \div a
  BY DivisionBounds
<1>2. PICK r \in Nat : r = q \div b
  BY DivisionBounds
<1>3. PICK c \in Nat \ {0} : c = a * b
  <2>1. a * b \in Nat \ {0}
    BY SMT
  <2>2. QED
    BY <2>1
<1>4. PICK s \in Nat : s = n \div c
  BY DivisionBounds
<1>5. a * q <= n /\ n < a * q + a
  BY <1>1, DivisionBounds
<1>6. b * r <= q /\ q < b * r + b
  BY <1>2, DivisionBounds
<1>7. c * s <= n /\ n < c * s + c
  BY <1>4, DivisionBounds
<1>8. c * r = a * (b * r) /\ c * s = a * (b * s)
  BY <1>3, SMT
<1>9. ~(r < s)
  <2> SUFFICES ASSUME r + 1 <= s
               PROVE  FALSE
    OBVIOUS
  <2>1. b * r + b <= b * s
    <3>1. b * (r + 1) = b * r + b
      BY SMT
    <3>2. b * (r + 1) <= b * s
      BY SMT
    <3>3. QED
      BY <3>1, <3>2
  <2>2. PICK x \in Nat : x = b * s
    OBVIOUS
  <2>3. q + 1 <= x
    BY <1>6, <2>1, <2>2
  <2>4. a * (q + 1) <= a * x
    BY <2>3, SMT
  <2>5. a * (q + 1) = a * q + a
    BY SMT
  <2>6. QED
    BY <1>5, <1>7, <1>8, <2>2, <2>4, <2>5
<1>10. ~(s < r)
  <2> SUFFICES ASSUME s + 1 <= r
               PROVE  FALSE
    OBVIOUS
  <2>1. c * (s + 1) <= c * r
    BY SMT
  <2>2. c * (s + 1) = c * s + c
    BY SMT
  <2>3. PICK x \in Nat : x = b * r
    OBVIOUS
  <2>4. a * x <= a * q
    BY <1>6, <2>3, SMT
  <2>5. QED
    BY <1>5, <1>7, <1>8, <2>1, <2>2, <2>3, <2>4
<1>11. QED
  BY <1>1, <1>2, <1>3, <1>4, <1>9, <1>10

(* What is left of a number too long is the number without its last        *)
(* digits, of which no more are lost than must be.                         *)
LostDigits(n, k) ==
  /\ HexDigits[n] = n \div HexPower[k]
  /\ HexLimit <= n \div HexPower[k - 1]

LEMMA DigitsLost ==
  ASSUME NEW n \in Nat, HexLimit <= n
  PROVE  \E k \in 1 .. n : LostDigits(n, k)
<1> DEFINE bad == {m \in Nat : HexLimit <= m /\ ~ \E k \in 1 .. m : LostDigits(m, k)}
<1> SUFFICES ASSUME bad # {}
             PROVE  FALSE
  OBVIOUS
<1>1. PICK m \in bad : \A x \in bad : m <= x
  BY LeastMember
<1>2. m \in Nat /\ HexLimit <= m /\ HexLimit \in Nat \ {0} /\ HexBase \in Nat \ {0}
  BY <1>1, ControlAssumption
<1>3. HexDigits[m] = HexDigits[m \div HexBase]
  BY <1>2, HexDigitsIs
<1>4. PICK q \in Nat : q = m \div HexBase /\ q < m
  BY <1>2, Shorter
<1>5. HexPower[0] = 1 /\ HexPower[1] = HexBase
  <2>1. HexPower[0] = 1
    BY HexPowerIs
  <2>2. HexPower[1] = HexBase * HexPower[1 - 1]
    BY HexPowerIs
  <2>3. QED
    BY <1>2, <2>1, <2>2
<1>6. CASE q < HexLimit
  <2>1. HexDigits[q] = q
    BY <1>6, HexDigitsIs
  <2>2. LostDigits(m, 1)
    BY <1>2, <1>3, <1>4, <1>5, <2>1 DEF LostDigits
  <2>3. 1 \in 1 .. m
    BY <1>2
  <2>4. QED
    BY <1>1, <2>2, <2>3
<1>7. CASE HexLimit <= q
  <2>1. PICK k \in 1 .. q : LostDigits(q, k)
    BY <1>1, <1>4, <1>7
  <2>2. PICK j \in Nat : k = j + 1
    BY <2>1
  <2>3. \A i \in Nat : q \div HexPower[i] = m \div HexPower[i + 1]
    <3> SUFFICES ASSUME NEW i \in Nat
                 PROVE  q \div HexPower[i] = m \div HexPower[i + 1]
      OBVIOUS
    <3>1. PICK p \in Nat \ {0} : p = HexPower[i]
      BY PowersArePositive
    <3>2. HexPower[i + 1] = HexBase * HexPower[i + 1 - 1]
      BY HexPowerIs
    <3>3. (m \div HexBase) \div p = m \div (HexBase * p)
      BY <1>2, QuotientOfQuotient
    <3>4. i + 1 - 1 = i
      OBVIOUS
    <3>5. QED
      BY <1>4, <3>1, <3>2, <3>3, <3>4
  <2>4. k - 1 = j /\ k + 1 - 1 = k /\ k \in Nat
    BY <2>1, <2>2
  <2>5. LostDigits(m, k + 1)
    BY <1>3, <1>4, <2>1, <2>2, <2>3, <2>4 DEF LostDigits
  <2>6. k + 1 \in 1 .. m
    BY <1>2, <1>4, <2>1
  <2>7. QED
    BY <1>1, <2>5, <2>6
<1>8. QED
  BY <1>2, <1>4, <1>6, <1>7

(* However many digits a number loses, few enough are left.                *)
LEMMA DigitsFit ==
  ASSUME NEW n \in Nat
  PROVE  HexDigits[n] \in Nat /\ HexDigits[n] < HexLimit
<1> DEFINE bad == {m \in Nat : ~(HexDigits[m] \in Nat /\ HexDigits[m] < HexLimit)}
<1> SUFFICES ASSUME bad # {}
             PROVE  FALSE
  OBVIOUS
<1>1. PICK m \in bad : \A x \in bad : m <= x
  BY LeastMember
<1>2. HexDigits[m] = IF m < HexLimit THEN m ELSE HexDigits[m \div HexBase]
  BY HexDigitsIs
<1>3. ~(m < HexLimit)
  BY <1>1, <1>2
<1>4. PICK q \in Nat : q = m \div HexBase /\ q < m
  BY <1>1, <1>3, Shorter
<1>5. q \in bad
  BY <1>1, <1>2, <1>3, <1>4
<1>6. QED
  BY <1>1, <1>4, <1>5

-----------------------------------------------------------------------------
(* What the JSON file shows.                                               *)

(* Behind the magic of the file system, and behind the question whether    *)
(* the second device is zoned.                                             *)
BehindMagic == {"device", "super", "bdev", "zns"} \cup AfterZns
BehindZoned == {"sizes"} \cup AfterSizes

MaskOfSegments == Word64 - SegmentBlocks

JsonOK(x) ==
  x.kind = "json" =>
    LET fs == x.info.config.filesystem
    IN  /\ x.info.config.dev_2.sector_size = system.sector
        /\ fs.f2fs_segment_sectors = SegmentBlocks
        /\ fs.f2fs_segment_mask < HexLimit
        /\ \E lost \in 1 .. Word64 :
             /\ fs.f2fs_segment_mask = MaskOfSegments \div HexPower[lost]
             /\ HexLimit <= MaskOfSegments \div HexPower[lost - 1]

JsonKnown ==
  /\ system.fs = "F2FS" /\ pc \in BehindMagic => ctrl.fs_magic = "F2FS"
  /\ system.fs = "F2FS" /\ pc \in BehindZoned => ctrl.znsdev.is_zoned
  /\ \A k \in DOMAIN printed : JsonOK(printed[k])

(* How these places are reached.                                           *)
LEMMA NextPlaces ==
  ASSUME ToolsAssumption, Typed, [Next]_vars
  PROVE  \/ pc' # "device" /\ pc' # "super" /\ pc' # "bdev" /\ pc' # "zns" /\ pc' # "sizes"
         \/ UNCHANGED pc \/ SetFsMagic \/ InitDev \/ ReadSuperBlock \/ InitBdev \/ CheckZoned
<1> USE DEF Go
<1>1. CASE Preparing
  <2>1. CASE ReadSizes \/ Defaults
    <3>1. ReadSizes => pc' = "procfs" \/ pc' = "defaults"
      BY Zenon DEF ReadSizes
    <3>2. Defaults => pc' = "superblock" \/ pc' = "collect"
      BY Zenon DEF Defaults
    <3>3. QED
      BY <2>1, <3>1, <3>2, Zenon
  <2>2. CASE ~ReadSizes /\ ~Defaults
    BY <1>1, <2>2, Zenon DEF Preparing, ParseOption, ShowHelp, RejectOptions,
       AcceptOptions, CallFails, OpenFile, InitZnsDev, InitZoneMap, ZoneMapNotOpened,
       InitFsManager, ProcfsMissing
  <2>3. QED
    BY <2>1, <2>2, Zenon
<1>2. CASE Collecting
  <2>1. Collected => pc' = "cleanup" \/ pc' = "report"
    BY Zenon DEF Collected
  <2>2. QED
    BY <1>2, <2>1, Zenon DEF Collecting, SkipExtent, CrashOnExtent, RecordExtent, EndOfFile,
       CrashOnNull
<1>3. CASE Reporting
  BY <1>3, Zenon DEF Reporting, ReportHangs, ReportJson, ReportSegments, CrashOnCapacity,
     ReportFiemap, Cleanup, ShowSuperBlock, NoSuperBlock, ShowCheckpoint, NoCheckpoint,
     FindInode, CrashOnInode, ShowInode
<1>4. CASE Elsewhere
  BY <1>4, Zenon DEF Elsewhere, WriteCheckpoint, vars
<1>5. QED
  BY <1>1, <1>2, <1>3, <1>4, Phases, Zenon

LEMMA PlacesBehind ==
  ASSUME ToolsAssumption, Typed, [Next]_vars
  PROVE  /\ pc' \in BehindMagic => pc \in BehindMagic \/ SetFsMagic
         /\ pc' \in BehindZoned => pc \in BehindZoned \/ CheckZoned \/ Unknown
<1>1. Paths
  BY StepPaths
<1>2. pc \in {"device", "super", "bdev"} \/ ~(InitDev \/ ReadSuperBlock \/ InitBdev)
  BY DEF InitDev, ReadSuperBlock, InitBdev, Go
<1>3. (InitZnsDev => pc = "zns") /\ (ReadSizes => pc = "sizes")
      /\ (Unknown => SetFsMagic)
  BY DEF InitZnsDev, ReadSizes, Unknown, Go
<1>4. (SetFsMagic => pc' # "sizes") /\ (CheckZoned => pc' \in {"error", "sizes"})
      /\ (InitDev => pc' = "super") /\ (ReadSuperBlock => pc' = "bdev")
      /\ (InitBdev => pc' = "zns")
  <2>1. SetFsMagic => pc' = "device" \/ pc' = "zns" \/ pc' = "defaults"
    BY Magic, ZenonT(30) DEF SetFsMagic, Go
  <2>2. QED
    BY <2>1 DEF CheckZoned, InitDev, ReadSuperBlock, InitBdev, Go
<1>5. ASSUME pc' \in BehindMagic
      PROVE  pc \in BehindMagic \/ SetFsMagic
  <2>1. CASE pc' \in AfterZns
    BY <1>1, <1>3, <2>1 DEF Paths, BehindMagic
  <2>2. CASE pc' \in {"device", "super", "bdev", "zns"}
    <3>1. CASE CheckZoned
      BY <1>4, <2>2, <3>1
    <3>2. CASE ~CheckZoned
      BY <1>2, <1>5, <2>2, <3>2, NextPlaces DEF BehindMagic
    <3>3. QED
      BY <3>1, <3>2
  <2>3. QED
    BY <1>5, <2>1, <2>2 DEF BehindMagic
<1>6. ASSUME pc' \in BehindZoned
      PROVE  pc \in BehindZoned \/ CheckZoned \/ Unknown
  <2>1. CASE pc' \in AfterSizes
    BY <1>1, <1>3, <2>1 DEF Paths, BehindZoned
  <2>2. CASE pc' = "sizes"
    BY <1>4, <2>2, NextPlaces DEF BehindZoned
  <2>3. QED
    BY <1>6, <2>1, <2>2 DEF BehindZoned
<1>7. QED
  BY <1>5, <1>6

(* What is known of the file system and whether the device is zoned stays  *)
(* known.                                                                  *)
KeepsMagic(c, d) == d.fs_magic = c.fs_magic
KeepsZoned(c, d) == d.znsdev.is_zoned = c.znsdev.is_zoned

LEMMA GeometryKeepsMagic ==
  ASSUME NEW c \in ControlType
  PROVE  /\ \A sector : KeepsMagic(c, WithSectorSize(c, sector))
                          /\ KeepsZoned(c, WithSectorSize(c, sector))
         /\ \A nr_zones : KeepsMagic(c, WithSegments(c, nr_zones))
                            /\ KeepsZoned(c, WithSegments(c, nr_zones))
         /\ \A multi_dev, offset, zone_size, nr_zones :
              /\ KeepsMagic(c, WithZones(c, multi_dev, offset, zone_size, nr_zones))
              /\ KeepsZoned(c, WithZones(c, multi_dev, offset, zone_size, nr_zones))
<1>1. {"fs_magic", "znsdev"} \subseteq DOMAIN c /\ "is_zoned" \in DOMAIN c.znsdev
  BY DEF ControlType, BdevType
<1>2. \A sector : KeepsMagic(c, WithSectorSize(c, sector))
                    /\ KeepsZoned(c, WithSectorSize(c, sector))
  BY <1>1 DEF WithSectorSize, KeepsMagic, KeepsZoned
<1>3. \A nr_zones : KeepsMagic(c, WithSegments(c, nr_zones))
                      /\ KeepsZoned(c, WithSegments(c, nr_zones))
  BY <1>1 DEF WithSegments, KeepsMagic, KeepsZoned
<1>4. ASSUME NEW multi_dev, NEW offset, NEW zone_size, NEW nr_zones
      PROVE  /\ KeepsMagic(c, WithZones(c, multi_dev, offset, zone_size, nr_zones))
             /\ KeepsZoned(c, WithZones(c, multi_dev, offset, zone_size, nr_zones))
  <2> DEFINE mask == MaskOf(zone_size, Word)
             dev == [c.znsdev EXCEPT !.zone_size = zone_size, !.zone_mask = mask,
                                     !.nr_zones = nr_zones]
  <2>1. WithZones(c, multi_dev, offset, zone_size, nr_zones) =
          [c EXCEPT !.multi_dev = multi_dev, !.offset = offset, !.znsdev.zone_size = zone_size,
                    !.znsdev.zone_mask = mask, !.znsdev.nr_zones = nr_zones]
    BY Zenon DEF WithZones
  <2> HIDE DEF mask
  <2>2. WithZones(c, multi_dev, offset, zone_size, nr_zones) =
          [c EXCEPT !.multi_dev = multi_dev, !.offset = offset, !.znsdev = dev]
    BY <2>1
  <2>3. dev.is_zoned = c.znsdev.is_zoned
    BY <1>1
  <2> HIDE DEF dev
  <2>4. QED
    BY <1>1, <2>2, <2>3 DEF KeepsMagic, KeepsZoned
<1>5. QED
  BY <1>2, <1>3, <1>4

LEMMA KeptMagic ==
  ASSUME ControlAssumption, ToolsAssumption, Typed, ctrl \in ControlType, [Next]_vars,
         ~ParseOption, ~SetFsMagic
  PROVE  KeepsMagic(ctrl, ctrl') /\ (KeepsZoned(ctrl, ctrl') \/ InitZnsDev)
<1>0. /\ {"start_zone", "end_zone", "show_class_stats", "fs_magic", "bdev", "znsdev",
          "fs_info_bytes"} \subseteq DOMAIN ctrl
      /\ "is_zoned" \in DOMAIN ctrl.znsdev
  BY DEF ControlType, BdevType
<1>1. CASE UNCHANGED ctrl
  BY <1>1 DEF KeepsMagic, KeepsZoned
<1>2. CASE AcceptOptions
  BY <1>0, <1>2 DEF AcceptOptions, Set, KeepsMagic, KeepsZoned
<1>3. CASE InitBdev
  <2> DEFINE c == [ctrl EXCEPT !.bdev.is_zoned = FALSE]
  <2>1. c \in ControlType
    BY BdevTyped, ZenonT(30)
  <2>2. KeepsMagic(ctrl, c) /\ KeepsZoned(ctrl, c)
    BY <1>0 DEF KeepsMagic, KeepsZoned
  <2>3. ctrl' = WithSectorSize(c, system.sector)
    BY <1>3 DEF InitBdev, Set
  <2> HIDE DEF c
  <2>4. KeepsMagic(c, ctrl') /\ KeepsZoned(c, ctrl')
    BY <2>1, <2>3, GeometryKeepsMagic, ZenonT(30)
  <2>5. QED
    BY <2>2, <2>4 DEF KeepsMagic, KeepsZoned
<1>4. CASE InitZnsDev
  <2>1. PICK is_zoned \in BOOLEAN, nr_zones \in {0, system.nr_zones} :
          ctrl' = WithSegments(WithSectorSize([ctrl EXCEPT !.znsdev.is_zoned = is_zoned],
                                              system.sector), nr_zones)
    BY <1>4, ZnsDevTold
  <2>2. system.sector \in {512, 4096}
    BY SystemInteger
  <2> DEFINE c == [ctrl EXCEPT !.znsdev.is_zoned = is_zoned]
             d == WithSectorSize(c, system.sector)
  <2>3. c \in ControlType
    BY BdevTyped, ZenonT(30)
  <2>4. KeepsMagic(ctrl, c)
    BY <1>0 DEF KeepsMagic
  <2>5. ctrl' = WithSegments(d, nr_zones)
    BY <2>1
  <2> HIDE DEF c
  <2>6. d \in ControlType /\ KeepsMagic(c, d)
    BY <2>2, <2>3, SectorSizeTyped, GeometryKeepsMagic
  <2> HIDE DEF d
  <2>7. KeepsMagic(d, ctrl')
    BY <2>5, <2>6, GeometryKeepsMagic, ZenonT(30)
  <2>8. QED
    BY <1>4, <2>4, <2>6, <2>7 DEF KeepsMagic
<1>5. CASE ReadSizes
  <2>1. PICK offset, zone_size, nr_zones :
          /\ ctrl' = WithZones(ctrl, system.fs = "F2FS", offset, zone_size, nr_zones)
          /\ \/ offset = IF system.fs = "F2FS" THEN system.conv_bytes ELSE 0
             \/ system.fs = "F2FS" /\ offset = Word64 - 1 /\ "device_size" \in unread'
          /\ \/ zone_size = ToDevice(ctrl, system.zone_sectors)
             \/ zone_size = 0 /\ "zone_size" \in unread'
          /\ \/ nr_zones = system.nr_zones
             \/ nr_zones = 0 /\ "number_of_zones" \in unread'
    BY <1>5, SizesTold, Zenon
  <2>2. PICK multi_dev : ctrl' = WithZones(ctrl, multi_dev, offset, zone_size, nr_zones)
    BY <2>1, Zenon
  <2>3. QED
    BY <2>2, GeometryKeepsMagic
<1>6. CASE InitFsManager \/ ProcfsMissing
  <2>1. ctrl' = [ctrl EXCEPT !.fs_info_bytes = FsInfoBytes]
    BY <1>6, Zenon DEF InitFsManager, ProcfsMissing
  <2>2. QED
    BY <1>0, <2>1 DEF KeepsMagic, KeepsZoned
<1>7. CASE Defaults
  BY <1>0, <1>7 DEF Defaults, WithDefaults, Set, KeepsMagic, KeepsZoned
<1>8. QED
  BY <1>1, <1>2, <1>3, <1>4, <1>5, <1>6, <1>7, Frames DEF Frame

LEMMA StepMagic ==
  ASSUME ControlAssumption, ToolsAssumption, Typed, ctrl \in ControlType, JsonKnown,
         [Next]_vars
  PROVE  /\ (system.fs = "F2FS" /\ pc \in BehindMagic => ctrl.fs_magic = "F2FS")'
         /\ (system.fs = "F2FS" /\ pc \in BehindZoned => ctrl.znsdev.is_zoned)'
<1>1. UNCHANGED system
  BY Frames DEF Frame
<1>2. ASSUME system.fs = "F2FS", pc' \in BehindMagic
      PROVE  ctrl'.fs_magic = "F2FS"
  <2>1. CASE SetFsMagic
    <3>1. ctrl' = [ctrl EXCEPT !.fs_magic = system.fs]
      BY <2>1 DEF SetFsMagic, Set
    <3>2. "fs_magic" \in DOMAIN ctrl
      BY DEF ControlType
    <3>3. QED
      BY <1>2, <3>1, <3>2
  <2>2. CASE ~SetFsMagic
    <3>1. pc \in BehindMagic
      BY <1>2, <2>2, PlacesBehind
    <3>2. ~ParseOption
      BY <3>1 DEF ParseOption, Go, BehindMagic, AfterZns, Mapped
    <3>3. KeepsMagic(ctrl, ctrl')
      BY <2>2, <3>2, KeptMagic
    <3>4. QED
      BY <1>2, <3>1, <3>3 DEF JsonKnown, KeepsMagic
  <2>3. QED
    BY <2>1, <2>2
<1>3. ASSUME system.fs = "F2FS", pc' \in BehindZoned
      PROVE  ctrl'.znsdev.is_zoned
  <2>1. CASE CheckZoned
    <3>1. pc' # "error"
      BY <1>3 DEF BehindZoned, AfterSizes, Sized, Mapped
    <3>2. ctrl.znsdev.is_zoned /\ UNCHANGED ctrl
      BY <1>3, <2>1, <3>1 DEF CheckZoned, Go, SetNothing, init_vars
    <3>3. QED
      BY <3>2
  <2>2. CASE ~CheckZoned
    <3>1. pc \in BehindZoned
      BY <1>3, <2>2, PlacesBehind DEF Unknown
    <3>2. ~ParseOption /\ ~SetFsMagic /\ ~InitZnsDev
      BY <3>1
         DEF ParseOption, SetFsMagic, InitZnsDev, Go, BehindZoned, AfterSizes, Sized, Mapped
    <3>3. KeepsZoned(ctrl, ctrl')
      BY <3>2, KeptMagic
    <3>4. QED
      BY <1>3, <3>1, <3>3 DEF JsonKnown, KeepsZoned
  <2>3. QED
    BY <2>1, <2>2
<1>4. QED
  BY <1>1, <1>2, <1>3

(* The mask of segments has digits to lose.                                *)
LEMMA MaskLosesDigits ==
  ASSUME ControlAssumption, ToolsAssumption, Typed
  PROVE  /\ MaskOf(SegmentBlocks, Word64) = MaskOfSegments
         /\ HexDigits[MaskOfSegments] < HexLimit
         /\ \E lost \in 1 .. Word64 : LostDigits(MaskOfSegments, lost)
<1>1. SegmentBlocks \in Nat \ {0} /\ SegmentBlocks <= 4096
  BY DEF SegmentBlocks
<1>2. Word64 \in Nat /\ HexLimit \in Nat /\ HexLimit + 4096 <= Word64
  BY DEF ControlAssumption, F2FS_SEGMENT_BYTES
<1>3. MaskOfSegments \in Nat /\ HexLimit <= MaskOfSegments /\ MaskOfSegments <= Word64
  BY <1>1, <1>2 DEF MaskOfSegments
<1>4. MaskOf(SegmentBlocks, Word64) = MaskOfSegments
  BY <1>1, <1>2, MaskOfSize DEF MaskOfSegments
<1>5. PICK lost \in 1 .. MaskOfSegments : LostDigits(MaskOfSegments, lost)
  BY <1>3, DigitsLost
<1>6. lost \in 1 .. Word64
  BY <1>2, <1>3
<1>7. QED
  BY <1>3, <1>4, <1>5, <1>6, DigitsFit

LEMMA JsonEntry ==
  ASSUME ControlAssumption, ToolsAssumption, Typed, GeometryInv, JsonKnown,
         system.fs = "F2FS", pc = "report", NEW shown
  PROVE  JsonOK([kind |-> "json", info |-> JsonInfo(ctrl), shown |-> shown])
<1>1. pc \in AfterZns /\ pc \in BehindMagic /\ pc \in BehindZoned
  BY DEF AfterZns, BehindMagic, BehindZoned, AfterSizes, Sized, Mapped
<1>2. SectorsOK
  BY <1>1 DEF GeometryInv
<1>3. ctrl.fs_magic = "F2FS" /\ ctrl.znsdev.is_zoned
  BY <1>1 DEF JsonKnown
<1>4. ctrl.sector_size = system.sector /\ ctrl.f2fs_segment_sectors = SegmentBlocks
  BY <1>2 DEF SectorsOK, SegmentBlocks
<1>5. ctrl.f2fs_segment_mask = MaskOfSegments
  BY <1>2, <1>4, MaskLosesDigits DEF SectorsOK
<1> DEFINE dev_2 == JsonDevice(ctrl, ctrl.znsdev)
           fs == JsonFileSystem(ctrl)
           dev_1 == IF ctrl.multi_dev THEN JsonDevice(ctrl, ctrl.bdev) ELSE NULL
<1>6. dev_2.sector_size = system.sector
  BY <1>3, <1>4 DEF JsonDevice
<1>7. fs.f2fs_segment_sectors = SegmentBlocks /\ fs.f2fs_segment_mask = HexDigits[MaskOfSegments]
  BY <1>3, <1>4, <1>5 DEF JsonFileSystem
<1> HIDE DEF dev_1, dev_2, fs
<1>8. JsonInfo(ctrl) = [config |-> [dev_1 |-> dev_1, dev_2 |-> dev_2, filesystem |-> fs]]
  BY Zenon DEF JsonInfo, JsonConfig, dev_1, dev_2, fs
<1> DEFINE x == [kind |-> "json", info |-> JsonInfo(ctrl), shown |-> shown]
<1>9. x.info.config.dev_2 = dev_2 /\ x.info.config.filesystem = fs
  BY <1>8
<1> HIDE DEF x
<1>10. JsonOK(x)
  BY <1>6, <1>7, <1>9, MaskLosesDigits DEF JsonOK, LostDigits
<1>11. QED
  BY <1>10 DEF x

LEMMA StepJson ==
  ASSUME ControlAssumption, ToolsAssumption, Typed, GeometryInv, JsonKnown, [Next]_vars
  PROVE  UNCHANGED printed \/ \E x : printed' = Append(printed, x) /\ JsonOK(x)
<1>1. CASE ReportJson
  <2>0. PICK shown : \/ UNCHANGED printed
                     \/ printed' = Append(printed, [kind |-> "json", info |-> JsonInfo(ctrl),
                                                     shown |-> shown])
    BY <1>1, Zenon DEF ReportJson, ShowsJson, Show
  <2> DEFINE x == [kind |-> "json", info |-> JsonInfo(ctrl), shown |-> shown]
  <2>1. UNCHANGED printed \/ printed' = Append(printed, x)
    BY <2>0
  <2>2. system.fs = "F2FS" /\ pc = "report"
    BY <1>1 DEF ReportJson, BySegment, Go
  <2>3. JsonOK(x)
    BY <2>2, JsonEntry
  <2>4. QED
    BY <2>1, <2>3
<1>2. CASE EndOfFile
  <2> DEFINE x == [kind |-> NoneFound]
  <2>1. UNCHANGED printed \/ printed' = Append(printed, x)
    BY <1>2, Zenon DEF EndOfFile, NoneFound
  <2>2. x.kind # "json"
    BY DEF NoneFound
  <2>3. QED
    BY <2>1, <2>2 DEF JsonOK
<1>3. CASE ReportSegments \/ ReportFiemap \/ ShowSuperBlock \/ ShowCheckpoint \/ ShowInode
  <2>1. \E x : printed' = Append(printed, x) /\ x.kind # "json"
    <3>1. CASE ReportSegments
      BY <3>1 DEF ReportSegments, Show
    <3>2. CASE ReportFiemap
      BY <3>2 DEF ReportFiemap, Show
    <3>3. CASE ShowSuperBlock
      BY <3>3 DEF ShowSuperBlock, Show
    <3>4. CASE ShowCheckpoint
      BY <3>4 DEF ShowCheckpoint, Show
    <3>5. CASE ShowInode
      BY <3>5 DEF ShowInode, Show
    <3>6. QED
      BY <1>3, <3>1, <3>2, <3>3, <3>4, <3>5
  <2>2. QED
    BY <2>1 DEF JsonOK
<1>4. QED
  BY <1>1, <1>2, <1>3, StepWriters DEF Writers

LEMMA StepJsonKnown ==
  ASSUME ControlAssumption, ToolsAssumption, Typed, GeometryInv, PrintedOK, JsonKnown,
         [Next]_vars
  PROVE  JsonKnown'
<1>1. UNCHANGED system
  BY Frames DEF Frame
<1>2. ASSUME NEW x, JsonOK(x)
      PROVE  JsonOK(x)'
  BY <1>1, <1>2 DEF JsonOK, MaskOfSegments, SegmentBlocks
<1>3. /\ (system.fs = "F2FS" /\ pc \in BehindMagic => ctrl.fs_magic = "F2FS")'
      /\ (system.fs = "F2FS" /\ pc \in BehindZoned => ctrl.znsdev.is_zoned)'
  BY StepMagic DEF GeometryInv
<1>4. PICK S : printed \in Seq(S)
  BY DEF PrintedOK
<1>5. CASE UNCHANGED printed
  <2>1. (\A k \in DOMAIN printed : JsonOK(printed[k]))'
    BY <1>2, <1>5 DEF JsonKnown
  <2>2. QED
    BY <1>3, <2>1 DEF JsonKnown
<1>6. CASE \E x : printed' = Append(printed, x) /\ JsonOK(x)
  <2>1. PICK x : printed' = Append(printed, x) /\ JsonOK(x)
    BY <1>6
  <2>2. ASSUME NEW k \in DOMAIN printed'
        PROVE  JsonOK(printed'[k])
    <3>1. \/ k \in DOMAIN printed /\ printed'[k] = printed[k]
          \/ printed'[k] = x
      BY <1>4, <2>1, <2>2
    <3>2. QED
      BY <2>1, <3>1 DEF JsonKnown
  <2>3. (\A k \in DOMAIN printed : JsonOK(printed[k]))'
    BY <1>2, <2>2
  <2>4. QED
    BY <1>3, <2>3 DEF JsonKnown
<1>7. QED
  BY <1>5, <1>6, StepJson

LEMMA JsonFollows ==
  ASSUME ToolsAssumption, Typed, JsonKnown
  PROVE  JsonTellsTheGeometry
<1>1. system.sector \in {512, 4096}
  BY SystemInteger
<1>2. SegmentBlocks * system.sector = F2FS_SEGMENT_BYTES
  BY <1>1, SMT DEF SegmentBlocks, F2FS_SEGMENT_BYTES
<1>3. ASSUME NEW k \in DOMAIN printed, printed[k].kind = "json"
      PROVE  LET fs   == printed[k].info.config.filesystem
                 mask == Word64 - fs.f2fs_segment_sectors
             IN  /\ printed[k].info.config.dev_2.sector_size = system.sector
                 /\ fs.f2fs_segment_sectors * system.sector = F2FS_SEGMENT_BYTES
                 /\ fs.f2fs_segment_mask < HexLimit
                 /\ \E lost \in 1 .. Word64 :
                      /\ fs.f2fs_segment_mask = mask \div HexPower[lost]
                      /\ HexLimit <= mask \div HexPower[lost - 1]
  <2> DEFINE x == printed[k]
  <2>1. JsonOK(x)
    BY DEF JsonKnown
  <2>2. x.kind = "json"
    BY <1>3
  <2> HIDE DEF x
  <2> DEFINE fs == x.info.config.filesystem
  <2>3. Word64 - fs.f2fs_segment_sectors = MaskOfSegments
    BY <2>1, <2>2 DEF JsonOK, MaskOfSegments
  <2>4. fs.f2fs_segment_sectors * system.sector = F2FS_SEGMENT_BYTES
    BY <1>2, <2>1, <2>2 DEF JsonOK
  <2>5. /\ x.info.config.dev_2.sector_size = system.sector
        /\ fs.f2fs_segment_mask < HexLimit
        /\ \E lost \in 1 .. Word64 :
             /\ fs.f2fs_segment_mask = MaskOfSegments \div HexPower[lost]
             /\ HexLimit <= MaskOfSegments \div HexPower[lost - 1]
    BY <2>1, <2>2 DEF JsonOK
  <2>6. QED
    BY <2>3, <2>4, <2>5, Zenon DEF x
<1>4. QED
  BY <1>3 DEF JsonTellsTheGeometry

(* The JSON file repeats the geometry of the devices, whatever failed      *)
(* before: the size of the sectors and the sectors of a segment as they    *)
(* are, and of the 64-bit segment mask the first digits, as many as        *)
(* uint64_to_hex_string_cast has room for.                                 *)
THEOREM JsonIsTheGeometry == Spec => []JsonTellsTheGeometry
<1>1. Init => JsonKnown
  <2> SUFFICES ASSUME Init
               PROVE  JsonKnown
    OBVIOUS
  <2>1. pc = "options" /\ printed = <<>>
    BY Zenon DEF Init
  <2>2. pc \notin BehindMagic /\ pc \notin BehindZoned
    BY <2>1 DEF BehindMagic, BehindZoned, AfterZns, AfterSizes, Sized, Mapped
  <2>3. QED
    BY <2>1, <2>2 DEF JsonKnown
<1>2. ImapInv /\ JsonKnown /\ [Next]_vars => JsonKnown'
  BY ControlAssumption, ToolsAssumption, StepJsonKnown DEF ImapInv, ToolsInv, IInv
<1>3. ImapInv /\ JsonKnown => JsonTellsTheGeometry
  BY ToolsAssumption, JsonFollows DEF ImapInv, ToolsInv, IInv
<1>4. QED
  BY <1>1, <1>2, <1>3, ImapInvariant, PTL DEF Spec
=============================================================================
