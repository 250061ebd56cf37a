------------------------------- MODULE Tools -------------------------------
(***************************************************************************)
(* zns.segmap, zns.fiemap and zns.imap from their options to their exit:   *)
(* how they find the devices of a file system and their geometry, what     *)
(* they do when a call fails, collect the extents, and report.  The loops  *)
(* within have modules of their own: ExtentMap, SegmentReport, JsonDump,   *)
(* FiemapReport and NatLookup; here an extent is recorded, and a report    *)
(* printed, in one step.                                                   *)
(*                                                                         *)
(* Some failed calls end the program (ERR_MSG), others leave a 0, all ones *)
(* or a null pointer behind, with which it goes on.                        *)
(***************************************************************************)
EXTENDS Control, FiniteSets

CONSTANTS
  Commands,       (* [program, args]                                       *)
  Systems,        (* a file, the file system it is on, and its devices     *)
  MaxCheckpoints  (* how often F2FS may write a checkpoint meanwhile       *)

SegmentTypes == 0 .. 6    (* enum type, CURSEG_HOT_DATA to NO_CHECK_TYPE   *)

SegmentInfoType == [id : Nat, type : SegmentTypes, valid_blocks : Nat]

SystemType ==
  [fs : {"F2FS", "Btrfs", "other"}, sector : {512, 4096}, zoned : BOOLEAN,
   zone_sectors : Nat \ {0}, zone_cap : Nat \ {0}, nr_zones : Nat \ {0},
   conv_bytes : Nat, cp_blkaddr : Nat, main_blkaddr : Nat,
   segments : Seq([type : SegmentTypes, valid_blocks : Nat]),
   isdir : BOOLEAN, files : Seq(Seq([physical : Nat, length : Nat, inline : BOOLEAN])),
   inode_blkaddr : Nat]

(* The kernel counts sectors of 512 bytes.  A zone is a number of segments *)
(* and its capacity one of device sectors.  F2FS numbers the blocks of its *)
(* first device and behind them those of the zoned one, and the segments   *)
(* of its main area, which starts on the first device; another file system *)
(* has the zoned device alone.  Data lies on the devices, and on F2FS in   *)
(* the main area.                                                          *)
ASSUME ToolsAssumption ==
  /\ MaxCheckpoints \in Nat
  /\ \A command \in Commands :
       /\ command.program \in Programs
       /\ command.args \in Seq([opt : STRING, arg : Nat])
  /\ \A s \in Systems :
       /\ s \in SystemType
       /\ ~s.isdir => Len(s.files) = 1
       /\ (s.zone_sectors * 512) % F2FS_SEGMENT_BYTES = 0
       /\ (s.zone_cap * 512) % s.sector = 0
       /\ (s.conv_bytes - s.main_blkaddr * F2FS_BLKSIZE) % F2FS_SEGMENT_BYTES = 0
       /\ s.main_blkaddr * F2FS_BLKSIZE <= s.conv_bytes
       /\ s.fs # "F2FS" => s.conv_bytes = 0
       /\ s.conv_bytes + s.nr_zones * s.zone_sectors * 512 < Word64 - 1
       /\ \A n \in DOMAIN s.files : \A k \in DOMAIN s.files[n] :
            /\ s.files[n][k].physical < s.conv_bytes + s.nr_zones * s.zone_sectors * 512
            /\ s.fs = "F2FS" =>
                 s.files[n][k].physical
                   < s.main_blkaddr * F2FS_BLKSIZE + Len(s.segments) * F2FS_SEGMENT_BYTES

VARIABLES
  program,
  system,
  packs,        (* the versions of the two checkpoint packs on the device  *)
  args,         (* the options getopt has not returned yet                 *)
  given,        (* those it has                                            *)
  pc,
  ctrl,
  zonemap,      (* ctrl.zonemap                                            *)
  fs_manager,   (* ctrl.fs_manager                                         *)
  sb,           (* f2fs_sb                                                 *)
  todo,         (* the files and extents not collected yet                 *)
  extents,      (* the extents in the zone map                             *)
  printed,
  unread        (* history: what could not be read without an exit         *)

outside == <<program, system>>
init_vars == <<ctrl, zonemap, fs_manager, sb>>
vars == <<outside, packs, args, given, pc, init_vars, todo, extents, printed, unread>>

EmptySb == [cp_blkaddr |-> 0, main_blkaddr |-> 0, segment_count_main |-> 0]

Init ==
  /\ \E command \in Commands : program = command.program /\ args = command.args
  /\ system \in Systems
  /\ program = "fiemap" => ~system.isdir
  /\ packs = <<1, 0>>
  /\ given = <<>>
  /\ pc = "options"
  /\ ctrl = InitialCtrl(program)
  /\ zonemap = NULL
  /\ fs_manager = NULL
  /\ sb = EmptySb
  /\ todo = system.files
  /\ extents = <<>>
  /\ printed = <<>>
  /\ unread = {}

Go(from, to) == pc = from /\ pc' = to

(* Only the control structure changes.                                     *)
Set(c) ==
  /\ ctrl' = c
  /\ UNCHANGED <<outside, packs, args, given, zonemap, fs_manager, sb, todo,
                 extents, printed, unread>>

SetNothing ==
  UNCHANGED <<outside, packs, args, given, init_vars, todo, extents, printed, unread>>

-----------------------------------------------------------------------------
(* Options.                                                                *)

Given(letter) == \E k \in DOMAIN given : given[k].opt = letter

ParseOption ==
  /\ args # <<>>
  /\ Head(args).opt \in Cases[program]
  /\ Go("options", "options")
  /\ ctrl' = SetOption(program, ctrl, Head(args))
  /\ given' = Append(given, Head(args))
  /\ args' = Tail(args)
  /\ UNCHANGED <<outside, packs, zonemap, fs_manager, sb, todo, extents, printed, unread>>

(* -h, an option without a case, or zns.fiemap without a file.             *)
ShowHelp ==
  /\ \/ args # <<>> /\ Head(args).opt \notin Cases[program]
     \/ args = <<>> /\ program = "fiemap" /\ ~Given("f")
  /\ Go("options", "help")
  /\ SetNothing

OptionsConflict ==
  CASE program = "segmap" ->
         \/ ~Given("d")
         \/ Given("z") /\ (Given("s") \/ Given("e"))
         \/ ctrl.show_only_stats /\ ~ctrl.procfs
    [] program = "imap" -> ~Given("f")
    [] program = "fiemap" -> FALSE

RejectOptions ==
  /\ args = <<>>
  /\ OptionsConflict
  /\ Go("options", "error")
  /\ SetNothing

(* -c without -p is taken back with a warning.                             *)
AcceptOptions ==
  /\ args = <<>>
  /\ ~OptionsConflict
  /\ program = "fiemap" => Given("f")
  /\ Go("options", "open")
  /\ Set([ctrl EXCEPT !.show_class_stats = @ /\ ctrl.procfs])

-----------------------------------------------------------------------------
(* Devices and file system.                                                *)

BySegment == program = "segmap" /\ system.fs = "F2FS"

(* Every call that ends the program when it fails, at the step it is made. *)
(* The reports ask the device for every zone they print; of the segment    *)
(* report, the statistics alone do not.                                    *)
CallFails ==
  /\ \/ pc \in {"open", "magic", "device", "super", "bdev", "zns", "zonemap",
                "collect", "inode", "show_inode"}
     \/ pc = "checkpoint" /\ ctrl.show_checkpoint
     \/ pc = "report" /\ ~(BySegment /\ ctrl.show_only_stats /\ ~ctrl.json_dump)
  /\ pc' = "error"
  /\ SetNothing

(* stat of zns.segmap; open and fstat of the others.                       *)
OpenFile == Go("open", "magic") /\ SetNothing

AfterMagic ==
  CASE system.fs = "F2FS"  -> "device"
    [] system.fs = "Btrfs" -> "zns"
    [] system.fs = "other" -> "defaults"

SetFsMagic ==
  /\ Go("magic", AfterMagic)
  /\ Set([ctrl EXCEPT !.fs_magic = system.fs])

(* The block device of the file's st_dev.                                  *)
InitDev == Go("device", "super") /\ SetNothing

ReadSuperBlock ==
  /\ Go("super", "bdev")
  /\ sb' = [cp_blkaddr |-> system.cp_blkaddr, main_blkaddr |-> system.main_blkaddr,
            segment_count_main |-> Len(system.segments)]
  /\ UNCHANGED <<outside, packs, args, given, ctrl, zonemap, fs_manager, todo,
                 extents, printed, unread>>

(* The first device of the superblock, which is conventional.              *)
InitBdev ==
  /\ Go("bdev", "zns")
  /\ Set(WithSectorSize([ctrl EXCEPT !.bdev.is_zoned = FALSE], system.sector))

(* is_zoned and get_nr_zones, of which any may fail without an exit.       *)
IsZonedTold == {system.zoned, FALSE}
NrZonesTold == IF system.zoned THEN {system.nr_zones, 0} ELSE {0}

(* Wrong on purpose: the sector size is looked up last.                    *)
InitZnsDevSizeLast ==
  /\ Go("zns", "zonemap")
  /\ \E is_zoned \in IsZonedTold, nr_zones \in NrZonesTold :
       Set(WithSectorSize(WithSegments([ctrl EXCEPT !.znsdev.is_zoned = is_zoned], nr_zones),
                          system.sector))

(* The second device, or the one the user enters.                          *)
InitZnsDev ==
  /\ Go("zns", "zonemap")
  /\ \E is_zoned \in IsZonedTold, nr_zones \in NrZonesTold :
       Set(WithSegments(WithSectorSize([ctrl EXCEPT !.znsdev.is_zoned = is_zoned],
                                       system.sector), nr_zones))

(* The zone mask is not known yet.                                         *)
ZoneOf(c, z) ==
  [zone_number |-> z,
   start       |-> ToDevice(c, z * system.zone_sectors),
   end         |-> ToDevice(c, z * system.zone_sectors) + ToDevice(c, system.zone_cap),
   capacity    |-> ToDevice(c, system.zone_cap),
   mask        |-> c.znsdev.zone_mask]

InitZoneMap ==
  /\ ctrl.znsdev.nr_zones > 0
  /\ Go("zonemap", "zoned")
  /\ zonemap' = [nr_zones |-> ctrl.znsdev.nr_zones,
                 zones |-> [z \in 0 .. ctrl.znsdev.nr_zones - 1 |-> ZoneOf(ctrl, z)]]
  /\ UNCHANGED <<outside, packs, args, given, ctrl, fs_manager, sb, todo, extents,
                 printed, unread>>

(* A device that cannot be opened leaves the pointer null.                 *)
ZoneMapNotOpened ==
  /\ Go("zonemap", "zoned")
  /\ unread' = unread \cup {"zone_map"}
  /\ UNCHANGED <<outside, packs, args, given, init_vars, todo, extents, printed>>

(* set_super_block_info asks whether the second device is zoned.           *)
CheckZoned ==
  /\ Go("zoned", IF system.fs = "F2FS" /\ ~ctrl.znsdev.is_zoned THEN "error" ELSE "sizes")
  /\ SetNothing

FailedReads(read, what) == IF read THEN {} ELSE {what}

(* get_dev_size, get_zone_size and get_nr_zones; the first returns -1 when *)
(* it fails, the others 0.                                                 *)
ReadSizes ==
  /\ Go("sizes", IF program = "segmap" /\ system.fs = "F2FS" THEN "procfs" ELSE "defaults")
  /\ \E dev_read, zone_read, nr_read \in BOOLEAN :
       /\ zone_read => system.zoned
       /\ nr_read => system.zoned
       /\ ctrl' = WithZones(ctrl, system.fs = "F2FS",
                    IF system.fs # "F2FS" THEN 0
                    ELSE IF dev_read THEN system.conv_bytes ELSE Word64 - 1,
                    IF zone_read THEN ToDevice(ctrl, system.zone_sectors) ELSE 0,
                    IF nr_read THEN system.nr_zones ELSE 0)
       /\ unread' = unread \cup FailedReads(dev_read, "device_size")
                      \cup FailedReads(zone_read, "zone_size")
                      \cup FailedReads(nr_read, "number_of_zones")
  /\ UNCHANGED <<outside, packs, args, given, zonemap, fs_manager, sb, todo, extents, printed>>

-----------------------------------------------------------------------------
(* The segment table of procfs.                                            *)

(* Wrong on purpose: a segment gets its number behind the increment.       *)
SegmentTableFromOne ==
  [nr_segments |-> Len(system.segments),
   segments |-> [n \in 0 .. Len(system.segments) - 1 |->
                   [id |-> n + 1, type |-> system.segments[n + 1].type,
                    valid_blocks |-> system.segments[n + 1].valid_blocks]]]

(* One token of the listing for every segment of the main area, numbered   *)
(* as they come.                                                           *)
SegmentTable ==
  [nr_segments |-> Len(system.segments),
   segments |-> [n \in 0 .. Len(system.segments) - 1 |->
                   [id |-> n, type |-> system.segments[n + 1].type,
                    valid_blocks |-> system.segments[n + 1].valid_blocks]]]

(* sizeof(struct segment_info)                                             *)
FsInfoBytes == 12

(* Wrong on purpose: the table is dropped.                                 *)
InitFsManagerDropped ==
  /\ Go("procfs", "defaults")
  /\ Set([ctrl EXCEPT !.fs_info_bytes = FsInfoBytes])

InitFsManager ==
  /\ Go("procfs", "defaults")
  /\ ctrl' = [ctrl EXCEPT !.fs_info_bytes = FsInfoBytes]
  /\ fs_manager' = SegmentTable
  /\ UNCHANGED <<outside, packs, args, given, zonemap, sb, todo, extents, printed, unread>>

(* "Falling back to disabling procfs segment resolving": the table is      *)
(* null, but the extents are to get their information all the same.        *)
ProcfsMissing ==
  /\ Go("procfs", "defaults")
  /\ ctrl' = [ctrl EXCEPT !.fs_info_bytes = FsInfoBytes]
  /\ unread' = unread \cup {"procfs"}
  /\ UNCHANGED <<outside, packs, args, given, zonemap, fs_manager, sb, todo, extents, printed>>

(* fs_info_initialize: the entry of a segment.                             *)
FsInfo(segment) == fs_manager.segments[segment]

FsSegment(phy_blk) == SegmentIndex(ctrl, phy_blk)

-----------------------------------------------------------------------------
(* The extents.                                                            *)

WithDefaults(c) ==
  [c EXCEPT !.start_zone = IF @ = 0 /\ ~Given("z") THEN 1 ELSE @,
            !.end_zone = IF @ = 0 /\ ~Given("z") THEN c.znsdev.nr_zones ELSE @]

Defaults ==
  /\ Go("defaults", IF program = "imap" THEN "superblock" ELSE "collect")
  /\ Set(IF program = "segmap" THEN WithDefaults(ctrl) ELSE ctrl)

InFile == todo # <<>> /\ Head(todo) # <<>>
NextExtent == Head(Head(todo))

(* On the first device, or with data in the inode.                         *)
Excluded(e) == e.physical < ctrl.offset \/ (e.inline /\ ctrl.exclude_inline)

RestOfFile == todo' = <<Tail(Head(todo))>> \o Tail(todo)

SkipExtent ==
  /\ InFile
  /\ Excluded(NextExtent)
  /\ Go("collect", "collect")
  /\ RestOfFile
  /\ UNCHANGED <<outside, packs, args, given, init_vars, extents, printed, unread>>

(* An extent in a null map, a division by a zone size of 0, a null table.  *)
CannotRecord ==
  \/ zonemap = NULL
  \/ ctrl.znsdev.zone_size = 0
  \/ ctrl.fs_info_bytes > 0 /\ fs_manager = NULL

CrashOnExtent ==
  /\ InFile
  /\ ~Excluded(NextExtent)
  /\ CannotRecord
  /\ Go("collect", "crash")
  /\ SetNothing

NoFsInfo == [info |-> "none"]

(* get_zone_info leaves 0 behind when it cannot open the device.           *)
CapacityTold(zone_read) == IF zone_read THEN ToDevice(ctrl, system.zone_cap) ELSE 0

Extent(e, zone_cap) ==
  LET phy_blk == (e.physical - ctrl.offset) \div 2 ^ ctrl.sector_shift
  IN  [phy_blk |-> phy_blk,
       len |-> e.length \div 2 ^ ctrl.sector_shift,
       zone |-> GetZoneNumber(ctrl, ToKernel(ctrl, phy_blk)),
       zone_cap |-> zone_cap,
       info |-> IF ctrl.fs_info_bytes > 0 THEN FsInfo(FsSegment(phy_blk)) ELSE NoFsInfo]

RecordExtent ==
  /\ InFile
  /\ ~Excluded(NextExtent)
  /\ ~CannotRecord
  /\ Go("collect", "collect")
  /\ \E zone_read \in BOOLEAN :
       /\ extents' = Append(extents, Extent(NextExtent, CapacityTold(zone_read)))
       /\ unread' = unread \cup FailedReads(zone_read, "zone_info")
  /\ RestOfFile
  /\ UNCHANGED <<outside, packs, args, given, init_vars, printed>>

(* "No extents found on device" ends the program behind any file.          *)
EndOfFile ==
  /\ todo # <<>>
  /\ Head(todo) = <<>>
  /\ zonemap # NULL
  /\ \/ /\ extents # <<>>
        /\ Go("collect", "collect")
        /\ todo' = Tail(todo)
        /\ UNCHANGED printed
     \/ /\ extents = <<>>
        /\ Go("collect", "error")
        /\ printed' = Append(printed, [kind |-> "none_found"])
        /\ UNCHANGED todo
  /\ UNCHANGED <<outside, packs, args, given, init_vars, extents, unread>>

(* extent_ctr, and nr_zones in cleanup_zonemap, are looked up in a null    *)
(* map.                                                                    *)
CrashOnNull ==
  /\ zonemap = NULL
  /\ \/ pc = "collect" /\ (todo # <<>> => Head(todo) = <<>>)
     \/ pc = "cleanup"
  /\ pc' = "crash"
  /\ SetNothing

(* A directory without files only warns.                                   *)
Collected ==
  /\ todo = <<>>
  /\ zonemap # NULL
  /\ Go("collect", IF extents = <<>> THEN "cleanup" ELSE "report")
  /\ SetNothing

-----------------------------------------------------------------------------
(* The reports.                                                            *)

Show(what) ==
  /\ printed' = Append(printed, what)
  /\ UNCHANGED <<outside, packs, args, given, init_vars, todo, extents, unread>>

SegmentStart(e) == FsSegment(e.phy_blk) * 2 ^ ctrl.segment_shift

(* Wrong on purpose: the segment at the end is shown.                      *)
BehindEndInclusive(e) == SegmentStart(e) > ctrl.end_zone * ctrl.znsdev.zone_size

BehindEnd(e) == SegmentStart(e) >= ctrl.end_zone * ctrl.znsdev.zone_size

BelowStart(e) ==
  SegmentStart(e) + ctrl.znsdev.zone_size < ctrl.start_zone * ctrl.znsdev.zone_size

Recorded == {extents[k] : k \in DOMAIN extents}

InWindow == {e \in Recorded : ~BehindEnd(e)}

(* Both loops over a zone skip an extent without going to the next.        *)
StuckOn(e) == ~BehindEnd(e) /\ BelowStart(e)

ReportHangs ==
  /\ BySegment
  /\ \E e \in Recorded : StuckOn(e)
  /\ Go("report", "hang")
  /\ SetNothing

ShowsJson(shown) ==
  Show([kind |-> "json", info |-> JsonInfo(ctrl), shown |-> shown])

WithinSegment(e) == e.phy_blk + e.len <= SegmentStart(e) + 2 ^ ctrl.segment_shift

(* Zones are visited in their order, and their extents in that of the      *)
(* device.                                                                 *)
InLastSegment(e) ==
  \A x \in InWindow :
    x.zone < e.zone \/ (x.zone = e.zone /\ SegmentStart(x) <= SegmentStart(e))

(* Keys of three digits, and no zone of which nothing is asked for: then   *)
(* no object of the file replaces another.                                 *)
NoneReplaced ==
  /\ InWindow = Recorded
  /\ \A e \in InWindow : WithinSegment(e) /\ FsSegment(e.phy_blk) < 1000

(* What the file holds of the window is followed in JsonDump: an extent of *)
(* one segment is added with its segment when the next one begins, so that *)
(* those of the last are not, and objects may replace each other.          *)
Dumps ==
  {shown \in SUBSET InWindow :
     /\ \A e \in shown : WithinSegment(e) => ~InLastSegment(e)
     /\ NoneReplaced => \A e \in InWindow : e \in shown \/ InLastSegment(e)}

(* json_object_to_file returns -1 when it fails, and the tool asks for 1.  *)
ReportJson ==
  /\ BySegment /\ ctrl.json_dump
  /\ ~\E e \in Recorded : StuckOn(e)
  /\ Go("report", "cleanup")
  /\ \/ \E shown \in Dumps : ShowsJson(shown)
     \/ /\ unread' = unread \cup {"json_file"}
        /\ UNCHANGED <<outside, packs, args, given, init_vars, todo, extents, printed>>

(* The extents with a line of their own, of which the statistics alone     *)
(* have none.  What the lines of one show of it is followed in             *)
(* SegmentReport.                                                          *)
ReportSegments ==
  /\ BySegment /\ ~ctrl.json_dump
  /\ ~\E e \in Recorded : StuckOn(e)
  /\ Go("report", "cleanup")
  /\ Show([kind |-> "segments", stats |-> ctrl.show_class_stats,
            only_stats |-> ctrl.show_only_stats,
            shown |-> {e \in InWindow : ~ctrl.show_only_stats}])

(* A division by the capacity that was not read, unless the zone is the    *)
(* last the file was counted in, which SegmentReport follows.              *)
CrashOnCapacity ==
  /\ BySegment /\ ~ctrl.json_dump
  /\ \E e \in InWindow : e.zone_cap = 0
  /\ Go("report", "crash")
  /\ SetNothing

(* print_fiemap_report knows no zones to start and end at.                 *)
ReportFiemap ==
  /\ ~BySegment
  /\ Go("report", "cleanup")
  /\ Show([kind |-> "fiemap", holes |-> ctrl.show_holes, shown |-> Recorded])

Cleanup ==
  /\ zonemap # NULL
  /\ Go("cleanup", "done")
  /\ SetNothing

-----------------------------------------------------------------------------
(* zns.imap.                                                               *)

ShowSuperBlock ==
  /\ ctrl.show_superblock
  /\ Go("superblock", "checkpoint")
  /\ Show([kind |-> "superblock", sb |-> sb])

NoSuperBlock ==
  /\ ~ctrl.show_superblock
  /\ Go("superblock", "checkpoint")
  /\ SetNothing

Newest(versions) == IF versions[1] > versions[2] THEN versions[1] ELSE versions[2]

(* The pack at cp_blkaddr.                                                 *)
PackRead == packs[1]

(* Without F2FS there is no path of a device to open.                      *)
ShowCheckpoint ==
  /\ ctrl.show_checkpoint
  /\ system.fs = "F2FS"
  /\ Go("checkpoint", "inode")
  /\ Show([kind |-> "checkpoint", version |-> PackRead, newest |-> Newest(packs)])

NoCheckpoint ==
  /\ ~ctrl.show_checkpoint
  /\ Go("checkpoint", "inode")
  /\ SetNothing

(* The search of NatLookup, when it finds the inode.                       *)
FindInode ==
  /\ system.fs = "F2FS"
  /\ ctrl.znsdev.zone_size # 0
  /\ Go("inode", "show_inode")
  /\ SetNothing

CrashOnInode ==
  /\ system.fs = "F2FS"
  /\ ctrl.znsdev.zone_size = 0
  /\ Go("inode", "crash")
  /\ SetNothing

(* Wrong on purpose: the address stays in blocks of the file system.       *)
InodeBlock == ((system.inode_blkaddr * F2FS_BLKSIZE) % Word) \div F2FS_BLKSIZE

(* block_addr has 32 bits, and so has its number of bytes.                 *)
InodeLba == ((system.inode_blkaddr * F2FS_BLKSIZE) % Word) \div 2 ^ ctrl.sector_shift

(* get_zone_number is given sectors of the device.                         *)
ShowInode ==
  /\ Go("show_inode", "cleanup")
  /\ Show([kind |-> "inode", zone |-> GetZoneNumber(ctrl, InodeLba),
            pbas |-> InodeLba, pbae |-> InodeLba + F2FS_SECS_PER_BLOCK])

-----------------------------------------------------------------------------
(* F2FS writes its checkpoints to two packs in turn.                       *)
WriteCheckpoint ==
  /\ system.fs = "F2FS"
  /\ Newest(packs) <= MaxCheckpoints
  /\ packs' = [packs EXCEPT ![IF packs[1] < packs[2] THEN 1 ELSE 2] = Newest(packs) + 1]
  /\ UNCHANGED <<outside, args, given, pc, init_vars, todo, extents, printed, unread>>

Stopped == {"done", "error", "help", "crash", "hang"}

Finished == pc \in Stopped /\ UNCHANGED vars

Next ==
  \/ ParseOption \/ ShowHelp \/ RejectOptions \/ AcceptOptions \/ CallFails
  \/ OpenFile \/ SetFsMagic \/ InitDev \/ ReadSuperBlock \/ InitBdev \/ InitZnsDev
  \/ InitZoneMap \/ ZoneMapNotOpened \/ CheckZoned \/ ReadSizes
  \/ InitFsManager \/ ProcfsMissing
  \/ Defaults \/ SkipExtent \/ CrashOnExtent \/ RecordExtent \/ EndOfFile
  \/ CrashOnNull \/ Collected
  \/ ReportHangs \/ ReportJson \/ ReportSegments \/ CrashOnCapacity \/ ReportFiemap
  \/ Cleanup
  \/ ShowSuperBlock \/ NoSuperBlock \/ ShowCheckpoint \/ NoCheckpoint
  \/ FindInode \/ CrashOnInode \/ ShowInode
  \/ WriteCheckpoint
  \/ Finished

Spec == Init /\ [][Next]_vars

-----------------------------------------------------------------------------
(* Properties.                                                             *)

ExtentType ==
  [phy_blk : Nat, len : Nat, zone : Nat, zone_cap : Nat,
   info : SegmentInfoType \cup {NoFsInfo}]

ZoneType ==
  [zone_number : Nat, start : Nat, end : Nat, capacity : Nat, mask : 0 .. Word - 1]

Steps ==
  {"options", "open", "magic", "device", "super", "bdev", "zns", "zonemap", "zoned",
   "sizes", "procfs", "defaults", "collect", "report", "superblock", "checkpoint",
   "inode", "show_inode", "cleanup"} \cup Stopped

(* The control structure, the tables it points to and the extents have     *)
(* their types in zns-tools.h and f2fs.h, whatever failed before.          *)
TypeOK ==
  /\ program \in Programs
  /\ system \in Systems
  /\ packs \in [1 .. 2 -> 0 .. MaxCheckpoints + 1]
  /\ pc \in Steps
  /\ ctrl \in ControlType
  /\ \/ zonemap = NULL
     \/ /\ zonemap.nr_zones \in Nat \ {0}
        /\ zonemap.zones \in [0 .. zonemap.nr_zones - 1 -> ZoneType]
  /\ \/ fs_manager = NULL
     \/ /\ fs_manager.nr_segments = sb.segment_count_main
        /\ fs_manager.segments \in [0 .. fs_manager.nr_segments - 1 -> SegmentInfoType]
  /\ sb \in [cp_blkaddr : Nat, main_blkaddr : Nat, segment_count_main : Nat]
  /\ Recorded \subseteq ExtentType
  /\ unread \subseteq {"zone_map", "device_size", "zone_size", "number_of_zones", "procfs",
                      "zone_info", "json_file"}

Initialised ==
  pc \in {"procfs", "defaults", "collect", "report", "superblock", "checkpoint", "inode",
         "show_inode", "cleanup", "done", "hang"}

(* What init_ctrl and check_dir_init_ctrl leave in the control structure   *)
(* describes the devices, in whatever order the sizes of the sectors, the  *)
(* segments and the zones were looked up: the shifts and masks go with the *)
(* sectors, each zone begins, ends and is numbered where the device has    *)
(* it, unless its size was not read.                                       *)
(* Zone numbers and masks are right as far as 32 bits count the sectors.   *)
GeometryIsTheDevices ==
  Initialised /\ system.fs # "other" =>
    /\ ctrl.sector_size = system.sector
    /\ 2 ^ ctrl.sector_shift = system.sector
    /\ 512 * 2 ^ ctrl.zns_sector_shift = system.sector
    /\ ctrl.f2fs_segment_sectors * system.sector = F2FS_SEGMENT_BYTES
    /\ 2 ^ ctrl.segment_shift = ctrl.f2fs_segment_sectors
    /\ ctrl.f2fs_segment_mask + ctrl.f2fs_segment_sectors = Word64
    /\ ctrl.offset = system.conv_bytes \/ "device_size" \in unread
    /\ ctrl.znsdev.nr_zones = system.nr_zones \/ "number_of_zones" \in unread
    /\ \/ "zone_size" \in unread
       \/ /\ ctrl.znsdev.zone_size * system.sector = system.zone_sectors * 512
          /\ system.nr_zones * system.zone_sectors <= Word =>
               /\ ctrl.znsdev.zone_mask + ctrl.znsdev.zone_size = Word
               /\ \A z \in 0 .. system.nr_zones - 1, s \in {0, system.zone_sectors - 1} :
                    GetZoneNumber(ctrl, z * system.zone_sectors + s) = z
    /\ \/ zonemap = NULL /\ "zone_map" \in unread
       \/ /\ zonemap.nr_zones = system.nr_zones
          /\ \A z \in 0 .. system.nr_zones - 1 :
               /\ zonemap.zones[z].start * system.sector = z * system.zone_sectors * 512
               /\ zonemap.zones[z].capacity * system.sector = system.zone_cap * 512
               /\ zonemap.zones[z].end = zonemap.zones[z].start + zonemap.zones[z].capacity

HexPower[n \in Nat] == IF n = 0 THEN 1 ELSE HexBase * HexPower[n - 1]

(* The JSON file repeats the geometry of the devices, but for the last     *)
(* digits of the segment mask: as many are lost as do not fit.             *)
JsonTellsTheGeometry ==
  \A k \in DOMAIN printed :
    printed[k].kind = "json" =>
      LET fs   == printed[k].info.config.filesystem
          mask == Word64 - fs.f2fs_segment_sectors
      IN  /\ printed[k].info.config.dev_2.sector_size = system.sector
          /\ fs.f2fs_segment_sectors * system.sector = F2FS_SEGMENT_BYTES
          /\ fs.f2fs_segment_mask < HexLimit
          /\ \E lost \in 1 .. Word64 :
               /\ fs.f2fs_segment_mask = mask \div HexPower[lost]
               /\ HexLimit <= mask \div HexPower[lost - 1]

(* The tools crash only on a file system they do not know, or behind a     *)
(* call whose failure they passed over: a device not opened for the zone   *)
(* map, for the size of its zones or for a zone's capacity, or the segment *)
(* information of procfs.  Of the last the tool says that it goes on       *)
(* without: see SegmentsResolved.                                          *)
CrashesAreKnown ==
  pc = "crash" =>
    \/ system.fs = "other"
    \/ unread \cap {"zone_map", "zone_size", "procfs", "zone_info"} # {}

(* The number of the segment of F2FS an extent starts in, which counts     *)
(* from the start of the main area.                                        *)
MainSegment(extent) ==
  (system.conv_bytes + extent.phy_blk * system.sector - system.main_blkaddr * F2FS_BLKSIZE)
    \div F2FS_SEGMENT_BYTES

HasItsOwnInfo(extent) ==
  LET segment == MainSegment(extent)
  IN  extent.info = [id |-> segment, type |-> system.segments[segment + 1].type,
                     valid_blocks |-> system.segments[segment + 1].valid_blocks]

SegmentInfoIsItsOwn ==
  \A k \in DOMAIN extents : extents[k].info # NoFsInfo => HasItsOwnInfo(extents[k])

(* The information of procfs is resolved if it exists, otherwise not: an   *)
(* extent gets that of the segment it starts in, and where nothing but     *)
(* procfs could not be read, zns.segmap goes on without, as it announces   *)
(* ("Falling back to disabling procfs segment resolving").                 *)
SegmentsResolved ==
  /\ SegmentInfoIsItsOwn
  /\ pc = "crash" /\ system.fs # "other" => unread # {"procfs"}

(* The type and the valid blocks of an extent are those of the segment it  *)
(* starts in, whatever the sectors and wherever the extent, if the main    *)
(* area starts with the zoned device, and come from no entry behind the    *)
(* end of the table otherwise: procfs numbers the segments of the main     *)
(* area, the tool those of the zoned device (see SegmentsResolved).        *)
SegmentInfoOfMainArea ==
  /\ system.main_blkaddr * F2FS_BLKSIZE = system.conv_bytes => SegmentInfoIsItsOwn
  /\ \A k \in DOMAIN extents :
       extents[k].info # NoFsInfo => extents[k].info.id < Len(system.segments)

(* The last argument given for a letter, or a default.                     *)
LastArg(letters, default) ==
  LET places == {k \in DOMAIN given : given[k].opt \in letters}
  IN  IF places = {} THEN default
      ELSE given[CHOOSE k \in places : \A j \in places : j <= k].arg

InlineShown == program # "segmap" \/ Given("i")

(* The extents of some files that are on the zoned device, by their bytes. *)
OnZns(files) ==
  {e \in UNION {{file[k] : k \in DOMAIN file} : file \in files} :
     e.physical >= system.conv_bytes /\ (e.inline => InlineShown)}

ZoneAt(e) == (e.physical - system.conv_bytes) \div (system.zone_sectors * 512)

(* Zones are counted from 1 in the options, and 0 is no choice, except     *)
(* with -z.                                                                *)
AskedZones ==
  LET first == LastArg({"s", "z"}, 1)
      last == LastArg({"e", "z"}, 0)
  IN  (IF Given("z") THEN first ELSE IF first = 0 THEN 1 ELSE first) - 1
      .. (IF last = 0 /\ ~Given("z") THEN system.nr_zones ELSE last) - 1

AskedFor(e) == ~BySegment \/ ZoneAt(e) \in AskedZones

AllFiles == {system.files[k] : k \in DOMAIN system.files}

(* The sector an extent starts in, which data in an inode does not fill.   *)
SectorAt(e) == (e.physical - system.conv_bytes) \div system.sector

SectorsAsked == {SectorAt(e) : e \in {e \in OnZns(AllFiles) : AskedFor(e)}}

SectorsShown(report) == {x.phy_blk : x \in report.shown}

(* A report has lines for the extents on the zoned device in the zones     *)
(* asked for, each known by its first sector, unless only statistics are   *)
(* asked for; the JSON file has none but those, and lacks some, which      *)
(* JsonDump tells.  A report hangs only when there is an extent before     *)
(* those asked for; when no extents are said to be found, the files looked *)
(* at have none there.  Otherwise a size was not read, without an error.   *)
ReportIsWhatWasAsked ==
  unread \cap {"device_size", "zone_size", "number_of_zones"} = {} =>
    /\ \A k \in DOMAIN printed :
         /\ printed[k].kind \in {"segments", "fiemap"} =>
              SectorsShown(printed[k])
                = IF BySegment /\ Given("o") THEN {} ELSE SectorsAsked
         /\ printed[k].kind = "json" => SectorsShown(printed[k]) \subseteq SectorsAsked
         /\ printed[k].kind = "none_found" =>
              OnZns({system.files[n] :
                       n \in 1 .. Len(system.files) - Len(todo) + 1}) = {}
    /\ pc = "hang" =>
         \E e \in OnZns(AllFiles) : ~AskedFor(e) /\ \A z \in AskedZones : ZoneAt(e) < z

InodeByteOnZns == system.inode_blkaddr * F2FS_BLKSIZE - system.conv_bytes

InodeZone == InodeByteOnZns \div (system.zone_sectors * 512)

(* The address of the inode is right: NatLookup has why it may not be.     *)
InodeIsAddressed == system.conv_bytes = Word /\ InodeByteOnZns \in 0 .. Word - 1

(* zns.imap reads one of two checkpoint packs and shows at worst the last  *)
(* but one.  It shows the address of an inode if the first device has as   *)
(* many bytes as 32 bits address and the inode is as near the start of the *)
(* zoned one, and then on sectors of 512 bytes its zone too.               *)
ImapReport ==
  \A k \in DOMAIN printed :
    /\ printed[k].kind = "checkpoint" =>
         printed[k].version \in {printed[k].newest, printed[k].newest - 1}
    /\ printed[k].kind = "inode" /\ InodeIsAddressed =>
         /\ printed[k].pbas * system.sector = InodeByteOnZns
         /\ system.sector = 512 => printed[k].zone = InodeZone
=============================================================================
