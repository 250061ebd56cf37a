# zns-tools in TLA+

zns-tools looks at how data lies on a zoned (ZNS) NVMe device: `zns.fiemap`,
`zns.segmap` and `zns.imap` read it off a file system, `zns-tools.nvme` traces
the commands of the device, `zns-tools.app` draws a timeline of an application,
F2FS and the device. This directory models the parts with state and control
worth checking. Everything is translated from the sources under `src/`;
`PROJECT.json` maps each definition to its lines.

## Inventory

| Component | State | Operations | Correct when |
|---|---|---|---|
| Zone map (`libzns-tools.c`) | `zonemap->zones[]`: a sorted list and a counter per zone; totals | `init_zone_map`, `get_zone_number`, `add_extent_to_zone_list`, `sorted_zone_list_insert` | lists in device order, counters agree with them, no index outside the array |
| Collection (`segmap.c`, `fiemap.c`, `get_extents`) | open directories, the FIEMAP window, `file_counter_map`, `nr_files` | `collect_extents`, `get_extents`, `increase_file_extent_counter` | ends; reports each untouched file exactly; numbers extents in logical order; never writes behind an allocation |
| Segment report (`segmap.c`) | position in the lists, `cur_segment`, `segmap_man`, per-file segment counters | `show_segment_report` and the functions it calls | the parts of an extent tile it, under the right headers; counters say what they are documented to say; ends |
| JSON dump (`libjson.c`) | the segment being collected, the objects of the zone and of the dump | `json_dump_f2fs_zonemap` | every selected extent once, under its zone and segment; geometry as it is |
| FIEMAP report (`print_fiemap_report`) | previous extent, hole counters | one walk over the lists | holes are free space, counted once, and do not wrap; holes and extents tile a zone |
| F2FS metadata (`libf2fs.c`, `imap.c`) | superblock, checkpoint, offsets of the NAT search, procfs segment table | `f2fs_get_inode_nat_entry` under a retry loop, `f2fs_read_super_block`, `f2fs_read_checkpoint`, `init_procfs_segment_bits`, `fs_info_initialize` | the search passes each entry once, ends and finds the inode; an extent gets the entry of its segment; the newest checkpoint is shown |
| Zone probes (`trace.bt`) | maps shared by all CPUs | probes at setup and completion of a command | counters count, latencies belong to their reset |
| Heat maps (`plot.py`) | none beyond what it parses | plots | division by a counter that exists |
| Timeline (`zns-tools.app`, `tracegen.py`) | maps printed and cleared by intervals, start times of jobs, table of inodes | seven probe scripts, one generator | each event once, with the file of its time; jobs with their own begin and end |
| Initialisation (`init_ctrl`, `init_dev`, ..., the three `main`s) | `struct control`, `znsdev`, pointers to the zone map and the segment table | options, ioctls, sysfs, procfs | the geometry is that of the devices in the right unit; a failed call ends the tool, or leaves nothing to stumble over; the report is the one asked for |

How they meet. `main` of `segmap.c` parses its options, initialises `ctrl`,
collects, then either shows the segment report or writes the JSON dump;
`fiemap.c` collects one file and prints the FIEMAP report; `imap.c` searches the
NAT. Collection and reports share only the zone map and the counters, so their
interface is an invariant: `ZoneListsInDeviceOrder`. All of them share `ctrl`,
whose fields are set one after the other, each from the ones before.
The tools are sequential, but the file system is live while they run. The
probes share their maps with probes on all other CPUs, and the NVMe driver
reorders completions. `zns-tools.app` starts several tracers that attach some
time later and stop by their own timers, and joins what they wrote.

Hard behaviours: blocks that move, files that grow, shrink or vanish between
two FIEMAP calls; a FIEMAP window that is not the file; arrays sized from
counters updated elsewhere; `continue` in a `while` over a linked list; a
header and a segment object that depend on what was shown last; updates of
shared maps in two steps; tags reused on several queues and by later commands;
attaching in the middle of a command; calls that fail without ending the
program; sizes in three units; a print and a clear that are requests in a
buffer of limited size. `PROJECT.json` lists each hazard at its
line, with the properties that cover it.

## Modules

| Module | Models | Extends |
|---|---|---|
| `ZoneMap` | geometry, `get_zone_number` (with its 32-bit mask, `Word`), the sorted lists; what the collection leaves to the reports | community modules |
| `ExtentCatalog` | abstract: a catalog to which the extents of one file after another are added, in order | |
| `ExtentMap` | the directory walk, `get_extents`, the live file system | `ZoneMap` |
| `Segments` | cutting an extent into segments; the options `-s -e -z` | `ZoneMap` |
| `SegmentReport` | `show_segment_report` | `Segments` |
| `JsonDump` | `json_dump_f2fs_zonemap` | `Segments` |
| `FiemapReport` | `print_fiemap_report` | `ZoneMap` |
| `NatLookup` | the NAT search, the retry loop of `zns.imap`, the live F2FS | |
| `NvmeTrace` | the probes of `trace.bt` | |
| `Control` | `struct control`: options, geometry, the fields the JSON file shows | |
| `Tools` | the three programs from their options to their exit, each call failing where it can | `Control` |
| `Timeline` | `zns-tools.app`, its probes, and `tracegen.py` | |
| `MC*` | instances for TLC | their module |
| `ExtentMapProofs`, `SegmentReportProofs`, `JsonDumpProofs`, `FiemapReportProofs`, `NatLookupProofs`, `TimelineProofs`, `ToolsProofs`, `NvmeTraceProofs` | theorems | their module, `TLAPS` |

`Tools` composes what the other modules take apart: there an extent is recorded
and a report printed in one step, and the question is whether the parts are
called with what they need. The loops inside have the modules above it.

Operators with "Wrong on purpose" above them are used by nothing: each is the
form a definition beside it would have with a plausible bug. `PROJECT.json`
("mutants") says which property notices which.

### ExtentMap

Addresses are blocks; `Offset` is the size of the conventional device
(`ctrl.offset`), `content[f]` the address of each logical block of a file or
`Hole`. `pc` is the point of the program: `readdir` (the loop of
`collect_extents`, whose recursion is the `stack`), `open`, `fiemap` (the
do-while of `get_extents`), `scanned` (back in the caller), `done`, `failed`
(the `ERR_MSG` macro exits). One action is one turn of a loop around one system
call, because the file system may change between two calls and not within one.
`Advance` is the tail of the FIEMAP loop, which both `FiemapSkip` and
`FiemapRecord` contain. `Record` is everything done for a recorded extent.

External: the FIEMAP answer (`FiemapAnswers`: the first run of mapped blocks in
the window, cut anywhere), `st_blocks`, `readdir`, and the file system's steps
`MoveBlock`, `WriteBlock`, `Truncate`, `Unlink`. Any system call may fail.

`get_zone_info` (device data per extent), log output and the cleanup at the end
are left out. `increase_file_extent_counter` is there, with names cut to 49
characters modelled as two files that share a name.

### Segments, SegmentReport, JsonDump

Sizes are in device sectors; the segment size is a power of two in the code, so
a mask and a shift are a division. The reports start from `ZoneMaps`, a constant
that stands for the zone maps a collection may leave: those `InDeviceOrder`,
with no node in two places (`NoneTwice`) and one name for a file id
(`OneNameEach`), which is what `ListsInDeviceOrder` proves of `ExtentMap`. The
instances for TLC take `Collected(...)` of every collection they name, lists
built with `AddExtentToZoneList`. `SegmentReport` has an action per
branch: `EnterExtent` is the head of the loop body, `ShowSingle`, or
`ShowBeginning`, `ShowMiddle`, `ShowRemainder`, each with the `No...` form for
an extent without that part. `lines` is what was printed, without its wording.
`ContinueBelowStart` is the `continue` that goes nowhere: it changes nothing,
and fairness of the walk does not get past it. The counters of the code
(`files`, `segmap_man`, `fs`) are all kept, with the 32-bit arithmetic and the
shift of `increase_file_segment_counter` as they are (`SegmentZone`,
`CountZones`). Without a procfs table types would be unknown; the model has
one, since the program dereferences it. A line keeps PBAS, PBAE and SIZE as they are printed;
in the line of a single full segment PBAS is the number of the segment.

`JsonDump` turns one extent into a whole step (`DumpInSegment`,
`DumpInNewSegment`), since nothing happens in between. A segment object is its
`seg_info` (or `NoInfo`) with the parts collected; `Put` is
`json_object_object_add`, which replaces a key. The keys are those of the code:
a segment under the number of the one after it, a zone under `current_zone`,
either cut to the digits its buffer has room for (`Key`).

### FiemapReport

The walk over the lists of all zones, one action per turn of the loops. `shown`
is the list of printed extents, whose last is the code's `prev`. A turn may
print up to three holes, from conditions on the previous, the current and the
next extent: `InnerHole`, `LeadingHole`, `TrailingHole`. An extent carries the
capacity and the write pointer of its zone as they were read when the extent
was collected, so extents of one zone may disagree about the write pointer; the
capacity may be smaller than the zone. Sizes are unsigned (`Word64`). `Orderly`
is what a quiet file system gives the report (extents within their zones,
none of length zero, none overlapping), and the hypothesis of the properties
about what holes mean; the last conjunct of `HolesAreFree` (`WrapsOnOverlap`)
and the types hold without it.

`examples/zns.fiemap.md` names three cases of holes. The first, between extents, is what
the code does. For the second, in front of the first extent of a later zone, the code
also asks that the current extent is not the last of its zone; for the third, behind the
last extent of a zone, it does not ask for an extent in a higher zone. `LeadingHoles` and
`HolesAreFree` state what code and document have in common, and leave open the two cases
in which they differ: a lone extent in a later zone, and the space behind the highest
extent.

### NatLookup

`zns.imap` calls `f2fs_get_inode_nat_entry` until the block behind the entry is
an inode (`nid = ino`), because the NAT entries of direct and indirect nodes
carry the inode's number too. The function keeps `nat_block_offset` and
`nat_entry_offset` from call to call, and reads at most `nat_blocks` blocks in
each. `pc` is `nat` (in the loop over blocks), `node` (between the return of an
entry and the read of its node block), `done`, `not found` (NULL) and `failed`.
One action is one block read with what is done with it, since F2FS may write
between two reads.

External: the NAT area, two copies of which one is valid, neither chosen by the
tool; the node blocks; and F2FS: `MoveInode`, `ReuseBlock` (a block the inode
has left), `Checkpoint` (the entry of the inode is written, in either copy).
Behind the NAT area (`AreaBlocks`, a bound) nothing looks like an entry of the
file. `Word` is the number of blocks 32 bits of byte address reach: the shift
in `f2fs_get_node_block` cuts to it, and nothing else takes the offset of the
zoned device off the address. `rewritten`, `outdated` and `returned` are
history for the properties.

### NvmeTrace

A request occupies a slot, that is a queue and a tag, from setup to
completion. The setup probe runs on a CPU in two or three steps, because
bpftrace compiles `@x++` and `@x = @x + n` into a map lookup and a map update:
`SetupProbe` (predicate and lookup), `CountReadOrWrite`, `AddData`,
`CountReset`, `CountResetAll`. The completion probe is one step, as it only
overwrites. A completion can come only after the driver returned from the
setup. A map holds `MapKeys` entries, 4096 unless bpftrace is told otherwise, which
`zns-tools.nvme` does not do: a key that is there is updated, another one is lost
(`HasRoom`, `Store`). The probe is at the entry of `nvme_setup_cmd`, which fills the
command in only afterwards, so the zone it takes for that of a reset, or of a read or
write of sector 0, is that of the last command in the slot: `zlbas` of a request is the
zone the probe counts it under, which is any, whatever zone it is for. `full`,
`started`, `setups`, `raced`, `disturbed`, `completed` and `calm` are history, used by
the properties alone. `Tick` is the clock. Logging, and the clearing of maps that
the script ends with, are left out.

### Control, Tools

`Control` has the structure itself: `SetOption` is the `switch` of each `main`,
`WithSectorSize`, `WithSegments` and `WithZones` are the assignments of
`get_sector_size`, `init_znsdev` and `init_ctrl`. A shift is a division or a product.
`MaskOf` is `~(size - 1)` in 32 or 64 bits, which is 0 for a size of 0.
`HexDigits` is what a buffer of 14 characters keeps of a 64-bit number.

`pc` of `Tools` is the call that comes next, in the order of the code: `options`,
`open`, `magic`, `device`, `super`, `bdev`, `zns`, `zonemap`, `zoned`, `sizes`,
`procfs`, `defaults`, `collect`, `report` and `cleanup`; `superblock`, `checkpoint`,
`inode` and `show inode` for `zns.imap`. It ends as `done`, `help`, `error` (a failed
call with `ERR_MSG`, which `CallFails` is for all of them), `crash` (a null pointer
or a division by zero) or `hang` (the loop of `-s`). Calls whose failure the code
passes over leave what the code leaves: no zone map (`ZoneMapNotOpened`), a
device of all ones or a zone of size 0 (`ReadSizes`), no segment table although
it is asked for later (`ProcfsMissing`), a capacity of 0 (`RecordExtent`), no
JSON file (`ReportJson`). A report with lines shows an extent when it has one; what
the lines say is followed in `SegmentReport`. What the JSON file lacks of the window is
followed in `JsonDump`: here it is any set without the extents in the last segment
(`Dumps`), and exactly that set when no object can replace another (`NoneReplaced`).
`unread` records which, for the properties alone.
`given` is the history of the options.

External: `Systems`, which are a file system with its devices, segments and
files; the options a user gives (`Commands`); and `WriteCheckpoint`, by which F2FS
writes its two packs in turn while `zns.imap` runs.

### Timeline

A probed call happens at a time of its own (`nsecs` counts them): an event of a
layer on an inode (`EventCall`), a name given to an inode (`NameInode`), the begin
and end of a RocksDB job (`BeginFlush`, `BeginCompaction`, `EndJob`). A tracer is
`starting`, `tracing`, `leaving` and `gone`; the script starts all of them at once, and
they attach in any order (`Attach`) and leave by their own timers (`Leave`, `Exit`).

An event tracer keeps its events in a map of `MapKeys` entries. An interval asks
to print (`RequestPrint`) and then to clear (`RequestClear`): both are messages to
bpftrace in a buffer of `BufferSize`, served later in their order (`ServePrint`,
`ServeClear`) while events go on, and dropped with a message in the file when
the buffer is full. The inode tracer overwrites the name of an inode. The RocksDB
tracer keeps one start for all flushes (`flush_track`), one for compactions under the
address of their `CompactionJobStats` (the argument the probe takes for the id of the job),
which is on the stack of the thread, used again by later ones and never removed, and a duration
by kind, start and thread. The end of a flush is a `uretprobe`, which fires only for calls
entered after it was attached: a flush from before ends unseen (`EndUnseenFlush`). The
end of a compaction is a call of its own, and is seen without a start.
`tracegen.py` starts when all tracers are gone: `Generate` reads the names,
`ParseLayer` one layer's file (and refuses all of them at a message of lost events),
`WriteTimeline` adds the jobs. bpftrace, the kernel and RocksDB are external.
`happened`, `ran`, `full`, `no_start`, `no_end`, `erased`, `named_at` and `traced_at` are history.

## Runs

Passing runs:

- `extent_map`: two changes of the file system anywhere in the walk over a
  directory with a subdirectory; a file over two zones, fragmented backwards or
  with holes; an inlined one; two that share a cut name; or the single file.
  `ZoneListsInDeviceOrder`, `CountersAgree` (the counters of the
  zones, of the map, of the blocks and of each file name against the lists),
  `CounterMapInBounds`, `FileExtentsInOrder`, `UntouchedFilesExact`, the
  refinement `ImplementsCatalog`, and that the tool ends (`Terminates`).
- `segment_report`: every pair of extents of five lengths anywhere on three
  zones of two segments of two blocks, and triples that alternate between two
  files; five choices of zones. `PartsTileExtents` says what is shown of which extent,
  and leaves one case to `WholeExtentsShown`; `LinesUnderTheirHeader` also says that headers come in
  device order when no extents overlap; `SimpleFilesCounted` states where the
  segment counter is right, for files with nothing in segment 0; `FileStatsInBounds`; `EndsFromFirstZone`.
- `json_dump`: collections of extents on more zones than keys have digits for.
  `PiecesInPlace`: the parts of a segment object belong to its `seg_info`, no part
  is dumped twice, and what a zone holds of an earlier one is one segment.
  `MissingIsKnown`: exactly what is not in the finished dump, and why.
- `fiemap_report`: every pair of extents of four lengths on three zones, also
  overlapping and of length zero, with write pointers before, at and behind the
  capacity, and triples over two zones. `HolesAreFree` (and extents and holes tile
  a zone from its first to its last extent, and to its write pointer when a higher zone
  has an extent; sizes wrap only where extents overlap), `LeadingHoles`. The report is one pass over finite lists and has no
  liveness property.
- `nat_lookup`: every NAT of three blocks of two slots with up to three entries
  of the file, valid or outdated, and two steps of F2FS between any two reads.
  `EachEntryOnce` (the offsets carry the search over each entry exactly once),
  `FirstInodeIsReported` (on a quiet file system; and on a live one the two
  ways a block that is not the inode can be reported), `ReadsBounded`,
  `Terminates`.
- `nvme_trace`: three commands on two CPUs, two queues that share a tag, resets
  in flight at the attach, maps of two entries. `CountersCountSetups` (exact without a
  race, and never 0 where `plot.py` divides by it, unless the map was full),
  `LatencyOfItsReset`, `LatencyKeysNumberResets` (a latency for each reset up to the limit
  of the map). Deadlock is not checked: the device may go quiet.
- `tools`: 22 command lines of the three programs on ten systems: F2FS on
  sectors of 512 and 4096 bytes, Btrfs and an unknown file system, zoned or not,
  with the file in several zones, inlined, on the first device or nowhere.
  `GeometryIsTheDevices`; `JsonTellsTheGeometry`, the digits the JSON file keeps of
  it; `CrashesAreKnown`, the failed calls that lead to a crash;
  `SegmentInfoOfMainArea`, the information of an extent's own segment where the main area
  starts with the zoned device, and never one behind the table;
  `ReportIsWhatWasAsked`, the extents shown against the options, computed from
  the files; `ImapReport`, the checkpoint, the address and, on sectors of 512 bytes, the zone.
- `timeline`: an event tracer with the inode tracer, or the RocksDB tracer with two
  threads; four probed calls anywhere from before the attach to after the exit, two
  intervals, a map of two events, a buffer of one request. `EventsShownOnce`: an
  event is shown once, or not at all for one of three reasons; that a clear was
  lost never shows it twice. `FileIsOfItsTime`: when its file may be the wrong one.
  `JobsShownWithTheirEnds`: which jobs are shown, and with what begin.

Runs that show where code and documentation part:

- `sparse_window`: `fm_length` is a 64th of what its comment says; a hole of
  that length ends the tool although the file goes on.
- `start_zone_hang`: `-s` above an extent never gets past that extent.
- `first_segment_lost`: of an extent that occupies a full segment and part of the next,
  the comments on `show_consecutive_segments` have both shown; the code shows the part.
- `segments_resolved`: an extent gets the type and valid blocks of another segment, because
  the segments of procfs are those of the main area, which begins on the first device,
  and the index counts from the zoned one. The same property rules out what else happens
  behind `libf2fs.c:462`: "Falling back to disabling procfs segment resolving" does not
  disable it, and the next extent follows the null table (`CrashOnExtent`), although
  nothing else failed.

## Disagreements without a run

Other places where the code does not do what its documents, comments or messages say.
The properties the runs check leave the case open, or say what is lost where they are
named:

- In a directory, a file without extents on the device, read first, ends the whole walk
  with "No extents found on device" (`segmap.c:178`). `ReportIsWhatWasAsked` has this
  message true of the files looked at.
- The line of an extent's only full segment has the number of the segment as PBAS
  (`segmap.c:380`), which the man page calls a physical block address. `BlocksOfLine`
  reads a line by its end and size.
- `last_segment_id` starts as 0, so `segment_ctr` leaves out the first segment of the
  device (`libzns-tools.c:779`, against `zns-tools.h:113`). It also counts, for an extent that ends
  where a segment ends, the segment behind it, and a segment that is left and entered
  again twice: it is the number of segments only in the case `SimpleFilesCounted` names.
- The last segment is never added to the JSON dump (`libjson.c:441`, against the comment
  at 437). The dump also loses a zone behind `-e`, and cuts its keys to three digits and a
  64-bit mask to twelve hexadecimal ones (`MissingIsKnown`, `JsonTellsTheGeometry`).
- `json_object_to_file` returns -1 when it fails and the code asks for 1: a dump that
  is not written is reported as written (`ReportJson`).
- Cases 2 and 3 of `examples/zns.fiemap.md` and the TODO at `libzns-tools.c:1005`: see
  FiemapReport above.
- An inode behind 4 GiB of byte address is not found, or another block is taken for it,
  on a quiet file system with a valid NAT: the address is shifted in 32 bits
  (`libf2fs.c:307`, `NodeAt`).
- `struct zone` has the "mask of the zone" (`zns-tools.h:93`), which stays 0, because
  the map is built before the mask is known (`libzns-tools.c:148`).
- `zns.imap` gives `get_zone_number` sectors of the device where it takes those of 512
  bytes (`imap.c:122`): on 4 KiB sectors an inode "is located in" an eighth of its zone
  number. It also counts nine sectors for a block, and reads the first checkpoint pack,
  which may be the older one (`ImapReport`).
- The README of zns-tools.app has the completion of a job dropped when its start found
  the map full (line 54) and, three lines above, a start of 0; the code shows it from 0 on.
  It also says event maps are cleared every millisecond; the scripts do it every 10 or 100.
- The probes of compactions take the address of the `CompactionJobStats` for the id of
  the job (`arg4`; the id would be `arg5`). All flushes of RocksDB share one start.
- The README of zns-tools.nvme (line 61) has the zone of a reset kept under its tag;
  `trace.bt:68` reads that of the command that had the slot before.
- Overlapping resets of one zone share a key, and a latency is lost; behind the 4096th
  key each new reset is. The README of zns-tools.nvme lists the symptom under its known
  issues.

## Bounds and fairness

Why the bounds are enough. The code compares an extent with one neighbour, one
zone, one segment or one file at a time. Three zones give a first, an inner and
a last one; two segments a zone, and lengths from part of a segment to more
than a zone, give each combination of aligned and unaligned ends with zero, one
and several segments between. Two files and three extents let an extent of one
come between two of another. Two changes allow one file to be changed between
two windows and a block to be reused by another. Two queues with a common tag,
two CPUs and three commands give each pair of probes every order and one
command after the race; maps of two entries are full after the second: a third
kind of access to a zone gets no counter, a third reset no latency. In the report a hole depends on an extent and its two
neighbours: pairs over every position and the triples are all of these. Two slots
give an entry that is last in its block and one that is not; two NAT blocks
and one behind them give a call that starts in the second copy and runs out of
the area. `Tools` has the real sizes of segments and sectors; what stands for 32
bits (`Word`) addresses the first device, as 4 GiB do, and is exceeded by the
addresses behind it; `Word64` and `HexLimit` keep their order to it. Each option
occurs alone and with those it conflicts or combines with. Four calls and two
intervals let a print, a clear, an event and a name come in every order, also
around a dropped request; four are also two jobs that overlap on two threads. Two stack addresses on two threads are
more than a map of the probes holds.
`MaxChanges`, `MaxBlocks`, `MaxFiles`, `MaxCommands`, `MaxClock`, `MaxCheckpoints`,
`MaxCalls` and `MaxIntervals` bound TLC only; the theorems hold for all values of the constants.

Fairness. The tools are single processes the kernel schedules: weak fairness of
their steps (`Steps` of the collection and of the NAT search, `Walk` of the
reports), never of a failing system call or of the file
system, of which nothing is required but that it changes finitely often during
the walk (`MaxChanges`). An endless writer could keep a file growing in front
of `fm_start`; the tool promises nothing then. The probes have no fairness and
no liveness property: events need not come. `Tools` has none either: that a report
ends is a matter of its loop (`EndsFromFirstZone`), and here `hang` is an outcome.
Nothing obliges a tracer to leave before its user ends it.

## Proofs

`tlapm` checks eight modules.

The reports share some lemmas on the zones: the zone number of an address on
the device is a zone, also for addresses cut by the mask. `ExtentMapProofs`
has those on the lists: there is a position where `sorted_zone_list_insert` stops,
it is the least, and inserting there keeps the list sorted and adds the extent to
its members.

`ExtentMapProofs` proves `Invariance`, `Spec => []IInv`, for every directory
tree, geometry, window, content and number of changes, from the assumptions
`GeometryAssumption`, `FilesAssumption` (every file is below the root of the
tree) and `BoundsAssumption` alone. `IInv` is

- `TypeOK`;
- `ControlOK`: what `pc` says about the stack and the current file;
- `ZonesOK`: each list is sorted, holds extents of its zone and none twice, and
  its counter is not 0 unless it is empty, without which
  `add_extent_to_zone_list` would drop a list;
- `CounterMapOK`: how `file_ctr`, `nr_files` and the allocated entries are
  related in each phase of a file. The bound itself is not inductive, since the
  array is sized before `nr_files` grows and filled afterwards;
- `ScanOK`: the extents of the current file have the numbers below `ext_ctr`
  and end before `fm_start`; files with a higher id have none;
- `FileExtentsInOrder`.

It follows that `TypeOK`, `ZoneListsInDeviceOrder`, `CounterMapInBounds` and
`FileExtentsInOrder` always hold (`TypeCorrect`, `ListsInDeviceOrder`,
`CounterMapNotOverrun`, `ExtentsInOrder`), and that each step of the collection
is a step of the catalog or leaves it as it is (`Refinement`). The file system's
steps need no more than that they change only `content` and `exists`: the order
of what is recorded does not depend on what FIEMAP answers, only on `fm_start`.
`CatalogInOrder` is about the catalog alone: numbers of the extents of a file are
distinct and follow their logical order. The strengthening is `Passed`: the scan has
passed everything it reported, and later files have nothing yet.

What is recorded of a file nobody touched does: `UntouchedFilesAreExact` proves
that, when the walk ends, each such file was scanned and its extents are, block by
block, where it has data on the zoned device. `VisitOK` says that a file not
scanned yet is in or below an entry some open directory has left to read, and
`ScannedOK` that a scan has told exactly the blocks before `fm_start`.

The counters are those of the lists (`CountersAlwaysAgree`): the number of an
extent is the number of nodes, the size the number of blocks of the extents recorded,
each a set that grows by one node or the blocks of one extent in a `Record`; an entry
of `file_counter_map` counts the extents of its name because a name has one entry
(`IncreaseCounts`). `CountsOK` adds that the sets are finite.

`SegmentReportProofs` proves the five safety properties `segment_report` checks for any zone
maps with the three properties above, any sizes of zones and segments and any
selection of zones. `WalkOK` is where the loops are, and what `segment_id` is at
each part of an extent; `LogOK` and `CountersOK` are types (`ReportTypes`). On these
rest

- `PartsOK` (`ReportIsComplete`): the extents the walk is done with (`Walked`) are
  complete, the current one has the blocks in front of the part that comes next,
  and nothing else is shown. It needs that a list holds no node twice;
- `HeadersOK` and `RiseOK` (`HeadersTellTheSegment`): the last header or range in
  the report is that of `cur_segment`; and if no two extents share a block, on a
  device that 32 bits address, no segment still to come is before it (`AheadOK`);
- `StatsOK` (`StatsStayInBounds`): `segmap_man.fs` has one entry for a name, and
  names have different file ids below `nr_files`, so it stays inside its array;
- `CountedOK` (`SegmentsOfSimpleFiles`): the segments of the extents counted so far,
  for files whose extents lie in one segment each.

`JsonDumpProofs` proves the three properties of the dump, for any zone map the
collection leaves (`InDeviceOrder`, `NoneTwice`) with extents on the device, zones
made of whole segments, any selection of zones and any number of digits a key keeps
(`DumpAssumption`). Its invariants are

- `WalkOK`: `current` is the rest of the list of zone `i` (`IsRest`), so an extent is
  passed once, in device order (`Passed`). With it `CursegOK`, `ZoneSegmentsOK` and
  `ZonemapOK` are the types of the objects (`TypeAlways`), and that the segment
  collected holds extents of `curseg_id`. `DigitsAgree`, `DigitsExist` and
  `LeadingDigitsIs` show that the recursion of the keys defines a function, from the
  least number it does not hold for, and `KeyIsShort` that a key fits its buffer;
- `ApartOK`: no two objects hold the same piece, also while a zone's segments are both
  in `zone_segments` and about to be added (`PiecesAlwaysInPlace`);
- `CollectedOK` and `LeftOK`, on a device that 32 bits address: the segment collected
  is of one zone, and if that is a zone left already nothing is in `zone_segments`
  yet, so at most one object of a zone is of zones before it (`SpillOK`);
- `WalkedOK`: what was passed is shown or behind the last zone, and `curseg_id` is the
  highest segment shown;
- `CursegHolds` and `HoldOK` (`MissingAlwaysKnown`), when each extent is in one segment:
  an extent is in the object under a key exactly if its segment was added in that zone
  under that key and no later one was (`AddedBefore`, `Kept`), and in the dump exactly
  if its zone was left and no later zone has replaced it (`LeftBefore`, `Stays`). The
  last zone shown is added once more when zones behind the end are walked (`Behind`).

`FiemapReportProofs` proves the three properties of the report for any zone sizes and
capacities, and any zone map of `ReportAssumption`: the lists are those the collection
leaves (`InDeviceOrder`), data lies below the capacity of its zone, and a write pointer
at most at the start of the next one (`OnTheDevice`). The addresses of the device fit
64 bits. Extents may overlap and write pointers be older than the extents. `WalkOK`
and `ShownOK` are where the loops are and what `prev` is (`TypesOfReport`), `WrapsInv`
is the last conjunct of `HolesAreFree`, and if the map is `Orderly` (`HolesOfReport`,
`LeadingHolesOfReport`):

- `HolesPlaced`: the lists leave gaps, before the first extent of a zone and behind
  each. A hole starts where a gap does and ends in it, whichever condition found it,
  and all holes lie before a `Frontier` that only grows. Hence none holds a block of
  an extent (`GapIsFree`) and no two share one;
- `SumIsBlocks`: `hole_cum_size` is the number of the blocks of the holes. The device
  has fewer blocks than 64 bits count, so the sum does not wrap;
- `Tiled` and `LeadingOK`: between the first extent of a zone and the last one shown no
  block is left out, and what is shown in front of the first.

`NatLookupProofs` proves `SearchInvariance` for every NAT, number of slots and
blocks, and any steps of F2FS, from `NatAssumption` and `NodesAssumption`.
Places of entries are ordered by block and slot, and the two offsets are a
place too: `ResumeProperties` and `SkipProperties` say that nothing the search
is for lies between the old offsets and the new ones but the entry returned.
`EachEntryOnce` is inductive with the types (`SearchIsComplete`). The bound
`ReadsBounded` is not, because a call starts where the last one ended; `Reach`
adds the counter of the present call, and that an entry was found before the
counter was used up (`SearchIsBounded`). That an entry is passed over when F2FS
writes it behind the offsets is possible, and excluded by `rewritten`.
`SearchReportsTheInode` needs `ReportInv`: an entry leads to a node of the file or
to a block it has given away (`EntriesLead`), what is reported is the inode or an
excuse is on record (`InodeOrExcused`), and on a quiet file system each entry returned
before the last led to no inode (`TriedInVain`).

`TimelineProofs` proves, for any number of layers, inodes, threads, calls and
intervals and any sizes of maps and buffers, that a timeline shows an event
exactly once or not at all for a known reason (`ShownOnce`), with the file of its
time (`FileIsRight`), and jobs with their ends (`JobsAreShown`). Neither property is
inductive, since both speak of the finished timeline. `EventsIInv` adds

- `EventInv`: an event that happened is in its layer's map or file or is counted as
  missed, and never both;
- `PrintedOnce`: unless the file has a message of lost requests, its lines share no
  event. While the clear that belongs to a print is still to come, an event is in
  the map and the file at once; that requests alternate (`Alternates`, `LastRequest`)
  and that the next one served is a print or a clear (`Clean`) tells when;
- `AllPrinted`: a tracer that is gone has served its requests and printed its map;
- `Generated`: what `tracegen.py` made of the files it has parsed;
- `NameInv`: the name in `@inodes` is that given at `traced_at`, and the newest when
  that is `named_at`.

`JobsIInv` adds `JobsInv`: starts and ends lie before `nsecs` and no two ends are the
same (`JobTimes`); under the address of a running compaction is its start exactly if it was
traced and had room, and for a traced flush its own start or that of a later one (`Starts`);
each duration reaches from a known begin (`BeginIsKnown`) to the end of a job whose end was
traced, and each whose start was traced too has one unless it was lost (`Durations`).

`ToolsProofs` proves, for whatever devices, files and options, and whichever calls
fail, that a tool crashes only on an unknown file system or behind one of four
failed calls (`CrashesKnown`); that its geometry is that of the devices
(`GeometryOfTheDevices`); which segment information an extent gets
(`SegmentInfo`); what `zns.imap` shows (`ImapReports`); that a report has
lines for the extents asked for, and the JSON file for no others (`ReportsAreAsAsked`); and the types. The inductive invariants rest on one another:

- `IInv` ties each pointer and divisor to the call that sets it: once the zone map
  was asked for, it is there or `unread` says so; the same for the size of the
  zones, the segment table and the capacity of each extent. That a zone that was
  read is not empty in device sectors needs that the shift is 3 only on sectors of
  4 KiB (`ShiftOK`). `Frame` says once which step changes what;
- `GeometryInv` follows the order of the initialisation: the fields of the sectors
  (`SectorsOK`) are right once the second device is opened, the zone map is built
  from them, and the sizes of the zones (`SizesOK`) come last; before, they are as
  `init_ctrl` leaves them (`BeforeSizes`);
- `TablesInv`: the segment table is that of the system or not there, the two
  checkpoint packs are one version apart, and the extents still to come lie on the
  devices and, on F2FS, in the main area;
- `ExtentsOK`: each recorded extent has a type, and the entry of the table whose
  number is that of its segment counted from the zoned device;
- `PrintedOK`: what was printed about a checkpoint or an inode;
- `OptionsOK` and `WindowOK`: `start_zone` and `end_zone` are the argument of the last
  option that sets them (`LastIs`) until `Defaults` turns them into the window the
  property computes from all options;
- `StagesOK`: the files to do are the end of the list, without the first extents of
  the first of them (`RestOf`), and all of it before they are collected;
- `FoundOK`: the extents recorded are those of the files passed (`Passed`) that are on
  the zoned device. One more extent passed, or one more file, is `RestWithoutExtent`
  and `RestWithoutFile`;
- `ReportsOK`: what each entry printed shows, and why a tool hangs. Segments are
  compared with zones in `WindowOfExtent`: both start at multiples of a segment.

`JsonIsTheGeometry` is about the file `ReportJson` writes: `JsonKnown` says from which
step on the file system is known and that a device of F2FS is zoned, so that its
geometry is shown at all. That digits are lost, and no more than do not fit, is shown
of every number too long (`DigitsLost`), from the least one for which it would fail.

`ControlAssumption` says that a segment mask of 64 bits has more digits than the JSON
file shows. `ToolsAssumption` says what the theorems need of a system: zones are whole
segments and capacities whole sectors, the main area starts in front of the zoned
device at the distance of whole segments, data lies on the devices and, on F2FS, in the
main area, and file systems other than F2FS have no first device.
`GeometryIsTheDevices` claims zone numbers and the mask of `ctrl` only while 32 bits count the
sectors of the device.

`NvmeTraceProofs` proves the four properties of the zone probes for any number of
CPUs, queues, tags, zones and commands, and with commands in flight at the attach or
without (`TypeCorrect`, `CountersCount`, `LatencyIsOfItsReset`, `KeysNumberResets`).
It needs no more of a slot than that it is a queue and a tag, and of the maps that they
hold as many entries as there are tags: a queue of the driver is at most 4095 deep, so
what is tracked under a tag always has room. The strengthening has
four parts, of which the later ones rest on the earlier:

- `Types` and `CountInv`: a counter in `full` is not in its map, since a full map never gets
  room again; what a probe has looked up is below the commands set up for
  its counter, and as long as no two probes met at a counter at most one is at it
  (`Exact`). The set of probes that are still at a counter is never counted through:
  it is empty or has one element;
- `LatencyInv`: a reset that shares its tag with another is disturbed (`TagsApart`),
  and what is tracked under the tag of one that is not is its own (`Tracked`);
- `NumberInv`: a tag that is tracked points to a zone with a counted reset, hence a
  number is not 0 unless the reset was set up before the attach or its zone has no counter;
- `CalmInv`: as long as resets of a zone or tag do not overlap, the number a completed
  reset is to get is above all those in its zone's keys (`NumbersBelow`), so it
  overwrites none and the map grows with each completion until it is full (`OneEach`).

`QuietSteps` says once for all steps that neither begin nor count a reset what they
leave alone.

Every invariant and action property the runs check, and the refinement, is stated by a
theorem. Only model-checked is liveness (`Terminates`, `EndsFromFirstZone`): temporal
reasoning under fairness is beyond the prover. Recursive functions (`HexDigits`,
`LeadingDigits`) are proved about without the library's inductions, which take an
operator as parameter; the least number that would violate a claim takes their place.

## Not modelled

- `plot.py` and the evaluation scripts: plots without state. What `plot.py` divides
  by is part of `CountersCountSetups`.
- The vendored kernel header `f2fs.h`: types only.
- NVMe events in the timeline: `zns-tools.app` starts `nvme-probes.bt`, which is not
  in the repository, so there is nothing to translate; `parse_nvme_probe_data` of
  `tracegen.py` is left out with it, and so are the metadata events and the numbering
  of threads it writes.
- Wording, log output and paths; which fields of the superblock, the checkpoint and
  the inode are printed; the flags and averages of the FIEMAP report.
- `map_extents` is empty and the B-tree is commented out in the code.

## What could come next

An abstract specification of the NAT search, as a search over
the sequence of all entries; NVMe events in the timeline, once their probes are in
the tree.
