------------------------------ MODULE ExtentMap ------------------------------
(***************************************************************************)
(* The collection of extents by zns.segmap and zns.fiemap: the recursive   *)
(* directory walk (collect_extents in segmap.c, or the single open of the  *)
(* two main functions), get_extents with its FIEMAP loop, and the global   *)
(* state it fills: the zone map with its sorted lists, the counters and    *)
(* the growing file_counter_map.                                           *)
(*                                                                         *)
(* The file system is live while the tool walks it: garbage collection     *)
(* moves blocks, files grow, shrink and disappear.  That environment, and  *)
(* the answer of the FIEMAP ioctl, are external to the program; they are   *)
(* modelled from how get_extents uses them.                                *)
(***************************************************************************)
EXTENDS ZoneMap, Integers, FiniteSets

CONSTANTS
  Files,       (* the files that may exist                                 *)
  Dirs,        (* the directories                                          *)
  Root,        (* the directory given with -d                              *)
  Parent,      (* the directory that holds a file or directory             *)
  Names,       (* path names cut to MAX_FILE_LENGTH - 1 characters         *)
  NameOf,      (* the cut path name of a file; several may share one       *)
  Inline,      (* files whose data is inlined in their inode               *)
  ShowInline,  (* -i, or zns.fiemap: exclude_flags is 0                    *)
  Offset,      (* ctrl.offset: size of the conventional device, in blocks  *)
  MaxBlocks,   (* bound: logical blocks of a file                          *)
  WindowDiv,   (* 64: fm_length is st_blocks << 3, a 64th of the bytes     *)
  MaxChanges,  (* bound: steps of the environment                          *)
  InitContents (* the contents the files may have at the start             *)

NoFile == "no file"
Messages == {"none", "Failed opening dir", "failed opening file", "retrieving extents",
             "no extents are mapped", "No extents found on device"}
Hole == -1

LogicalBlocks == 0 .. MaxBlocks - 1
Addresses == 0 .. Offset + NrZones * ZoneSize - 1

(* The directories are a tree: none is above itself.                       *)
ASSUME FilesAssumption ==
  /\ Files # {}
  /\ NoFile \notin Files
  /\ Files \cap Dirs = {}
  /\ Root \in Dirs
  /\ Parent \in [Files \cup (Dirs \ {Root}) -> Dirs]
  /\ \A S \in SUBSET (Dirs \ {Root}) : S # {} => \E d \in S : Parent[d] \notin S
  /\ NameOf \in [Files -> Names]
  /\ Inline \subseteq Files
  /\ ShowInline \in BOOLEAN

ASSUME BoundsAssumption ==
  /\ Offset \in Nat
  /\ MaxBlocks \in Nat \ {0}
  /\ WindowDiv \in Nat \ {0}
  /\ MaxChanges \in Nat
  /\ InitContents \subseteq [Files -> [LogicalBlocks -> Addresses \cup {Hole}]]

VARIABLES
  (* the file system                                                       *)
  content,      (* the address of each logical block of each file          *)
  exists,       (* the files that have a name in the file system           *)
  changes,      (* how many steps the environment took                     *)
  touched,      (* history: the files the environment changed              *)
  (* the walk                                                              *)
  pc,
  reason,       (* which error message the tool exited with                *)
  isdir,        (* segmap_man.isdir                                        *)
  stack,        (* the open directories, with the entries left to read     *)
  cur,          (* the file being opened or scanned                        *)
  (* get_extents                                                           *)
  st_blocks,    (* from fstat, in blocks                                   *)
  fm_start,
  ext_ctr,
  (* struct control                                                        *)
  zones,        (* zonemap->zones                                          *)
  extent_ctr,   (* zonemap->extent_ctr                                     *)
  zone_ctr,     (* zonemap->zone_ctr                                       *)
  cum_extent_size,
  inlined_extent_ctr,
  nr_files,
  file_counter_map,
  capacity,     (* the entries file_counter_map has memory for             *)
  scanned       (* history: the file behind each fileID                    *)

fs_vars == <<content, exists, changes, touched>>
walk_vars == <<pc, reason, isdir, stack, cur>>
file_vars == <<st_blocks, fm_start, ext_ctr>>
zone_vars == <<zones, extent_ctr, zone_ctr, cum_extent_size>>
ctr_vars == <<inlined_extent_ctr, nr_files, file_counter_map, capacity, scanned>>
vars == <<fs_vars, walk_vars, file_vars, zone_vars, ctr_vars>>

-----------------------------------------------------------------------------
(* The FIEMAP ioctl, as get_extents relies on it.                          *)

Mapped(f) == {l \in LogicalBlocks : content[f][l] # Hole}

OnOneDevice(a, b) == a < Offset <=> b < Offset

(* The blocks l .. l + n - 1 of f lie one after the other on one device.   *)
IsRun(f, l, n) ==
  \A k \in l .. l + n - 1 :
    /\ k \in Mapped(f)
    /\ content[f][k] = content[f][l] + (k - l)
    /\ OnOneDevice(content[f][k], content[f][l])

IsFirstMapped(f, start, l) ==
  /\ l \in Mapped(f)
  /\ start <= l
  /\ \A k \in Mapped(f) : start <= k => l <= k

(* F2FS counts the inode in st_blocks; st_blocks << 3 bytes, rounded up to *)
(* blocks, is what FIEMAP looks at.                                        *)
StBlocks(f) == 1 + Cardinality(Mapped(f))
WindowBlocks == (st_blocks + WindowDiv - 1) \div WindowDiv

(* The extent in fm_extents[0]: the run found at the first mapped block of *)
(* the window, cut anywhere; it is flagged last when no block follows.     *)
(* The data of an inlined file is one extent shorter than a block, in the  *)
(* block of the inode.                                                     *)
FiemapAnswers(f) ==
  IF f \in Inline
  THEN {[fe_logical |-> 0, fe_physical |-> content[f][0], fe_length |-> 0,
         inline |-> TRUE, last |-> TRUE] : l \in Mapped(f) \cap {0}}
  ELSE {[fe_logical |-> run[1], fe_physical |-> content[f][run[1]],
         fe_length |-> run[2], inline |-> FALSE,
         last |-> \A k \in Mapped(f) : k < run[1] + run[2]] :
          run \in {r \in LogicalBlocks \X (1 .. MaxBlocks) :
                     /\ IsFirstMapped(f, fm_start, r[1])
                     /\ r[1] < fm_start + WindowBlocks
                     /\ IsRun(f, r[1], r[2])}}

-----------------------------------------------------------------------------
(* The entries readdir will return after opendir.                          *)
Entries(d) ==
  {e \in exists \cup (Dirs \ {Root}) : Parent[e] = d}

IncreaseFileExtentCounter(map, name) ==
  IF \E i \in 1 .. Len(map) : map[i].file = name
  THEN LET i == CHOOSE i \in 1 .. Len(map) :
                  /\ map[i].file = name
                  /\ \A j \in 1 .. i - 1 : map[j].file # name
       IN  [map EXCEPT ![i].ext_ctr = @ + 1]
  ELSE Append(map, [file |-> name, ext_ctr |-> 1])

Init ==
  /\ content \in InitContents
  /\ exists = Files
  /\ changes = 0
  /\ touched = {}
  /\ reason = "none"
  /\ \/ /\ isdir = TRUE
        /\ pc = "readdir"
        /\ stack = <<[dir |-> Root, left |-> Entries(Root)]>>
        /\ cur = NoFile
     \/ /\ isdir = FALSE
        /\ pc = "open"
        /\ stack = <<>>
        /\ cur \in Files
  /\ st_blocks = 0
  /\ fm_start = 0
  /\ ext_ctr = 0
  /\ zones = [z \in Zones |-> EmptyZone]
  /\ extent_ctr = 0
  /\ zone_ctr = 0
  /\ cum_extent_size = 0
  /\ inlined_extent_ctr = 0
  /\ nr_files = 0
  /\ file_counter_map = <<>>
  /\ capacity = 0
  /\ scanned = <<>>
-----------------------------------------------------------------------------
(* The directory walk.                                                     *)

Top == stack[Len(stack)]

Exit(message) ==
  /\ pc' = "failed"
  /\ reason' = message

TakeEntry(e) == [stack EXCEPT ![Len(stack)].left = @ \ {e}]

(* readdir returns a file; it may have been unlinked since the directory   *)
(* was read into the buffer.                                               *)
ReadDirFile ==
  /\ pc = "readdir"
  /\ \E f \in Top.left \cap Files :
       /\ stack' = TakeEntry(f)
       /\ cur' = f
  /\ pc' = "open"
  /\ UNCHANGED <<fs_vars, reason, isdir, file_vars, zone_vars, ctr_vars>>

(* readdir returns a directory: collect_extents calls itself.              *)
ReadDirDirectory ==
  /\ pc = "readdir"
  /\ \E d \in Top.left \cap Dirs :
       stack' = Append(TakeEntry(d), [dir |-> d, left |-> Entries(d)])
  /\ UNCHANGED <<fs_vars, pc, reason, isdir, cur, file_vars, zone_vars, ctr_vars>>

OpenDirFails ==
  /\ pc = "readdir"
  /\ Top.left \cap Dirs # {}
  /\ Exit("Failed opening dir")
  /\ UNCHANGED <<fs_vars, isdir, stack, cur, file_vars, zone_vars, ctr_vars>>

(* readdir returns NULL: back to the directory above, or to main.          *)
ReadDirEnd ==
  /\ pc = "readdir"
  /\ Top.left \cap (exists \cup Dirs) = {}
  /\ stack' = SubSeq(stack, 1, Len(stack) - 1)
  /\ pc' = IF Len(stack) = 1 THEN "done" ELSE "readdir"
  /\ UNCHANGED <<fs_vars, reason, isdir, cur, file_vars, zone_vars, ctr_vars>>

(* The file is gone: the walk goes on, the main functions exit.            *)
OpenMissing ==
  /\ pc = "open"
  /\ cur \notin exists
  /\ IF isdir
     THEN pc' = "readdir" /\ cur' = NoFile /\ UNCHANGED reason
     ELSE Exit("failed opening file") /\ UNCHANGED cur
  /\ UNCHANGED <<fs_vars, isdir, stack, file_vars, zone_vars, ctr_vars>>

OpenFails ==
  /\ pc = "open"
  /\ cur \in exists
  /\ Exit("failed opening file")
  /\ UNCHANGED <<fs_vars, isdir, stack, cur, file_vars, zone_vars, ctr_vars>>

(* The entries file_counter_map is (re)allocated for when a file starts,   *)
(* and a wrong variant that forgets the file about to be scanned.          *)
NewCapacityTooSmall == IF capacity = 0 THEN 1 ELSE nr_files
NewCapacity == IF capacity = 0 THEN 1 ELSE nr_files + 1

(* open, fsync, fstat, and get_extents up to its loop.                     *)
OpenFile ==
  /\ pc = "open"
  /\ cur \in exists
  /\ pc' = "fiemap"
  /\ st_blocks' = StBlocks(cur)
  /\ fm_start' = 0
  /\ ext_ctr' = 0
  /\ capacity' = NewCapacity
  /\ scanned' = Append(scanned, cur)
  /\ UNCHANGED <<fs_vars, reason, isdir, stack, cur, zone_vars,
                 inlined_extent_ctr, nr_files, file_counter_map>>

-----------------------------------------------------------------------------
(* The loop of get_extents.                                                *)

FiemapFails ==
  /\ pc = "fiemap"
  /\ Exit("retrieving extents")
  /\ UNCHANGED <<fs_vars, isdir, stack, cur, file_vars, zone_vars, ctr_vars>>

FiemapEmpty ==
  /\ pc = "fiemap"
  /\ FiemapAnswers(cur) = {}
  /\ Exit("no extents are mapped")
  /\ UNCHANGED <<fs_vars, isdir, stack, cur, file_vars, zone_vars, ctr_vars>>

(* Extents on the conventional device, and those with a flag of            *)
(* exclude_flags, are not recorded.                                        *)
IsRecorded(answer) ==
  /\ answer.fe_physical >= Offset
  /\ answer.inline => ShowInline

(* Wrong on purpose: the offset of the zoned device is not subtracted.     *)
ExtentOfWithoutOffset(answer) ==
  [phy_blk     |-> answer.fe_physical,
   logical_blk |-> answer.fe_logical,
   len         |-> answer.fe_length,
   zone        |-> GetZoneNumber(answer.fe_physical - Offset),
   ext_nr      |-> ext_ctr,
   fileID      |-> nr_files,
   file        |-> NameOf[cur]]

ExtentOf(answer) ==
  LET phy_blk == answer.fe_physical - Offset
  IN  [phy_blk     |-> phy_blk,
       logical_blk |-> answer.fe_logical,
       len         |-> answer.fe_length,
       zone        |-> GetZoneNumber(phy_blk),
       ext_nr      |-> ext_ctr,
       fileID      |-> nr_files,
       file        |-> NameOf[cur]]

Record(extent) ==
  /\ cum_extent_size' = cum_extent_size + extent.len
  /\ zones' = [zones EXCEPT ![extent.zone] = AddExtentToZoneList(@, extent)]
  /\ file_counter_map' = IncreaseFileExtentCounter(file_counter_map, extent.file)
  /\ ext_ctr' = ext_ctr + 1
  /\ extent_ctr' = extent_ctr + 1
  /\ zone_ctr' = zone_ctr + 1

(* Wrong on purpose: the next window starts with the extent just seen, and *)
(* one block too far.                                                      *)
AdvanceNowhere(answer) ==
  /\ inlined_extent_ctr' = inlined_extent_ctr + (IF answer.inline THEN 1 ELSE 0)
  /\ pc' = IF answer.last THEN "scanned" ELSE "fiemap"
  /\ fm_start' = answer.fe_logical

AdvanceTooFar(answer) ==
  /\ inlined_extent_ctr' = inlined_extent_ctr + (IF answer.inline THEN 1 ELSE 0)
  /\ pc' = IF answer.last THEN "scanned" ELSE "fiemap"
  /\ fm_start' = answer.fe_logical + answer.fe_length + 1

(* What follows the record of an extent in the loop: the inline counter,   *)
(* the last flag and the start of the next window.                         *)
Advance(answer) ==
  /\ inlined_extent_ctr' = inlined_extent_ctr + (IF answer.inline THEN 1 ELSE 0)
  /\ pc' = IF answer.last THEN "scanned" ELSE "fiemap"
  /\ fm_start' = answer.fe_logical + answer.fe_length

(* Wrong on purpose: a skipped extent continues the loop at once.          *)
FiemapSkipContinue ==
  /\ pc = "fiemap"
  /\ \E answer \in FiemapAnswers(cur) : ~IsRecorded(answer)
  /\ UNCHANGED vars

FiemapSkip ==
  /\ pc = "fiemap"
  /\ \E answer \in FiemapAnswers(cur) :
       /\ ~IsRecorded(answer)
       /\ Advance(answer)
  /\ UNCHANGED <<fs_vars, reason, isdir, stack, cur, st_blocks, ext_ctr,
                 zone_vars, nr_files, file_counter_map, capacity, scanned>>

FiemapRecord ==
  /\ pc = "fiemap"
  /\ \E answer \in FiemapAnswers(cur) :
       /\ IsRecorded(answer)
       /\ Record(ExtentOf(answer))
       /\ Advance(answer)
  /\ UNCHANGED <<fs_vars, reason, isdir, stack, cur, st_blocks,
                 nr_files, capacity, scanned>>

(* get_extents returns; its callers exit when no extent was recorded yet.  *)
FileScanned ==
  /\ pc = "scanned"
  /\ nr_files' = nr_files + 1
  /\ IF extent_ctr = 0
     THEN Exit("No extents found on device") /\ UNCHANGED cur
     ELSE /\ pc' = IF isdir THEN "readdir" ELSE "done"
          /\ cur' = NoFile
          /\ UNCHANGED reason
  /\ UNCHANGED <<fs_vars, isdir, stack, file_vars, zone_vars,
                 inlined_extent_ctr, file_counter_map, capacity, scanned>>

Steps ==
  \/ ReadDirFile \/ ReadDirDirectory \/ ReadDirEnd
  \/ OpenMissing \/ OpenFile
  \/ FiemapEmpty \/ FiemapSkip \/ FiemapRecord
  \/ FileScanned

SyscallFails == OpenDirFails \/ OpenFails \/ FiemapFails

-----------------------------------------------------------------------------
(* The file system changes under the walk.                                 *)

Running == pc \notin {"done", "failed"}

Used == UNION {{content[f][l] : l \in Mapped(f)} : f \in Files}

Change(f) ==
  /\ Running
  /\ changes < MaxChanges
  /\ changes' = changes + 1
  /\ touched' = touched \cup {f}
  /\ UNCHANGED <<walk_vars, file_vars, zone_vars, ctr_vars>>

(* Garbage collection moves a block.                                       *)
MoveBlock(f) ==
  /\ \E l \in Mapped(f), a \in Addresses \ Used :
       content' = [content EXCEPT ![f][l] = a]
  /\ Change(f)
  /\ UNCHANGED exists

(* A write fills a hole or appends a block.                                *)
WriteBlock(f) ==
  /\ f \in exists \ Inline
  /\ \E l \in LogicalBlocks \ Mapped(f), a \in Addresses \ Used :
       content' = [content EXCEPT ![f][l] = a]
  /\ Change(f)
  /\ UNCHANGED exists

Truncate(f) ==
  /\ f \in exists \ Inline
  /\ \E l \in Mapped(f) :
       content' = [content EXCEPT ![f] =
                     [k \in LogicalBlocks |-> IF k < l THEN @[k] ELSE Hole]]
  /\ Change(f)
  /\ UNCHANGED exists

(* An unlinked file keeps its blocks while the tool has it open.           *)
Unlink(f) ==
  /\ f \in exists
  /\ exists' = exists \ {f}
  /\ content' = IF f = cur /\ pc \in {"fiemap", "scanned"}
                THEN content
                ELSE [content EXCEPT ![f] = [l \in LogicalBlocks |-> Hole]]
  /\ Change(f)

FileSystem ==
  \E f \in Files : MoveBlock(f) \/ WriteBlock(f) \/ Truncate(f) \/ Unlink(f)

(* The process ended.                                                      *)
Finished ==
  /\ ~Running
  /\ UNCHANGED vars

Next == Steps \/ SyscallFails \/ FileSystem \/ Finished

(* The process is scheduled until it exits.  No system call has to fail,   *)
(* and the file system owes nothing.                                       *)
Fairness == WF_vars(Steps)

Spec == Init /\ [][Next]_vars /\ Fairness
-----------------------------------------------------------------------------
(* Properties.                                                             *)

Extent ==
  [phy_blk : ZnsBlocks, logical_blk : LogicalBlocks, len : 0 .. MaxBlocks,
   zone : Zones, ext_nr : Nat, fileID : Nat, file : Names]

Frame == [dir : Dirs, left : SUBSET (Files \cup Dirs)]

FileCounter == [file : Names, ext_ctr : Nat]

(* Every variable stays in its domain.  The part that is not bookkeeping:  *)
(* the index get_extents computes with get_zone_number stays within the    *)
(* array of nr_zones zones, and phy_blk within the device (get_extents     *)
(* subtracts ctrl.offset only after comparing with it).                    *)
TypeOK ==
  /\ content \in [Files -> [LogicalBlocks -> Addresses \cup {Hole}]]
  /\ exists \subseteq Files
  /\ changes \in 0 .. MaxChanges
  /\ touched \subseteq Files
  /\ pc \in {"readdir", "open", "fiemap", "scanned", "done", "failed"}
  /\ reason \in Messages
  /\ isdir \in BOOLEAN
  /\ stack \in Seq(Frame)
  /\ cur \in Files \cup {NoFile}
  /\ st_blocks \in Nat
  /\ fm_start \in 0 .. 2 * MaxBlocks
  /\ ext_ctr \in Nat
  /\ zones \in [Zones -> [extents : Seq(Extent), extent_ctr : Nat]]
  /\ extent_ctr \in Nat
  /\ zone_ctr \in Nat
  /\ cum_extent_size \in Nat
  /\ inlined_extent_ctr \in Nat
  /\ nr_files \in Nat
  /\ file_counter_map \in Seq(FileCounter)
  /\ capacity \in Nat
  /\ scanned \in Seq(Files)

(* show_segment_report, print_fiemap_report and the JSON dump read zone by *)
(* zone, list by list, and take what they read to be in device order, each *)
(* list sorted and of extents that start in its zone; no node is there     *)
(* twice, and file ids, which are counted, stand for one name each.        *)
ZoneListsInDeviceOrder ==
  /\ InDeviceOrder(zones)
  /\ NoneTwice(zones)
  /\ OneNameEach(zones)
  /\ DeviceFitsWord =>
       \A e \in ExtentsIn(zones) :
         e.zone * ZoneSize <= e.phy_blk /\ e.phy_blk < (e.zone + 1) * ZoneSize

Recorded == ExtentsIn(zones)

(* The nodes of all lists and the blocks of all extents in them, to be     *)
(* counted apart from the program's own counters.                          *)
Nodes == UNION {{z} \X DOMAIN zones[z].extents : z \in Zones}

CountedBlocks == UNION {{e} \X (1 .. e.len) : e \in Recorded}

(* No extent is lost or counted twice: the counter of a zone is the length *)
(* of its list (add_extent_to_zone_list replaces the head of the list when *)
(* the counter is 0), the total is their sum, the cumulative size is that  *)
(* of the listed extents, and every file that has an extent has one entry  *)
(* in file_counter_map, which counts its extents, files that share a cut   *)
(* name sharing the entry.                                                 *)
CountersAgree ==
  /\ \A z \in Zones : zones[z].extent_ctr = Len(zones[z].extents)
  /\ extent_ctr = Cardinality(Nodes)
  /\ cum_extent_size = Cardinality(CountedBlocks)
  /\ \A i, j \in DOMAIN file_counter_map :
       file_counter_map[i].file = file_counter_map[j].file => i = j
  /\ \A i \in DOMAIN file_counter_map :
       file_counter_map[i].ext_ctr
         = Cardinality({e \in Recorded : e.file = file_counter_map[i].file})
  /\ \A e \in Recorded :
       \E i \in DOMAIN file_counter_map : file_counter_map[i].file = e.file

(* file_counter_map is reallocated once per file, for nr_files + 1 entries *)
(* before nr_files is increased, and grows inside the FIEMAP loop: no      *)
(* entry is ever written, or cleared at the start of a file, behind the    *)
(* allocated ones.                                                         *)
CounterMapInBounds ==
  /\ Len(file_counter_map) <= capacity
  /\ pc = "fiemap" /\ ext_ctr = 0 => Len(file_counter_map) < capacity

(* The extents of one scan are numbered without a gap, and a later number  *)
(* lies logically behind an earlier one, however the blocks of the file    *)
(* move, grow or are truncated between two FIEMAP calls: no logical block  *)
(* is reported twice for one file.                                         *)
FileExtentsInOrder ==
  /\ \A d, e \in Recorded :
       d.fileID = e.fileID =>
         /\ d.ext_nr = e.ext_nr => d = e
         /\ d.ext_nr < e.ext_nr => d.logical_blk + d.len <= e.logical_blk
  /\ \A e \in Recorded : \A n \in 0 .. e.ext_nr :
       \E d \in Recorded : d.fileID = e.fileID /\ d.ext_nr = n

RecordedBlocks(f) ==
  UNION {{<<e.logical_blk + k, e.phy_blk + k + Offset>> : k \in 0 .. e.len - 1} :
           e \in {e \in Recorded : scanned[e.fileID + 1] = f}}

(* When the walk ends, every file it should have visited and that nobody   *)
(* changed meanwhile is reported exactly: all its blocks on the zoned      *)
(* device, at their place, and no other, whatever happened to other files. *)
UntouchedFilesExact ==
  pc = "done" =>
    \A f \in (IF isdir THEN Files ELSE Range(scanned)) \ (touched \cup Inline) :
      RecordedBlocks(f)
        = {<<l, content[f][l]>> : l \in {k \in Mapped(f) : content[f][k] >= Offset}}

(* The comment on fm_length says the window of FIEMAP is st_blocks in      *)
(* bytes: then the tool gives up on a file only when none of the st_blocks *)
(* blocks from fm_start on is mapped.                                      *)
WindowCoversBlocks ==
  reason = "no extents are mapped" /\ cur \notin touched =>
    Mapped(cur) \cap fm_start .. fm_start + st_blocks - 1 = {}

(* The lists of all zones together are a catalog of extents.               *)
Scanning == pc \in {"fiemap", "scanned"}

(* The number and the block that the scan of a file has come to.           *)
ScanNumber == IF Scanning THEN ext_ctr ELSE 0
ScanBlock == IF Scanning THEN fm_start ELSE 0

Catalog == INSTANCE ExtentCatalog WITH
  catalog <- Recorded,
  id      <- nr_files,
  number  <- ScanNumber,
  next    <- ScanBlock,
  ended   <- ~Running

(* The collection implements the catalog: what is reported stays reported, *)
(* in every zone, while lists are rearranged around it.                    *)
ImplementsCatalog == Catalog!Spec

(* The walk ends: the file system changes only finitely often, and every   *)
(* turn of the FIEMAP loop moves fm_start on.                              *)
Terminates == <>(pc \in {"done", "failed"})
=============================================================================
