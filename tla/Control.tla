------------------------------ MODULE Control ------------------------------
(***************************************************************************)
(* struct control of zns-tools.h: what the options of the three programs   *)
(* set in it, how the geometry of the devices is turned into its sizes,    *)
(* shifts and masks, and the fields of it that the JSON file shows.        *)
(*                                                                         *)
(* A shift is a product or quotient by a power of two.  Masks are 32 or 64 *)
(* bits wide; Word and Word64 stand for 2^32 and 2^64.                     *)
(***************************************************************************)
EXTENDS Integers, Sequences

CONSTANTS
  Word,
  Word64,
  HexBase,   (* 16                                                         *)
  HexLimit   (* 16^12: a 64-bit number is shown with twelve digits or less *)

F2FS_SEGMENT_BYTES == 2097152

ASSUME ControlAssumption ==
  /\ Word \in Nat \ {0}
  /\ Word64 \in Nat \ {0}
  /\ HexBase \in Nat \ {0, 1}
  /\ HexLimit \in Nat \ {0}
  /\ HexLimit + F2FS_SEGMENT_BYTES <= Word64  \* the segment mask has more digits

F2FS_BLKSIZE == 4096        (* 2^F2FS_BLKSIZE_BITS                         *)
F2FS_SECS_PER_BLOCK == 9

NULL == [pointer |-> 0]

-----------------------------------------------------------------------------
(* Options: [opt |-> letter, arg |-> number].                              *)

Programs == {"segmap", "fiemap", "imap"}

(* The letters each program has a case for; all others show the help.      *)
Cases ==
  [segmap |-> {"d", "l", "i", "j", "w", "s", "z", "e", "p", "c", "o", "n"},
   fiemap |-> {"f", "w", "l", "s"},
   imap   |-> {"f", "l", "s", "c"}]

Bdev == [is_zoned |-> FALSE, nr_zones |-> 0, zone_size |-> 0, zone_mask |-> 0]

(* memset, and what zns.segmap sets before it looks at its options.        *)
InitialCtrl(program) ==
  [exclude_inline |-> program = "segmap", show_holes |-> program = "segmap",
   show_flags |-> FALSE, json_dump |-> FALSE, procfs |-> FALSE,
   show_class_stats |-> FALSE, show_only_stats |-> FALSE,
   show_superblock |-> FALSE, show_checkpoint |-> FALSE,
   start_zone |-> 0, end_zone |-> 0,
   fs_magic |-> "unknown", multi_dev |-> FALSE, offset |-> 0,
   bdev |-> Bdev, znsdev |-> Bdev,
   sector_size |-> 0, sector_shift |-> 0, zns_sector_shift |-> 0,
   f2fs_segment_sectors |-> 0, f2fs_segment_mask |-> 0, segment_shift |-> 0,
   fs_info_bytes |-> 0]

SegmapOption(c, o) ==
  CASE o.opt = "i" -> [c EXCEPT !.exclude_inline = FALSE]
    [] o.opt = "j" -> [c EXCEPT !.json_dump = TRUE]
    [] o.opt = "w" -> [c EXCEPT !.show_flags = TRUE]
    [] o.opt = "s" -> [c EXCEPT !.start_zone = o.arg]
    [] o.opt = "z" -> [c EXCEPT !.start_zone = o.arg, !.end_zone = o.arg]
    [] o.opt = "e" -> [c EXCEPT !.end_zone = o.arg]
    [] o.opt = "p" -> [c EXCEPT !.procfs = TRUE]
    [] o.opt = "c" -> [c EXCEPT !.show_class_stats = TRUE]
    [] o.opt = "o" -> [c EXCEPT !.show_only_stats = TRUE, !.show_class_stats = TRUE]
    [] o.opt = "n" -> [c EXCEPT !.show_holes = FALSE]
    [] OTHER -> c

FiemapOption(c, o) ==
  CASE o.opt = "w" -> [c EXCEPT !.show_flags = TRUE]
    [] o.opt = "s" -> [c EXCEPT !.show_holes = TRUE]
    [] OTHER -> c

ImapOption(c, o) ==
  CASE o.opt = "s" -> [c EXCEPT !.show_superblock = TRUE]
    [] o.opt = "c" -> [c EXCEPT !.show_checkpoint = TRUE]
    [] OTHER -> c

SetOption(program, c, o) ==
  CASE program = "segmap" -> SegmapOption(c, o)
    [] program = "fiemap" -> FiemapOption(c, o)
    [] program = "imap"   -> ImapOption(c, o)

-----------------------------------------------------------------------------
(* Geometry.                                                               *)

(* Wrong on purpose: the size of 0 is forgotten.                           *)
MaskOfPositive(size, word) == word - size

(* ~(size - 1) in a number of bits, for a size that is a power of two; a   *)
(* size of 0 gives a mask of 0.                                            *)
MaskOf(size, word) == (word - size) % word

(* get_sector_size sets the shift for 4 KiB and never resets it.           *)
WithSectorSize(c, size) ==
  [c EXCEPT !.sector_size = size,
            !.zns_sector_shift = IF size = 4096 THEN 3 ELSE @,
            !.segment_shift = IF size = 512 THEN 12 ELSE 9]

(* The rest of init_znsdev, with the number of zones it was told.          *)
WithSegments(c, nr_zones) ==
  LET sectors == F2FS_SEGMENT_BYTES \div (IF c.sector_size = 512 THEN 512 ELSE 4096)
  IN  [c EXCEPT !.znsdev.nr_zones = nr_zones,
                !.sector_shift = IF c.sector_size = 512 THEN 9 ELSE 12,
                !.f2fs_segment_sectors = sectors,
                !.f2fs_segment_mask = MaskOf(sectors, Word64)]

WithZones(c, multi_dev, offset, zone_size, nr_zones) ==
  [c EXCEPT !.multi_dev = multi_dev,
            !.offset = offset,
            !.znsdev.zone_size = zone_size,
            !.znsdev.zone_mask = MaskOf(zone_size, Word),
            !.znsdev.nr_zones = nr_zones]

(* The kernel counts sectors of 512 bytes.                                 *)
ToDevice(c, sectors) == sectors \div 2 ^ c.zns_sector_shift
ToKernel(c, lba) == lba * 2 ^ c.zns_sector_shift

(* Of an address in sectors of 512 bytes; the mask has 32 bits.            *)
GetZoneNumber(c, lba) == (lba % Word) \div ToKernel(c, c.znsdev.zone_size)

(* segments[] and the segment maps are numbered in whole segments of the   *)
(* zoned device.                                                           *)
SegmentIndex(c, phy_blk) == phy_blk \div 2 ^ c.segment_shift

-----------------------------------------------------------------------------
(* The JSON file.                                                          *)

(* uint64_to_hex_string_cast has room for twelve digits: of a longer       *)
(* number the last are lost.                                               *)
HexDigits[n \in Nat] == IF n < HexLimit THEN n ELSE HexDigits[n \div HexBase]

JsonDevice(c, dev) ==
  IF dev.is_zoned
  THEN [is_zoned |-> TRUE, nr_zones |-> dev.nr_zones, zone_size |-> dev.zone_size,
        zone_mask |-> dev.zone_mask, sector_size |-> c.sector_size,
        sector_shift |-> c.sector_shift]
  ELSE [is_zoned |-> FALSE]

(* Wrong on purpose: the shift is shown for the number of sectors.         *)
JsonFileSystemSwapped(c) ==
  IF c.fs_magic = "F2FS"
  THEN [fs |-> "F2FS", f2fs_segment_sectors |-> c.segment_shift,
        f2fs_segment_shift |-> c.f2fs_segment_sectors,
        f2fs_segment_mask |-> HexDigits[c.f2fs_segment_mask]]
  ELSE [fs |-> c.fs_magic]

JsonFileSystem(c) ==
  IF c.fs_magic = "F2FS"
  THEN [fs |-> "F2FS", f2fs_segment_sectors |-> c.f2fs_segment_sectors,
        f2fs_segment_shift |-> c.segment_shift,
        f2fs_segment_mask |-> HexDigits[c.f2fs_segment_mask]]
  ELSE [fs |-> c.fs_magic]

JsonConfig(c) ==
  [dev_1 |-> IF c.multi_dev THEN JsonDevice(c, c.bdev) ELSE NULL,
   dev_2 |-> JsonDevice(c, c.znsdev),
   filesystem |-> JsonFileSystem(c)]

JsonInfo(c) == [config |-> JsonConfig(c)]

-----------------------------------------------------------------------------
(* The types of the structures.                                            *)

BdevType ==
  [is_zoned : BOOLEAN, nr_zones : Nat, zone_size : Nat, zone_mask : 0 .. Word - 1]

ControlType ==
  [exclude_inline : BOOLEAN, show_holes : BOOLEAN, show_flags : BOOLEAN,
   json_dump : BOOLEAN, procfs : BOOLEAN, show_class_stats : BOOLEAN,
   show_only_stats : BOOLEAN, show_superblock : BOOLEAN, show_checkpoint : BOOLEAN,
   start_zone : Nat, end_zone : Nat,
   fs_magic : {"unknown", "F2FS", "Btrfs", "other"}, multi_dev : BOOLEAN, offset : Nat,
   bdev : BdevType, znsdev : BdevType,
   sector_size : {0, 512, 4096}, sector_shift : {0, 9, 12}, zns_sector_shift : {0, 3},
   f2fs_segment_sectors : {0, 512, 4096}, f2fs_segment_mask : 0 .. Word64 - 1,
   segment_shift : {0, 9, 12}, fs_info_bytes : Nat]
=============================================================================
