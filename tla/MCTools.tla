------------------------------ MODULE MCTools -------------------------------
(***************************************************************************)
(* A small instance of Tools with the sizes of F2FS: segments of 2 MiB,    *)
(* sectors of 512 and 4096 bytes.  32 bits are 25 here, so that they       *)
(* address 16 segments in bytes, the size of the first device; 64 bits are *)
(* 28, and the digits that fit the last one less than those.               *)
(***************************************************************************)
EXTENDS Tools

Opt(letter) == [opt |-> letter, arg |-> 0]
OptArg(letter, arg) == [opt |-> letter, arg |-> arg]

Command(prog, options) == [program |-> prog, args |-> options]

MCCommands ==
  {Command("segmap", options) : options \in
     {<<Opt("d")>>,
      <<Opt("d"), Opt("p"), Opt("c"), Opt("n"), Opt("w")>>,
      <<Opt("d"), Opt("c"), Opt("i")>>,
      <<Opt("p"), Opt("o"), Opt("d"), OptArg("z", 0)>>,
      <<Opt("d"), OptArg("s", 3), OptArg("e", 4), Opt("l")>>,
      <<OptArg("s", 4), Opt("d"), Opt("l")>>,
      <<Opt("d"), Opt("j"), OptArg("z", 2)>>,
      <<Opt("d"), Opt("j"), OptArg("s", 6)>>,
      <<Opt("d"), OptArg("e", 2), OptArg("s", 0)>>,
      <<OptArg("s", 1)>>,
      <<Opt("d"), OptArg("z", 1), OptArg("e", 2)>>,
      <<Opt("d"), Opt("o")>>,
      <<Opt("h")>>}}
  \cup {Command("fiemap", options) : options \in
     {<<Opt("f")>>, <<Opt("s"), Opt("f"), Opt("w"), Opt("l")>>, <<Opt("w")>>,
      <<Opt("f"), Opt("i")>>}}
  \cup {Command("imap", options) : options \in
     {<<Opt("f")>>, <<Opt("f"), Opt("s"), Opt("c")>>, <<Opt("c"), Opt("l"), Opt("f")>>,
      <<Opt("s")>>, <<Opt("f"), Opt("d")>>}}

MiB2 == F2FS_SEGMENT_BYTES

OnDisk(physical, length, inline) ==
  [physical |-> physical, length |-> length, inline |-> inline]

(* Zones of so many segments, the last quarter not writable.  Of a main    *)
(* area of the last two segments of the first device and all of the second *)
(* one, every segment differs from its neighbours.                         *)
System(fs, sector, zoned, conv, zones, per_zone, isdir, files, inode) ==
  [fs |-> fs, sector |-> sector, zoned |-> zoned,
   zone_sectors |-> 4096 * per_zone, zone_cap |-> 3072 * per_zone, nr_zones |-> zones,
   conv_bytes |-> conv, cp_blkaddr |-> 512,
   main_blkaddr |-> IF conv = 0 THEN 0 ELSE (conv - 2 * MiB2) \div F2FS_BLKSIZE,
   segments |-> [n \in 1 .. per_zone * zones + 2 |->
                   [type |-> n % 7, valid_blocks |-> (37 * n) % 513]],
   isdir |-> isdir, files |-> files,
   inode_blkaddr |-> (conv + inode) \div F2FS_BLKSIZE]

Conv == 16 * MiB2

MCSystems ==
  { (* a file whose extents are in the third, fourth and first zone, in     *)
    (* the inode, and on the first device                                   *)
    System("F2FS", 512, TRUE, Conv, 4, 2, FALSE,
           << <<OnDisk(Conv + 4 * MiB2 + 8192, 4096, FALSE),
                OnDisk(Conv + 7 * MiB2 - 4096, 8192, FALSE),
                OnDisk(4 * MiB2, 4096, FALSE),
                OnDisk(Conv + 4096 + 360, 3488, TRUE)>> >>, 5 * MiB2),
    (* two files on 4 KiB sectors, the second behind a tenth zone; the first *)
    (* device is not what 32 bits address                                   *)
    System("F2FS", 4096, TRUE, Conv + 2 * MiB2, 12, 2, TRUE,
           << <<OnDisk(Conv + 8 * MiB2, MiB2, FALSE)>>,
              <<OnDisk(Conv + 25 * MiB2, 12288, FALSE)>> >>, 20 * MiB2),
    (* as many bytes as 32 bits address, on 4 KiB sectors                   *)
    System("F2FS", 4096, TRUE, Conv, 20, 1, FALSE,
           << <<OnDisk(Conv + 17 * MiB2, 4096, FALSE)>> >>, 13 * MiB2),
    (* the main area starts with the zoned device                           *)
    [System("F2FS", 4096, TRUE, Conv, 2, 2, TRUE,
            << <<OnDisk(Conv, 4096, FALSE), OnDisk(Conv + 3 * MiB2, MiB2, FALSE)>>,
               <<OnDisk(Conv + MiB2 + 4096, 8192, FALSE)>> >>, MiB2)
       EXCEPT !.main_blkaddr = Conv \div F2FS_BLKSIZE, !.segments = SubSeq(@, 1, 4)],
    (* nothing on the second device at first, or at all                     *)
    System("F2FS", 512, TRUE, Conv, 4, 2, TRUE,
           << <<OnDisk(4 * MiB2, 4096, FALSE)>>, <<OnDisk(Conv, 4096, FALSE)>> >>, 0),
    System("F2FS", 512, FALSE, Conv, 4, 2, FALSE, << <<OnDisk(Conv, 4096, FALSE)>> >>, 0),
    System("F2FS", 512, TRUE, Conv, 4, 2, TRUE, <<>>, 0),
    System("Btrfs", 4096, TRUE, 0, 4, 2, FALSE,
           << <<OnDisk(3 * MiB2 - 4096, 8192, FALSE), OnDisk(0, 4096, TRUE)>> >>, 0),
    System("Btrfs", 512, FALSE, 0, 4, 2, FALSE, << <<OnDisk(4096, 4096, FALSE)>> >>, 0),
    System("other", 512, TRUE, 0, 4, 2, FALSE, << <<OnDisk(4096, 4096, FALSE)>> >>, 0) }
=============================================================================
