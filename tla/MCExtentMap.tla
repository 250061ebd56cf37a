---------------------------- MODULE MCExtentMap ----------------------------
(***************************************************************************)
(* A small instance of ExtentMap: a directory with one large file, one     *)
(* small file in a subdirectory and one inlined file; the large and the    *)
(* inlined one share a cut name.  One conventional block, three zones of   *)
(* two blocks.                                                             *)
(***************************************************************************)
EXTENDS ExtentMap

MCFiles == {"big", "small", "inl"}
MCDirs == {"root", "sub"}
MCParent == [e \in {"big", "inl", "sub", "small"} |->
               IF e = "small" THEN "sub" ELSE "root"]
MCNames == {"n1", "n2"}
MCNameOf == [f \in MCFiles |-> IF f = "small" THEN "n2" ELSE "n1"]

MCFile(a, b, c) == [l \in LogicalBlocks |-> CASE l = 0 -> a [] l = 1 -> b [] OTHER -> c]

(* Contiguous across two zones, fragmented backwards, with a short and     *)
(* with a long hole.  The inlined file is on the conventional device.      *)
MCBig ==
  {MCFile(2, 3, 4), MCFile(4, 2, Hole), MCFile(3, Hole, 1),
   MCFile(Hole, Hole, 1)}

MCSmall == {MCFile(5, Hole, Hole)}
MCInl == {MCFile(0, Hole, Hole)}

BlocksOf(c) == {c[l] : l \in LogicalBlocks} \ {Hole}

MCInitContents ==
  {c \in {[f \in MCFiles |-> IF f = "big" THEN b ELSE IF f = "small" THEN s ELSE i] :
            b \in MCBig, s \in MCSmall, i \in MCInl} :
     \A f, g \in MCFiles : f # g => BlocksOf(c[f]) \cap BlocksOf(c[g]) = {}}
=============================================================================
