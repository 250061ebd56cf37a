---------------------------- MODULE ExtentCatalog ----------------------------
(***************************************************************************)
(* What the collection of extents promises, without zones, lists, counters *)
(* or a file system: a catalog to which the extents of one file after the  *)
(* other are added, numbered from 0 and in logical order, and from which   *)
(* nothing is ever taken away.  An extent is a record with at least the    *)
(* fields fileID, ext_nr, logical_blk and len.  ExtentMap implements it.   *)
(***************************************************************************)
EXTENDS Naturals

VARIABLES
  catalog,  (* the extents reported so far                                 *)
  id,       (* the file being scanned                                      *)
  number,   (* the number its next extent gets                             *)
  next,     (* the logical block its scan has come to                      *)
  ended     (* nothing more is reported                                    *)

vars == <<catalog, id, number, next, ended>>

Init ==
  /\ catalog = {}
  /\ id = 0
  /\ number = 0
  /\ next = 0
  /\ ended = FALSE

(* An extent behind those of the same file is reported.                    *)
Report ==
  /\ ~ended
  /\ \E e \in catalog' :
       /\ e.fileID = id
       /\ e.ext_nr = number
       /\ e.logical_blk \in Nat
       /\ e.len \in Nat
       /\ next <= e.logical_blk
       /\ catalog' = catalog \cup {e}
       /\ next' = e.logical_blk + e.len
  /\ number' = number + 1
  /\ UNCHANGED <<id, ended>>

(* A part of the file is passed over.                                      *)
Skip ==
  /\ ~ended
  /\ next' \in Nat
  /\ next <= next'
  /\ UNCHANGED <<catalog, id, number, ended>>

NextFile ==
  /\ ~ended
  /\ id' = id + 1
  /\ number' = 0
  /\ next' = 0
  /\ ended' \in BOOLEAN
  /\ UNCHANGED catalog

End ==
  /\ ~ended
  /\ ended' = TRUE
  /\ number' = 0
  /\ next' = 0
  /\ UNCHANGED <<catalog, id>>

Next == Report \/ Skip \/ NextFile \/ End

Spec == Init /\ [][Next]_vars

-----------------------------------------------------------------------------
TypeOK ==
  /\ \A e \in catalog :
       /\ e.fileID \in Nat
       /\ e.ext_nr \in Nat
       /\ e.logical_blk \in Nat
       /\ e.len \in Nat
  /\ id \in Nat
  /\ number \in Nat
  /\ next \in Nat
  /\ ended \in BOOLEAN

(* The extents of one file have different numbers, and a later number lies *)
(* logically behind an earlier one.                                        *)
InOrder ==
  \A d, e \in catalog :
    d.fileID = e.fileID =>
      /\ d.ext_nr = e.ext_nr => d = e
      /\ d.ext_nr < e.ext_nr => d.logical_blk + d.len <= e.logical_blk

(* What makes InOrder inductive: the scan of the current file has passed   *)
(* every extent reported for it, and later files have none yet.            *)
Passed ==
  \A e \in catalog :
    /\ e.fileID <= id
    /\ e.fileID = id /\ ~ended =>
         e.ext_nr < number /\ e.logical_blk + e.len <= next
=============================================================================
