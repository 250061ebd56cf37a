---------------------------- MODULE MCNatLookup ----------------------------
(***************************************************************************)
(* A small instance of NatLookup: a NAT of two blocks with two entries and *)
(* one block behind them that holds the other copy of the second.  The     *)
(* conventional device has as many blocks as 32 bits reach, the ZNS device *)
(* one more.                                                               *)
(***************************************************************************)
EXTENDS NatLookup

CONSTANTS
  MCPlacesOfInode,  (* where the inode is when the tool starts, an offset  *)
  MCOutdated        (* whether entries may lead to what F2FS has reused    *)

MCInodePlaces == {<<1, 0>>, <<2, 0>>}

(* The inode, two direct nodes or one and another file's inode, and a      *)
(* block never written.                                                    *)
MCNodes(b) ==
  {[n \in ZnsBlocks |-> IF n = b THEN NodeInode
                        ELSE IF n = (b + 1) % ZnsLength THEN NodeDirect
                        ELSE IF n = (b + 2) % ZnsLength THEN node ELSE NodeZero] :
     node \in {NodeDirect, NodeOther}}

NoEntryHere == [ino |-> 0, block_addr |-> 0]
EntryTo(n) == [ino |-> Ino, block_addr |-> Offset + n]

(* Every NAT area with entries to the nodes of the file, and to others     *)
(* when those may be outdated.                                             *)
MCEntries(ns) ==
  {NoEntryHere} \cup {EntryTo(n) : n \in {n \in ZnsBlocks : MCOutdated \/ ns[n].ino = Ino}}

MCDisks ==
  UNION {UNION {{[nat |-> nt, nodes |-> ns, inode_addr |-> Offset + b] :
                   nt \in {nt \in [Places -> MCEntries(ns)] :
                             Cardinality({p \in Places : nt[p] # NoEntryHere}) <= 3}} :
                ns \in MCNodes(b)} :
         b \in MCPlacesOfInode}
=============================================================================
