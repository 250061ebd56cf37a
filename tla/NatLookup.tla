------------------------------ MODULE NatLookup ------------------------------
(***************************************************************************)
(* zns.imap: it looks for the inode of a file in the node address table    *)
(* (NAT) of F2FS.  f2fs_get_inode_nat_entry reads the NAT block by block   *)
(* and returns the next entry with the inode number; main calls it again,  *)
(* from where it stopped, until the node block behind an entry is an       *)
(* inode, since the direct and indirect nodes of a file have entries with  *)
(* the number of its inode too.                                            *)
(*                                                                         *)
(* F2FS goes on meanwhile: it writes nodes to new places, and the NAT with *)
(* the next checkpoint.  The NAT, a pair of copies of which one is valid,  *)
(* and the node blocks are external, modelled from how the tool reads them. *)
(* An address is the number of an F2FS block.                              *)
(***************************************************************************)
EXTENDS Integers, Sequences, FiniteSets

CONSTANTS
  Ino,          (* stats->st_ino                                           *)
  OtherIno,     (* the inode of another file                               *)
  DirectNid,    (* the node number of a direct node of the file            *)
  NatBlocks,    (* nat_blocks: half of the blocks of the NAT area          *)
  Slots,        (* NAT_ENTRY_PER_BLOCK                                     *)
  AreaBlocks,   (* bound: blocks from the NAT on that may look like NAT    *)
  Word,         (* 2^20: the blocks that 32 bits can address in bytes      *)
  Offset,       (* blocks of the conventional device, before the ZNS one   *)
  ZnsLength,    (* blocks of the ZNS device                                *)
  InodePlaces,  (* the places in the NAT area of the two copies of the     *)
                (* entry of the inode                                      *)
  Disks,        (* what the NAT and the node blocks may hold at the start  *)
  MaxChanges    (* bound: steps of F2FS                                    *)

Places == (0 .. AreaBlocks - 1) \X (0 .. Slots - 1)

Addresses == Offset .. Offset + ZnsLength - 1
ZnsBlocks == 0 .. ZnsLength - 1

(* The footer of a node block, zero where no node was written.             *)
NodeInode == [nid |-> Ino, ino |-> Ino]
NodeDirect == [nid |-> DirectNid, ino |-> Ino]
NodeOther == [nid |-> OtherIno, ino |-> OtherIno]
NodeZero == [nid |-> 0, ino |-> 0]
Nodes == {NodeInode, NodeDirect, NodeOther, NodeZero}

Entry == [ino : {0, Ino, OtherIno}, block_addr : {0} \cup Addresses]

ASSUME NatAssumption ==
  /\ NatBlocks \in Nat \ {0}
  /\ Slots \in Nat \ {0}
  /\ AreaBlocks \in Nat
  /\ Word \in Nat \ {0}
  /\ Offset \in Nat
  /\ ZnsLength \in Nat \ {0}
  /\ MaxChanges \in Nat
  /\ InodePlaces \subseteq Places

ASSUME NodesAssumption ==
  /\ {Ino, OtherIno, DirectNid} \subseteq Nat \ {0}
  /\ Cardinality({Ino, OtherIno, DirectNid}) = 3
  /\ \A d \in Disks :
       /\ d.nat \in [Places -> Entry]
       /\ d.nodes \in [ZnsBlocks -> Nodes]
       /\ d.inode_addr \in Addresses
       /\ d.nodes[d.inode_addr - Offset] = NodeInode

VARIABLES
  (* the file system                                                       *)
  nat,               (* the entries of the NAT area on disk                *)
  nodes,             (* the footers of the blocks of the ZNS device        *)
  inode_addr,        (* where F2FS has the inode                           *)
  changes,           (* how many steps F2FS took                           *)
  rewritten,         (* history: the places of the NAT it wrote            *)
  outdated,          (* history: addresses in entries of the file that F2FS *)
                     (* left and used for something else                   *)
  (* zns.imap                                                              *)
  pc,
  nat_block_offset,  (* kept from call to call                             *)
  nat_entry_offset,  (* kept from call to call                             *)
  i,                 (* blocks read in this call                           *)
  nat_entry,
  node_block,
  returned           (* history: the places of the entries returned        *)

fs_vars == <<nat, nodes, inode_addr, changes, rewritten, outdated>>
tool_vars == <<pc, nat_block_offset, nat_entry_offset, i, nat_entry, node_block, returned>>
vars == <<fs_vars, tool_vars>>

Init ==
  /\ \E d \in Disks :
       /\ nat = d.nat
       /\ nodes = d.nodes
       /\ inode_addr = d.inode_addr
  /\ changes = 0
  /\ rewritten = {}
  /\ outdated = {a \in Addresses :
                   /\ nodes[a - Offset].ino # Ino
                   /\ \E p \in Places : nat[p] = [ino |-> Ino, block_addr |-> a]}
  /\ pc = "nat"
  /\ nat_block_offset = 0
  /\ nat_entry_offset = 0
  /\ i = 0
  /\ nat_entry = [ino |-> 0, block_addr |-> 0]
  /\ node_block = NodeZero
  /\ returned = <<>>

-----------------------------------------------------------------------------
(* f2fs_get_inode_nat_entry.                                               *)

EntryAt(block, slot) ==
  IF <<block, slot>> \in Places THEN nat[<<block, slot>>] ELSE [ino |-> 0, block_addr |-> 0]

(* The entries of the block read that have the number, from the offset on. *)
Matches == {s \in nat_entry_offset .. Slots - 1 : EntryAt(nat_block_offset, s).ino = Ino}

IsFirst(slot) == slot \in Matches /\ \A s \in Matches : slot <= s

(* Wrong on purpose: the search goes on always in the next block; or       *)
(* behind the block's last entry.                                          *)
NextBlock(slot) ==
  /\ nat_block_offset' = nat_block_offset + 1
  /\ nat_entry_offset' = 0

NextSlot(slot) ==
  /\ nat_block_offset' = nat_block_offset
  /\ nat_entry_offset' = slot + 1

(* Where the next call goes on after the entry in a slot.                  *)
Resume(slot) ==
  IF slot = Slots - 1
  THEN /\ nat_block_offset' = nat_block_offset + 1
       /\ nat_entry_offset' = 0
  ELSE /\ nat_entry_offset' = slot + 1
       /\ nat_block_offset' = nat_block_offset

(* A NAT block is read and has a further entry: the call returns it.       *)
EntryFound ==
  /\ pc = "nat"
  /\ i < NatBlocks
  /\ \E slot \in Matches :
       /\ IsFirst(slot)
       /\ nat_entry' = EntryAt(nat_block_offset, slot)
       /\ returned' = Append(returned, <<nat_block_offset, slot>>)
       /\ Resume(slot)
  /\ pc' = "node"
  /\ UNCHANGED <<fs_vars, i, node_block>>

(* Wrong on purpose: the offset into the block is kept; the blocks are not *)
(* counted.                                                                *)
SkipBlockKeepingOffset ==
  /\ pc = "nat"
  /\ i < NatBlocks
  /\ Matches = {}
  /\ nat_block_offset' = nat_block_offset + 1
  /\ i' = i + 1
  /\ UNCHANGED <<fs_vars, pc, nat_entry_offset, nat_entry, node_block, returned>>

SkipBlockUncounted ==
  /\ pc = "nat"
  /\ i < NatBlocks
  /\ Matches = {}
  /\ nat_block_offset' = nat_block_offset + 1
  /\ nat_entry_offset' = 0
  /\ UNCHANGED <<fs_vars, pc, i, nat_entry, node_block, returned>>

(* A NAT block is read and has no further entry.                           *)
SkipBlock ==
  /\ pc = "nat"
  /\ i < NatBlocks
  /\ Matches = {}
  /\ nat_block_offset' = nat_block_offset + 1
  /\ nat_entry_offset' = 0
  /\ i' = i + 1
  /\ UNCHANGED <<fs_vars, pc, nat_entry, node_block, returned>>

(* Wrong on purpose: the search is started once more.                      *)
SearchAgain ==
  /\ pc = "nat"
  /\ i = NatBlocks
  /\ i' = 0
  /\ nat_block_offset' = 0
  /\ nat_entry_offset' = 0
  /\ UNCHANGED <<fs_vars, pc, nat_entry, node_block, returned>>

(* The call returns NULL, and the tool exits.                              *)
NoEntry ==
  /\ pc = "nat"
  /\ i = NatBlocks
  /\ pc' = "not_found"
  /\ UNCHANGED <<fs_vars, nat_block_offset, nat_entry_offset, i, nat_entry, node_block, returned>>

(* The device cannot be opened, or read.                                   *)
ReadFails ==
  /\ pc \in {"nat", "node"}
  /\ pc' = "failed"
  /\ UNCHANGED <<fs_vars, nat_block_offset, nat_entry_offset, i, nat_entry, node_block, returned>>

-----------------------------------------------------------------------------
(* f2fs_get_node_block, and the loop of main.                              *)

(* The address is shifted to bytes in 32 bits, and read from the ZNS       *)
(* device: only the shift takes the offset of that device off.  A read     *)
(* behind the device fills nothing of the zeroed block.                    *)
NodeAt(block_addr) ==
  LET block == block_addr % Word
  IN  IF block \in ZnsBlocks THEN nodes[block] ELSE NodeZero

IsInode(node) == node.nid = node.ino

ReadNode ==
  /\ pc = "node"
  /\ node_block' = NodeAt(nat_entry.block_addr)
  /\ IF IsInode(node_block')
     THEN pc' = "done" /\ UNCHANGED i
     ELSE pc' = "nat" /\ i' = 0
  /\ UNCHANGED <<fs_vars, nat_block_offset, nat_entry_offset, nat_entry, returned>>

Steps == EntryFound \/ SkipBlock \/ NoEntry \/ ReadNode

-----------------------------------------------------------------------------
(* F2FS.                                                                   *)

Running == pc \in {"nat", "node"}

Free == {a \in Addresses : nodes[a - Offset] \in {NodeZero, NodeOther} /\ a # inode_addr}

(* The inode is written to a new place.  The old one keeps its contents.   *)
MoveInode ==
  /\ \E a \in Free :
       /\ nodes' = [nodes EXCEPT ![a - Offset] = NodeInode]
       /\ inode_addr' = a
  /\ UNCHANGED <<nat, rewritten, outdated>>

(* A block that F2FS has left is written anew.                             *)
ReuseBlock ==
  /\ \E a \in Addresses \ {inode_addr} :
       /\ nodes[a - Offset] = NodeInode
       /\ nodes' = [nodes EXCEPT ![a - Offset] = NodeOther]
       /\ outdated' = outdated \cup {a}
  /\ UNCHANGED <<nat, inode_addr, rewritten>>

(* A checkpoint writes the entry of the inode, in one of the two copies.   *)
Checkpoint ==
  /\ \E p \in InodePlaces :
       /\ nat' = [nat EXCEPT ![p] = [ino |-> Ino, block_addr |-> inode_addr]]
       /\ rewritten' = rewritten \cup {p}
  /\ UNCHANGED <<nodes, inode_addr, outdated>>

FileSystem ==
  /\ Running
  /\ changes < MaxChanges
  /\ changes' = changes + 1
  /\ MoveInode \/ ReuseBlock \/ Checkpoint
  /\ UNCHANGED tool_vars

(* The process ended.                                                      *)
Finished ==
  /\ ~Running
  /\ UNCHANGED vars

Next == Steps \/ ReadFails \/ FileSystem \/ Finished

(* The process is scheduled until it exits.                                *)
Fairness == WF_vars(Steps)

Spec == Init /\ [][Next]_vars /\ Fairness

-----------------------------------------------------------------------------
(* Properties.                                                             *)

(* Every variable stays in its domain; the entry offset never leaves the   *)
(* block it is an offset into.                                             *)
TypeOK ==
  /\ nat \in [Places -> Entry]
  /\ nodes \in [ZnsBlocks -> Nodes]
  /\ inode_addr \in Addresses
  /\ changes \in 0 .. MaxChanges
  /\ rewritten \subseteq InodePlaces
  /\ outdated \subseteq Addresses
  /\ pc \in {"nat", "node", "done", "not_found", "failed"}
  /\ nat_block_offset \in Nat
  /\ nat_entry_offset \in 0 .. Slots - 1
  /\ i \in 0 .. NatBlocks
  /\ nat_entry \in Entry
  /\ node_block \in Nodes
  /\ returned \in Seq(Places)

Before(p, q) == p[1] < q[1] \/ (p[1] = q[1] /\ p[2] < q[2])

Here == <<nat_block_offset, nat_entry_offset>>

(* The two offsets outlive the call, are advanced in three places, and     *)
(* must carry the search over every entry exactly once: the entries are    *)
(* returned in the order of the NAT, behind each other, and none of the    *)
(* number that F2FS left alone lies before the offsets unreturned.         *)
EachEntryOnce ==
  /\ \A j, k \in 1 .. Len(returned) : j < k => Before(returned[j], returned[k])
  /\ \A j \in 1 .. Len(returned) : Before(returned[j], Here)
  /\ \A p \in Places \ rewritten :
       Before(p, Here) /\ nat[p].ino = Ino => \E j \in 1 .. Len(returned) : returned[j] = p

(* A byte address is cut to 32 bits without harm when that takes off just  *)
(* the conventional device.                                                *)
Fits(block_addr) == block_addr % Word = block_addr - Offset

(* While F2FS is quiet the retry loop ends with the first entry of the NAT *)
(* that leads to an inode, and gives up only when the half of the area     *)
(* that one call reads has none.  That the inode moves while it is looked  *)
(* for, and checkpoints overtake the search, is harmless: what is reported *)
(* is the inode, unless the entry leads to a block that F2FS has used for  *)
(* something else, or to an address that 32 bits cut to another block.     *)
FirstInodeIsReported ==
  /\ changes = 0 =>
       LET Good == {p \in Places : nat[p].ino = Ino /\ IsInode(NodeAt(nat[p].block_addr))}
       IN  /\ pc = "done" =>
                /\ node_block = NodeAt(nat_entry.block_addr)
                /\ \E p \in Good :
                     /\ nat[p] = nat_entry
                     /\ \A q \in Good : q = p \/ Before(p, q)
           /\ pc = "not_found" => \A p \in Good : p[1] >= NatBlocks
  /\ pc = "done" =>
       \/ node_block = NodeInode
       \/ nat_entry.block_addr \in outdated
       \/ ~Fits(nat_entry.block_addr)

(* A call reads as many blocks as half of the area has, from wherever the  *)
(* last one ended, so every entry returned allows the next call to reach   *)
(* that much further, into the other copy of the NAT and behind it.        *)
ReadsBounded == nat_block_offset <= (Len(returned) + 1) * NatBlocks

(* The retry loop ends, however F2FS moves the inode.                      *)
Terminates == <>~Running
=============================================================================
