--------------------------- MODULE NatLookupProofs ---------------------------
(***************************************************************************)
(* Theorems about the NAT search of zns.imap, for every NAT, any number of *)
(* node blocks and any number of steps of F2FS.                            *)
(***************************************************************************)
EXTENDS NatLookup, FiniteSetTheorems, TLAPS

(* The blocks passed, in this call and in those before: an entry is        *)
(* returned before a call has counted to NatBlocks, so the block it is in  *)
(* makes the number at most that, and the next call counts from zero.      *)
Reach ==
  nat_block_offset <= Len(returned) * NatBlocks + (IF pc \in {"node", "done"} THEN 0 ELSE i)

IInv == TypeOK /\ EachEntryOnce /\ Reach

-----------------------------------------------------------------------------
LEMMA OneMore ==
  ASSUME NEW a \in Nat, NEW b \in Nat
  PROVE  /\ a * b \in Nat
         /\ (a + 1) * b = a * b + b
  OBVIOUS

(* What is read at a place in the NAT is an entry, and only a place of the *)
(* area holds the number looked for.                                       *)
LEMMA EntryProperties ==
  ASSUME NatAssumption, NodesAssumption, TypeOK, NEW block \in Nat, NEW slot \in Nat
  PROVE  /\ EntryAt(block, slot) \in Entry
         /\ EntryAt(block, slot).ino = Ino =>
              <<block, slot>> \in Places /\ EntryAt(block, slot) = nat[<<block, slot>>]
<1>1. [ino |-> 0, block_addr |-> 0] \in Entry
  BY DEF Entry
<1>2. Ino # 0
  BY DEF NodesAssumption
<1>3. QED
  BY <1>1, <1>2 DEF EntryAt, TypeOK

(* What is read as a node block is one.                                    *)
LEMMA NodeProperties ==
  ASSUME TypeOK, NEW block_addr
  PROVE  NodeAt(block_addr) \in Nodes
<1>1. NodeZero \in Nodes
  BY DEF Nodes
<1>2. QED
  BY <1>1 DEF NodeAt, TypeOK

(* The initial states.                                                     *)
LEMMA InitIInv ==
  ASSUME NatAssumption, NodesAssumption, Init
  PROVE  IInv
<1>1. PICK d \in Disks : nat = d.nat /\ nodes = d.nodes /\ inode_addr = d.inode_addr
  BY DEF Init
<1>2. /\ nat \in [Places -> Entry]
      /\ nodes \in [ZnsBlocks -> Nodes]
      /\ inode_addr \in Addresses
  BY <1>1 DEF NodesAssumption
<1>3. NodeZero \in Nodes /\ nat_entry \in Entry
  BY DEF Nodes, Init, Entry
<1>4. 0 \in 0 .. Slots - 1 /\ 0 \in 0 .. NatBlocks /\ 0 \in 0 .. MaxChanges
  BY DEF NatAssumption
<1>5. /\ rewritten \subseteq InodePlaces
      /\ outdated \subseteq Addresses
      /\ returned \in Seq(Places)
      /\ Len(returned) = 0
  BY DEF Init
<1>6. TypeOK
  BY <1>2, <1>3, <1>4, <1>5 DEF Init, TypeOK
<1>7. ASSUME NEW p \in Places
      PROVE  ~Before(p, Here)
  BY DEF Places, Before, Here, Init
<1>8. EachEntryOnce
  BY <1>5, <1>7 DEF EachEntryOnce
<1>9. Reach
  <2>1. 0 * NatBlocks = 0
    BY DEF NatAssumption
  <2>2. QED
    BY <1>5, <2>1 DEF Reach, Init
<1>10. QED
  BY <1>6, <1>8, <1>9 DEF IInv

-----------------------------------------------------------------------------
(* The order on places, and how the two offsets move in it.                *)
LEMMA BeforeTransitive ==
  ASSUME NEW p \in Nat \X Nat, NEW q \in Nat \X Nat, NEW r \in Nat \X Nat,
         Before(p, q), Before(q, r)
  PROVE  Before(p, r)
  BY DEF Before

(* An entry that is found lies at the offsets or behind them, and nothing  *)
(* the search is for lies between; afterwards the offsets are just behind. *)
LEMMA ResumeProperties ==
  ASSUME NatAssumption, NodesAssumption, TypeOK,
         NEW slot, IsFirst(slot), Resume(slot)
  PROVE  LET found == <<nat_block_offset, slot>>
         IN  /\ found \in Places
             /\ Here' \in Nat \X Nat
             /\ nat_block_offset' \in nat_block_offset .. nat_block_offset + 1
             /\ nat_entry_offset' \in 0 .. Slots - 1
             /\ ~Before(found, Here)
             /\ Before(found, Here')
             /\ \A p \in Places :
                  Before(p, Here') /\ nat[p].ino = Ino => Before(p, Here) \/ p = found
<1> DEFINE found == <<nat_block_offset, slot>>
<1>1. /\ slot \in nat_entry_offset .. Slots - 1
      /\ EntryAt(nat_block_offset, slot).ino = Ino
      /\ \A s \in Matches : slot <= s
  BY DEF IsFirst, Matches
<1>2. nat_block_offset \in Nat /\ nat_entry_offset \in 0 .. Slots - 1 /\ Slots \in Nat \ {0}
  BY DEF TypeOK, NatAssumption
<1>3. slot \in Nat
  BY <1>1, <1>2
<1>4. found \in Places
  BY <1>1, <1>2, <1>3, EntryProperties
<1>5. /\ nat_block_offset' \in nat_block_offset .. nat_block_offset + 1
      /\ nat_entry_offset' \in 0 .. Slots - 1
  BY <1>1, <1>2, <1>3 DEF Resume
<1>6. ~Before(found, Here)
  BY <1>1, <1>2, <1>3 DEF Before, Here
<1>7. Before(found, Here')
  BY <1>1, <1>2, <1>3 DEF Before, Here, Resume
<1>8. ASSUME NEW p \in Places, Before(p, Here'), nat[p].ino = Ino, p # found
      PROVE  Before(p, Here)
  <2>1. PICK b \in Nat, s \in Nat : p = <<b, s>> /\ s \in 0 .. Slots - 1
    BY DEF Places
  <2>2. EntryAt(b, s) = nat[p]
    BY <1>8, <2>1 DEF EntryAt
  <2>3. b < nat_block_offset \/ (b = nat_block_offset /\ s <= slot)
    BY <1>1, <1>2, <1>3, <1>8, <2>1 DEF Before, Here, Resume
  <2>4. CASE b < nat_block_offset
    BY <2>1, <2>4 DEF Before, Here
  <2>5. CASE b = nat_block_offset /\ s <= slot
    <3>1. s < slot
      BY <1>3, <1>8, <2>1, <2>5
    <3>2. s \notin Matches
      BY <1>1, <1>3, <2>1, <3>1
    <3>3. s < nat_entry_offset
      BY <1>2, <1>8, <2>1, <2>2, <2>5, <3>2 DEF Matches
    <3>4. QED
      BY <2>1, <2>5, <3>3 DEF Before, Here
  <2>6. QED
    BY <2>3, <2>4, <2>5
<1>9. Here' \in Nat \X Nat
  BY <1>2, <1>5 DEF Here
<1>10. QED
  BY <1>4, <1>5, <1>6, <1>7, <1>8, <1>9

(* A block without a further entry holds none behind the offsets.          *)
LEMMA SkipProperties ==
  ASSUME NatAssumption, TypeOK, SkipBlock
  PROVE  \A p \in Places :
           /\ Before(p, Here) => Before(p, Here')
           /\ Before(p, Here') /\ nat[p].ino = Ino => Before(p, Here)
<1>1. /\ nat_block_offset \in Nat /\ nat_entry_offset \in 0 .. Slots - 1
      /\ nat_block_offset' = nat_block_offset + 1
      /\ nat_entry_offset' = 0
      /\ Matches = {}
  BY DEF TypeOK, SkipBlock
<1> SUFFICES ASSUME NEW p \in Places
             PROVE  /\ Before(p, Here) => Before(p, Here')
                    /\ Before(p, Here') /\ nat[p].ino = Ino => Before(p, Here)
  OBVIOUS
<1>2. PICK b \in Nat, s \in Nat : p = <<b, s>> /\ s \in 0 .. Slots - 1
  BY DEF Places
<1>3. Before(p, Here) => Before(p, Here')
  BY <1>1, <1>2 DEF Before, Here
<1>4. ASSUME Before(p, Here'), nat[p].ino = Ino
      PROVE  Before(p, Here)
  <2>1. b <= nat_block_offset
    BY <1>1, <1>2, <1>4 DEF Before, Here
  <2>2. CASE b < nat_block_offset
    BY <1>2, <2>2 DEF Before, Here
  <2>3. CASE b = nat_block_offset
    <3>1. EntryAt(b, s) = nat[p]
      BY <1>2 DEF EntryAt
    <3>2. s < nat_entry_offset
      BY <1>1, <1>2, <1>4, <2>3, <3>1 DEF Matches
    <3>3. QED
      BY <1>2, <2>3, <3>2 DEF Before, Here
  <2>4. QED
    BY <1>1, <2>1, <2>2, <2>3
<1>5. QED
  BY <1>3, <1>4

-----------------------------------------------------------------------------
(* What the types say of the variables of the search, one by one.          *)
LEMMA Typed ==
  ASSUME NatAssumption, TypeOK
  PROVE  /\ NatBlocks \in Nat \ {0}
         /\ Slots \in Nat \ {0}
         /\ nat_block_offset \in Nat
         /\ nat_entry_offset \in 0 .. Slots - 1
         /\ nat_entry_offset \in Nat
         /\ Here \in Nat \X Nat
         /\ i \in 0 .. NatBlocks
         /\ returned \in Seq(Places)
         /\ Len(returned) \in Nat
         /\ \A j \in 1 .. Len(returned) : returned[j] \in Places
<1>1. NatBlocks \in Nat \ {0} /\ Slots \in Nat \ {0}
  BY DEF NatAssumption
<1>2. nat_block_offset \in Nat
  BY DEF TypeOK
<1>3. nat_entry_offset \in 0 .. Slots - 1
  BY DEF TypeOK
<1>4. i \in 0 .. NatBlocks
  BY DEF TypeOK
<1>5. returned \in Seq(Places)
  BY DEF TypeOK
<1>6. nat_entry_offset \in Nat
  BY <1>1, <1>3
<1>7. Here \in Nat \X Nat
  BY <1>2, <1>6 DEF Here
<1>8. Len(returned) \in Nat /\ \A j \in 1 .. Len(returned) : returned[j] \in Places
  BY <1>5
<1>9. QED
  BY <1>1, <1>2, <1>3, <1>4, <1>5, <1>6, <1>7, <1>8

(* Each step keeps the types.                                              *)
LEMMA TypeStep ==
  ASSUME NatAssumption, NodesAssumption, TypeOK, [Next]_vars
  PROVE  TypeOK'
<1>1. CASE EntryFound
  <2>1. PICK slot \in Matches :
          /\ IsFirst(slot)
          /\ nat_entry' = EntryAt(nat_block_offset, slot)
          /\ returned' = Append(returned, <<nat_block_offset, slot>>)
          /\ Resume(slot)
    BY <1>1 DEF EntryFound
  <2>2. /\ <<nat_block_offset, slot>> \in Places
        /\ nat_block_offset' \in nat_block_offset .. nat_block_offset + 1
        /\ nat_entry_offset' \in 0 .. Slots - 1
    BY <2>1, ResumeProperties
  <2>3. slot \in Nat /\ nat_block_offset \in Nat
    BY <2>1, Typed DEF Matches
  <2>4. nat_entry' \in Entry
    BY <2>1, <2>3, EntryProperties
  <2>5. returned' \in Seq(Places)
    <3>1. returned \in Seq(Places)
      BY Typed
    <3>2. QED
      BY <2>1, <2>2, <3>1
  <2>6. nat_block_offset' \in Nat
    BY <2>2, <2>3
  <2>7. UNCHANGED <<fs_vars, i, node_block>> /\ pc' = "node"
    BY <1>1 DEF EntryFound
  <2>8. QED
    BY <2>2, <2>4, <2>5, <2>6, <2>7 DEF TypeOK, fs_vars
<1>2. CASE SkipBlock
  <2>1. i + 1 \in 0 .. NatBlocks /\ 0 \in 0 .. Slots - 1
    BY <1>2 DEF SkipBlock, TypeOK, NatAssumption
  <2>2. QED
    BY <1>2, <2>1 DEF SkipBlock, TypeOK, fs_vars
<1>3. CASE NoEntry
  BY <1>3 DEF NoEntry, TypeOK, fs_vars
<1>4. CASE ReadNode
  <2>1. node_block' \in Nodes
    BY <1>4, NodeProperties DEF ReadNode
  <2>2. /\ pc' \in {"done", "nat"}
        /\ i' \in {i, 0}
        /\ UNCHANGED <<fs_vars, nat_block_offset, nat_entry_offset, nat_entry, returned>>
    BY <1>4 DEF ReadNode
  <2>3. i' \in 0 .. NatBlocks
    BY <2>2, Typed
  <2>4. QED
    BY <2>1, <2>2, <2>3 DEF TypeOK, fs_vars
<1>5. CASE ReadFails
  BY <1>5 DEF ReadFails, TypeOK, fs_vars
<1>6. CASE FileSystem
  <2>1. changes' \in 0 .. MaxChanges /\ UNCHANGED tool_vars
    <3>1. changes \in 0 .. MaxChanges
      BY DEF TypeOK
    <3>2. MaxChanges \in Nat
      BY DEF NatAssumption
    <3>3. changes < MaxChanges /\ changes' = changes + 1 /\ UNCHANGED tool_vars
      BY <1>6 DEF FileSystem
    <3>4. QED
      BY <3>1, <3>2, <3>3
  <2>2. CASE MoveInode
    <3>1. PICK a \in Addresses :
            nodes' = [nodes EXCEPT ![a - Offset] = NodeInode] /\ inode_addr' = a
      BY <2>2 DEF MoveInode, Free
    <3>2. nodes' \in [ZnsBlocks -> Nodes]
      BY <3>1 DEF TypeOK, Nodes
    <3>3. UNCHANGED <<nat, rewritten, outdated>>
      BY <2>2 DEF MoveInode
    <3>4. QED
      BY <2>1, <3>1, <3>2, <3>3 DEF TypeOK, tool_vars
  <2>3. CASE ReuseBlock
    <3>1. PICK a \in Addresses :
            /\ nodes' = [nodes EXCEPT ![a - Offset] = NodeOther]
            /\ outdated' = outdated \cup {a}
      BY <2>3 DEF ReuseBlock
    <3>2. nodes' \in [ZnsBlocks -> Nodes]
      BY <3>1 DEF TypeOK, Nodes
    <3>3. UNCHANGED <<nat, inode_addr, rewritten>>
      BY <2>3 DEF ReuseBlock
    <3>4. QED
      BY <2>1, <3>1, <3>2, <3>3 DEF TypeOK, tool_vars
  <2>4. CASE Checkpoint
    <3>1. PICK p \in InodePlaces :
            /\ nat' = [nat EXCEPT ![p] = [ino |-> Ino, block_addr |-> inode_addr]]
            /\ rewritten' = rewritten \cup {p}
      BY <2>4 DEF Checkpoint
    <3>2. nat' \in [Places -> Entry]
      BY <3>1 DEF TypeOK, Entry
    <3>3. UNCHANGED <<nodes, inode_addr, outdated>>
      BY <2>4 DEF Checkpoint
    <3>4. QED
      BY <2>1, <3>1, <3>2, <3>3 DEF TypeOK, tool_vars
  <2>5. QED
    BY <1>6, <2>2, <2>3, <2>4 DEF FileSystem
<1>7. CASE UNCHANGED vars
  BY <1>7 DEF TypeOK, vars, fs_vars, tool_vars
<1>8. QED
  BY <1>1, <1>2, <1>3, <1>4, <1>5, <1>6, <1>7 DEF Next, Steps, Finished

(* A place that is not before a second one is not before what comes        *)
(* earlier; the places before that come before it.                         *)
LEMMA BeforeNotBefore ==
  ASSUME NEW p \in Nat \X Nat, NEW q \in Nat \X Nat, NEW r \in Nat \X Nat,
         Before(p, q), ~Before(r, q)
  PROVE  Before(p, r)
  BY DEF Before

LEMMA PlacesArePairs ==
  ASSUME NatAssumption
  PROVE  Places \subseteq Nat \X Nat
  BY DEF Places, NatAssumption

(* Each step keeps the search in order and complete.                       *)
LEMMA OrderStep ==
  ASSUME NatAssumption, NodesAssumption, TypeOK, TypeOK', EachEntryOnce, [Next]_vars
  PROVE  EachEntryOnce'
<1> USE PlacesArePairs
<1>0. /\ Len(returned) \in Nat
      /\ \A j \in 1 .. Len(returned) : returned[j] \in Places
      /\ Here \in Nat \X Nat
      /\ Here' \in Nat \X Nat
  <2>1. Here' \in Nat \X Nat
    <3>1. Slots \in Nat
      BY Typed
    <3>2. nat_block_offset' \in Nat /\ nat_entry_offset' \in 0 .. Slots - 1
      BY DEF TypeOK
    <3>3. nat_entry_offset' \in Nat
      BY <3>1, <3>2
    <3>4. QED
      BY <3>2, <3>3 DEF Here
  <2>2. QED
    BY <2>1, Typed
<1>1. CASE EntryFound
  <2>1. PICK slot \in Matches :
          /\ IsFirst(slot)
          /\ returned' = Append(returned, <<nat_block_offset, slot>>)
          /\ Resume(slot)
    BY <1>1 DEF EntryFound
  <2> DEFINE found == <<nat_block_offset, slot>>
  <2>2. /\ found \in Places
        /\ ~Before(found, Here)
        /\ Before(found, Here')
        /\ \A p \in Places :
             Before(p, Here') /\ nat[p].ino = Ino => Before(p, Here) \/ p = found
    BY <2>1, ResumeProperties
  <2>3. /\ Len(returned') = Len(returned) + 1
        /\ \A j \in 1 .. Len(returned) : returned'[j] = returned[j]
        /\ returned'[Len(returned) + 1] = found
    <3>1. returned \in Seq(Places)
      BY Typed
    <3>2. QED
      BY <2>1, <2>2, <3>1
  <2>4. UNCHANGED <<nat, rewritten>>
    BY <1>1 DEF EntryFound, fs_vars
  <2> HIDE DEF found
  <2>5. \A j \in 1 .. Len(returned) : Before(returned[j], found)
    BY <1>0, <2>2, BeforeNotBefore DEF EachEntryOnce
  <2>6. \A j \in 1 .. Len(returned) : Before(returned[j], Here')
    BY <1>0, <2>2, <2>5, BeforeTransitive
  <2>7. ASSUME NEW j \in 1 .. Len(returned'), NEW k \in 1 .. Len(returned'), j < k
        PROVE  Before(returned'[j], returned'[k])
    <3>1. j \in 1 .. Len(returned) /\ returned'[j] = returned[j]
      BY <1>0, <2>3, <2>7
    <3>2. CASE k = Len(returned) + 1
      BY <2>3, <2>5, <3>1, <3>2
    <3>3. CASE k \in 1 .. Len(returned)
      BY <2>3, <2>7, <3>1, <3>3 DEF EachEntryOnce
    <3>4. QED
      BY <1>0, <2>3, <3>2, <3>3
  <2>8. ASSUME NEW j \in 1 .. Len(returned')
        PROVE  Before(returned'[j], Here')
    <3>1. CASE j = Len(returned) + 1
      BY <2>2, <2>3, <3>1
    <3>2. CASE j \in 1 .. Len(returned)
      BY <2>3, <2>6, <3>2
    <3>3. QED
      BY <1>0, <2>3, <3>1, <3>2
  <2>9. ASSUME NEW p \in Places \ rewritten, Before(p, Here'), nat[p].ino = Ino
        PROVE  \E j \in 1 .. Len(returned') : returned'[j] = p
    <3>1. CASE p = found
      BY <1>0, <2>3, <3>1
    <3>2. CASE Before(p, Here)
      <4>1. PICK j \in 1 .. Len(returned) : returned[j] = p
        BY <2>9, <3>2 DEF EachEntryOnce
      <4>2. QED
        BY <1>0, <2>3, <4>1
    <3>3. QED
      BY <2>2, <2>9, <3>1, <3>2
  <2>10. QED
    BY <2>4, <2>7, <2>8, <2>9 DEF EachEntryOnce
<1>2. CASE SkipBlock
  <2>1. UNCHANGED <<nat, rewritten, returned>>
    BY <1>2 DEF SkipBlock, fs_vars
  <2>2. \A p \in Places :
          /\ Before(p, Here) => Before(p, Here')
          /\ Before(p, Here') /\ nat[p].ino = Ino => Before(p, Here)
    BY <1>2, SkipProperties
  <2>3. QED
    BY <1>0, <2>1, <2>2 DEF EachEntryOnce
<1>3. CASE UNCHANGED <<nat, rewritten, nat_block_offset, nat_entry_offset, returned>>
  BY <1>3 DEF EachEntryOnce, Here
<1>4. CASE FileSystem
  <2>1. UNCHANGED <<nat_block_offset, nat_entry_offset, returned>>
    BY <1>4 DEF FileSystem, tool_vars
  <2>2. /\ rewritten \subseteq rewritten'
        /\ \A p \in Places \ rewritten' : nat'[p] = nat[p]
    <3>1. CASE UNCHANGED <<nat, rewritten>>
      BY <3>1
    <3>2. CASE Checkpoint
      <4>1. PICK q \in InodePlaces :
              /\ nat' = [nat EXCEPT ![q] = [ino |-> Ino, block_addr |-> inode_addr]]
              /\ rewritten' = rewritten \cup {q}
        BY <3>2 DEF Checkpoint
      <4>2. QED
        BY <4>1 DEF TypeOK
    <3>3. QED
      BY <1>4, <3>1, <3>2 DEF FileSystem, MoveInode, ReuseBlock
  <2>3. QED
    BY <2>1, <2>2 DEF EachEntryOnce, Here
<1>5. QED
  BY <1>1, <1>2, <1>3, <1>4
     DEF Next, Steps, NoEntry, ReadNode, ReadFails, Finished, vars, fs_vars, tool_vars

(* Each step keeps the bound on the blocks read.                           *)
LEMMA ReachStep ==
  ASSUME NatAssumption, NodesAssumption, TypeOK, Reach, [Next]_vars
  PROVE  Reach'
<1>0. /\ Len(returned) \in Nat
      /\ NatBlocks \in Nat \ {0}
      /\ nat_block_offset \in Nat
      /\ i \in 0 .. NatBlocks
  BY Typed
<1>1. /\ Len(returned) * NatBlocks \in Nat
      /\ (Len(returned) + 1) * NatBlocks = Len(returned) * NatBlocks + NatBlocks
  BY <1>0, OneMore
<1> DEFINE past == Len(returned) * NatBlocks
<1>2. CASE EntryFound
  <2>1. PICK slot \in Matches :
          /\ IsFirst(slot)
          /\ returned' = Append(returned, <<nat_block_offset, slot>>)
          /\ Resume(slot)
    BY <1>2 DEF EntryFound
  <2>2. nat_block_offset' \in nat_block_offset .. nat_block_offset + 1
    BY <2>1, ResumeProperties
  <2>3. Len(returned') = Len(returned) + 1
    <3>1. returned \in Seq(Places) /\ <<nat_block_offset, slot>> \in Places
      BY <2>1, Typed, ResumeProperties
    <3>2. QED
      BY <2>1, <3>1
  <2>4. pc' = "node" /\ pc = "nat" /\ i < NatBlocks
    BY <1>2 DEF EntryFound
  <2>5. nat_block_offset <= past + i
    BY <2>4 DEF Reach
  <2>6. Len(returned') * NatBlocks = past + NatBlocks
    BY <1>1, <2>3
  <2> HIDE DEF past
  <2>7. nat_block_offset' <= past + NatBlocks
    <3>1. past \in Nat
      BY <1>1 DEF past
    <3>2. QED
      BY <1>0, <2>2, <2>4, <2>5, <3>1
  <2>8. past + NatBlocks + 0 = past + NatBlocks
    BY <1>0, <1>1 DEF past
  <2>9. QED
    BY <2>4, <2>6, <2>7, <2>8 DEF Reach
<1>3. CASE SkipBlock
  <2>1. /\ nat_block_offset' = nat_block_offset + 1
        /\ i' = i + 1
        /\ UNCHANGED <<pc, returned>>
        /\ pc = "nat"
    BY <1>3 DEF SkipBlock
  <2>2. nat_block_offset <= past + i
    BY <2>1 DEF Reach
  <2> HIDE DEF past
  <2>3. nat_block_offset' <= past + i'
    <3>1. past \in Nat
      BY <1>1 DEF past
    <3>2. QED
      BY <1>0, <2>1, <2>2, <3>1
  <2>4. QED
    BY <2>1, <2>3 DEF Reach, past
<1>4. CASE NoEntry
  BY <1>4 DEF NoEntry, Reach
<1>5. CASE ReadNode
  <2>1. UNCHANGED <<nat_block_offset, returned>> /\ pc = "node"
    BY <1>5 DEF ReadNode
  <2>2. pc' = "done" \/ i' = 0
    BY <1>5 DEF ReadNode
  <2>3. QED
    BY <2>1, <2>2 DEF Reach
<1>6. CASE ReadFails
  <2>1. UNCHANGED <<nat_block_offset, returned, i>> /\ pc \in {"nat", "node"} /\ pc' = "failed"
    BY <1>6 DEF ReadFails
  <2>2. nat_block_offset <= past \/ nat_block_offset <= past + i
    BY <1>0, <1>1, <2>1 DEF Reach
  <2> HIDE DEF past
  <2>3. nat_block_offset <= past + i
    <3>1. past \in Nat
      BY <1>1 DEF past
    <3>2. QED
      BY <1>0, <2>2, <3>1
  <2>4. QED
    BY <2>1, <2>3 DEF Reach, past
<1>7. CASE UNCHANGED tool_vars
  BY <1>7 DEF Reach, tool_vars
<1>8. QED
  BY <1>2, <1>3, <1>4, <1>5, <1>6, <1>7 DEF Next, Steps, FileSystem, Finished, vars

-----------------------------------------------------------------------------
(* The search keeps to its types, order and bound, whatever the disk holds *)
(* and F2FS does meanwhile.                                                *)
THEOREM SearchInvariance == Spec => []IInv
<1>1. Init => IInv
  BY NatAssumption, NodesAssumption, InitIInv
<1>2. IInv /\ [Next]_vars => IInv'
  BY NatAssumption, NodesAssumption, TypeStep, OrderStep, ReachStep DEF IInv
<1>3. QED
  BY <1>1, <1>2, PTL DEF Spec

(* The entry offset stays in the block, the counter below the blocks of a  *)
(* call, and only entries and node blocks are taken from the disk.         *)
THEOREM SearchTypeCorrect == Spec => []TypeOK
<1>1. IInv => TypeOK
  BY DEF IInv
<1>2. QED
  BY <1>1, SearchInvariance, PTL

(* Across the calls each entry of the file comes up once, in the order of  *)
(* the NAT, and none that F2FS left alone is passed over.                  *)
THEOREM SearchIsComplete == Spec => []EachEntryOnce
<1>1. IInv => EachEntryOnce
  BY DEF IInv
<1>2. QED
  BY <1>1, SearchInvariance, PTL

(* A call reaches at most half of the area further than the one before.    *)
THEOREM SearchIsBounded == Spec => []ReadsBounded
<1>1. IInv => ReadsBounded
  <2> SUFFICES ASSUME IInv
               PROVE  ReadsBounded
    OBVIOUS
  <2>1. /\ Len(returned) \in Nat
        /\ NatBlocks \in Nat
        /\ nat_block_offset \in Nat
        /\ i \in 0 .. NatBlocks
    BY NatAssumption, Typed DEF IInv
  <2> DEFINE past == Len(returned) * NatBlocks
  <2>2. past \in Nat /\ (Len(returned) + 1) * NatBlocks = past + NatBlocks
    BY <2>1, OneMore
  <2>3. nat_block_offset <= past + 0 \/ nat_block_offset <= past + i
    BY DEF IInv, Reach
  <2> HIDE DEF past
  <2>4. nat_block_offset <= past + NatBlocks
    BY <2>1, <2>2, <2>3
  <2>5. QED
    BY <2>2, <2>4 DEF ReadsBounded
<1>2. QED
  BY <1>1, SearchInvariance, PTL

-----------------------------------------------------------------------------
(* Which inode is reported.                                                *)

LEMMA NumbersDiffer ==
  ASSUME NodesAssumption
  PROVE  Ino # 0 /\ DirectNid # Ino
<1>1. Ino # 0
  BY DEF NodesAssumption
<1>0. Cardinality({Ino, OtherIno, DirectNid}) = 3
  BY DEF NodesAssumption
<1>2. DirectNid # Ino
  <2> SUFFICES ASSUME DirectNid = Ino
               PROVE  FALSE
    OBVIOUS
  <2>1. {Ino, OtherIno, DirectNid} = ({} \cup {Ino}) \cup {OtherIno}
    OBVIOUS
  <2>2. IsFiniteSet({}) /\ Cardinality({}) = 0
    BY FS_EmptySet
  <2>3. IsFiniteSet({} \cup {Ino}) /\ Cardinality({} \cup {Ino}) = 1
    BY <2>2, FS_AddElement
  <2>4. Cardinality(({} \cup {Ino}) \cup {OtherIno}) \in {1, 2}
    BY <2>3, FS_AddElement
  <2>5. 3 \in {1, 2}
    BY <1>0, <2>1, <2>4, Zenon
  <2>6. QED
    BY <2>5
<1>3. QED
  BY <1>1, <1>2

(* A node with the number of the file is its inode, if it is an inode.     *)
LEMMA InodeOfFile ==
  ASSUME NodesAssumption, NEW node \in Nodes, node.ino = Ino, IsInode(node)
  PROVE  node = NodeInode
BY NumbersDiffer DEF Nodes, NodeInode, NodeDirect, NodeOther, NodeZero, IsInode

(* A block of the device holds a node of the file, or has been given away. *)
LeadsToFile(a) == a \in Addresses => nodes[a - Offset].ino = Ino \/ a \in outdated

(* Where F2FS has the inode, and where the entries of the file lead, the   *)
(* one at hand included.                                                   *)
EntriesLead ==
  /\ nodes[inode_addr - Offset] = NodeInode
  /\ \A p \in Places : nat[p].ino = Ino => LeadsToFile(nat[p].block_addr)
  /\ pc = "node" => LeadsToFile(nat_entry.block_addr)

InodeOrExcused ==
  pc = "done" =>
    \/ node_block = NodeInode
    \/ nat_entry.block_addr \in outdated
    \/ ~Fits(nat_entry.block_addr)

IsGood(p) == nat[p].ino = Ino /\ IsInode(NodeAt(nat[p].block_addr))

(* While F2FS is quiet, no entry tried led to an inode, but the last.      *)
TriedInVain ==
  /\ changes = 0 =>
       /\ rewritten = {}
       /\ pc # "failed" =>
            \A j \in 1 .. Len(returned) :
              (j = Len(returned) /\ pc \in {"node", "done"}) \/ ~IsGood(returned[j])
       /\ pc \in {"node", "done"} =>
            /\ Len(returned) > 0
            /\ nat[returned[Len(returned)]] = nat_entry
            /\ nat_entry.ino = Ino
       /\ pc = "done" => node_block = NodeAt(nat_entry.block_addr) /\ IsInode(node_block)
  /\ nat_block_offset >= i
  /\ pc = "not_found" => i = NatBlocks

ReportInv == EntriesLead /\ InodeOrExcused /\ TriedInVain

LEMMA ReportInit ==
  ASSUME NatAssumption, NodesAssumption, Init
  PROVE  ReportInv
<1>1. PICK d \in Disks : nat = d.nat /\ nodes = d.nodes /\ inode_addr = d.inode_addr
  BY DEF Init
<1>2. TypeOK /\ nodes[inode_addr - Offset] = NodeInode
  BY <1>1, InitIInv DEF IInv, NodesAssumption
<1>3. ASSUME NEW p \in Places, nat[p].ino = Ino
      PROVE  LeadsToFile(nat[p].block_addr)
  <2>1. nat[p] = [ino |-> Ino, block_addr |-> nat[p].block_addr]
    BY <1>2, <1>3 DEF TypeOK, Entry
  <2>2. outdated = {a \in Addresses :
                      /\ nodes[a - Offset].ino # Ino
                      /\ \E q \in Places : nat[q] = [ino |-> Ino, block_addr |-> a]}
    BY DEF Init
  <2>3. QED
    BY <2>1, <2>2 DEF LeadsToFile
<1>4. /\ pc = "nat" /\ rewritten = {} /\ returned = <<>> /\ nat_block_offset = 0 /\ i = 0
  BY DEF Init
<1>5. QED
  BY <1>2, <1>3, <1>4 DEF ReportInv, EntriesLead, InodeOrExcused, TriedInVain

(* A step of F2FS: an entry leads to the inode, or to what it led to; only *)
(* a block given away loses its node of the file.                          *)
LEMMA FileSystemLeads ==
  ASSUME NatAssumption, NodesAssumption, TypeOK, EntriesLead, FileSystem
  PROVE  EntriesLead'
<1>1. /\ UNCHANGED <<pc, nat_entry>>
      /\ nodes \in [ZnsBlocks -> Nodes] /\ nat \in [Places -> Entry]
      /\ inode_addr \in Addresses
  BY DEF FileSystem, tool_vars, TypeOK
<1>2. \A a, b \in Addresses : a - Offset \in ZnsBlocks /\ (a - Offset = b - Offset => a = b)
  BY DEF NatAssumption, Addresses, ZnsBlocks
<1>3. NodeInode.ino = Ino
  BY DEF NodeInode
<1>4. CASE MoveInode
  <2>1. PICK a \in Addresses :
          /\ nodes' = [nodes EXCEPT ![a - Offset] = NodeInode]
          /\ inode_addr' = a
    BY <1>4 DEF MoveInode, Free
  <2>2. UNCHANGED <<nat, outdated>>
    BY <1>4 DEF MoveInode
  <2>3. \A b : LeadsToFile(b) => LeadsToFile(b)'
    BY <1>1, <1>2, <1>3, <2>1, <2>2 DEF LeadsToFile
  <2>4. nodes'[inode_addr' - Offset] = NodeInode
    BY <1>1, <1>2, <2>1
  <2>5. QED
    BY <1>1, <2>2, <2>3, <2>4 DEF EntriesLead
<1>5. CASE ReuseBlock
  <2>1. PICK a \in Addresses \ {inode_addr} :
          /\ nodes' = [nodes EXCEPT ![a - Offset] = NodeOther]
          /\ outdated' = outdated \cup {a}
    BY <1>5 DEF ReuseBlock
  <2>2. UNCHANGED <<nat, inode_addr>>
    BY <1>5 DEF ReuseBlock
  <2>3. \A b : LeadsToFile(b) => LeadsToFile(b)'
    BY <1>1, <1>2, <2>1 DEF LeadsToFile
  <2>4. nodes'[inode_addr' - Offset] = NodeInode
    BY <1>1, <1>2, <2>1, <2>2 DEF EntriesLead
  <2>5. QED
    BY <1>1, <2>2, <2>3, <2>4 DEF EntriesLead
<1>6. CASE Checkpoint
  <2>1. PICK p \in InodePlaces :
          nat' = [nat EXCEPT ![p] = [ino |-> Ino, block_addr |-> inode_addr]]
    BY <1>6 DEF Checkpoint
  <2>2. UNCHANGED <<nodes, inode_addr, outdated>>
    BY <1>6 DEF Checkpoint
  <2>3. \A b : LeadsToFile(b) => LeadsToFile(b)'
    BY <2>2 DEF LeadsToFile
  <2>4. LeadsToFile(inode_addr)'
    BY <1>3, <2>2 DEF EntriesLead, LeadsToFile
  <2>5. ASSUME NEW q \in Places, nat'[q].ino = Ino
        PROVE  LeadsToFile(nat[q].block_addr)'
    <3>1. CASE q = p
      <4>1. nat'[q].block_addr = inode_addr'
        BY <1>1, <2>1, <2>2, <3>1
      <4>2. QED
        BY <2>4, <4>1 DEF LeadsToFile
    <3>2. CASE q # p
      <4>1. nat'[q] = nat[q] /\ LeadsToFile(nat[q].block_addr)
        BY <1>1, <2>1, <2>5, <3>2 DEF EntriesLead
      <4>2. QED
        BY <4>1, <2>2 DEF LeadsToFile
    <3>3. QED
      BY <3>1, <3>2
  <2>6. QED
    BY <1>1, <2>2, <2>3, <2>5 DEF EntriesLead
<1>7. QED
  BY <1>4, <1>5, <1>6 DEF FileSystem

(* The entry that is returned is one of the file.                          *)
LEMMA EntryIsOfFile ==
  ASSUME NatAssumption, NodesAssumption, TypeOK, NEW slot, slot \in Matches
  PROVE  LET found == <<nat_block_offset, slot>>
         IN  /\ found \in Places
             /\ EntryAt(nat_block_offset, slot) = nat[found]
             /\ nat[found].ino = Ino
<1>1. nat_block_offset \in Nat /\ nat_entry_offset \in Nat /\ Slots \in Nat
  BY Typed
<1>2. slot \in Nat /\ EntryAt(nat_block_offset, slot).ino = Ino
  BY <1>1 DEF Matches
<1>3. QED
  BY <1>1, <1>2, EntryProperties

LEMMA LeadsStep ==
  ASSUME NatAssumption, NodesAssumption, TypeOK, EntriesLead, [Next]_vars
  PROVE  EntriesLead'
<1>1. CASE EntryFound
  <2>1. PICK slot \in Matches : nat_entry' = EntryAt(nat_block_offset, slot)
    BY <1>1 DEF EntryFound
  <2>2. UNCHANGED fs_vars
    BY <1>1 DEF EntryFound
  <2>3. LeadsToFile(nat_entry'.block_addr)
    BY <2>1, EntryIsOfFile DEF EntriesLead
  <2>4. QED
    BY <2>2, <2>3 DEF EntriesLead, LeadsToFile, fs_vars
<1>2. CASE FileSystem
  BY <1>2, FileSystemLeads
<1>3. CASE SkipBlock \/ NoEntry \/ ReadNode \/ ReadFails \/ UNCHANGED vars
  <2>1. UNCHANGED fs_vars /\ (pc' = "node" => pc = "node" /\ UNCHANGED nat_entry)
    BY <1>3 DEF SkipBlock, NoEntry, ReadNode, ReadFails, vars, fs_vars, tool_vars
  <2>2. QED
    BY <2>1 DEF EntriesLead, LeadsToFile, fs_vars
<1>4. QED
  BY <1>1, <1>2, <1>3 DEF Next, Steps, Finished

(* What is read behind an entry that leads to the file, if it is an inode. *)
LEMMA ExcusedStep ==
  ASSUME NatAssumption, NodesAssumption, TypeOK, EntriesLead, InodeOrExcused, [Next]_vars
  PROVE  InodeOrExcused'
<1>1. CASE ReadNode
  <2> DEFINE a == nat_entry.block_addr
  <2>1. /\ pc = "node" /\ node_block' = NodeAt(a) /\ UNCHANGED <<nat_entry, outdated>>
        /\ pc' = "done" => IsInode(node_block')
    BY <1>1 DEF ReadNode, fs_vars
  <2>2. LeadsToFile(a)
    BY <2>1 DEF EntriesLead
  <2>3. a \in {0} \cup Addresses
    BY DEF TypeOK, Entry
  <2> SUFFICES ASSUME pc' = "done", a \notin outdated, Fits(a)
               PROVE  node_block' = NodeInode
    BY <2>1 DEF InodeOrExcused
  <2>4. a % Word = a - Offset /\ a \in Addresses /\ a - Offset \in ZnsBlocks
    <3>1. Word \in Nat \ {0} /\ Offset \in Nat /\ ZnsLength \in Nat \ {0}
      BY DEF NatAssumption
    <3>2. a % Word = a - Offset
      BY DEF Fits
    <3> HIDE DEF a
    <3>3. a \in Nat
      BY <2>3, <3>1 DEF Addresses
    <3>4. a % Word \in Nat
      BY <3>1, <3>3
    <3>5. a >= Offset
      BY <3>1, <3>2, <3>3, <3>4
    <3>6. a \in Addresses
      BY <2>3, <3>1, <3>5 DEF Addresses
    <3>7. a - Offset \in ZnsBlocks
      BY <3>1, <3>6 DEF Addresses, ZnsBlocks
    <3>8. QED
      BY <3>2, <3>6, <3>7
  <2> HIDE DEF a
  <2>5. NodeAt(a) = nodes[a - Offset] /\ nodes[a - Offset] \in Nodes
    BY <2>4 DEF NodeAt, TypeOK
  <2>6. nodes[a - Offset].ino = Ino
    BY <2>2, <2>4 DEF LeadsToFile
  <2>7. QED
    BY <2>1, <2>5, <2>6, InodeOfFile
<1>2. CASE ~ReadNode
  <2>1. pc' = "done" => pc = "done" /\ UNCHANGED <<node_block, nat_entry, outdated>>
    BY <1>2 DEF Next, Steps, EntryFound, SkipBlock, NoEntry, ReadFails, FileSystem, Running,
       Finished, vars, fs_vars, tool_vars
  <2>2. QED
    BY <2>1 DEF InodeOrExcused, Fits
<1>3. QED
  BY <1>1, <1>2

LEMMA TriedStep ==
  ASSUME NatAssumption, NodesAssumption, TypeOK, TriedInVain, [Next]_vars
  PROVE  TriedInVain'
<1>1. /\ nat_block_offset \in Nat /\ i \in 0 .. NatBlocks /\ NatBlocks \in Nat \ {0}
      /\ returned \in Seq(Places) /\ Len(returned) \in Nat
  BY Typed
<1>2. CASE EntryFound
  <2>1. PICK slot \in Matches :
          /\ IsFirst(slot)
          /\ nat_entry' = EntryAt(nat_block_offset, slot)
          /\ returned' = Append(returned, <<nat_block_offset, slot>>)
          /\ Resume(slot)
    BY <1>2 DEF EntryFound
  <2>2. PICK found : found = <<nat_block_offset, slot>>
    OBVIOUS
  <2>3. /\ found \in Places /\ nat_entry' = nat[found] /\ nat[found].ino = Ino
        /\ nat_block_offset' \in nat_block_offset .. nat_block_offset + 1
    BY <2>1, <2>2, EntryIsOfFile, ResumeProperties
  <2>4. pc = "nat" /\ pc' = "node" /\ UNCHANGED <<fs_vars, i>>
    BY <1>2 DEF EntryFound
  <2>5. /\ Len(returned') = Len(returned) + 1
        /\ \A j \in 1 .. Len(returned) : returned'[j] = returned[j]
        /\ returned'[Len(returned')] = found
    BY <1>1, <2>1, <2>2, <2>3
  <2>6. nat_block_offset' >= i'
    BY <1>1, <2>3, <2>4 DEF TriedInVain
  <2>7. \A p : IsGood(p)' <=> IsGood(p)
    BY <2>4 DEF IsGood, NodeAt, fs_vars
  <2>8. ASSUME changes = 0, NEW j \in 1 .. Len(returned')
        PROVE  j = Len(returned') \/ ~IsGood(returned'[j])
    <3>1. j = Len(returned') \/ j \in 1 .. Len(returned)
      BY <1>1, <2>5
    <3>2. ASSUME j \in 1 .. Len(returned)
          PROVE  ~IsGood(returned[j])
      BY <2>4, <2>8, <3>2 DEF TriedInVain
    <3>3. QED
      BY <2>5, <3>1, <3>2
  <2>9. Len(returned') > 0 /\ nat'[returned'[Len(returned')]] = nat_entry' /\ nat_entry'.ino = Ino
    BY <1>1, <2>3, <2>4, <2>5 DEF fs_vars
  <2>10. QED
    BY <2>4, <2>6, <2>7, <2>8, <2>9 DEF TriedInVain, fs_vars
<1>3. CASE SkipBlock
  <2>1. /\ UNCHANGED <<fs_vars, pc, nat_entry, node_block, returned>> /\ pc = "nat"
        /\ nat_block_offset' = nat_block_offset + 1 /\ i' = i + 1
    BY <1>3 DEF SkipBlock
  <2>2. nat_block_offset' >= i'
    BY <1>1, <2>1 DEF TriedInVain
  <2>3. QED
    BY <2>1, <2>2 DEF TriedInVain, IsGood, NodeAt, fs_vars
<1>4. CASE NoEntry
  BY <1>4 DEF NoEntry, TriedInVain, IsGood, NodeAt, fs_vars
<1>5. CASE ReadNode
  <2>1. /\ pc = "node" /\ UNCHANGED <<fs_vars, nat_block_offset, nat_entry, returned>>
        /\ node_block' = NodeAt(nat_entry.block_addr)
        /\ IF IsInode(node_block') THEN pc' = "done" /\ UNCHANGED i ELSE pc' = "nat" /\ i' = 0
    BY <1>5 DEF ReadNode
  <2>2. nat_block_offset' >= i'
    BY <1>1, <2>1 DEF TriedInVain
  <2>3. \A p : IsGood(p)' <=> IsGood(p)
    BY <2>1 DEF IsGood, NodeAt, fs_vars
  <2>4. NodeAt(nat_entry.block_addr)' = NodeAt(nat_entry.block_addr)
    BY <2>1 DEF NodeAt, fs_vars
  <2>5. changes = 0 /\ ~IsInode(node_block') => ~IsGood(returned[Len(returned)])
    BY <2>1 DEF TriedInVain, IsGood
  <2>6. CASE IsInode(node_block')
    BY <2>1, <2>2, <2>3, <2>4, <2>6 DEF TriedInVain, fs_vars
  <2>7. CASE ~IsInode(node_block')
    BY <2>1, <2>2, <2>3, <2>5, <2>7 DEF TriedInVain, fs_vars
  <2>8. QED
    BY <2>6, <2>7
<1>6. CASE ReadFails
  BY <1>6 DEF ReadFails, TriedInVain, fs_vars
<1>7. CASE FileSystem
  <2>1. /\ pc \in {"nat", "node"} /\ changes' = changes + 1
        /\ UNCHANGED <<pc, nat_block_offset, i>>
    BY <1>7 DEF FileSystem, Running, tool_vars
  <2>2. PICK n \in Nat : changes = n
    BY DEF NatAssumption, TypeOK
  <2>3. changes' # 0
    BY <2>1, <2>2
  <2>4. QED
    BY <2>1, <2>3 DEF TriedInVain
<1>8. CASE UNCHANGED vars
  BY <1>8 DEF TriedInVain, IsGood, NodeAt, vars, fs_vars, tool_vars
<1>9. QED
  BY <1>2, <1>3, <1>4, <1>5, <1>6, <1>7, <1>8 DEF Next, Steps, Finished

(* Two places are the same, or one is before the other.                    *)
LEMMA BeforeTotal ==
  ASSUME NEW p \in Nat \X Nat, NEW q \in Nat \X Nat
  PROVE  p = q \/ Before(p, q) \/ Before(q, p)
  BY DEF Before

LEMMA FirstGoodOnes ==
  ASSUME NatAssumption, NodesAssumption, TypeOK, EachEntryOnce, TriedInVain, changes = 0
  PROVE  /\ pc = "done" =>
              /\ node_block = NodeAt(nat_entry.block_addr)
              /\ \E p \in Places :
                   /\ IsGood(p) /\ nat[p] = nat_entry
                   /\ \A q \in Places : IsGood(q) => q = p \/ Before(p, q)
         /\ pc = "not_found" => \A p \in Places : IsGood(p) => p[1] >= NatBlocks
<1> USE PlacesArePairs
<1>1. /\ Len(returned) \in Nat /\ Here \in Nat \X Nat
      /\ \A j \in 1 .. Len(returned) : returned[j] \in Places
      /\ rewritten = {} /\ nat_block_offset \in Nat
  BY Typed DEF TriedInVain
<1>2. ASSUME NEW q \in Places, IsGood(q), Before(q, Here)
      PROVE  \E j \in 1 .. Len(returned) : returned[j] = q
  BY <1>1, <1>2 DEF EachEntryOnce, IsGood
<1>3. ASSUME pc = "done"
      PROVE  /\ node_block = NodeAt(nat_entry.block_addr)
             /\ \E p \in Places :
                  /\ IsGood(p) /\ nat[p] = nat_entry
                  /\ \A q \in Places : IsGood(q) => q = p \/ Before(p, q)
  <2> DEFINE last == returned[Len(returned)]
  <2>1. /\ Len(returned) > 0 /\ nat[last] = nat_entry /\ nat_entry.ino = Ino
        /\ node_block = NodeAt(nat_entry.block_addr) /\ IsInode(node_block)
    BY <1>3 DEF TriedInVain
  <2>2. last \in Places /\ Before(last, Here) /\ IsGood(last)
    BY <1>1, <2>1 DEF EachEntryOnce, IsGood
  <2>3. ASSUME NEW j \in 1 .. Len(returned), IsGood(returned[j])
        PROVE  returned[j] = last
    BY <1>3, <2>3 DEF TriedInVain
  <2> HIDE DEF last
  <2>4. ASSUME NEW q \in Places, IsGood(q)
        PROVE  q = last \/ Before(last, q)
    <3>1. CASE Before(q, Here)
      BY <1>2, <2>3, <2>4, <3>1
    <3>2. CASE ~Before(q, Here)
      BY <1>1, <2>2, <3>2, BeforeNotBefore
    <3>3. QED
      BY <3>1, <3>2
  <2>5. QED
    BY <2>1, <2>2, <2>4
<1>4. ASSUME pc = "not_found", NEW p \in Places, IsGood(p), ~(p[1] >= NatBlocks)
      PROVE  FALSE
  <2>1. nat_block_offset >= NatBlocks
    BY <1>4 DEF TriedInVain
  <2>2. p[1] \in Nat /\ NatBlocks \in Nat
    BY DEF NatAssumption
  <2>3. Before(p, Here)
    <3>1. PICK b \in Nat : p[1] = b
      BY <2>2
    <3>2. ~(b >= NatBlocks)
      BY <1>4, <3>1
    <3>3. b < nat_block_offset
      BY <1>1, <2>1, <2>2, <3>2
    <3>4. QED
      BY <3>1, <3>3 DEF Before, Here
  <2>4. PICK j \in 1 .. Len(returned) : returned[j] = p
    BY <1>2, <1>4, <2>3
  <2>5. QED
    BY <1>4, <2>4 DEF TriedInVain
<1>5. QED
  BY <1>3, <1>4

(* While F2FS is quiet the first entry of the NAT that leads to an inode   *)
(* is reported, and none only if the blocks of one call have none; and     *)
(* however F2FS moves the inode and writes checkpoints in between, what is *)
(* reported is the inode, unless its entry leads to a block given away or  *)
(* to an address that 32 bits cut.                                         *)
THEOREM SearchReportsTheInode == Spec => []FirstInodeIsReported
<1>1. Init => ReportInv
  BY NatAssumption, NodesAssumption, ReportInit
<1>2. IInv /\ ReportInv /\ [Next]_vars => ReportInv'
  BY NatAssumption, NodesAssumption, LeadsStep, ExcusedStep, TriedStep DEF IInv, ReportInv
<1>3. IInv /\ ReportInv => FirstInodeIsReported
  <2> SUFFICES ASSUME TypeOK, EachEntryOnce, TriedInVain, InodeOrExcused
               PROVE  FirstInodeIsReported
    BY DEF IInv, ReportInv
  <2> DEFINE Good == {p \in Places : nat[p].ino = Ino /\ IsInode(NodeAt(nat[p].block_addr))}
  <2>1. \A p : p \in Good <=> p \in Places /\ IsGood(p)
    BY DEF IsGood
  <2> HIDE DEF Good
  <2>2. ASSUME changes = 0
        PROVE  /\ pc = "done" =>
                    /\ node_block = NodeAt(nat_entry.block_addr)
                    /\ \E p \in Good :
                         /\ nat[p] = nat_entry
                         /\ \A q \in Good : q = p \/ Before(p, q)
               /\ pc = "not_found" => \A p \in Good : p[1] >= NatBlocks
    <3>1. ASSUME pc = "done"
          PROVE  /\ node_block = NodeAt(nat_entry.block_addr)
                 /\ \E p \in Good :
                      /\ nat[p] = nat_entry
                      /\ \A q \in Good : q = p \/ Before(p, q)
      <4>1. node_block = NodeAt(nat_entry.block_addr)
        BY <2>2, <3>1, FirstGoodOnes, NatAssumption, NodesAssumption
      <4>2. PICK p \in Places :
              /\ IsGood(p) /\ nat[p] = nat_entry
              /\ \A q \in Places : IsGood(q) => q = p \/ Before(p, q)
        BY <2>2, <3>1, FirstGoodOnes, NatAssumption, NodesAssumption
      <4>3. QED
        BY <2>1, <4>1, <4>2
    <3>2. pc = "not_found" => \A p \in Good : p[1] >= NatBlocks
      BY <2>1, <2>2, FirstGoodOnes, NatAssumption, NodesAssumption
    <3>3. QED
      BY <3>1, <3>2
  <2>3. QED
    BY <2>2 DEF FirstInodeIsReported, InodeOrExcused, Good
<1>4. QED
  BY <1>1, <1>2, <1>3, SearchInvariance, PTL DEF Spec
=============================================================================
