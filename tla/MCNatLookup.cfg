SPECIFICATION Spec
CONSTANTS
  Ino = 4
  OtherIno = 5
  DirectNid = 6
  NatBlocks = 2
  Slots = 2
  AreaBlocks = 3
  Word = 3
  Offset = 3
  ZnsLength = 4
  InodePlaces <- MCInodePlaces
  Disks <- MCDisks
  MaxChanges = 2
  MCPlacesOfInode = {0, 3}
  MCOutdated = TRUE
INVARIANTS
  TypeOK
  EachEntryOnce
  FirstInodeIsReported
  ReadsBounded
PROPERTIES
  Terminates
