SPECIFICATION Spec
CONSTANTS
  Layers = {"f2fs"}
  Setups = {{"f2fs", "inode"}, {"rocksdb"}}
  Inodes = {1, 2}
  Names = {"old", "new"}
  NoName = "no name"
  NamedBefore <- MCNamedBefore
  Threads = {1, 2}
  Addresses = {"near", "far"}
  MapKeys <- MCMapKeys
  BufferSize = 1
  MaxCalls = 4
  MaxIntervals = 2
INVARIANTS
  TypeOK
  EventsShownOnce
  FileIsOfItsTime
  JobsShownWithTheirEnds
