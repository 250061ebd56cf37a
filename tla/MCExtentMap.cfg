SPECIFICATION Spec
CONSTANTS
  NrZones = 3
  ZoneSize = 2
  Word = 6
  Files <- MCFiles
  Dirs <- MCDirs
  Root = "root"
  Parent <- MCParent
  Names <- MCNames
  NameOf <- MCNameOf
  Inline = {"inl"}
  ShowInline = TRUE
  Offset = 1
  MaxBlocks = 3
  WindowDiv = 2
  MaxChanges = 2
  InitContents <- MCInitContents
INVARIANTS
  TypeOK
  ZoneListsInDeviceOrder
  CountersAgree
  CounterMapInBounds
  FileExtentsInOrder
  UntouchedFilesExact
PROPERTIES
  Terminates
  ImplementsCatalog
