SPECIFICATION Spec
CONSTANTS
  NrZones = 3
  ZoneSize = 4
  Word = 12
  SegSize = 2
  Names <- MCNames
  ZoneCap = 4
  SectorScale = 1
  ByteWord = 64
  ShowInline = TRUE
  ShowClassStats = TRUE
  OptionValues = {0, 2}
  ZoneMaps <- MCZoneMaps
  MaxFiles = 2
  Lengths = {1, 2, 3, 6, 7}
INVARIANTS
  TypeOK
  PartsTileExtents
  LinesUnderTheirHeader
  SimpleFilesCounted
  FileStatsInBounds
PROPERTIES
  EndsFromFirstZone
