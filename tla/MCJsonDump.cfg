SPECIFICATION Spec
CONSTANTS
  NrZones = 4
  ZoneSize = 4
  Word = 16
  SegSize = 2
  ZoneCap = 3
  KeyBase = 2
  KeyLimit = 3
  OptionValues = {0, 2}
  ZoneMaps <- MCZoneMaps
  Lengths = {1, 3, 6}
INVARIANTS
  TypeOK
  PiecesInPlace
  MissingIsKnown
