SPECIFICATION Spec
CONSTANTS
  NrZones = 3
  ZoneSize = 4
  Word = 12
  ZoneCap <- MCZoneCap
  Word64 = 64
  Lengths = {0, 1, 2, 6}
  ZoneMaps <- MCZoneMaps
INVARIANTS
  TypeOK
  HolesAreFree
  LeadingHoles
