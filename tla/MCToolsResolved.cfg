SPECIFICATION Spec
CONSTANTS
  Word = 33554432
  Word64 = 268435456
  HexBase = 16
  HexLimit = 16777216
  Commands <- MCCommands
  Systems <- MCSystems
  MaxCheckpoints = 2
INVARIANT
  SegmentsResolved
