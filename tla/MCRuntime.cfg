SPECIFICATION Spec
CONSTANTS
  SizeMax = 127
  AddrMax = 90
  HostAddrs <- MCHost
  Seeds <- MCSeeds
  Types <- MCTypes
  Counts <- MCCounts
  Caps <- MCCaps
  kMaxAlign = 4
  kDefaultChunk = 4
  kMaxChunk = 8
  MaxLive = 3
  Radix = 128
  VarintBytes = 3
  I32Bytes = 1
  I64Bytes = 2
  kMaxFieldNumber = 2047
  SizeTMax = 200
  GroupBytes = {1, 10, 11, 12, 19, 20}
  MaxGroupBytes = 6
  EdgeBytes = {0, 1, 8, 9, 10, 13, 14, 127, 128, 255}
  MaxEdgeBytes = 5
  Inputs <- MCInputs
  GroupFields = {1}
  kMaxGroupDepth = 2
INVARIANTS
  TypeOK
  BlocksInBounds
  BlocksDisjoint
  AccountingExact
  VerdictIsFirstDefect
  FieldsTileTheInput
  ReadersAreSafe
PROPERTIES
  CapacityRespected
  GrowthMakesProgress
  Terminates
CHECK_DEADLOCK FALSE
