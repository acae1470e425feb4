SPECIFICATION Spec
CONSTANTS
  v1 = v1
  v2 = v2
  Bad = Bad
  Absent = Absent
  Junk = Junk
  Pending = Pending
  NoError = NoError
  Schema <- MCSchema
  Inputs <- MCInputs
  Records <- MCRecords
  kMaxDecodeDepth = 2
  FirstCapacity = 2
  Width <- MCWidth
  SizeMax = 8191
  AddrMax = 4000
  HostAddrs <- MCHost
  Seeds = {}
  Types = {}
  Counts = {}
  Caps = {}
  kMaxAlign = 4
  kDefaultChunk = 8
  kMaxChunk = 32
  MaxLive = 100
  Decodes = {}
  MallocBudget = 7
  Radix = 8
  VarintBytes = 10
  I32Bytes = 4
  I64Bytes = 8
  kMaxFieldNumber = 2047
  SizeTMax = 200
  PackedSpans = {}
  Beyond = 0
  kPackedKernelMinSpan = 20
  Window = 12
  ReclassifyMin = 20
  Traction = 12
  Kinds = {1, 2, 3, 4, 8, 9, 10, 11, 12}
  RunLengths = {1, 4, 12}
  MaxRuns = 3
  MaxSpan = 48
INVARIANT TrueSizePassed
CHECK_DEADLOCK FALSE
