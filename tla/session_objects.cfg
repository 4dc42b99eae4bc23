CONSTANTS
  R = 3
  Q = 7
  P = 2
  Gen = 2
  SizeOf <- Sizes
  MemoryLimit = 7
  Structure <- Structures
  Radix = 3
  MaxU64 = 2
  MaxArity = 2
  x1 = x1
  x2 = x2
  Local = {x1, x2}
  NoPoint = NoPoint
  N = 3
  HighBit = 7
  NumPointsLimit = 3
  MaxKept = 2
  HashBase = 2
  GroupOrder = 5
  Message = {1, 2}
  MaxSigners = 2
  MAX_NUM_OF_KEYS = 2
  Owners = {"A"}
  MAX_GUID_CREATION_NUM = 2
  INIT_GUID_CREATION_NUM = 2
  MaxSeqNum = 2
  ByteBase = 2
  CounterSize = 2
  MaxTxns = 2
  MaxCalls = 3
SPECIFICATION Spec
\* When the transactions of the bound have ended nothing is left to do.
CHECK_DEADLOCK FALSE
INVARIANTS
  HandlesAreSound
  ComputesTruly
  PointsAreValues
  VerdictsAreTrue
  StreamsAreGapless
  DrawsAreFresh
