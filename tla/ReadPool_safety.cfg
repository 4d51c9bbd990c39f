CONSTANTS
  f1 = f1
  f2 = f2
  d1 = d1
  d2 = d2
  x = x
  None = None
  Slots = {"s1"}
  Pieces = {d1, d2, x}
  Files = {f1, f2}
  FilesInFlight = 2
  ReadersPerFile = 2
  Threads <- PoolThreads
  FileOrder <- TwoFiles
  PiecesOf <- TwoAndOne
  Jobs <- ThreeJobs
  Faults = {"open", "read", "direct", "alloc", "copy", "record", "fence", "sync"}
  MaxFaults = 1
SPECIFICATION FairPoolSpec
INVARIANTS
  PoolTypeOK
  SlotsApart
  SlotsKept
  OwnBytes
  SpoiledNotRead
  FallbacksTold
PROPERTIES
  Promise
  ReturnsUnlessParked
CHECK_DEADLOCK FALSE
