CONSTANTS
  World = 2
  Requests <- ThreeRequests
  ReadWorkers = 2
  Chunks = 2
  CooperativeBytes = 4
  DirectBytes = 2
  BroadcastBytes = 2
  InFlight = 2
  InFlightBytes = 3
  Budget <- FallingBudget
  FaultPoints = {"prepare", "fit", "submit", "read", "tensor"}
  MaxFaults = 2
SPECIFICATION FairLoadSpec
INVARIANTS
  CollectivesAgree
  NoneLeftWaiting
  YieldedHere
  YieldedOnce
PROPERTIES
  ReadAheadBounded
  AllEnd
CHECK_DEADLOCK FALSE
