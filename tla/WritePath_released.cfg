CONSTANTS
  Jobs = {w1, w2}
  None = None
  Buffers = {b1, b2, b3, b4}
  Blocks <- AllBlocks
  Payload <- DeviceHostDevice
  Starts <- OffsetsOf
  Count = 2
  MaxFaults = 1
SPECIFICATION WriteSpec
INVARIANT NoCopyIntoIdle
CHECK_DEADLOCK FALSE
