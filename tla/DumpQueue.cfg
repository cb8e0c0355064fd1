SPECIFICATION Spec
CONSTANTS
  o1 = o1
  o2 = o2
  b1 = b1
  b2 = b2
  b3 = b3
  b4 = b4
  Outputs = {o1, o2}
  Buffers = {b1, b2, b3, b4}
  NoBuffer = NoBuffer
  ChainCap = 2
  MaxSessions = 3
  MaxQueue = 4
SYMMETRY Symmetry
INVARIANTS TypeOK Accounted UnacknowledgedAreLast DumpedStaysGranted NothingLeaks AllocatorOutlivesBuffers
CHECK_DEADLOCK FALSE
