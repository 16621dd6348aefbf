SPECIFICATION Spec
CONSTANTS
  Streams = {1, 3}
  MaxFrames = 2
  MaxBlock = 1
  MaxBody = 0
  MaxConcurrent = 1
  MaxWindow = 2
  DefaultWindow = 1
  MaxOutFrame = 2
  MaxContent = 3
INVARIANTS
  AtMostOneGoaway
CHECK_DEADLOCK FALSE
