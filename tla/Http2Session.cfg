SPECIFICATION Spec
CONSTANTS
  Streams = {1, 2, 3}
  MaxFrames = 5
  MaxBlock = 2
  MaxBody = 1
  MaxConcurrent = 1
  MaxWindow = 1
  DefaultWindow = 1
  MaxOutFrame = 1
  MaxContent = 0
INVARIANTS
  FailureAnnounced
  GoawayCoversRequest
  CompleteRequest
  PrioritiesBounded
PROPERTIES
  CaptureFixed
CHECK_DEADLOCK FALSE
