SPECIFICATION Spec
CONSTANTS
  MaxTable = 2
  DefaultTable = 1
  MaxWindow = 2
  MaxEntries = 3
  MaxFrames = 2
  MaxBlocks = 2
  BatchSize = 2
  MaxTableChanges = 4
INVARIANTS
  TablesAgree
  WireOrder
  OneAck
CHECK_DEADLOCK FALSE
