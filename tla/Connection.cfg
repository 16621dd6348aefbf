SPECIFICATION FairSpec
CONSTANTS
  HeaderSize = 2
  MaxRecord = 3
  MaxHello = 3
  MaxHandshake = 8
  MaxData = 2
INVARIANTS
  ConnectionInv
  EndsWithNotify
  JudgedWhole
PROPERTIES
  PendingWritesDiscarded
  CloseReturns
CHECK_DEADLOCK FALSE
