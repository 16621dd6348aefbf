SPECIFICATION FairSpec
CONSTANTS
  MaxHead = 14
  VersionLength = 2
  Chunk = 5
  MaxTail = 1
  Peers <- MCPeers
INVARIANTS
  EveryRequestAnswered
  SplitsDoNotMatter
PROPERTIES
  HandlerEnds
CHECK_DEADLOCK FALSE
