SPECIFICATION FairSpec
CONSTANTS
  Callers = {a, b}
  Clients = {k1}
  MaxClients = 1
  MaxEpoch = 3
  Nobody = Nobody
INVARIANTS
  LifecycleInv
  ShutdownExclusive
  CloseIsComplete
  ReplacementSafe
PROPERTIES
  PhasesImplemented
  CallsReturn
