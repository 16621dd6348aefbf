SPECIFICATION FairServiceSpec
CONSTANTS
  Main = Main
  Callers = {Main}
  Clients = {k1, k2, k3}
  MaxClients = 2
  MaxEpoch = 2
  Nobody = Nobody
  MaxSignals = 4
INVARIANTS
  ServiceInv
  StorageClosedLast
PROPERTIES
  ProgramEnds
CHECK_DEADLOCK FALSE
