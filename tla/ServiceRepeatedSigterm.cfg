SPECIFICATION ServiceSpec
CONSTANTS
  Main = Main
  Callers = {Main}
  Clients = {k1}
  MaxClients = 2
  MaxEpoch = 2
  Nobody = Nobody
  MaxSignals = 2
INVARIANTS
  ServerStoppedFirst
CHECK_DEADLOCK FALSE
