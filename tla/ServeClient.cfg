SPECIFICATION FairSpec
CONSTANTS
  Clients = {k1, k2}
  MaxReports = 1
INVARIANTS
  ServeInv
  BusyMeansBusy
  StoredWasDelivered
PROPERTIES
  SlotsReturned
