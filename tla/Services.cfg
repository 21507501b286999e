SPECIFICATION Serving
CONSTANTS
  Unit = 2
  Warn = 2
  Critical = 2
  MaxDeposits = 1
  MaxExcess = 1
  MaxFailures = 2
PROPERTIES  InsolvencyReported InsolvencyPauses StuckSettled PeersReachable
CHECK_DEADLOCK FALSE
