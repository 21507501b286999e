SPECIFICATION FairSpec
CONSTANTS
  Unit = 2
  Warn = 2
  Critical = 2
  MaxDeposits = 2
  MaxExcess = 0
  MaxFailures = 1
INVARIANT SolventNotCritical
