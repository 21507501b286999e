SPECIFICATION Following
CONSTANTS
  Burns = {b1, b2}
  NoBurn = NoBurn
  Required = 2
  Lag = 1
  MaxGap = 1
  Faults <- mcAll
  MaxCrashes = 1
  MaxHeight = 5
  Txs = {b1, b2}
  VaultDeposits = {b1, b2}
  NoTx = NoTx
  Limit = 1
  Depth = 1
  Modes = {"poll", "socket"}
  Confirmations = 1
  Failures = {"fetch", "lag", "verify", "seed", "crash", "fork"}
  MaxStops = 1
  MaxInjections = 1
  MaxForks = 1
  MaxSlot = 4
  MaxKeys = 3
  MaxToggles = 2
  Spl = {1}
  Sol = {2}
  Withdrawals = {3}
  Slot <- mcSlots
  Polls = {1, 2}
  Retries = 1
  MaxErrors = 1
  MaxRuns = 3
  MaxSetbacks = 1
  TreeDepth = 3
  MessageIds = {1, 2, 3}
  MaxLeaves = 5
  Width = 2
  IdSize = 4
  Short = 1
  Long = 2
  Version = 1
  Bodies = {0, 1, 2, 3}
  Senders <- mcSenders
  Ids <- mcIds
  Amounts = {1, 3, 4, 7}
  Slots = {0, 5, 15}
INVARIANTS ReportedFinal DepositsFinal KeysKept  CompleteInForce ProofsLead 
PROPERTIES ReportedOrLost 
CHECK_DEADLOCK FALSE
