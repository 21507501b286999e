SPECIFICATION Spec
CONSTANTS
  p1 = p1
  p2 = p2
  NoOne = NoOne
  Users = {alice}
  BurnIds = {b1, b2}
  Validators = {v1, v2}
  Principals = {p1, p2}
  Amounts = {1, 2}
  Expirations = {3, 5}
  InitParams <- mcFunds
  ConfigUpdates <- mcRetune
  DaySeconds = 2
  MinDelay = 2
  MinQuorumFloor = 2
  ValidatorCap = 3
  MaxU32 = 2
  MaxU64 = 5
  MaxTime = 4
  MaxGift = 1
SYMMETRY mcSymmetry
INVARIANTS VaultBacksLocked PaidOnce DailyOutflowCapped
PROPERTIES PauseHolds
