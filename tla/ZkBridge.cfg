SPECIFICATION Spec
CONSTANTS
  i1 = i1
  i2 = i2
  i3 = i3
  k1 = k1
  k2 = k2
  k3 = k3
  p1 = p1
  p2 = p2
  NoOne = NoOne
  Ids = {i1, i2, i3}
  Keys = {k1, k2, k3}
  Committees <- mcCommittees
  Principals = {p1, p2}
  Amounts = {1, 2, 4}
  Ratio = 2
  MinMint = 2
  MaxSingle = 4
  MaxHourly = 4
  MaxDaily = 6
  LargeTx = 4
  LargeDelay = 2
  HourlyWindow = 2
  DailyWindow = 3
  Anomaly = 8
  UnpauseDelay = 2
  AdminDelay = 2
  MaxHeight = 5
SYMMETRY mcSymmetry
INVARIANTS SupplyAccounted IssuedOnce LargeMintsWait MintRateBounded
PROPERTIES PauseHolds Implements
