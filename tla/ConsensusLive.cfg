SPECIFICATION ReliableSpec
CONSTANTS
  n1 = n1
  n2 = n2
  n3 = n3
  k1 = k1
  k2 = k2
  k3 = k3
  shared = shared
  t1 = t1
  Nodes = {n1, n2, n3}
  Keys = {k1, k2, k3, shared}
  Transfers = {t1}
  Setups <- mcAgreed
  Gross <- mcGross
  Net <- mcNet
  MaxDaily = 3
  MaxProcessed = 1
  MaxWindows <- mcNone
  MaxCrashes = 0
PROPERTIES AttestedExecuted
CHECK_DEADLOCK FALSE
