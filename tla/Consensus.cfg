SPECIFICATION FairSpec
CONSTANTS
  n1 = n1
  n2 = n2
  n3 = n3
  k1 = k1
  k2 = k2
  k3 = k3
  shared = shared
  t1 = t1
  Nodes = {n1, n2}
  Keys = {k1, k2, shared}
  Transfers = {t1, t2}
  Setups <- mcSetups
  Gross <- mcGross
  Net <- mcNet
  MaxDaily = 3
  MaxProcessed = 1
  MaxWindows <- mcWindows
  MaxCrashes = 1
INVARIANTS OutflowLimited   OneVerdict
PROPERTIES RoundsEnd
CHECK_DEADLOCK FALSE
