SPECIFICATION Spec
CONSTANTS
  n1 = n1
  n2 = n2
  d1 = d1
  d2 = d2
  d3 = d3
  Setups <- mcSetups
  Nodes = {n1, n2}
  Deposits = {d1, d2}
  Threshold = 2
  MaxEvents = 2
  Matching = {d1}
  Slots = {1, 2, 3, 4}
  MaxCrashes = 1
  MaxProposals = 2
  MaxCheckpoints = 2
INVARIANTS MintedOnlyIfHeard Accounted
CHECK_DEADLOCK FALSE
