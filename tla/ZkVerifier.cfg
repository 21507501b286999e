SPECIFICATION Spec
CONSTANTS
  k1 = k1
  k2 = k2
  k3 = k3
  r1 = r1
  r2 = r2
  x1 = x1
  NoOne = NoOne
  NoRoot = NoRoot
  Keys = {k1, k2, k3}
  Committees <- mcCommittees
  Principals = {p1}
  Roots = {r1, r2}
  Messages = {x1}
  Leaves <- mcLeaves
  Lookback = 2
  MaxAge = 0
  Expiry = 1
  UnpauseDelay = 1
  AdminDelay = 1
  MaxProposals = 1
  MaxCheckpoints = 2
  MaxInFlight = 1
  MaxHeight = 2
SYMMETRY mcSymmetry
INVARIANTS CheckpointQuorum QuorumBehindMint
PROPERTIES CheckpointsFinal PauseHolds
