SPECIFICATION Spec
CONSTANTS
  Members = {m1, m2, m3}
  Principals = {auth, guard}
  Authority = auth
  Guardian = guard
  Slots = {1, 2, 3}
  Roots = {zero, root}
  ZeroRoot = zero
  InitParams <- mcInit
  ResumeTimelock = 2
  MaxTime = 7
  MaxSlot = 5
INVARIANTS PendingCounted CheckpointsOrdered TimelockHeld
PROPERTIES SubmissionsHeld CommitteeKeepsQuorum
