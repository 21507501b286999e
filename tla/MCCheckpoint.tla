---------------------------- MODULE MCCheckpoint ----------------------------
(* A small instance of Checkpoint for TLC: a committee of two among three  *)
(* candidates; two roots may be pending, or one, after a safety margin.     *)
EXTENDS Checkpoint

mcInit ==
  {[minSignatures |-> 2, maxMembers |-> 2, safetyMargin |-> 0,
    timelock |-> 2, ttlSlots |-> 2, maxPending |-> 2],
   [minSignatures |-> 1, maxMembers |-> 2, safetyMargin |-> 1,
    timelock |-> 1, ttlSlots |-> 1, maxPending |-> 1]}
=============================================================================
