----------------------------- MODULE MCZkBridge -----------------------------
(* An instance of ZkBridge for TLC: two lamports to a unit, an hourly cap of *)
(* one large or two small mints, a daily cap in between, windows of two and  *)
(* three blocks, and, as in the code, an anomaly threshold above the cap.    *)
EXTENDS ZkBridge, TLC

CONSTANTS i1, i2, i3, k1, k2, k3, p1, p2

mcCommittees == {[keys |-> {k1, k2}, threshold |-> 2]}
mcSymmetry == Permutations({i1, i2, i3}) \cup Permutations({p1, p2})
=============================================================================
