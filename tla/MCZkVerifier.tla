---------------------------- MODULE MCZkVerifier ----------------------------
EXTENDS ZkVerifier, TLC

CONSTANTS k1, k2, k3, r1, r2, x1

\* The committee, which may be initialized again and again.
mcCommittees == {[keys |-> {k1, k2, k3}, threshold |-> 2]}
\* Only one of the roots holds the message.
mcLeaves == (r1 :> {x1}) @@ (r2 :> {})
mcSymmetry == Permutations({k1, k2, k3})
=============================================================================
