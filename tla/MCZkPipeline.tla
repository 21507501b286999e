---------------------------- MODULE MCZkPipeline ----------------------------
(* Instances of ZkPipeline for TLC.                                         *)
EXTENDS ZkPipeline

CONSTANTS n1, n2, d1, d2, d3

\* Both nodes hear of both deposits and nothing fails.
mcCalm == [hears |-> [n \in Nodes |-> Deposits], provers |-> {n1}, faults |-> {}]

\* The watcher of one node misses a deposit; anything may fail.
mcRough == [hears |-> [n \in Nodes |-> IF n = n1 THEN {d1, d2} ELSE {d1}],
            provers |-> {n1, n2}, faults |-> Faulty]

mcSetups == {mcCalm, mcRough}

=============================================================================
