---------------------------- MODULE MCConsensus -----------------------------
(* Instances of Consensus for TLC.                                          *)
EXTENDS Consensus

CONSTANTS n1, n2, n3, k1, k2, k3, shared, t1

mcKeys == [n \in Nodes |-> CASE n = n1 -> k1 [] n = n2 -> k2 [] OTHER -> k3]

\* Unlocks: two validators, each with a key of its own, must agree.
mcUnlock == [key |-> mcKeys, message |-> [n \in Nodes |-> 1], required |-> 2,
             events |-> [n \in Nodes |-> 1]]

\* The last validator charges another fee, so it signs another amount.
mcDisagree == [mcUnlock EXCEPT !.message = [n \in Nodes |-> IF n = n1 THEN 1 ELSE 2]]

\* Mints: one attestation will do, and all nodes sign with one key.
mcMint == [mcUnlock EXCEPT !.key = [n \in Nodes |-> shared], !.required = 1]

\* One transfer, of which the first node is told twice.
mcOne(c) ==
  [of |-> [t \in Transfers |->
             [c EXCEPT !.events = [n \in Nodes |-> IF t # t1 THEN 0
                                                   ELSE IF n = n1 THEN 2 ELSE 1]]],
   faults |-> Faulty]

\* All transfers, agreed upon, and nothing fails.
mcCalm == [of |-> [t \in Transfers |-> mcUnlock], faults |-> {}]

mcSetups == {mcOne(mcUnlock), mcOne(mcDisagree), mcOne(mcMint), mcCalm}
mcAgreed == {mcCalm}

mcWindows == [n \in Nodes |-> IF n = n1 THEN 1 ELSE 0]
mcNone == [n \in Nodes |-> 0]
mcGross == [t \in Transfers |-> 3]
mcNet == [t \in Transfers |-> 2]
=============================================================================
