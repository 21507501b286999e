------------------------------- MODULE Merkle -------------------------------
(***************************************************************************)
(* The tree of a checkpoint, as the code builds it in two ways.  The       *)
(* validators (zk/zk-utils.ts; the recovery scripts have copies) hash all  *)
(* 2^Depth leaves.  The prover service (zk/prover/src/merkle.ts) stores,   *)
(* of each level, only the prefix above real leaves.                       *)
(*                                                                         *)
(* A hash is the term that was hashed: hashes collide nowhere.  Message 0  *)
(* is 32 zero bytes.                                                       *)
(***************************************************************************)
EXTENDS Integers, Sequences, SequencesExt

CONSTANTS
  Depth,        \* 20
  Messages,     \* message ids, not 0
  MaxMessages   \* bound of the model: messages under a root

VARIABLE messages      \* the message ids of a window, in order

Init == messages = <<>>

\* A deposit joins the window.
Add(m) ==
  /\ Len(messages) < MaxMessages
  /\ messages' = Append(messages, m)

Next == \E m \in Messages : Add(m)

Spec == Init /\ [][Next]_messages

Leaf(m) == <<"leaf", m>>
Node(l, r) == <<"node", l, r>>
Raw(m) == <<"raw", m>>                \* hashed without the prefix of a leaf

Size(d) == 2 ^ (Depth - d)            \* of level d; the leaves are level 0

(***************************************************************************)
(* buildMerkleTree, getMerkleProof                                         *)
(***************************************************************************)
Levels(padding) ==
  LET level[d \in 0..Depth] ==
        IF d = 0
        THEN [i \in 0..Size(0) - 1 |-> IF i < Len(messages) THEN Leaf(messages[i + 1])
                                       ELSE padding]
        ELSE [i \in 0..Size(d) - 1 |-> Node(level[d - 1][2 * i], level[d - 1][2 * i + 1])]
  IN level

Padding == Leaf(0)
Root == Levels(Padding)[Depth][0]

Sibling(i) == IF i % 2 = 0 THEN i + 1 ELSE i - 1

GetMerkleProof(leaf) ==
  LET level == Levels(Padding) IN
  [siblings |-> [d \in 1..Depth |-> level[d - 1][Sibling(leaf \div 2 ^ (d - 1))]],
   path |-> [d \in 1..Depth |-> (leaf \div 2 ^ (d - 1)) % 2]]

(***************************************************************************)
(* MerkleTree                                                              *)
(***************************************************************************)
\* computeEmptyLeaf
EmptyLeaf == Raw(0)

EmptyHashes ==
  LET hash[d \in 0..Depth] == IF d = 0 THEN EmptyLeaf ELSE Node(hash[d - 1], hash[d - 1])
  IN hash

StoredEven(size) ==          \* mutation: rounds down
  IF size <= 1 THEN 1 ELSE size \div 2

StoredSize(size) == IF size <= 1 THEN 1 ELSE (size + 1) \div 2

BuildFromMessageIds ==
  LET layers[d \in 0..Depth] ==
        IF d = 0 THEN [i \in 1..Len(messages) |-> Leaf(messages[i])]
        ELSE LET prev == layers[d - 1]
                 At(i) == IF i <= Len(prev) THEN prev[i] ELSE EmptyHashes[d - 1]
             IN [i \in 1..StoredSize(Len(prev)) |-> Node(At(2 * i - 1), At(2 * i))]
  IN layers

NodeAt(layers, d, i) == IF i < Len(layers[d]) THEN layers[d][i + 1] ELSE EmptyHashes[d]

ProverRoot == BuildFromMessageIds[Depth][1]

GetProof(leaf) ==
  LET layers == BuildFromMessageIds IN
  [siblings |-> [d \in 1..Depth |-> NodeAt(layers, d - 1, Sibling(leaf \div 2 ^ (d - 1)))],
   path |-> [d \in 1..Depth |-> (leaf \div 2 ^ (d - 1)) % 2]]

\* verifyProof, and the circuit: the root that a proof leads to
Climb(leaf, proof) ==
  FoldLeftDomain(LAMBDA hash, d : IF proof.path[d] = 0 THEN Node(hash, proof.siblings[d])
                                  ELSE Node(proof.siblings[d], hash),
                 leaf, proof.path)

----------------------------------------------------------------------------
\* Either proof of every leaf leads to its own tree's root from that leaf and
\* from no other one, wherever the leaf stands and however much of the tree is
\* stored or implied.
ProofsLead ==
  \A i \in 1..Len(messages) : \A m \in Messages \cup {0} :
     /\ (Climb(Leaf(m), GetMerkleProof(i - 1)) = Root) <=> (m = messages[i])
     /\ (Climb(Leaf(m), GetProof(i - 1)) = ProverRoot) <=> (m = messages[i])
=============================================================================
