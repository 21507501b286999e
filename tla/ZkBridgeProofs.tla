-------------------------- MODULE ZkBridgeProofs ----------------------------
(***************************************************************************)
(* Theorems about ZkBridge for every value of its constants: any ids, any  *)
(* committee, any caps, thresholds and delays.                             *)
(***************************************************************************)
EXTENDS ZkBridge, SumTheorems, SequenceTheorems

----------------------------------------------------------------------------
(* The clock, the pause and the queue stay in their types.  That the counters *)
(* never go negative rests on a sum over the queue, below.                    *)

CoreTypeOK ==
  /\ height \in Nat
  /\ paused \in BOOLEAN /\ haltedAt \in Int /\ unpauseAt \in Nat
  /\ queue \in [Ids -> [amount : Nat, height : Nat]]
  /\ accepted \in Seq(Mints) /\ issued \in Seq(Mints)

LEMMA ConstantTypes ==
  /\ \A a \in Amounts : a \in Nat
  /\ Ratio \in Nat /\ Ratio > 0
  /\ UnpauseDelay \in Nat /\ LargeDelay \in Nat /\ LargeTx \in Nat
<1>1. \A a \in Amounts : a \in Nat
  BY ZkBridgeConstants
<1>2. Ratio \in Nat /\ Ratio > 0
  BY ZkBridgeConstants
<1>3. UnpauseDelay \in Nat /\ LargeDelay \in Nat /\ LargeTx \in Nat
  BY ZkBridgeConstants
<1>4. QED
  BY <1>1, <1>2, <1>3

LEMMA DivType ==
  ASSUME NEW r \in Nat, r > 0, NEW a \in Nat
  PROVE  /\ a \div r \in Nat
         /\ r * (a \div r) <= a
         /\ a < r * (a \div r) + r
  OBVIOUS

LEMMA UnitsType == \A a \in Nat : a \div Ratio \in Nat
<1>1. Ratio \in Nat /\ Ratio > 0
  BY ConstantTypes
<1>2. QED
  BY <1>1, DivType

LEMMA NotQueuedType == NotQueued \in [amount : Nat, height : Nat]
  BY DEF NotQueued

LEMMA IssueType ==
  ASSUME CoreTypeOK, NEW id \in Ids, NEW u \in Nat, Issue(id, u)
  PROVE  issued' \in Seq(Mints)
<1>1. [id |-> id, amount |-> u, height |-> height] \in Mints
  BY DEF Mints, CoreTypeOK
<1>2. QED
  BY <1>1, AppendProperties DEF Issue, CoreTypeOK

\* The two mint paths differ only in who may take them.
Minted == /\ ~paused
          /\ \E id \in Ids, a \in Amounts : Mint(id, a)

Executed == \E id \in Ids : ExecutePendingMint(id)
Cancelled == \E p \in Principals, id \in Ids : CancelPendingMint(p, id)
MintsKept == UNCHANGED mintVars

\* What a step may do to the mints.
LEMMA MintSteps ==
  ASSUME [Next]_vars
  PROVE  \/ Minted
         \/ Executed /\ ~paused
         \/ Cancelled
         \/ MintsKept
<1> USE DEF MintsKept
<1>1. ASSUME NEW id \in Ids, NEW a \in Amounts, NEW s \in SUBSET Keys,
             CommitteeMint(id, a, s)
      PROVE  Minted
  BY <1>1 DEF CommitteeMint, Minted
<1>2. ASSUME NEW id \in Ids, NEW a \in Amounts, NEW p \in Principals,
             ZkMintAuthorized(p, id, a)
      PROVE  Minted
  BY <1>2 DEF ZkMintAuthorized, Minted
<1>3. ASSUME NEW id \in Ids, ExecutePendingMint(id)
      PROVE  Executed /\ ~paused
  BY <1>3 DEF ExecutePendingMint, Executed
<1>4. ASSUME NEW a \in Amounts, Burn(a)
      PROVE  MintsKept
  BY <1>4 DEF Burn
<1>5. ASSUME NEW p \in Principals,
             EmergencyPause(p) \/ RequestUnpause(p) \/ ExecuteUnpause(p)
      PROVE  MintsKept
  BY <1>5 DEF EmergencyPause, RequestUnpause, ExecuteUnpause
<1>6. ASSUME NEW p \in Principals, NEW q \in Principals,
             \/ AcceptAdmin(p) \/ TransferAdmin(p, q) \/ UpdateGuardian(p, q)
             \/ SetZkVerifier(p, q)
      PROVE  MintsKept
  BY <1>6 DEF AcceptAdmin, TransferAdmin, UpdateGuardian, SetZkVerifier, otherVars
<1>7. ASSUME NEW p \in Principals, NEW c \in Committees, InitializeCommittee(p, c)
      PROVE  MintsKept
  BY <1>7 DEF InitializeCommittee, otherVars
<1>8. CASE NewBlock
  BY <1>8 DEF NewBlock
<1>9. CASE UNCHANGED vars
  BY <1>9 DEF vars
<1>10. QED
  BY <1>1, <1>2, <1>3, <1>4, <1>5, <1>6, <1>7, <1>8, <1>9 DEF Next, Cancelled

\* Every step leaves the pause alone, or is a mint or one of the emergency
\* controls; only a new block moves the height.
PauseKept == UNCHANGED pauseVars /\ (UNCHANGED height \/ height' = height + 1)

LEMMA PauseSteps ==
  ASSUME [Next]_vars
  PROVE  \/ PauseKept
         \/ Minted
         \/ \E p \in Principals :
               EmergencyPause(p) \/ RequestUnpause(p) \/ ExecuteUnpause(p)
<1> USE DEF PauseKept
<1>1. ASSUME NEW id \in Ids, NEW a \in Amounts, NEW s \in SUBSET Keys,
             CommitteeMint(id, a, s)
      PROVE  Minted
  BY <1>1 DEF CommitteeMint, Minted
<1>2. ASSUME NEW id \in Ids, NEW a \in Amounts, NEW p \in Principals,
             ZkMintAuthorized(p, id, a)
      PROVE  Minted
  BY <1>2 DEF ZkMintAuthorized, Minted
<1>3. ASSUME NEW id \in Ids, ExecutePendingMint(id)
      PROVE  PauseKept
  BY <1>3 DEF ExecutePendingMint
<1>4. ASSUME NEW p \in Principals, NEW id \in Ids, CancelPendingMint(p, id)
      PROVE  PauseKept
  BY <1>4 DEF CancelPendingMint
<1>5. ASSUME NEW a \in Amounts, Burn(a)
      PROVE  PauseKept
  BY <1>5 DEF Burn
<1>6. ASSUME NEW p \in Principals, NEW q \in Principals,
             \/ AcceptAdmin(p) \/ TransferAdmin(p, q) \/ UpdateGuardian(p, q)
             \/ SetZkVerifier(p, q)
      PROVE  PauseKept
  BY <1>6 DEF AcceptAdmin, TransferAdmin, UpdateGuardian, SetZkVerifier, otherVars
<1>7. ASSUME NEW p \in Principals, NEW c \in Committees, InitializeCommittee(p, c)
      PROVE  PauseKept
  BY <1>7 DEF InitializeCommittee, otherVars
<1>8. CASE NewBlock
  BY <1>8 DEF NewBlock
<1>9. CASE UNCHANGED vars
  BY <1>9 DEF vars
<1>10. QED
  BY <1>1, <1>2, <1>3, <1>4, <1>5, <1>6, <1>7, <1>8, <1>9 DEF Next

\* What a mint does to the height and the pause.
LEMMA MintEffect ==
  ASSUME CoreTypeOK, NEW id \in Ids, NEW a \in Amounts, Mint(id, a)
  PROVE  /\ height' = height /\ unpauseAt' = unpauseAt
         /\ (paused' = TRUE /\ haltedAt' = height) \/ UNCHANGED <<paused, haltedAt>>
  BY DEF Mint

LEMMA MintTypes ==
  ASSUME CoreTypeOK, Minted
  PROVE  CoreTypeOK'
<1> PICK id \in Ids, a \in Amounts : Mint(id, a)
  BY DEF Minted
<1>1. a \in Nat /\ a \div Ratio \in Nat
  BY ConstantTypes, UnitsType
<1>2. height \in Nat
  BY DEF CoreTypeOK
<1>3. [id |-> id, amount |-> a, height |-> height] \in Mints
  BY <1>1, <1>2 DEF Mints
<1>4. accepted' \in Seq(Mints)
  BY <1>3, AppendProperties DEF Mint, CoreTypeOK
<1>5. issued' \in Seq(Mints)
  <2>1. CASE Issue(id, a \div Ratio)
    BY <1>1, <2>1, IssueType
  <2>2. CASE UNCHANGED issued
    BY <2>2 DEF CoreTypeOK
  <2>3. QED
    BY <2>1, <2>2 DEF Mint
<1>6. queue' \in [Ids -> [amount : Nat, height : Nat]]
  <2>1. [amount |-> a \div Ratio, height |-> height] \in [amount : Nat, height : Nat]
    BY <1>1, <1>2
  <2>2. \/ queue' = [queue EXCEPT ![id] = [amount |-> a \div Ratio, height |-> height]]
        \/ queue' = queue
    BY DEF Mint
  <2>3. queue \in [Ids -> [amount : Nat, height : Nat]]
    BY DEF CoreTypeOK
  <2>4. QED
    BY <2>1, <2>2, <2>3
<1>7. /\ height' = height /\ unpauseAt' = unpauseAt /\ paused' \in BOOLEAN
      /\ haltedAt' = height \/ haltedAt' = haltedAt
  BY MintEffect DEF CoreTypeOK
<1>8. height' \in Nat /\ unpauseAt' \in Nat /\ haltedAt' \in Int
  BY <1>7 DEF CoreTypeOK
<1>9. QED
  BY <1>4, <1>5, <1>6, <1>7, <1>8 DEF CoreTypeOK

LEMMA NextTypes == CoreTypeOK /\ [Next]_vars => CoreTypeOK'
<1> SUFFICES ASSUME CoreTypeOK, [Next]_vars PROVE CoreTypeOK'
  OBVIOUS
<1>1. ASSUME ~Minted
      PROVE  /\ queue' \in [Ids -> [amount : Nat, height : Nat]]
             /\ accepted' \in Seq(Mints) /\ issued' \in Seq(Mints)
  <2>1. ASSUME NEW id \in Ids, ExecutePendingMint(id)
        PROVE  /\ queue' \in [Ids -> [amount : Nat, height : Nat]]
               /\ accepted' \in Seq(Mints) /\ issued' \in Seq(Mints)
    <3>1. queue[id].amount \in Nat
      BY DEF CoreTypeOK
    <3>2. issued' \in Seq(Mints)
      BY <2>1, <3>1, IssueType DEF ExecutePendingMint
    <3>3. queue' \in [Ids -> [amount : Nat, height : Nat]] /\ accepted' = accepted
      BY <2>1, NotQueuedType DEF ExecutePendingMint, CoreTypeOK
    <3>4. QED
      BY <3>2, <3>3 DEF CoreTypeOK
  <2>2. ASSUME NEW p \in Principals, NEW id \in Ids, CancelPendingMint(p, id)
        PROVE  /\ queue' \in [Ids -> [amount : Nat, height : Nat]]
               /\ accepted' \in Seq(Mints) /\ issued' \in Seq(Mints)
    BY <2>2, NotQueuedType DEF CancelPendingMint, CoreTypeOK
  <2>3. CASE MintsKept
    BY <2>3 DEF MintsKept, mintVars, CoreTypeOK
  <2>4. QED
    BY <1>1, <2>1, <2>2, <2>3, MintSteps DEF Executed, Cancelled
<1>2. ASSUME ~Minted
      PROVE  /\ height' \in Nat /\ paused' \in BOOLEAN
             /\ haltedAt' \in Int /\ unpauseAt' \in Nat
  <2>1. height \in Nat /\ paused \in BOOLEAN /\ haltedAt \in Int /\ unpauseAt \in Nat
    BY DEF CoreTypeOK
  <2>2. CASE PauseKept
    BY <2>1, <2>2 DEF PauseKept, pauseVars
  <2>3. ASSUME NEW p \in Principals, EmergencyPause(p)
        PROVE  /\ height' \in Nat /\ paused' \in BOOLEAN
               /\ haltedAt' \in Int /\ unpauseAt' \in Nat
    BY <2>1, <2>3 DEF EmergencyPause
  <2>4. ASSUME NEW p \in Principals, RequestUnpause(p)
        PROVE  /\ height' \in Nat /\ paused' \in BOOLEAN
               /\ haltedAt' \in Int /\ unpauseAt' \in Nat
    BY Zenon, <2>1, <2>4 DEF RequestUnpause
  <2>5. ASSUME NEW p \in Principals, ExecuteUnpause(p)
        PROVE  /\ height' \in Nat /\ paused' \in BOOLEAN
               /\ haltedAt' \in Int /\ unpauseAt' \in Nat
    BY <2>1, <2>5 DEF ExecuteUnpause
  <2>6. QED
    BY <1>2, <2>2, <2>3, <2>4, <2>5, PauseSteps
<1>3. CASE ~Minted
  BY <1>1, <1>2, <1>3 DEF CoreTypeOK
<1>4. QED
  BY <1>3, MintTypes

LEMMA InitTypes == Init => CoreTypeOK
<1> SUFFICES ASSUME Init PROVE CoreTypeOK
  OBVIOUS
<1>1. /\ height = 1 /\ paused = FALSE /\ unpauseAt = 0
      /\ haltedAt = 1 - UnpauseDelay /\ queue = [i \in Ids |-> NotQueued]
      /\ accepted = <<>> /\ issued = <<>>
  BY Zenon DEF Init, Genesis
<1>2. haltedAt \in Int
  BY <1>1, ConstantTypes
<1>3. queue \in [Ids -> [amount : Nat, height : Nat]]
  BY <1>1, NotQueuedType
<1>4. accepted \in Seq(Mints) /\ issued \in Seq(Mints)
  BY <1>1
<1>5. height \in Nat /\ paused \in BOOLEAN /\ unpauseAt \in Nat
  BY <1>1
<1>6. QED
  BY <1>2, <1>3, <1>4, <1>5 DEF CoreTypeOK

LEMMA CoreTypes == Spec => []CoreTypeOK
  BY InitTypes, NextTypes, PTL DEF Spec

----------------------------------------------------------------------------
(* The pause *)

\* A request is only stored while the bridge is paused, and after the pause took
\* effect; the bridge runs only when the last pause is the whole delay away.
PauseInv ==
  /\ haltedAt <= height
  /\ unpauseAt # 0 => paused /\ haltedAt <= unpauseAt
  /\ ~paused => height - haltedAt >= UnpauseDelay

\* What was far enough away stays so.
LEMMA Later ==
  ASSUME NEW a \in Nat, NEW b \in Nat, NEW h \in Int, NEW d \in Nat,
         b >= a, a - h >= d
  PROVE  b - h >= d
  OBVIOUS

LEMMA PauseStep == CoreTypeOK /\ PauseInv /\ [Next]_vars => PauseInv'
<1> SUFFICES ASSUME CoreTypeOK, PauseInv, [Next]_vars PROVE PauseInv'
  OBVIOUS
<1>0. /\ height \in Nat /\ height' \in Nat /\ haltedAt \in Int
      /\ unpauseAt \in Nat /\ UnpauseDelay \in Nat /\ haltedAt <= height
  BY NextTypes, ConstantTypes DEF CoreTypeOK, PauseInv
<1>1. ASSUME UNCHANGED <<paused, unpauseAt, haltedAt>>, height' >= height
      PROVE  PauseInv'
  <2>1. /\ paused' = paused /\ unpauseAt' = unpauseAt /\ haltedAt' = haltedAt
    BY <1>1
  <2>2. haltedAt <= height'
    BY <1>0, <1>1
  <2>3. height - haltedAt >= UnpauseDelay => height' - haltedAt >= UnpauseDelay
    BY <1>0, <1>1, Later
  <2>4. haltedAt' <= height'
    BY <2>1, <2>2
  <2>5. height - haltedAt >= UnpauseDelay => height' - haltedAt' >= UnpauseDelay
    BY <2>1, <2>3
  <2>6. QED
    BY Zenon, <2>1, <2>4, <2>5 DEF PauseInv
<1>2. CASE PauseKept
  <2>1. height' >= height
    BY <1>0, <1>2 DEF PauseKept
  <2>2. QED
    BY <1>1, <1>2, <2>1 DEF PauseKept, pauseVars
<1>3. CASE Minted
  <2>1. PICK id \in Ids, a \in Amounts : Mint(id, a)
    BY <1>3 DEF Minted
  <2>2. /\ height' = height /\ unpauseAt' = unpauseAt
        /\ (paused' = TRUE /\ haltedAt' = height) \/ UNCHANGED <<paused, haltedAt>>
    BY <2>1, MintEffect
  <2>3. unpauseAt = 0
    BY Zenon, <1>3 DEF Minted, PauseInv
  <2>4. CASE paused' = TRUE /\ haltedAt' = height
    <3>1. haltedAt' <= height' /\ unpauseAt' = 0 /\ paused'
      BY <1>0, <2>2, <2>3, <2>4
    <3>2. QED
      BY Zenon, <3>1 DEF PauseInv
  <2>5. CASE UNCHANGED <<paused, haltedAt>>
    <3>1. height' >= height
      BY <1>0, <2>2
    <3>2. QED
      BY <1>1, <2>2, <2>5, <3>1
  <2>6. QED
    BY <2>2, <2>4, <2>5
<1>4. ASSUME NEW p, EmergencyPause(p)
      PROVE  PauseInv'
  <2>1. /\ paused' /\ unpauseAt' = unpauseAt /\ height' = height
        /\ haltedAt' = IF paused THEN haltedAt ELSE height
    BY Zenon, <1>4 DEF EmergencyPause
  <2>2. CASE paused
    <3>1. haltedAt' = haltedAt /\ haltedAt' <= height'
      BY <1>0, <2>1, <2>2
    <3>2. QED
      BY Zenon, <2>1, <2>2, <3>1 DEF PauseInv
  <2>3. CASE ~paused
    <3>1. unpauseAt' = 0
      BY Zenon, <2>1, <2>3 DEF PauseInv
    <3>2. haltedAt' <= height'
      BY <1>0, <2>1, <2>3
    <3>3. QED
      BY Zenon, <2>1, <3>1, <3>2 DEF PauseInv
  <2>4. QED
    BY <2>2, <2>3
<1>5. ASSUME NEW p, RequestUnpause(p)
      PROVE  PauseInv'
  <2>1. /\ paused /\ paused' = paused /\ unpauseAt' = height
        /\ height' = height /\ haltedAt' = haltedAt
    BY Zenon, <1>5 DEF RequestUnpause
  <2>2. haltedAt' <= height' /\ haltedAt' <= unpauseAt'
    BY <1>0, <2>1
  <2>3. QED
    BY Zenon, <2>1, <2>2 DEF PauseInv
<1>6. ASSUME NEW p, ExecuteUnpause(p)
      PROVE  PauseInv'
  <2>1. /\ unpauseAt # 0 /\ height - unpauseAt >= UnpauseDelay
        /\ unpauseAt' = 0 /\ height' = height /\ haltedAt' = haltedAt
    BY <1>6 DEF ExecuteUnpause
  <2>2. haltedAt <= unpauseAt
    BY <2>1 DEF PauseInv
  <2>3. height - haltedAt >= UnpauseDelay
    BY <1>0, <2>1, <2>2
  <2>4. height' - haltedAt' >= UnpauseDelay /\ haltedAt' <= height'
    BY <1>0, <2>1, <2>3
  <2>5. QED
    BY Zenon, <2>1, <2>4 DEF PauseInv
<1>7. QED
  BY <1>2, <1>3, <1>4, <1>5, <1>6, PauseSteps

LEMMA PauseInit == Init => PauseInv
<1> SUFFICES ASSUME Init PROVE PauseInv
  OBVIOUS
<1>1. height = 1 /\ paused = FALSE /\ unpauseAt = 0 /\ haltedAt = 1 - UnpauseDelay
  BY Zenon DEF Init, Genesis
<1>2. haltedAt <= height /\ height - haltedAt >= UnpauseDelay
  BY <1>1, ConstantTypes
<1>3. QED
  BY Zenon, <1>1, <1>2 DEF PauseInv

\* Nothing is accepted, issued or burned while the bridge is paused.
LEMMA MovesUnpaused ==
  ASSUME [Next]_vars,
         accepted' # accepted \/ issued' # issued \/ totalBurned' # totalBurned
  PROVE  ~paused
<1>1. CASE Minted \/ (Executed /\ ~paused)
  BY <1>1 DEF Minted
<1>2. CASE Cancelled
  BY <1>2 DEF Cancelled, CancelPendingMint
<1>3. CASE MintsKept
  <2>1. totalBurned' # totalBurned
    BY <1>3 DEF MintsKept, mintVars
  <2>2. ASSUME NEW id \in Ids, NEW a \in Amounts, NEW s \in SUBSET Keys,
               CommitteeMint(id, a, s)
        PROVE  ~paused
    BY <2>2 DEF CommitteeMint
  <2>3. ASSUME NEW id \in Ids, NEW a \in Amounts, NEW p \in Principals,
               ZkMintAuthorized(p, id, a)
        PROVE  ~paused
    BY <2>3 DEF ZkMintAuthorized
  <2>4. ASSUME NEW id \in Ids, ExecutePendingMint(id)
        PROVE  ~paused
    BY <2>4 DEF ExecutePendingMint
  <2>5. ASSUME NEW p \in Principals, NEW id \in Ids, CancelPendingMint(p, id)
        PROVE  FALSE
    BY <2>1, <2>5 DEF CancelPendingMint
  <2>6. ASSUME NEW a \in Amounts, Burn(a)
        PROVE  ~paused
    BY <2>6 DEF Burn
  <2>7. ASSUME NEW p \in Principals,
               EmergencyPause(p) \/ RequestUnpause(p) \/ ExecuteUnpause(p)
        PROVE  FALSE
    BY <2>1, <2>7 DEF EmergencyPause, RequestUnpause, ExecuteUnpause, supplyVars
  <2>8. ASSUME NEW p \in Principals, NEW q \in Principals,
               \/ AcceptAdmin(p) \/ TransferAdmin(p, q) \/ UpdateGuardian(p, q)
               \/ SetZkVerifier(p, q)
        PROVE  FALSE
    BY <2>1, <2>8 DEF AcceptAdmin, TransferAdmin, UpdateGuardian, SetZkVerifier,
                      otherVars, supplyVars
  <2>9. ASSUME NEW p \in Principals, NEW c \in Committees, InitializeCommittee(p, c)
        PROVE  FALSE
    BY <2>1, <2>9 DEF InitializeCommittee, otherVars, supplyVars
  <2>10. CASE NewBlock
    BY <2>1, <2>10 DEF NewBlock, supplyVars
  <2>11. CASE UNCHANGED vars
    BY <2>1, <2>11 DEF vars, supplyVars
  <2>12. QED
    BY <2>2, <2>3, <2>4, <2>5, <2>6, <2>7, <2>8, <2>9, <2>10, <2>11 DEF Next
<1>4. QED
  BY <1>1, <1>2, <1>3, MintSteps

\* Once a pause has taken effect, also the one a mint triggers, nothing is
\* accepted, issued or burned for the whole unpause delay.
THEOREM ZkBridgePauseHolds == Spec => PauseHolds
<1>1. PauseInv /\ [Next]_vars
        => [(accepted' # accepted \/ issued' # issued \/ totalBurned' # totalBurned)
              => height - haltedAt >= UnpauseDelay]_vars
  BY MovesUnpaused DEF PauseInv
<1>2. QED
  BY <1>1, PauseInit, PauseStep, CoreTypes, PTL DEF Spec, PauseHolds

----------------------------------------------------------------------------
(* What is issued.  The processed_ entries make the accepted mints distinct, *)
(* and a queued mint remembers the one accepted mint it stands for.          *)

AcceptedOnce ==
  /\ \A k \in 1..Len(accepted) : accepted[k].id \in processed
  /\ \A k, l \in 1..Len(accepted) : accepted[k].id = accepted[l].id => k = l

QueueBacked ==
  \A id \in Ids :
     queue[id] # NotQueued =>
        \E k \in 1..Len(accepted) :
           /\ accepted[k].id = id
           /\ accepted[k].amount \div Ratio = queue[id].amount
           /\ accepted[k].height = queue[id].height

MintInv == AcceptedOnce /\ QueueBacked /\ IssuedOnce /\ LargeMintsWait

\* The mints that were issued, one more than before.
LEMMA IssueEffect ==
  ASSUME CoreTypeOK, NEW id \in Ids, NEW u \in Nat, Issue(id, u)
  PROVE  /\ Len(issued') = Len(issued) + 1
         /\ issued'[Len(issued) + 1].id = id
         /\ issued'[Len(issued) + 1].amount = u
         /\ issued'[Len(issued) + 1].height = height
         /\ \A i \in 1..Len(issued) : issued'[i] = issued[i]
         /\ \A i \in 1..Len(issued') : i \in 1..Len(issued) \/ i = Len(issued) + 1
<1> DEFINE e == [id |-> id, amount |-> u, height |-> height]
<1>1. issued' = Append(issued, e)
  BY DEF Issue
<1>2. e.id = id /\ e.amount = u /\ e.height = height
  OBVIOUS
<1> HIDE DEF e
<1>3. issued \in Seq(Mints) /\ Len(issued) \in Nat
  BY LenProperties DEF CoreTypeOK
<1>4. /\ Len(issued') = Len(issued) + 1
      /\ issued'[Len(issued) + 1] = e
      /\ \A i \in 1..Len(issued) : issued'[i] = issued[i]
  BY <1>1, <1>3
<1>5. \A i \in 1..Len(issued') : i \in 1..Len(issued) \/ i = Len(issued) + 1
  BY <1>3, <1>4
<1>6. QED
  BY <1>2, <1>4, <1>5

\* A mint that is issued for the accepted mint k, not issued before.
LEMMA IssueSafe ==
  ASSUME CoreTypeOK, MintInv, NEW id \in Ids, NEW u \in Nat, Issue(id, u),
         \A i \in 1..Len(issued) : issued[i].id # id,
         Len(accepted') >= Len(accepted), Len(accepted') \in Nat,
         \A l \in 1..Len(accepted) : accepted'[l] = accepted[l],
         \A i \in 1..Len(issued), l \in 1..Len(accepted') :
            l \notin 1..Len(accepted) => accepted'[l].id # issued[i].id,
         \A j \in Ids : queue'[j] = queue[j] \/ queue'[j] = NotQueued,
         queue'[id] = NotQueued,
         NEW k \in 1..Len(accepted'),
         accepted'[k].id = id, accepted'[k].amount \div Ratio = u,
         \A l \in 1..Len(accepted') : accepted'[l].id = id => l = k,
         accepted'[k].amount >= LargeTx => height - accepted'[k].height >= LargeDelay
  PROVE  IssuedOnce' /\ LargeMintsWait'
<1> DEFINE n == Len(issued)
<1>1. /\ Len(issued') = n + 1
      /\ issued'[n + 1].id = id
      /\ issued'[n + 1].amount = u
      /\ issued'[n + 1].height = height
      /\ \A i \in 1..n : issued'[i] = issued[i]
      /\ \A i \in 1..Len(issued') : i \in 1..n \/ i = n + 1
  BY IssueEffect
<1> HIDE DEF n
<1>2. \A i \in 1..n : issued[i].id \in Ids /\ issued[i].id # id
  <2>1. ASSUME NEW i \in 1..n
        PROVE  issued[i] \in Mints
    BY <2>1, ElementOfSeq DEF CoreTypeOK, n
  <2>2. QED
    BY <2>1 DEF Mints, n
<1>3. IssuedOnce /\ LargeMintsWait
  BY DEF MintInv
<1>4. ASSUME NEW i \in 1..Len(issued'), NEW j \in 1..Len(issued'),
             issued'[i].id = issued'[j].id
      PROVE  i = j
  <2>1. CASE i \in 1..n /\ j \in 1..n
    BY <1>1, <1>3, <1>4, <2>1 DEF IssuedOnce, n
  <2>2. CASE i = n + 1 /\ j \in 1..n
    BY <1>1, <1>2, <1>4, <2>2
  <2>3. CASE i \in 1..n /\ j = n + 1
    BY <1>1, <1>2, <1>4, <2>3
  <2>4. QED
    BY <1>1, <2>1, <2>2, <2>3
<1>5. ASSUME NEW i \in 1..Len(issued')
      PROVE  /\ queue'[issued'[i].id] = NotQueued
             /\ \E l \in 1..Len(accepted') :
                   /\ accepted'[l].id = issued'[i].id
                   /\ accepted'[l].amount \div Ratio = issued'[i].amount
  <2>1. CASE i \in 1..n
    <3>1. queue[issued[i].id] = NotQueued
      BY <1>3, <2>1 DEF IssuedOnce, n
    <3>2. PICK l \in 1..Len(accepted) :
             /\ accepted[l].id = issued[i].id
             /\ accepted[l].amount \div Ratio = issued[i].amount
      BY <1>3, <2>1 DEF IssuedOnce, n
    <3>3. l \in 1..Len(accepted')
      <4>1. Len(accepted) \in Nat
        BY LenProperties DEF CoreTypeOK
      <4>2. QED
        BY <4>1
    <3>4. QED
      BY <1>1, <1>2, <2>1, <3>1, <3>2, <3>3
  <2>2. CASE i = n + 1
    BY <1>1, <2>2
  <2>3. QED
    BY <1>1, <2>1, <2>2
<1>6. ASSUME NEW i \in 1..Len(issued'), NEW l \in 1..Len(accepted'),
             accepted'[l].id = issued'[i].id, accepted'[l].amount >= LargeTx
      PROVE  issued'[i].height - accepted'[l].height >= LargeDelay
  <2>1. CASE i \in 1..n /\ l \in 1..Len(accepted)
    BY <1>1, <1>3, <1>6, <2>1 DEF LargeMintsWait, n
  <2>2. CASE i \in 1..n /\ l \notin 1..Len(accepted)
    BY <1>1, <1>6, <2>2 DEF n
  <2>3. CASE i = n + 1
    <3>1. l = k
      BY <1>1, <1>6, <2>3
    <3>2. QED
      BY <1>1, <1>6, <2>3, <3>1
  <2>4. QED
    BY <1>1, <2>1, <2>2, <2>3
<1>7. QED
  BY <1>4, <1>5, <1>6 DEF IssuedOnce, LargeMintsWait

\* The accepted mints, one more than before.
LEMMA AcceptEffect ==
  ASSUME CoreTypeOK, NEW id \in Ids, NEW a \in Amounts, Mint(id, a)
  PROVE  /\ Len(accepted) \in Nat
         /\ Len(accepted') = Len(accepted) + 1
         /\ accepted'[Len(accepted) + 1].id = id
         /\ accepted'[Len(accepted) + 1].amount = a
         /\ accepted'[Len(accepted) + 1].height = height
         /\ \A l \in 1..Len(accepted) : accepted'[l] = accepted[l]
         /\ \A l \in 1..Len(accepted') : l \in 1..Len(accepted) \/ l = Len(accepted) + 1
<1> DEFINE e == [id |-> id, amount |-> a, height |-> height]
<1>1. accepted' = Append(accepted, e)
  BY DEF Mint
<1>2. e.id = id /\ e.amount = a /\ e.height = height
  OBVIOUS
<1> HIDE DEF e
<1>3. accepted \in Seq(Mints) /\ Len(accepted) \in Nat
  BY LenProperties DEF CoreTypeOK
<1>4. /\ Len(accepted') = Len(accepted) + 1
      /\ accepted'[Len(accepted) + 1] = e
      /\ \A l \in 1..Len(accepted) : accepted'[l] = accepted[l]
  BY <1>1, <1>3
<1>5. \A l \in 1..Len(accepted') : l \in 1..Len(accepted) \/ l = Len(accepted) + 1
  BY <1>3, <1>4
<1>6. QED
  BY <1>2, <1>3, <1>4, <1>5

\* An id without a processed_ entry is neither queued nor issued.
LEMMA FreshId ==
  ASSUME CoreTypeOK, MintInv, NEW id \in Ids, id \notin processed
  PROVE  /\ queue[id] = NotQueued
         /\ \A k \in 1..Len(accepted) : accepted[k].id # id
         /\ \A i \in 1..Len(issued) : issued[i].id # id
<1>1. \A k \in 1..Len(accepted) : accepted[k].id # id
  BY DEF MintInv, AcceptedOnce
<1>2. queue[id] = NotQueued
  BY <1>1 DEF MintInv, QueueBacked
<1>3. \A i \in 1..Len(issued) : issued[i].id # id
  BY <1>1 DEF MintInv, IssuedOnce
<1>4. QED
  BY <1>1, <1>2, <1>3

LEMMA MintKeeps ==
  ASSUME CoreTypeOK, MintInv, Minted
  PROVE  MintInv'
<1> PICK id \in Ids, a \in Amounts : Mint(id, a)
  BY DEF Minted
<1> DEFINE n == Len(accepted)
<1>1. /\ n \in Nat /\ Len(accepted') = n + 1
      /\ accepted'[n + 1].id = id
      /\ accepted'[n + 1].amount = a
      /\ accepted'[n + 1].height = height
      /\ \A l \in 1..n : accepted'[l] = accepted[l]
      /\ \A l \in 1..Len(accepted') : l \in 1..n \/ l = n + 1
  BY AcceptEffect
<1>2. /\ id \notin processed /\ processed' = processed \cup {id}
  BY DEF Mint
<1>3. /\ queue[id] = NotQueued
      /\ \A k \in 1..n : accepted[k].id # id
      /\ \A i \in 1..Len(issued) : issued[i].id # id
  BY <1>2, FreshId
<1> HIDE DEF n
<1>4. a \in Nat /\ LargeTx \in Nat /\ a \div Ratio \in Nat
  BY ConstantTypes, UnitsType
<1>5. AcceptedOnce /\ QueueBacked /\ IssuedOnce /\ LargeMintsWait
  BY DEF MintInv
<1>6. AcceptedOnce'
  <2>1. ASSUME NEW k \in 1..Len(accepted')
        PROVE  accepted'[k].id \in processed'
    BY <1>1, <1>2, <1>5 DEF AcceptedOnce, n
  <2>2. ASSUME NEW k \in 1..Len(accepted'), NEW l \in 1..Len(accepted'),
               accepted'[k].id = accepted'[l].id
        PROVE  k = l
    <3>1. CASE k \in 1..n /\ l \in 1..n
      BY <1>1, <1>5, <2>2, <3>1 DEF AcceptedOnce, n
    <3>2. CASE ~(k \in 1..n /\ l \in 1..n)
      BY <1>1, <1>3, <2>2, <3>2
    <3>3. QED
      BY <3>1, <3>2
  <2>3. QED
    BY <2>1, <2>2 DEF AcceptedOnce
<1>7. n + 1 \in 1..Len(accepted') /\ \A k \in 1..n : k \in 1..Len(accepted')
  BY <1>1
<1>8. ASSUME NEW j \in Ids, j # id, queue'[j] # NotQueued, queue'[j] = queue[j]
      PROVE  \E k \in 1..Len(accepted') :
                /\ accepted'[k].id = j
                /\ accepted'[k].amount \div Ratio = queue'[j].amount
                /\ accepted'[k].height = queue'[j].height
  <2>1. PICK k \in 1..n :
           /\ accepted[k].id = j
           /\ accepted[k].amount \div Ratio = queue[j].amount
           /\ accepted[k].height = queue[j].height
    BY <1>5, <1>8 DEF QueueBacked, n
  <2>2. k \in 1..Len(accepted') /\ accepted'[k] = accepted[k]
    BY <1>1, <1>7
  <2>3. QED
    BY <1>8, <2>1, <2>2
<1>9. queue \in [Ids -> [amount : Nat, height : Nat]]
  BY DEF CoreTypeOK
<1>10. CASE /\ a >= LargeTx
            /\ queue' = [queue EXCEPT ![id] = [amount |-> a \div Ratio, height |-> height]]
            /\ UNCHANGED issued
  <2>1. /\ queue'[id].amount = a \div Ratio /\ queue'[id].height = height
        /\ \A j \in Ids : j # id => queue'[j] = queue[j]
    BY <1>9, <1>10
  <2>2. QueueBacked'
    <3>1. ASSUME NEW j \in Ids, queue'[j] # NotQueued
          PROVE  \E k \in 1..Len(accepted') :
                    /\ accepted'[k].id = j
                    /\ accepted'[k].amount \div Ratio = queue'[j].amount
                    /\ accepted'[k].height = queue'[j].height
      <4>1. CASE j = id
        BY <1>1, <1>7, <2>1, <4>1
      <4>2. CASE j # id
        BY <1>8, <2>1, <3>1, <4>2
      <4>3. QED
        BY <4>1, <4>2
    <3>2. QED
      BY <3>1 DEF QueueBacked
  <2>3. IssuedOnce'
    <3>1. \A i \in 1..Len(issued) : issued[i].id \in Ids
      <4>1. ASSUME NEW i \in 1..Len(issued)
            PROVE  issued[i] \in Mints
        BY <4>1, ElementOfSeq DEF CoreTypeOK
      <4>2. QED
        BY <4>1 DEF Mints
    <3>2. ASSUME NEW i \in 1..Len(issued)
          PROVE  /\ queue'[issued[i].id] = NotQueued
                 /\ \E k \in 1..Len(accepted') :
                       /\ accepted'[k].id = issued[i].id
                       /\ accepted'[k].amount \div Ratio = issued[i].amount
      <4>1. queue'[issued[i].id] = NotQueued
        BY <1>3, <1>5, <2>1, <3>1 DEF IssuedOnce
      <4>2. PICK k \in 1..n : /\ accepted[k].id = issued[i].id
                              /\ accepted[k].amount \div Ratio = issued[i].amount
        BY <1>5 DEF IssuedOnce, n
      <4>3. QED
        BY <1>1, <1>7, <4>1, <4>2
    <3>3. QED
      BY <1>5, <1>10, <3>2 DEF IssuedOnce
  <2>4. LargeMintsWait'
    <3>1. ASSUME NEW i \in 1..Len(issued), NEW k \in 1..Len(accepted'),
                 accepted'[k].id = issued[i].id, accepted'[k].amount >= LargeTx
          PROVE  issued[i].height - accepted'[k].height >= LargeDelay
      <4>1. k \in 1..n
        BY <1>1, <1>3, <3>1
      <4>2. QED
        BY <1>1, <1>5, <3>1, <4>1 DEF LargeMintsWait, n
    <3>2. QED
      BY <1>10, <3>1 DEF LargeMintsWait
  <2>5. QED
    BY <1>6, <2>2, <2>3, <2>4 DEF MintInv
<1>11. CASE a < LargeTx /\ Issue(id, a \div Ratio) /\ UNCHANGED queue
  <2>1. QueueBacked'
    BY <1>3, <1>8, <1>11 DEF QueueBacked
  <2>2. IssuedOnce' /\ LargeMintsWait'
    <3>1. \A j \in Ids : queue'[j] = queue[j]
      BY <1>11
    <3>2. queue'[id] = NotQueued
      BY <1>3, <1>11
    <3>3. \A i \in 1..Len(issued), l \in 1..Len(accepted') :
             l \notin 1..n => accepted'[l].id # issued[i].id
      BY <1>1, <1>3
    <3>4. \A l \in 1..Len(accepted') : accepted'[l].id = id => l = n + 1
      BY <1>1, <1>3
    <3>5. ~(accepted'[n + 1].amount >= LargeTx)
      BY <1>1, <1>4, <1>11
    <3>6. accepted'[n + 1].amount \div Ratio = a \div Ratio
      BY <1>1
    <3>7. Len(accepted') >= Len(accepted) /\ Len(accepted') \in Nat
      BY <1>1 DEF n
    <3>8. \A l \in 1..Len(accepted) : accepted'[l] = accepted[l]
      BY <1>1 DEF n
    <3>9. \A i \in 1..Len(issued), l \in 1..Len(accepted') :
             l \notin 1..Len(accepted) => accepted'[l].id # issued[i].id
      BY <3>3 DEF n
    <3>10. PICK m \in 1..Len(accepted') : m = n + 1
      BY <1>7
    <3>11. QED
      BY <1>1, <1>3, <1>4, <1>11, <3>1, <3>2, <3>4, <3>5, <3>6, <3>7, <3>8, <3>9,
         <3>10, IssueSafe
  <2>3. QED
    BY <1>6, <2>1, <2>2 DEF MintInv
<1>12. QED
  BY <1>10, <1>11 DEF Mint

LEMMA ExecuteKeeps ==
  ASSUME CoreTypeOK, MintInv, Executed
  PROVE  MintInv'
<1> PICK id \in Ids : ExecutePendingMint(id)
  BY DEF Executed
<1>1. /\ queue[id] # NotQueued
      /\ height - queue[id].height >= LargeDelay
      /\ Issue(id, queue[id].amount)
      /\ queue' = [queue EXCEPT ![id] = NotQueued]
      /\ accepted' = accepted /\ processed' = processed
  BY DEF ExecutePendingMint
<1>2. queue \in [Ids -> [amount : Nat, height : Nat]] /\ queue[id].amount \in Nat
  BY DEF CoreTypeOK
<1>3. AcceptedOnce /\ QueueBacked /\ IssuedOnce
  BY DEF MintInv
<1>4. PICK k \in 1..Len(accepted) :
         /\ accepted[k].id = id
         /\ accepted[k].amount \div Ratio = queue[id].amount
         /\ accepted[k].height = queue[id].height
  BY <1>1, <1>3 DEF QueueBacked
<1>5. \A l \in 1..Len(accepted) : accepted[l].id = id => l = k
  BY <1>3, <1>4 DEF AcceptedOnce
<1>6. \A i \in 1..Len(issued) : issued[i].id # id
  BY <1>1, <1>3 DEF IssuedOnce
<1>7. /\ queue'[id] = NotQueued
      /\ \A j \in Ids : j # id => queue'[j] = queue[j]
  BY <1>1, <1>2
<1>8. QueueBacked'
  BY <1>1, <1>3, <1>7 DEF QueueBacked
<1>9. AcceptedOnce'
  BY <1>1, <1>3 DEF AcceptedOnce
<1>10. IssuedOnce' /\ LargeMintsWait'
  <2>1. Len(accepted) \in Nat
    BY LenProperties DEF CoreTypeOK
  <2>2. /\ Len(accepted') >= Len(accepted) /\ Len(accepted') \in Nat
        /\ \A l \in 1..Len(accepted) : accepted'[l] = accepted[l]
        /\ \A i \in 1..Len(issued), l \in 1..Len(accepted') :
              l \notin 1..Len(accepted) => accepted'[l].id # issued[i].id
    BY <1>1, <2>1
  <2>3. \A j \in Ids : queue'[j] = queue[j] \/ queue'[j] = NotQueued
    BY <1>7
  <2>4. /\ accepted'[k].id = id /\ accepted'[k].amount \div Ratio = queue[id].amount
        /\ \A l \in 1..Len(accepted') : accepted'[l].id = id => l = k
        /\ height - accepted'[k].height >= LargeDelay
        /\ k \in 1..Len(accepted')
    BY <1>1, <1>4, <1>5
  <2>5. QED
    BY SMTT(30), <1>1, <1>2, <1>6, <1>7, <2>2, <2>3, <2>4, IssueSafe
<1>11. QED
  BY <1>8, <1>9, <1>10 DEF MintInv

LEMMA CancelKeeps ==
  ASSUME CoreTypeOK, MintInv, Cancelled
  PROVE  MintInv'
<1> PICK p \in Principals, id \in Ids : CancelPendingMint(p, id)
  BY DEF Cancelled
<1>1. /\ queue' = [queue EXCEPT ![id] = NotQueued]
      /\ accepted' = accepted /\ processed' = processed /\ issued' = issued
  BY DEF CancelPendingMint
<1>2. queue \in [Ids -> [amount : Nat, height : Nat]]
  BY DEF CoreTypeOK
<1>3. AcceptedOnce /\ QueueBacked /\ IssuedOnce /\ LargeMintsWait
  BY DEF MintInv
<1>4. /\ queue'[id] = NotQueued
      /\ \A j \in Ids : j # id => queue'[j] = queue[j]
  BY <1>1, <1>2
<1>5. QueueBacked'
  BY <1>1, <1>3, <1>4 DEF QueueBacked
<1>6. AcceptedOnce' /\ LargeMintsWait'
  BY <1>1, <1>3 DEF AcceptedOnce, LargeMintsWait
<1>7. IssuedOnce'
  <2>1. ASSUME NEW i \in 1..Len(issued)
        PROVE  queue'[issued[i].id] = NotQueued
    <3>1. issued[i] \in Mints
      BY ElementOfSeq DEF CoreTypeOK
    <3>2. issued[i].id \in Ids /\ queue[issued[i].id] = NotQueued
      BY <1>3, <3>1 DEF Mints, IssuedOnce
    <3>3. QED
      BY <1>4, <3>2
  <2>2. QED
    BY <1>1, <1>3, <2>1 DEF IssuedOnce
<1>8. QED
  BY <1>5, <1>6, <1>7 DEF MintInv

LEMMA MintStep == CoreTypeOK /\ MintInv /\ [Next]_vars => MintInv'
<1> SUFFICES ASSUME CoreTypeOK, MintInv, [Next]_vars PROVE MintInv'
  OBVIOUS
<1>1. CASE MintsKept
  <2>1. /\ queue' = queue /\ accepted' = accepted /\ processed' = processed
        /\ issued' = issued
    BY <1>1 DEF MintsKept, mintVars
  <2>2. AcceptedOnce' /\ QueueBacked'
    BY <2>1 DEF MintInv, AcceptedOnce, QueueBacked
  <2>3. IssuedOnce' /\ LargeMintsWait'
    BY <2>1 DEF MintInv, IssuedOnce, LargeMintsWait
  <2>4. QED
    BY <2>2, <2>3 DEF MintInv
<1>2. QED
  BY <1>1, MintKeeps, ExecuteKeeps, CancelKeeps, MintSteps

LEMMA MintInit == Init => MintInv
<1> SUFFICES ASSUME Init PROVE MintInv
  OBVIOUS
<1>1. accepted = <<>> /\ issued = <<>> /\ queue = [i \in Ids |-> NotQueued]
  BY Zenon DEF Init
<1>2. Len(accepted) = 0 /\ Len(issued) = 0
  BY <1>1
<1>3. QED
  BY <1>1, <1>2 DEF MintInv, AcceptedOnce, QueueBacked, IssuedOnce, LargeMintsWait

\* However the two mint paths, the queue and cancellations mix, a transfer is
\* issued once, for the amount that was accepted.
THEOREM ZkBridgeIssuedOnce == Spec => []IssuedOnce
<1>1. MintInv => IssuedOnce
  BY DEF MintInv
<1>2. QED
  BY <1>1, MintInit, MintStep, CoreTypes, PTL DEF Spec

\* A large mint is public for the whole delay before it is issued.
THEOREM ZkBridgeLargeWait == Spec => []LargeMintsWait
<1>1. MintInv => LargeMintsWait
  BY DEF MintInv
<1>2. QED
  BY <1>1, MintInit, MintStep, CoreTypes, PTL DEF Spec

----------------------------------------------------------------------------
(* What a step does to the counters: of the mints, of the limits and of the *)
(* supply.                                                                  *)

\* A step that leaves the mints alone burns wSOL, or lets a block pass, or moves
\* neither supply nor height.
Burned ==
  /\ UNCHANGED <<height, totalMinted>>
  /\ \E a \in Amounts : /\ a <= supply /\ supply' = supply - a
                        /\ totalBurned' = totalBurned + a
Passed == UNCHANGED supplyVars /\ height' = height + 1
Rested == UNCHANGED <<supplyVars, height>>

LEMMA OtherSteps ==
  ASSUME [Next]_vars
  PROVE  \/ Minted
         \/ Executed
         \/ Cancelled
         \/ MintsKept /\ UNCHANGED limitVars /\ (Burned \/ Passed \/ Rested)
<1> USE DEF MintsKept
<1>1. ASSUME NEW id \in Ids, NEW a \in Amounts, NEW s \in SUBSET Keys,
             CommitteeMint(id, a, s)
      PROVE  Minted
  BY <1>1 DEF CommitteeMint, Minted
<1>2. ASSUME NEW id \in Ids, NEW a \in Amounts, NEW p \in Principals,
             ZkMintAuthorized(p, id, a)
      PROVE  Minted
  BY <1>2 DEF ZkMintAuthorized, Minted
<1>3. ASSUME NEW a \in Amounts, Burn(a)
      PROVE  MintsKept /\ UNCHANGED limitVars /\ Burned
  BY <1>3 DEF Burn, Burned
<1>4. ASSUME NEW p \in Principals,
             EmergencyPause(p) \/ RequestUnpause(p) \/ ExecuteUnpause(p)
      PROVE  MintsKept /\ UNCHANGED limitVars /\ Rested
  BY <1>4 DEF EmergencyPause, RequestUnpause, ExecuteUnpause, Rested
<1>5. ASSUME NEW p \in Principals, NEW q \in Principals,
             \/ AcceptAdmin(p) \/ TransferAdmin(p, q) \/ UpdateGuardian(p, q)
             \/ SetZkVerifier(p, q)
      PROVE  MintsKept /\ UNCHANGED limitVars /\ Rested
  BY <1>5 DEF AcceptAdmin, TransferAdmin, UpdateGuardian, SetZkVerifier, otherVars,
              Rested
<1>6. ASSUME NEW p \in Principals, NEW c \in Committees, InitializeCommittee(p, c)
      PROVE  MintsKept /\ UNCHANGED limitVars /\ Rested
  BY <1>6 DEF InitializeCommittee, otherVars, Rested
<1>7. CASE NewBlock
  BY <1>7 DEF NewBlock, Passed
<1>8. CASE UNCHANGED vars
  BY <1>8 DEF vars, Rested
<1>9. QED
  BY <1>1, <1>2, <1>3, <1>4, <1>5, <1>6, <1>7, <1>8 DEF Next, Executed, Cancelled

----------------------------------------------------------------------------
(* The supply.  The queue's sum moves with the one entry a step changes.     *)

Amounted == [id \in Ids |-> queue[id].amount]

\* The counters, none of them ever negative: what is queued was counted.
Counted ==
  /\ supply \in Nat /\ totalBurned \in Nat /\ totalMinted \in Nat
  /\ SupplyAccounted

LEMMA QueuedType == CoreTypeOK => Queued \in Nat
<1> SUFFICES ASSUME CoreTypeOK PROVE Queued \in Nat
  OBVIOUS
<1>1. \A id \in Ids : Amounted[id] \in Nat
  BY DEF CoreTypeOK, Amounted
<1>2. SumFunctionOnSet(Amounted, Ids) \in Nat
  <2> HIDE DEF Amounted
  <2> QED BY <1>1, ZkBridgeConstants, SumNat
<1> QED BY <1>2 DEF Queued, Amounted

\* What one entry of the queue holds counts once.
LEMMA QueuedChange ==
  ASSUME CoreTypeOK, CoreTypeOK', NEW id \in Ids, NEW e \in [amount : Nat, height : Nat],
         queue' = [queue EXCEPT ![id] = e]
  PROVE  /\ Queued' = Queued - queue[id].amount + e.amount
         /\ queue[id].amount \in Nat /\ queue[id].amount <= Queued
<1> DEFINE g == [j \in Ids |-> queue'[j].amount]
<1>1. \A j \in Ids : /\ Amounted[j] = queue[j].amount /\ Amounted[j] \in Nat
                     /\ g[j] = queue'[j].amount /\ g[j] \in Nat
  BY DEF CoreTypeOK, Amounted
<1>2. \A j \in Ids : j # id => g[j] = Amounted[j]
  BY <1>1 DEF CoreTypeOK
<1>3. g[id] = e.amount
  BY <1>1 DEF CoreTypeOK
<1>4. Queued = SumFunctionOnSet(Amounted, Ids) /\ Queued' = SumFunctionOnSet(g, Ids)
  BY DEF Queued, Amounted
<1> HIDE DEF g
<1>5. SumFunctionOnSet(g, Ids) = SumFunctionOnSet(Amounted, Ids) - Amounted[id] + g[id]
  <2>1. \A j \in Ids : Amounted[j] \in Int /\ g[j] \in Int
    BY <1>1
  <2> QED BY <1>2, <2>1, ZkBridgeConstants, SumChange
<1>6. Amounted[id] <= SumFunctionOnSet(Amounted, Ids)
  BY <1>1, ZkBridgeConstants, SumNat
<1> QED BY <1>1, <1>3, <1>4, <1>5, <1>6, Zenon

LEMMA CountedStep ==
  ASSUME CoreTypeOK, MintInv, Counted, [Next]_vars
  PROVE  Counted'
<1>1. CoreTypeOK' /\ Queued \in Nat
  BY NextTypes, QueuedType
<1>2. /\ supply \in Nat /\ totalBurned \in Nat /\ totalMinted \in Nat
      /\ supply + Queued + totalBurned = totalMinted
  BY DEF Counted, SupplyAccounted
<1>3. CASE Minted
  <2> PICK id \in Ids, a \in Amounts : Mint(id, a)
    BY <1>3 DEF Minted
  <2>1. PICK u \in Nat : u = a \div Ratio
    BY ConstantTypes, UnitsType
  <2>2. totalMinted' = totalMinted + u /\ totalBurned' = totalBurned /\ id \notin processed
    BY <2>1 DEF Mint
  <2>3. queue[id] = NotQueued /\ queue[id].amount = 0
    BY <2>2, FreshId DEF NotQueued
  <2>4. CASE /\ queue' = [queue EXCEPT ![id] = [amount |-> u, height |-> height]]
             /\ UNCHANGED supply
    <3> DEFINE e == [amount |-> u, height |-> height]
    <3>1. e \in [amount : Nat, height : Nat] /\ e.amount = u
      BY DEF CoreTypeOK
    <3>2. queue' = [queue EXCEPT ![id] = e]
      BY <2>4, Zenon
    <3> HIDE DEF e
    <3>3. Queued' = Queued - queue[id].amount + e.amount
      BY <1>1, <3>1, <3>2, QueuedChange
    <3>4. Queued' = Queued + u
      BY <1>1, <2>3, <3>1, <3>3
    <3> QED BY <1>1, <1>2, <2>2, <2>4, <3>4 DEF Counted, SupplyAccounted
  <2>5. CASE supply' = supply + u /\ UNCHANGED queue
    <3>1. Queued' = Queued
      BY <2>5 DEF Queued
    <3> QED BY <1>1, <1>2, <2>2, <2>5, <3>1 DEF Counted, SupplyAccounted
  <2>6. \/ /\ queue' = [queue EXCEPT ![id] = [amount |-> a \div Ratio, height |-> height]]
           /\ UNCHANGED supply
        \/ supply' = supply + (a \div Ratio) /\ UNCHANGED queue
    BY Zenon DEF Mint, Issue
  <2>7. \/ /\ queue' = [queue EXCEPT ![id] = [amount |-> u, height |-> height]]
           /\ UNCHANGED supply
        \/ supply' = supply + u /\ UNCHANGED queue
    BY <2>1, <2>6
  <2> QED BY <2>4, <2>5, <2>7
<1>4. CASE Executed
  <2> PICK id \in Ids : ExecutePendingMint(id)
    BY <1>4 DEF Executed
  <2>1. /\ supply' = supply + queue[id].amount
        /\ queue' = [queue EXCEPT ![id] = NotQueued]
        /\ totalMinted' = totalMinted /\ totalBurned' = totalBurned
    BY DEF ExecutePendingMint, Issue
  <2>2. /\ Queued' = Queued - queue[id].amount + NotQueued.amount
        /\ queue[id].amount \in Nat /\ queue[id].amount <= Queued
    BY <1>1, <2>1, NotQueuedType, QueuedChange
  <2>3. NotQueued.amount = 0
    BY DEF NotQueued
  <2> QED BY <1>1, <1>2, <2>1, <2>2, <2>3 DEF Counted, SupplyAccounted
<1>5. CASE Cancelled
  <2> PICK p \in Principals, id \in Ids : CancelPendingMint(p, id)
    BY <1>5 DEF Cancelled
  <2>1. /\ totalMinted' = totalMinted - queue[id].amount
        /\ queue' = [queue EXCEPT ![id] = NotQueued]
        /\ supply' = supply /\ totalBurned' = totalBurned
    BY DEF CancelPendingMint
  <2>2. /\ Queued' = Queued - queue[id].amount + NotQueued.amount
        /\ queue[id].amount \in Nat /\ queue[id].amount <= Queued
    BY <1>1, <2>1, NotQueuedType, QueuedChange
  <2>3. NotQueued.amount = 0
    BY DEF NotQueued
  <2>4. totalMinted' = supply + Queued' + totalBurned /\ totalMinted' \in Nat
    BY <1>1, <1>2, <2>1, <2>2, <2>3
  <2> QED BY <1>2, <2>1, <2>4 DEF Counted, SupplyAccounted
<1>6. CASE MintsKept /\ (Burned \/ Passed \/ Rested)
  <2>1. Queued' = Queued
    BY <1>6 DEF Queued, MintsKept, mintVars
  <2>2. CASE Burned
    <3>1. PICK a \in Amounts : /\ a <= supply /\ supply' = supply - a
                               /\ totalBurned' = totalBurned + a
      BY <2>2 DEF Burned
    <3>2. totalMinted' = totalMinted /\ a \in Nat
      BY <2>2, ConstantTypes DEF Burned
    <3> QED BY <1>1, <1>2, <2>1, <3>1, <3>2 DEF Counted, SupplyAccounted
  <2>3. CASE Passed \/ Rested
    BY <1>1, <1>2, <2>1, <2>3 DEF Passed, Rested, supplyVars, Counted, SupplyAccounted
  <2> QED BY <1>6, <2>2, <2>3
<1> QED BY <1>3, <1>4, <1>5, <1>6, OtherSteps

LEMMA CountedInit == Init => Counted
<1> SUFFICES ASSUME Init PROVE Counted
  OBVIOUS
<1>1. supply = 0 /\ totalBurned = 0 /\ totalMinted = 0 /\ queue = [i \in Ids |-> NotQueued]
  BY Zenon DEF Init
<1>2. \A id \in Ids : Amounted[id] = 0
  BY <1>1 DEF Amounted, NotQueued
<1>3. SumFunctionOnSet(Amounted, Ids) = 0
  <2> HIDE DEF Amounted
  <2> QED BY <1>2, ZkBridgeConstants, SumZero
<1> QED BY <1>1, <1>3 DEF Counted, SupplyAccounted, Queued, Amounted

\* What was counted as minted is circulating, burned or still queued, for any
\* number of transfers in the queue and any amounts: HIGH-5 and E-8.
THEOREM ZkBridgeSupply == Spec => []SupplyAccounted
<1>1. Counted => SupplyAccounted
  BY DEF Counted
<1> QED BY <1>1, CountedInit, CountedStep, MintInit, MintStep, CoreTypes, PTL DEF Spec

----------------------------------------------------------------------------
(* The limits.  Of a tumbling window only the last reset and the counter are *)
(* kept; what they know of the history, and what a stretch of blocks of the  *)
(* window's length can meet, is this: the mints of the current window, which *)
(* the counter adds up, and those of the blocks just before its reset, all   *)
(* of them of one earlier window.                                            *)

Charges(s) == [k \in 1..Len(s) |-> s[k].amount]
Within(s, lo, hi) == {k \in 1..Len(s) : lo <= s[k].height /\ s[k].height < hi}
Let(s, lo, hi) == SumFunctionOnSet(Charges(s), Within(s, lo, hi))

\* The history s at height `now` under windows of `size` blocks and a cap.
Metered(s, now, size, cap, reset, count) ==
  /\ reset \in Int /\ count \in Nat /\ reset <= now
  /\ \A k \in 1..Len(s) : s[k].height <= now /\ s[k].height < reset + size
  /\ Let(s, reset, reset + size) = count /\ count <= cap
  /\ Let(s, reset - size + 1, reset) <= cap

Limited ==
  /\ Metered(accepted, height, HourlyWindow, MaxHourly, hourlyReset, hourly)
  /\ Metered(accepted, height, DailyWindow, MaxDaily, dailyReset, daily)

LEMMA WindowTypes ==
  /\ HourlyWindow \in Nat /\ HourlyWindow > 0 /\ DailyWindow \in Nat /\ DailyWindow > 0
  /\ MaxHourly \in Nat /\ MaxDaily \in Nat
<1>1. {HourlyWindow, DailyWindow} \subseteq Nat \ {0}
  BY ZkBridgeConstants
<1>2. {MaxHourly, MaxDaily} \subseteq Nat
  BY ZkBridgeConstants
<1> QED BY <1>1, <1>2

\* The history's entries, and what a stretch of it sums to.
LEMMA HistoryType ==
  ASSUME NEW s \in Seq(Mints)
  PROVE  /\ Len(s) \in Nat /\ IsFiniteSet(1..Len(s))
         /\ \A k \in 1..Len(s) : /\ s[k].height \in Nat /\ s[k].amount \in Nat
                                 /\ Charges(s)[k] = s[k].amount
<1>1. Len(s) \in Nat
  BY LenProperties
<1>2. IsFiniteSet(1..Len(s))
  BY <1>1, FS_Interval
<1>3. ASSUME NEW k \in 1..Len(s)
      PROVE  s[k].height \in Nat /\ s[k].amount \in Nat
  <2>1. s[k] \in Mints
    BY <1>3, ElementOfSeq
  <2> QED BY <2>1 DEF Mints
<1> QED BY <1>1, <1>2, <1>3 DEF Charges

LEMMA WithinType ==
  ASSUME NEW s \in Seq(Mints), NEW S \in SUBSET (1..Len(s))
  PROVE  /\ IsFiniteSet(S)
         /\ \A k \in S : Charges(s)[k] \in Nat
         /\ SumFunctionOnSet(Charges(s), S) \in Nat
<1>1. IsFiniteSet(S)
  BY HistoryType, FS_Subset
<1>2. \A k \in S : Charges(s)[k] \in Nat
  BY HistoryType
<1>3. SumFunctionOnSet(Charges(s), S) \in Nat
  BY <1>1, <1>2, SumNat
<1> QED BY <1>1, <1>2, <1>3

\* A stretch within two others adds up to no more than they do together.
LEMMA LetCovered ==
  ASSUME NEW s \in Seq(Mints), NEW S \in SUBSET (1..Len(s)),
         NEW T \in SUBSET (1..Len(s)), NEW U \in SUBSET (1..Len(s)),
         S \subseteq T \cup U, T \cap U = {}
  PROVE  SumFunctionOnSet(Charges(s), S)
           <= SumFunctionOnSet(Charges(s), T) + SumFunctionOnSet(Charges(s), U)
<1>1. /\ IsFiniteSet(T) /\ IsFiniteSet(U) /\ IsFiniteSet(T \cup U)
      /\ \A k \in T \cup U : Charges(s)[k] \in Nat
  <2>1. T \cup U \in SUBSET (1..Len(s))
    OBVIOUS
  <2> QED BY <2>1, WithinType
<1>2. SumFunctionOnSet(Charges(s), S) <= SumFunctionOnSet(Charges(s), T \cup U)
  BY <1>1, SumSubset
<1>3. SumFunctionOnSet(Charges(s), T \cup U)
        = SumFunctionOnSet(Charges(s), T) + SumFunctionOnSet(Charges(s), U)
  <2>1. \A k \in T \cup U : Charges(s)[k] \in Int
    BY <1>1
  <2> QED BY <1>1, <2>1, SumUnion
<1> QED BY <1>2, <1>3

\* One more mint leaves the earlier ones, and the sums over them, alone.
LEMMA Appended ==
  ASSUME NEW s \in Seq(Mints), NEW e \in Mints, NEW t, t = Append(s, e)
  PROVE  /\ t \in Seq(Mints) /\ Len(t) = Len(s) + 1 /\ t[Len(s) + 1] = e
         /\ \A k \in 1..Len(s) : t[k] = s[k]
  BY AppendProperties

LEMMA LetKept ==
  ASSUME NEW s \in Seq(Mints), NEW e \in Mints, NEW t, t = Append(s, e),
         NEW S \in SUBSET (1..Len(s))
  PROVE  SumFunctionOnSet(Charges(t), S) = SumFunctionOnSet(Charges(s), S)
<1>1. /\ t \in Seq(Mints) /\ S \in SUBSET (1..Len(t))
      /\ \A k \in 1..Len(s) : t[k] = s[k]
  BY Appended, LenProperties
<1>2. \A k \in S : Charges(t)[k] = Charges(s)[k] /\ Charges(t)[k] \in Int
  <2>1. \A k \in S : Charges(s)[k] = s[k].amount
    BY HistoryType
  <2>2. \A k \in S : Charges(t)[k] = t[k].amount /\ Charges(t)[k] \in Nat
    BY <1>1, HistoryType
  <2> QED BY <1>1, <2>1, <2>2
<1> QED BY <1>2, WithinType, SumSame

LEMMA LetAppended ==
  ASSUME NEW s \in Seq(Mints), NEW e \in Mints, NEW t, t = Append(s, e),
         NEW S \in SUBSET (1..Len(s))
  PROVE  SumFunctionOnSet(Charges(t), S \cup {Len(s) + 1})
           = SumFunctionOnSet(Charges(s), S) + e.amount
<1> DEFINE n == Len(s) + 1
<1>1. t \in Seq(Mints) /\ Len(t) = n /\ t[n] = e
  BY Appended
<1>2. S \cup {n} \in SUBSET (1..Len(t)) /\ n \notin S /\ n \in 1..Len(t)
  <2>1. Len(t) = n /\ n \in 1..n /\ n \notin 1..Len(s) /\ 1..Len(s) \subseteq 1..n
    BY <1>1, LenProperties
  <2> QED BY <2>1
<1> HIDE DEF n
<1>3. IsFiniteSet(S) /\ \A k \in S \cup {n} : Charges(t)[k] \in Int
  <2>1. \A k \in S \cup {n} : Charges(t)[k] \in Nat
    BY <1>1, <1>2, WithinType
  <2> QED BY <2>1, WithinType
<1>4. SumFunctionOnSet(Charges(t), S) = SumFunctionOnSet(Charges(s), S)
  BY LetKept
<1>5. Charges(t)[n] = e.amount
  BY <1>1, <1>2, HistoryType
<1>6. SumFunctionOnSet(Charges(t), S \cup {n})
        = SumFunctionOnSet(Charges(t), S) + Charges(t)[n]
  BY <1>2, <1>3, SumAdd
<1> QED BY <1>4, <1>5, <1>6 DEF n

\* A mint that the limit admits keeps it, whether it opens a new window or not.
LEMMA MeteredMint ==
  ASSUME NEW s \in Seq(Mints), NEW e \in Mints, NEW t, t = Append(s, e),
         NEW size \in Nat, size > 0, NEW cap \in Nat, NEW reset, NEW count,
         Metered(s, e.height, size, cap, reset, count),
         NEW reset2, NEW count2,
         IF e.height - reset >= size
         THEN reset2 = e.height /\ count2 = e.amount
         ELSE reset2 = reset /\ count2 = count + e.amount,
         count2 <= cap
  PROVE  Metered(t, e.height, size, cap, reset2, count2)
<1> DEFINE now == e.height
           n == Len(s) + 1
<1>1. now \in Nat /\ e.amount \in Nat /\ reset \in Int /\ count \in Nat /\ reset <= now
  BY DEF Mints, Metered
<1>2. /\ t \in Seq(Mints) /\ Len(t) = n /\ t[n] = e /\ n \notin 1..Len(s)
      /\ \A k \in 1..Len(s) : t[k] = s[k]
      /\ \A k \in 1..Len(t) : k \in 1..Len(s) \/ k = n
      /\ 1..Len(s) \subseteq 1..Len(t) /\ n \in 1..Len(t)
  BY Appended, LenProperties
<1>3. \A k \in 1..Len(s) : /\ s[k].height \in Nat /\ s[k].height <= now
                           /\ s[k].height < reset + size
  BY HistoryType DEF Metered
<1>4. \A lo, hi : Within(s, lo, hi) \in SUBSET (1..Len(s))
  BY DEF Within
<1>5. ASSUME NEW S \in SUBSET (1..Len(s))
      PROVE  /\ SumFunctionOnSet(Charges(t), S) = SumFunctionOnSet(Charges(s), S)
             /\ SumFunctionOnSet(Charges(t), S \cup {n})
                  = SumFunctionOnSet(Charges(s), S) + e.amount
  <2>1. SumFunctionOnSet(Charges(t), S) = SumFunctionOnSet(Charges(s), S)
    BY LetKept
  <2>2. SumFunctionOnSet(Charges(t), S \cup {n})
          = SumFunctionOnSet(Charges(s), S) + e.amount
    BY LetAppended
  <2> QED BY <2>1, <2>2
<1> HIDE DEF now, n
<1>6. CASE now - reset >= size
  <2>1. reset2 = now /\ count2 = e.amount
    BY <1>6 DEF now
  <2>2. \A k \in 1..Len(s) : s[k].height < now
    BY <1>1, <1>3, <1>6
  <2>3. Within(t, now, now + size) = {} \cup {n}
    <3>1. \A k \in 1..Len(s) : k \notin Within(t, now, now + size)
      BY <1>1, <1>2, <1>3, <2>2 DEF Within
    <3>2. n \in Within(t, now, now + size)
      BY <1>1, <1>2 DEF Within, now
    <3>3. Within(t, now, now + size) \subseteq 1..Len(t)
      BY DEF Within
    <3> QED BY <1>2, <3>1, <3>2, <3>3
  <2>4. Let(t, now, now + size) = count2
    <3>1. SumFunctionOnSet(Charges(t), {} \cup {n}) = SumFunctionOnSet(Charges(s), {}) + e.amount
      <4>1. {} \in SUBSET (1..Len(s))
        OBVIOUS
      <4> QED BY <1>5, <4>1, Zenon
    <3>2. SumFunctionOnSet(Charges(s), {}) = 0
      BY SumEmpty
    <3>3. Let(t, now, now + size) = SumFunctionOnSet(Charges(t), {} \cup {n})
      BY <2>3, Zenon DEF Let
    <3> QED BY <1>1, <2>1, <3>1, <3>2, <3>3
  <2>5. Within(t, now - size + 1, now) \subseteq Within(s, reset, reset + size)
    <3>1. n \notin Within(t, now - size + 1, now)
      BY <1>1, <1>2 DEF Within, now
    <3>2. ASSUME NEW k \in 1..Len(s), k \in Within(t, now - size + 1, now)
          PROVE  k \in Within(s, reset, reset + size)
      <4>1. now - size + 1 <= s[k].height
        BY <1>2, <3>2 DEF Within
      <4>2. reset <= s[k].height
        BY <1>1, <1>3, <1>6, <4>1
      <4> QED BY <1>3, <4>2 DEF Within
    <3>3. Within(t, now - size + 1, now) \subseteq 1..Len(t)
      BY DEF Within
    <3> QED BY <1>2, <3>1, <3>2, <3>3
  <2>6. Let(t, now - size + 1, now) <= cap
    <3> DEFINE S == Within(t, now - size + 1, now)
               T == Within(s, reset, reset + size)
    <3>1. S \in SUBSET (1..Len(s)) /\ T \in SUBSET (1..Len(s)) /\ S \subseteq T
      BY <1>4, <2>5, Zenon
    <3>2. SumFunctionOnSet(Charges(t), S) = SumFunctionOnSet(Charges(s), S)
      BY <1>5, <3>1, Zenon
    <3>3. SumFunctionOnSet(Charges(s), S) <= SumFunctionOnSet(Charges(s), T)
      <4> HIDE DEF S, T
      <4>1. IsFiniteSet(T) /\ \A k \in T : Charges(s)[k] \in Nat
        BY <3>1, WithinType
      <4> QED BY <3>1, <4>1, SumSubset
    <3>4. SumFunctionOnSet(Charges(s), T) = count /\ count <= cap
      BY DEF Metered, Let
    <3>5. SumFunctionOnSet(Charges(s), S) \in Nat
      <4> HIDE DEF S
      <4> QED BY <3>1, WithinType
    <3>6. Let(t, now - size + 1, now) = SumFunctionOnSet(Charges(t), S)
      BY DEF Let
    <3> HIDE DEF S, T
    <3> QED BY <1>1, <3>2, <3>3, <3>4, <3>5, <3>6
  <2>7. \A k \in 1..Len(t) : t[k].height <= now /\ t[k].height < reset2 + size
    BY <1>1, <1>2, <1>3, <2>1, <2>2 DEF now
  <2>8. reset2 \in Int /\ count2 \in Nat /\ reset2 <= now
    BY <1>1, <2>1
  <2> QED BY <2>1, <2>4, <2>6, <2>7, <2>8, Zenon DEF Metered, now
<1>7. CASE ~(now - reset >= size)
  <2>1. reset2 = reset /\ count2 = count + e.amount
    BY <1>7 DEF now
  <2>2. now < reset + size
    BY <1>1, <1>7
  <2>3. Within(t, reset, reset + size) = Within(s, reset, reset + size) \cup {n}
    <3>1. \A k \in 1..Len(s) : k \in Within(t, reset, reset + size)
                                 <=> k \in Within(s, reset, reset + size)
      BY <1>2 DEF Within
    <3>2. n \in Within(t, reset, reset + size)
      BY <1>1, <1>2, <2>2 DEF Within, now
    <3>3. Within(t, reset, reset + size) \subseteq 1..Len(t)
      BY DEF Within
    <3> QED BY <1>2, <1>4, <3>1, <3>2, <3>3
  <2>4. Let(t, reset, reset + size) = count2
    <3> DEFINE T == Within(s, reset, reset + size)
    <3>1. T \in SUBSET (1..Len(s))
      BY <1>4
    <3>2. SumFunctionOnSet(Charges(t), T \cup {n}) = SumFunctionOnSet(Charges(s), T) + e.amount
      BY <1>5, <3>1, Zenon
    <3>3. SumFunctionOnSet(Charges(s), T) = count
      BY DEF Metered, Let
    <3>4. Let(t, reset, reset + size) = SumFunctionOnSet(Charges(t), T \cup {n})
      BY <2>3, Zenon DEF Let
    <3> HIDE DEF T
    <3> QED BY <2>1, <3>2, <3>3, <3>4
  <2>5. Within(t, reset - size + 1, reset) = Within(s, reset - size + 1, reset)
    <3>1. \A k \in 1..Len(s) : k \in Within(t, reset - size + 1, reset)
                                 <=> k \in Within(s, reset - size + 1, reset)
      BY <1>2 DEF Within
    <3>2. n \notin Within(t, reset - size + 1, reset)
      BY <1>1, <1>2 DEF Within, now
    <3>3. Within(t, reset - size + 1, reset) \subseteq 1..Len(t)
      BY DEF Within
    <3> QED BY <1>2, <1>4, <3>1, <3>2, <3>3
  <2>6. Let(t, reset - size + 1, reset) <= cap
    <3> DEFINE T == Within(s, reset - size + 1, reset)
    <3>1. T \in SUBSET (1..Len(s))
      BY <1>4
    <3>2. SumFunctionOnSet(Charges(t), T) = SumFunctionOnSet(Charges(s), T)
      BY <1>5, <3>1, Zenon
    <3>3. SumFunctionOnSet(Charges(s), T) <= cap
      BY DEF Metered, Let
    <3>4. Let(t, reset - size + 1, reset) = SumFunctionOnSet(Charges(t), T)
      BY <2>5, Zenon DEF Let
    <3> HIDE DEF T
    <3> QED BY <3>2, <3>3, <3>4
  <2>7. \A k \in 1..Len(t) : t[k].height <= now /\ t[k].height < reset2 + size
    BY <1>1, <1>2, <1>3, <2>1, <2>2 DEF now
  <2>8. reset2 \in Int /\ count2 \in Nat /\ reset2 <= now
    BY <1>1, <2>1
  <2> QED BY <2>1, <2>4, <2>6, <2>7, <2>8, Zenon DEF Metered, now
<1> QED BY <1>6, <1>7

\* A stretch of the window's length meets the current window and the blocks
\* just before it, at most.
LEMMA MeteredBound ==
  ASSUME NEW s \in Seq(Mints), NEW now \in Nat, NEW size \in Nat, NEW cap \in Nat,
         NEW reset, NEW count, Metered(s, now, size, cap, reset, count)
  PROVE  SumFunctionOnSet(Charges(s), {k \in 1..Len(s) : s[k].height > now - size}) <= 2 * cap
<1> DEFINE S == {k \in 1..Len(s) : s[k].height > now - size}
           T == Within(s, reset, reset + size)
           U == Within(s, reset - size + 1, reset)
<1>1. /\ reset \in Int /\ count \in Nat /\ reset <= now /\ count <= cap
      /\ \A k \in 1..Len(s) : s[k].height < reset + size
      /\ SumFunctionOnSet(Charges(s), T) = count
      /\ SumFunctionOnSet(Charges(s), U) <= cap
  BY DEF Metered, Let
<1>2. \A k \in 1..Len(s) : s[k].height \in Nat
  BY HistoryType
<1>3. T \in SUBSET (1..Len(s)) /\ U \in SUBSET (1..Len(s)) /\ S \in SUBSET (1..Len(s))
  BY DEF Within
<1>4. T \cap U = {}
  BY <1>1, <1>2 DEF Within
<1>5. S \subseteq T \cup U
  BY <1>1, <1>2 DEF Within
<1> HIDE DEF S, T, U
<1>6. SumFunctionOnSet(Charges(s), S)
        <= SumFunctionOnSet(Charges(s), T) + SumFunctionOnSet(Charges(s), U)
  BY <1>3, <1>4, <1>5, LetCovered
<1>7. SumFunctionOnSet(Charges(s), S) \in Nat /\ SumFunctionOnSet(Charges(s), U) \in Nat
  BY <1>3, WithinType
<1>8. SumFunctionOnSet(Charges(s), S) <= 2 * cap
  BY <1>1, <1>6, <1>7
<1> QED BY <1>8 DEF S

LEMMA LimitedBounds == CoreTypeOK /\ Limited => MintRateBounded
<1> SUFFICES ASSUME CoreTypeOK, Limited PROVE MintRateBounded
  OBVIOUS
<1>1. accepted \in Seq(Mints) /\ height \in Nat
  BY DEF CoreTypeOK
<1>2. \A h : AcceptedSince(h)
               = SumFunctionOnSet(Charges(accepted), {k \in 1..Len(accepted) : accepted[k].height > h})
  BY DEF AcceptedSince, Charges
<1>3. SumFunctionOnSet(Charges(accepted),
        {k \in 1..Len(accepted) : accepted[k].height > height - HourlyWindow}) <= 2 * MaxHourly
  BY <1>1, WindowTypes, MeteredBound DEF Limited
<1>4. SumFunctionOnSet(Charges(accepted),
        {k \in 1..Len(accepted) : accepted[k].height > height - DailyWindow}) <= 2 * MaxDaily
  BY <1>1, WindowTypes, MeteredBound DEF Limited
<1> QED BY <1>2, <1>3, <1>4 DEF MintRateBounded

LEMMA LimitedStep ==
  ASSUME CoreTypeOK, Limited, [Next]_vars
  PROVE  Limited'
<1>1. accepted \in Seq(Mints) /\ height \in Nat
  BY DEF CoreTypeOK
<1>2. CASE Minted
  <2> PICK id \in Ids, a \in Amounts : Mint(id, a)
    BY <1>2 DEF Minted
  <2>1. PICK e : e = [id |-> id, amount |-> a, height |-> height]
    OBVIOUS
  <2>2. e \in Mints /\ e.height = height /\ e.amount = a /\ a \in Nat
    BY <1>1, <2>1, ConstantTypes DEF Mints
  <2>3. accepted' = Append(accepted, e) /\ height' = height /\ Charge(a)
    BY <2>1, Zenon DEF Mint
  <2>4. Metered(accepted, e.height, HourlyWindow, MaxHourly, hourlyReset, hourly)
    BY <2>2, Zenon DEF Limited
  <2>5. Metered(accepted, e.height, DailyWindow, MaxDaily, dailyReset, daily)
    BY <2>2, Zenon DEF Limited
  <2>6. /\ IF e.height - hourlyReset >= HourlyWindow
           THEN hourlyReset' = e.height /\ hourly' = e.amount
           ELSE hourlyReset' = hourlyReset /\ hourly' = hourly + e.amount
        /\ hourly' <= MaxHourly
    BY <2>2, <2>3 DEF Charge, HourOver
  <2>7. /\ IF e.height - dailyReset >= DailyWindow
           THEN dailyReset' = e.height /\ daily' = e.amount
           ELSE dailyReset' = dailyReset /\ daily' = daily + e.amount
        /\ daily' <= MaxDaily
    BY <2>2, <2>3 DEF Charge, DayOver
  <2>8. Metered(accepted', e.height, HourlyWindow, MaxHourly, hourlyReset', hourly')
    BY <1>1, <2>2, <2>3, <2>4, <2>6, WindowTypes, MeteredMint
  <2>9. Metered(accepted', e.height, DailyWindow, MaxDaily, dailyReset', daily')
    BY <1>1, <2>2, <2>3, <2>5, <2>7, WindowTypes, MeteredMint
  <2>10. e.height = height'
    BY <2>2, <2>3
  <2> QED BY <2>8, <2>9, <2>10, Zenon DEF Limited
<1>3. ASSUME UNCHANGED <<accepted, limitVars>>, height' \in Nat, height <= height'
      PROVE  Limited'
  <2>1. ASSUME NEW size, NEW cap, NEW reset, NEW count,
               Metered(accepted, height, size, cap, reset, count)
        PROVE  Metered(accepted, height', size, cap, reset, count)
    <3>1. \A k \in 1..Len(accepted) : accepted[k].height \in Nat
      BY <1>1, HistoryType
    <3>2. reset \in Int /\ reset <= height
      BY <2>1 DEF Metered
    <3>3. reset <= height'
      BY <1>1, <1>3, <3>2
    <3>4. \A k \in 1..Len(accepted) : accepted[k].height <= height'
      <4>1. \A k \in 1..Len(accepted) : accepted[k].height <= height
        BY <2>1 DEF Metered
      <4> QED BY <1>1, <1>3, <3>1, <4>1
    <3> QED BY <2>1, <3>3, <3>4, Zenon DEF Metered
  <2>2. /\ accepted' = accepted /\ hourly' = hourly /\ hourlyReset' = hourlyReset
        /\ daily' = daily /\ dailyReset' = dailyReset
    BY <1>3 DEF limitVars
  <2>3. /\ Metered(accepted, height', HourlyWindow, MaxHourly, hourlyReset, hourly)
        /\ Metered(accepted, height', DailyWindow, MaxDaily, dailyReset, daily)
    BY <2>1 DEF Limited
  <2> QED BY <2>2, <2>3, Zenon DEF Limited
<1>4. CASE Executed
  <2>1. UNCHANGED <<accepted, limitVars, height>>
    BY <1>4, Zenon DEF Executed, ExecutePendingMint
  <2> QED BY <1>1, <1>3, <2>1
<1>5. CASE Cancelled
  <2>1. UNCHANGED <<accepted, limitVars, height>>
    BY <1>5, Zenon DEF Cancelled, CancelPendingMint
  <2> QED BY <1>1, <1>3, <2>1
<1>6. CASE MintsKept /\ UNCHANGED limitVars /\ (Burned \/ Passed \/ Rested)
  <2>1. UNCHANGED <<accepted, limitVars>> /\ (height' = height \/ height' = height + 1)
    BY <1>6 DEF MintsKept, mintVars, Burned, Passed, Rested
  <2> QED BY <1>1, <1>3, <2>1
<1> QED BY <1>2, <1>4, <1>5, <1>6, OtherSteps

LEMMA LimitedInit == Init => Limited
<1> SUFFICES ASSUME Init PROVE Limited
  OBVIOUS
<1>1. /\ accepted = <<>> /\ height = 1 /\ hourly = 0 /\ hourlyReset = 1
      /\ daily = 0 /\ dailyReset = 1
  BY Zenon DEF Init, Genesis
<1>2. ASSUME NEW lo, NEW hi PROVE Let(<<>>, lo, hi) = 0
  <2>1. Within(<<>>, lo, hi) = {}
    BY DEF Within
  <2> QED BY <2>1, SumEmpty, Zenon DEF Let
<1>3. ASSUME NEW size, NEW cap \in Nat PROVE Metered(<<>>, 1, size, cap, 1, 0)
  BY <1>2 DEF Metered
<1>4. Metered(<<>>, 1, HourlyWindow, MaxHourly, 1, 0)
      /\ Metered(<<>>, 1, DailyWindow, MaxDaily, 1, 0)
  BY <1>3, WindowTypes
<1> QED BY <1>1, <1>4, Zenon DEF Limited

\* The tumbling windows let in at most twice a cap in any stretch of blocks as
\* long as the window, for any caps, window lengths, amounts and schedule.
THEOREM ZkBridgeMintRate == Spec => []MintRateBounded
  BY LimitedInit, LimitedStep, LimitedBounds, CoreTypes, PTL DEF Spec

----------------------------------------------------------------------------
(* ZkBridge implements Issuance: the invariants above say of an id which    *)
(* stage it is in, and each step of the contract maps to a step of Issuance *)
(* or to none.                                                              *)

\* What the mapping rests on, besides the types.
Base == CoreTypeOK /\ supply \in Nat /\ height > 0 /\ MintInv

----------------------------------------------------------------------------
(* How a step moves the stages.                                            *)

\* The stages after a step that concerns one id: the others keep theirs when
\* their entries, and whether they were issued, are as before.
LEMMA StageMoved ==
  ASSUME NEW id \in Ids,
         \A j \in Ids \ {id} :
            /\ j \in processed' <=> j \in processed
            /\ queue'[j] = queue[j]
            /\ (\E i \in 1..Len(issued') : issued'[i].id = j)
                 <=> (\E i \in 1..Len(issued) : issued[i].id = j)
  PROVE  Stages' = [Stages EXCEPT ![id] = Stage(id)']
<1>1. \A j \in Ids \ {id} : Stage(j)' = Stage(j)
  BY Zenon DEF Stage
<1>2. Stages' = [j \in Ids |-> Stage(j)']
  BY DEF Stages
<1>3. QED
  BY <1>1, <1>2, Zenon DEF Stages

\* An issue of id adds id to the issued ones, and no other.
LEMMA IssuedIds ==
  ASSUME CoreTypeOK, NEW id \in Ids, NEW u \in Nat, Issue(id, u)
  PROVE  /\ \E i \in 1..Len(issued') : issued'[i].id = id
         /\ \A j \in Ids \ {id} :
               (\E i \in 1..Len(issued') : issued'[i].id = j)
                 <=> (\E i \in 1..Len(issued) : issued[i].id = j)
<1> DEFINE n == Len(issued)
<1>1. /\ Len(issued') = n + 1
      /\ issued'[n + 1].id = id
      /\ \A i \in 1..n : issued'[i] = issued[i]
      /\ \A i \in 1..Len(issued') : i \in 1..n \/ i = n + 1
  BY IssueEffect
<1>2. n \in Nat
  BY LenProperties DEF CoreTypeOK
<1>3. n + 1 \in 1..Len(issued') /\ \A i \in 1..n : i \in 1..Len(issued')
  BY <1>1, <1>2
<1>4. QED
  BY <1>1, <1>3

\* A mint: an id without an entry is issued at once, or promised.
LEMMA MintMaps ==
  ASSUME Base, Minted
  PROVE  Promised!Next
<1> PICK id \in Ids, a \in Amounts : Mint(id, a)
  BY DEF Minted
<1> DEFINE u == a \div Ratio
<1>1. u \in Nat /\ u \in UnitAmounts
  BY ConstantTypes, UnitsType DEF UnitAmounts
<1> HIDE DEF u
<1>2. id \notin processed /\ processed' = processed \cup {id} /\ UNCHANGED height
  BY DEF Mint
<1>3. /\ queue[id] = NotQueued
      /\ \A i \in 1..Len(issued) : issued[i].id # id
  BY <1>2, FreshId DEF Base
<1>4. DOMAIN queue = Ids /\ queue = [j \in Ids |-> queue[j]]
  BY DEF Base, CoreTypeOK
<1>5. Stages[id] = "new"
  BY <1>2 DEF Stages, Stage
<1>6. CASE a >= LargeTx
  <2>1. /\ queue' = [queue EXCEPT ![id] = [amount |-> u, height |-> height]]
        /\ UNCHANGED <<supply, issued>>
    BY <1>6, ConstantTypes DEF Mint, u
  <2>2. queue'[id] = [amount |-> u, height |-> height]
    BY <1>4, <2>1
  <2>3. [amount |-> u, height |-> height] # NotQueued
    <3>1. height # 0
      BY DEF Base
    <3>2. QED
      BY <3>1 DEF NotQueued
  <2>4. Stage(id)' = "promised"
    BY <1>2, <2>2, <2>3 DEF Stage
  <2>5. Stages' = [Stages EXCEPT ![id] = "promised"]
    BY <1>2, <2>1, <2>4, StageMoved
  <2>6. Promised!Promise(id)
    BY <1>1, <1>2, <1>5, <2>1, <2>5 DEF Promised!Promise
  <2>7. QED
    BY <2>6 DEF Promised!Next
<1>7. CASE ~(a >= LargeTx)
  <2>1. Issue(id, u) /\ UNCHANGED queue
    BY <1>7, ConstantTypes DEF Mint, u
  <2>2. /\ \E i \in 1..Len(issued') : issued'[i].id = id
        /\ \A j \in Ids \ {id} :
              (\E i \in 1..Len(issued') : issued'[i].id = j)
                <=> (\E i \in 1..Len(issued) : issued[i].id = j)
    BY <1>1, <2>1, IssuedIds DEF Base
  <2>3. Stage(id)' = "issued"
    BY <1>2, <1>3, <2>1, <2>2 DEF Stage
  <2>4. Stages' = [Stages EXCEPT ![id] = "issued"]
    BY <1>2, <2>1, <2>2, <2>3, StageMoved
  <2>5. queue' = [queue EXCEPT ![id] = NotQueued]
    BY <1>3, <1>4, <2>1
  <2>6. supply' = supply + u
    BY <2>1 DEF Issue
  <2>7. Promised!Pay(id, u)
    BY <1>2, <2>4, <2>5, <2>6 DEF Promised!Pay, Promised!Nothing, NotQueued
  <2>8. Promised!Issue(id)
    BY <1>1, <1>5, <2>7 DEF Promised!Issue
  <2>9. QED
    BY <2>8 DEF Promised!Next
<1>8. QED
  BY <1>6, <1>7

\* A queued mint that is executed: the promise is kept.
LEMMA ExecuteMaps ==
  ASSUME Base, Executed
  PROVE  Promised!Next
<1> PICK id \in Ids : ExecutePendingMint(id)
  BY DEF Executed
<1> DEFINE u == queue[id].amount
<1>1. /\ u \in Nat /\ queue[id].height \in Nat
      /\ DOMAIN queue = Ids
  BY DEF Base, CoreTypeOK
<1>2. /\ queue[id] # NotQueued
      /\ height - queue[id].height >= LargeDelay
      /\ Issue(id, u)
      /\ queue' = [queue EXCEPT ![id] = NotQueued]
      /\ UNCHANGED <<processed, height>>
  BY DEF ExecutePendingMint
<1>3. id \in processed
  BY <1>2 DEF Base, MintInv, AcceptedOnce, QueueBacked
<1>4. Stages[id] = "promised"
  BY <1>2, <1>3 DEF Stages, Stage
<1>5. /\ \E i \in 1..Len(issued') : issued'[i].id = id
      /\ \A j \in Ids \ {id} :
            (\E i \in 1..Len(issued') : issued'[i].id = j)
              <=> (\E i \in 1..Len(issued) : issued[i].id = j)
  BY <1>1, <1>2, IssuedIds DEF Base
<1>6. queue'[id] = NotQueued
  BY <1>1, <1>2
<1>7. Stage(id)' = "issued"
  BY <1>2, <1>3, <1>5, <1>6 DEF Stage
<1>8. Stages' = [Stages EXCEPT ![id] = "issued"]
  BY <1>2, <1>5, <1>7, StageMoved
<1>9. supply' = supply + u
  BY <1>2 DEF Issue
<1>10. Promised!Pay(id, u)
  BY <1>2, <1>8, <1>9 DEF Promised!Pay, Promised!Nothing, NotQueued
<1>11. Promised!Keep(id)
  BY <1>2, <1>4, <1>10 DEF Promised!Keep
<1>12. QED
  BY <1>11 DEF Promised!Next

\* A cancellation: of a queued mint, it withdraws the promise; else it changes
\* nothing that Issuance sees.
LEMMA CancelMaps ==
  ASSUME Base, Cancelled
  PROVE  Promised!Next \/ UNCHANGED Promised!issuanceVars
<1> PICK p \in Principals, id \in Ids : CancelPendingMint(p, id)
  BY DEF Cancelled
<1>1. DOMAIN queue = Ids /\ queue = [j \in Ids |-> queue[j]]
  BY DEF Base, CoreTypeOK
<1>2. /\ queue' = [queue EXCEPT ![id] = NotQueued]
      /\ UNCHANGED <<processed, issued, supply, height>>
  BY DEF CancelPendingMint
<1>3. CASE queue[id] = NotQueued
  <2>1. UNCHANGED queue
    BY <1>1, <1>2, <1>3
  <2>2. UNCHANGED Stages
    BY <1>2, <2>1 DEF Stages, Stage
  <2>3. QED
    BY <1>2, <2>1, <2>2 DEF Promised!issuanceVars
<1>4. CASE queue[id] # NotQueued
  <2>1. id \in processed
    BY <1>4 DEF Base, MintInv, AcceptedOnce, QueueBacked
  <2>2. \A i \in 1..Len(issued) : issued[i].id # id
    BY <1>4 DEF Base, MintInv, IssuedOnce
  <2>3. queue'[id] = NotQueued
    BY <1>1, <1>2
  <2>4. Stage(id)' = "withdrawn"
    BY <1>2, <2>1, <2>2, <2>3 DEF Stage
  <2>5. Stages' = [Stages EXCEPT ![id] = "withdrawn"]
    BY <1>2, <2>4, StageMoved
  <2>6. Stages[id] = "promised"
    BY <1>4, <2>1 DEF Stages, Stage
  <2>7. Promised!Withdraw(id)
    BY <1>2, <2>5, <2>6 DEF Promised!Withdraw, Promised!Nothing, NotQueued
  <2>8. QED
    BY <2>7 DEF Promised!Next
<1>5. QED
  BY <1>3, <1>4

\* Every other step is a burn, a new block, or a step that Issuance ignores.
LEMMA OtherMaps ==
  ASSUME Base, MintsKept, Burned \/ Passed \/ Rested
  PROVE  Promised!Next \/ UNCHANGED Promised!issuanceVars
<1>1. UNCHANGED <<Stages, queue>>
  BY DEF MintsKept, mintVars, Stages, Stage
<1>2. CASE Burned
  <2>1. PICK a \in Amounts : a <= supply /\ supply' = supply - a
    BY <1>2 DEF Burned
  <2>2. a \in 0..supply
    BY <2>1, ConstantTypes DEF Base
  <2>3. Promised!Retire
    BY <1>1, <1>2, <2>1, <2>2 DEF Promised!Retire, Burned
  <2>4. QED
    BY <2>3 DEF Promised!Next
<1>3. CASE Passed
  BY <1>1, <1>3 DEF Promised!Tick, Promised!Next, Passed, supplyVars
<1>4. CASE Rested
  BY <1>1, <1>4 DEF Promised!issuanceVars, Rested, supplyVars
<1>5. QED
  BY <1>2, <1>3, <1>4

----------------------------------------------------------------------------
\* The supply never goes negative, and the chain starts above height zero.
LEMMA BaseStep ==
  ASSUME Base, [Next]_vars
  PROVE  Base'
<1>1. CoreTypeOK' /\ MintInv'
  BY NextTypes, MintStep DEF Base
<1>2. CASE Minted
  <2>1. PICK id \in Ids, a \in Amounts : Mint(id, a)
    BY <1>2 DEF Minted
  <2>2. a \div Ratio \in Nat
    BY ConstantTypes, UnitsType
  <2>3. supply' = supply \/ supply' = supply + (a \div Ratio)
    BY <2>1 DEF Mint, Issue
  <2>4. height' = height
    BY <2>1 DEF Mint
  <2>5. QED
    BY <1>1, <2>2, <2>3, <2>4 DEF Base
<1>3. CASE Executed
  <2>1. PICK id \in Ids : ExecutePendingMint(id)
    BY <1>3 DEF Executed
  <2>2. supply' = supply + queue[id].amount /\ height' = height
    BY <2>1 DEF ExecutePendingMint, Issue
  <2>3. queue[id].amount \in Nat
    BY DEF Base, CoreTypeOK
  <2>4. QED
    BY <1>1, <2>2, <2>3 DEF Base
<1>4. CASE Cancelled
  BY <1>1, <1>4 DEF Base, Cancelled, CancelPendingMint
<1>5. CASE Burned
  BY <1>1, <1>5, ConstantTypes DEF Base, Burned
<1>6. CASE Passed \/ Rested
  BY <1>1, <1>6 DEF Base, CoreTypeOK, Passed, Rested, supplyVars
<1>7. QED
  BY <1>2, <1>3, <1>4, <1>5, <1>6, OtherSteps

LEMMA BaseInit == Init => Base
<1> SUFFICES ASSUME Init PROVE Base
  OBVIOUS
<1>1. CoreTypeOK /\ MintInv
  BY InitTypes, MintInit
<1>2. supply \in Nat /\ height > 0
  BY DEF Init, Genesis
<1>3. QED
  BY <1>1, <1>2 DEF Base

\* The initial state maps to the initial state of Issuance.
LEMMA InitMaps == Init => Promised!Init
<1> SUFFICES ASSUME Init PROVE Promised!Init
  OBVIOUS
<1>1. /\ processed = {} /\ queue = [i \in Ids |-> NotQueued]
      /\ supply = 0 /\ height = Genesis
  BY Zenon DEF Init
<1>2. \A j \in Ids : Stage(j) = "new"
  BY <1>1 DEF Stage
<1>3. Stages = [j \in Ids |-> "new"]
  BY <1>2, Zenon DEF Stages
<1>4. queue = [i \in Ids |-> Promised!Nothing]
  BY <1>1, Zenon DEF Promised!Nothing, NotQueued
<1>5. QED
  BY <1>1, <1>3, <1>4 DEF Promised!Init, Genesis

\* Every behaviour of the contract is one of Issuance: a deposit is issued once,
\* at once or by a promise kept after the delay, a withdrawn promise is never
\* kept and its transfer never issued again, and nothing else adds to the supply.
THEOREM ZkBridgeImplements == Spec => Implements
<1>1. Init => Base /\ Promised!Init
  BY BaseInit, InitMaps
<1>2. Base /\ [Next]_vars => Base'
  BY BaseStep
<1>3. Base /\ [Next]_vars => [Promised!Next]_(Promised!issuanceVars)
  BY OtherSteps, MintMaps, ExecuteMaps, CancelMaps, OtherMaps
<1>4. QED
  BY <1>1, <1>2, <1>3, PTL DEF Spec, Implements, Promised!Spec
=============================================================================
