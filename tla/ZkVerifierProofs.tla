-------------------------- MODULE ZkVerifierProofs --------------------------
(***************************************************************************)
(* Theorems about ZkVerifier for every value of its constants: any members *)
(* and committees, any roots and messages, any delays, any number of       *)
(* approvals in flight.                                                    *)
(***************************************************************************)
EXTENDS ZkVerifier, TLAPS, SequenceTheorems, FiniteSetTheorems

----------------------------------------------------------------------------
(* Types *)

LEMMA ConstantTypes ==
  /\ IsFiniteSet(Keys)
  /\ \A c \in Committees : c.keys \subseteq Keys /\ c.threshold \in Nat
  /\ NoRoot \notin Roots
  /\ MaxProposals \in Nat /\ MaxCheckpoints \in Nat /\ UnpauseDelay \in Nat
<1>1. IsFiniteSet(Keys) /\ NoRoot \notin Roots
  BY ZkVerifierConstants
<1>2. \A c \in Committees : c.keys \subseteq Keys /\ c.threshold \in Nat
  BY ZkVerifierConstants
<1>3. MaxProposals \in Nat /\ MaxCheckpoints \in Nat /\ UnpauseDelay \in Nat
  BY ZkVerifierConstants
<1>4. QED
  BY <1>1, <1>2, <1>3

\* The parts of the state that different operations change.
AdminTypes ==
  /\ admin \in Principals /\ pendingAdmin \in Principals \cup {NoOne}
  /\ transferHeight \in Nat /\ vkSet \in BOOLEAN
PauseTypes ==
  /\ paused \in BOOLEAN /\ unpauseAt \in Nat /\ haltedAt \in Int /\ height \in Nat
CommitteeTypes == committee \subseteq Keys /\ threshold \in Nat
ProposalTypes ==
  /\ nextProposal \in Numbers /\ proposals \in [Numbers -> Proposals]
  /\ approved \in [Numbers -> SUBSET Keys] /\ votes \in [Numbers -> Votes]
  /\ reused \subseteq Numbers
CheckpointTypes ==
  /\ nextCheckpoint \in CheckpointIds
  /\ checkpoints \in [CheckpointIds -> Checkpoints]
  /\ decided \in [CheckpointIds -> Decisions]
  /\ \A c \in CheckpointIds : c >= nextCheckpoint => ~checkpoints[c].active
MintTypes == processed \subseteq Messages /\ minted \in Seq(Mints)
MailTypes == mail \subseteq [by : Keys, proposal : Numbers, root : Roots]

LEMMA TypeParts ==
  TypeOK <=> /\ AdminTypes /\ PauseTypes /\ CommitteeTypes /\ ProposalTypes
             /\ CheckpointTypes /\ MintTypes /\ MailTypes
  BY DEF TypeOK, AdminTypes, PauseTypes, CommitteeTypes, ProposalTypes,
         CheckpointTypes, MintTypes, MailTypes

LEMMA InitTypes == Init => TypeOK
<1> SUFFICES ASSUME Init PROVE TypeOK
  OBVIOUS
<1>1. 0 \in Numbers /\ 0 \in CheckpointIds
  BY ConstantTypes DEF Numbers, CheckpointIds
<1>2. AdminTypes /\ PauseTypes /\ CommitteeTypes /\ MintTypes /\ MailTypes
  <2>1. AdminTypes /\ PauseTypes
    <3>1. Genesis \in Nat /\ Genesis - UnpauseDelay \in Int /\ 0 \in Nat
      BY ConstantTypes DEF Genesis
    <3>2. AdminTypes
      BY Zenon, <3>1 DEF Init, AdminTypes
    <3>3. PauseTypes
      BY Zenon, <3>1 DEF Init, PauseTypes
    <3>4. QED
      BY <3>2, <3>3
  <2>2. CommitteeTypes /\ MailTypes
    BY DEF Init, CommitteeTypes, MailTypes
  <2>3. MintTypes
    BY EmptySeq DEF Init, MintTypes
  <2>4. QED
    BY <2>1, <2>2, <2>3
<1>3. ProposalTypes
  BY <1>1 DEF Init, ProposalTypes, Proposals, NoProposal, Votes
<1>4. CheckpointTypes
  BY <1>1 DEF Init, CheckpointTypes, Checkpoints, NoCheckpoint, Decisions, Votes,
              Undecided
<1>5. QED
  BY <1>2, <1>3, <1>4, TypeParts

\* The operations that leave the committee, its checkpoints and the mints alone.
Quiet == UNCHANGED otherVars

LEMMA QuietSteps ==
  ASSUME [Next]_vars
  PROVE  \/ \E m \in Keys, r \in Roots : ProposeCheckpoint(m, r)
         \/ \E m \in Keys, n \in Numbers : SendApproval(m, n)
         \/ \E a \in mail : LoseApproval(a)
         \/ \E a \in mail : ApproveCheckpoint(a)
         \/ \E p \in Principals, c \in CheckpointIds : DeactivateCheckpoint(p, c)
         \/ \E c \in CheckpointIds, x \in Messages : VerifyAndMint(c, x)
         \/ \E p \in Principals, c \in Committees : InitializeCommittee(p, c)
         \/ Quiet
<1>1. ASSUME NEW p \in Principals,
             \/ SetVerifyingKey(p) \/ EmergencyPause(p) \/ RequestUnpause(p)
             \/ ExecuteUnpause(p) \/ AcceptAdmin(p)
      PROVE  Quiet
  BY <1>1 DEF Quiet, SetVerifyingKey, EmergencyPause, RequestUnpause,
              ExecuteUnpause, AcceptAdmin
<1>2. ASSUME NEW p \in Principals, NEW q \in Principals, ProposeAdmin(p, q)
      PROVE  Quiet
  BY <1>2 DEF Quiet, ProposeAdmin
<1>3. CASE NewBlock
  BY <1>3 DEF Quiet, NewBlock
<1>4. CASE UNCHANGED vars
  BY <1>4 DEF Quiet, vars, otherVars
<1>5. QED
  BY <1>1, <1>2, <1>3, <1>4 DEF Next

\* Every step keeps the types of what the administration changes.
LEMMA AdminStep ==
  ASSUME TypeOK, [Next]_vars
  PROVE  AdminTypes' /\ PauseTypes'
<1> USE DEF AdminTypes, PauseTypes, adminVars, pauseVars
<1> AdminTypes /\ PauseTypes
  BY TypeParts
<1>1. ASSUME NEW p \in Principals,
             \/ SetVerifyingKey(p) \/ EmergencyPause(p) \/ RequestUnpause(p)
             \/ ExecuteUnpause(p) \/ AcceptAdmin(p)
      PROVE  AdminTypes' /\ PauseTypes'
  <2>1. CASE SetVerifyingKey(p)
    BY <2>1 DEF SetVerifyingKey
  <2>2. CASE EmergencyPause(p)
    BY <2>2 DEF EmergencyPause
  <2>3. CASE RequestUnpause(p)
    BY <2>3 DEF RequestUnpause
  <2>4. CASE ExecuteUnpause(p)
    BY <2>4 DEF ExecuteUnpause
  <2>5. CASE AcceptAdmin(p)
    BY <2>5 DEF AcceptAdmin
  <2>6. QED
    BY <1>1, <2>1, <2>2, <2>3, <2>4, <2>5
<1>2. ASSUME NEW p \in Principals, NEW q \in Principals, ProposeAdmin(p, q)
      PROVE  AdminTypes' /\ PauseTypes'
  BY <1>2 DEF ProposeAdmin
<1>3. CASE NewBlock
  BY <1>3 DEF NewBlock
<1>4. ASSUME NEW m \in Keys, NEW r \in Roots, ProposeCheckpoint(m, r)
      PROVE  AdminTypes' /\ PauseTypes'
  BY <1>4 DEF ProposeCheckpoint
<1>5. ASSUME NEW m \in Keys, NEW n \in Numbers, SendApproval(m, n)
      PROVE  AdminTypes' /\ PauseTypes'
  BY <1>5 DEF SendApproval
<1>6. ASSUME NEW a \in mail, LoseApproval(a) \/ ApproveCheckpoint(a)
      PROVE  AdminTypes' /\ PauseTypes'
  BY <1>6 DEF LoseApproval, ApproveCheckpoint
<1>7. ASSUME NEW p \in Principals, NEW c \in CheckpointIds, DeactivateCheckpoint(p, c)
      PROVE  AdminTypes' /\ PauseTypes'
  BY <1>7 DEF DeactivateCheckpoint
<1>8. ASSUME NEW c \in CheckpointIds, NEW x \in Messages, VerifyAndMint(c, x)
      PROVE  AdminTypes' /\ PauseTypes'
  BY <1>8 DEF VerifyAndMint
<1>9. ASSUME NEW p \in Principals, NEW c \in Committees, InitializeCommittee(p, c)
      PROVE  AdminTypes' /\ PauseTypes'
  BY <1>9 DEF InitializeCommittee
<1>10. CASE UNCHANGED vars
  BY <1>10 DEF vars
<1>11. QED
  BY <1>1, <1>2, <1>3, <1>4, <1>5, <1>6, <1>7, <1>8, <1>9, <1>10 DEF Next
\* Types under the operations on the committee and its checkpoints.
LEMMA InitializeTypes ==
  ASSUME TypeOK, NEW p \in Principals, NEW c \in Committees,
         InitializeCommittee(p, c)
  PROVE  CommitteeTypes' /\ ProposalTypes' /\ CheckpointTypes' /\ MintTypes'
         /\ MailTypes'
<1> USE TypeParts, ConstantTypes DEF InitializeCommittee
<1>1. CommitteeTypes'
  BY DEF CommitteeTypes
<1>2. ProposalTypes'
  <2>1. 0 \in Numbers /\ 0..(nextProposal - 1) \subseteq Numbers
    BY DEF ProposalTypes, Numbers
  <2>2. QED
    BY <2>1 DEF ProposalTypes
<1>3. CheckpointTypes'
  BY DEF CheckpointTypes, checkpointVars
<1>4. MintTypes' /\ MailTypes'
  BY DEF MintTypes, MailTypes, mintVars
<1>5. QED
  BY <1>1, <1>2, <1>3, <1>4

LEMMA ProposeTypes ==
  ASSUME TypeOK, NEW m \in Keys, NEW r \in Roots, ProposeCheckpoint(m, r)
  PROVE  CommitteeTypes' /\ ProposalTypes' /\ CheckpointTypes' /\ MintTypes'
         /\ MailTypes'
<1> USE TypeParts, ConstantTypes DEF ProposeCheckpoint
<1>1. CommitteeTypes' /\ MintTypes' /\ MailTypes'
  BY DEF CommitteeTypes, MintTypes, MailTypes, committeeVars, mintVars
<1>2. CheckpointTypes'
  BY DEF CheckpointTypes, checkpointVars
<1>3. ProposalTypes'
  <2>1. nextProposal \in Numbers /\ nextProposal' \in Numbers
    BY DEF ProposalTypes, Numbers
  <2>2. [root |-> r, approvals |-> 1, finalized |-> FALSE] \in Proposals
    BY DEF Proposals
  <2>3. {<<m, r>>} \in Votes
    BY DEF Votes
  <2>4. proposals' \in [Numbers -> Proposals]
    BY <2>1, <2>2 DEF ProposalTypes
  <2>5. approved' \in [Numbers -> SUBSET Keys]
    BY <2>1 DEF ProposalTypes
  <2>6. votes' \in [Numbers -> Votes]
    BY <2>1, <2>3 DEF ProposalTypes
  <2>7. QED
    BY <2>1, <2>4, <2>5, <2>6 DEF ProposalTypes
<1>4. QED
  BY <1>1, <1>2, <1>3

LEMMA MailStepTypes ==
  ASSUME TypeOK,
         \/ \E m \in Keys, n \in Numbers : SendApproval(m, n)
         \/ \E a \in mail : LoseApproval(a)
  PROVE  CommitteeTypes' /\ ProposalTypes' /\ CheckpointTypes' /\ MintTypes'
         /\ MailTypes'
<1> USE TypeParts
<1>1. UNCHANGED <<committeeVars, proposalVars, checkpointVars, mintVars>>
  BY DEF SendApproval, LoseApproval
<1>2. CommitteeTypes' /\ ProposalTypes' /\ CheckpointTypes' /\ MintTypes'
  BY <1>1 DEF CommitteeTypes, ProposalTypes, CheckpointTypes, MintTypes,
              committeeVars, proposalVars, checkpointVars, mintVars
<1>3. ASSUME NEW m \in Keys, NEW n \in Numbers, SendApproval(m, n)
      PROVE  MailTypes'
  <2>1. proposals[n].root \in Roots
    BY <1>3 DEF SendApproval, ProposalTypes, Proposals
  <2>2. QED
    BY <1>3, <2>1 DEF SendApproval, MailTypes
<1>4. ASSUME NEW a \in mail, LoseApproval(a)
      PROVE  MailTypes'
  BY <1>4 DEF LoseApproval, MailTypes
<1>5. QED
  BY <1>2, <1>3, <1>4

\* What an approval is made of.
LEMMA MailFields ==
  ASSUME TypeOK, NEW a \in mail
  PROVE  a.by \in Keys /\ a.proposal \in Numbers /\ a.root \in Roots
  BY TypeParts DEF MailTypes

LEMMA ApproveTypes ==
  ASSUME TypeOK, NEW a \in mail, ApproveCheckpoint(a)
  PROVE  CommitteeTypes' /\ ProposalTypes' /\ CheckpointTypes' /\ MintTypes'
         /\ MailTypes'
<1> DEFINE n == a.proposal
           vs == votes[n] \cup {<<a.by, a.root>>}
<1> USE TypeParts, ConstantTypes
<1>1. a.by \in Keys /\ n \in Numbers /\ a.root \in Roots
  BY MailFields
<1>2. CommitteeTypes' /\ MintTypes' /\ MailTypes'
  BY DEF ApproveCheckpoint, CommitteeTypes, MintTypes, MailTypes, committeeVars,
         mintVars
<1>3. vs \in Votes
  BY <1>1 DEF ProposalTypes, Votes
<1>4. proposals[n].root \in Roots \cup {NoRoot} /\ proposals[n].approvals + 1 \in Nat
  BY <1>1 DEF ProposalTypes, Proposals
<1>5. proposals' \in [Numbers -> Proposals]
  <2>1. ASSUME NEW f \in BOOLEAN
        PROVE  [root |-> proposals[n].root, approvals |-> proposals[n].approvals + 1,
                finalized |-> f] \in Proposals
    BY <1>4, <2>1 DEF Proposals
  <2>2. QED
    BY <1>1, <2>1 DEF ApproveCheckpoint, ProposalTypes
<1>6. ProposalTypes'
  <2>1. approved' \in [Numbers -> SUBSET Keys]
    BY <1>1 DEF ApproveCheckpoint, ProposalTypes
  <2>2. votes' \in [Numbers -> Votes]
    BY <1>1, <1>3 DEF ApproveCheckpoint, ProposalTypes
  <2>3. QED
    BY <1>5, <2>1, <2>2 DEF ApproveCheckpoint, ProposalTypes
<1>7. CheckpointTypes'
  <2>1. CASE UNCHANGED checkpointVars
    BY <2>1 DEF CheckpointTypes, checkpointVars
  <2>2. CASE Activated(n, vs)
    <3>1. /\ nextCheckpoint \in CheckpointIds /\ nextCheckpoint' \in CheckpointIds
          /\ nextCheckpoint' = nextCheckpoint + 1
      BY <2>2 DEF Activated, CheckpointTypes, CheckpointIds
    <3>2. [root |-> proposals[n].root, height |-> height, active |-> TRUE] \in Checkpoints
      BY <1>4 DEF Checkpoints, PauseTypes
    <3>3. [votes |-> vs, threshold |-> threshold, reused |-> n \in reused] \in Decisions
      <4>1. threshold \in Nat /\ (n \in reused) \in BOOLEAN
        BY DEF CommitteeTypes
      <4>2. QED
        BY <1>3, <4>1 DEF Decisions
    <3>4. /\ checkpoints' \in [CheckpointIds -> Checkpoints]
          /\ decided' \in [CheckpointIds -> Decisions]
      BY <2>2, <3>1, <3>2, <3>3 DEF Activated, CheckpointTypes
    <3>5. ASSUME NEW c \in CheckpointIds, c >= nextCheckpoint'
          PROVE  ~checkpoints'[c].active
      BY <2>2, <3>1, <3>5 DEF Activated, CheckpointTypes, CheckpointIds
    <3>6. QED
      BY <3>1, <3>4, <3>5 DEF CheckpointTypes
  <2>3. QED
    BY <2>1, <2>2 DEF ApproveCheckpoint
<1>8. QED
  BY <1>2, <1>6, <1>7

LEMMA DeactivateTypes ==
  ASSUME TypeOK, NEW p \in Principals, NEW c \in CheckpointIds,
         DeactivateCheckpoint(p, c)
  PROVE  CommitteeTypes' /\ ProposalTypes' /\ CheckpointTypes' /\ MintTypes'
         /\ MailTypes'
<1> USE TypeParts DEF DeactivateCheckpoint
<1>1. CommitteeTypes' /\ ProposalTypes' /\ MintTypes' /\ MailTypes'
  BY DEF CommitteeTypes, ProposalTypes, MintTypes, MailTypes, committeeVars,
         proposalVars, mintVars
<1>2. [root |-> checkpoints[c].root, height |-> checkpoints[c].height,
       active |-> FALSE] \in Checkpoints
  BY DEF CheckpointTypes, Checkpoints
<1>3. checkpoints' \in [CheckpointIds -> Checkpoints]
  BY <1>2 DEF CheckpointTypes
<1>4. \A d \in CheckpointIds : d >= nextCheckpoint => ~checkpoints'[d].active
  BY DEF CheckpointTypes
<1>5. decided' \in [CheckpointIds -> Decisions] /\ nextCheckpoint' \in CheckpointIds
  BY DEF CheckpointTypes
<1>6. QED
  BY <1>1, <1>3, <1>4, <1>5 DEF CheckpointTypes

LEMMA VerifyTypes ==
  ASSUME TypeOK, NEW c \in CheckpointIds, NEW x \in Messages, VerifyAndMint(c, x)
  PROVE  CommitteeTypes' /\ ProposalTypes' /\ CheckpointTypes' /\ MintTypes'
         /\ MailTypes'
<1> USE TypeParts DEF VerifyAndMint
<1>1. CommitteeTypes' /\ ProposalTypes' /\ CheckpointTypes' /\ MailTypes'
  BY DEF CommitteeTypes, ProposalTypes, CheckpointTypes, MailTypes, committeeVars,
         proposalVars, checkpointVars
<1>2. [message |-> x, checkpoint |-> c, height |-> height] \in Mints
  BY DEF Mints, PauseTypes
<1>3. MintTypes'
  BY <1>2, AppendProperties DEF MintTypes
<1>4. QED
  BY <1>1, <1>3

LEMMA TypeStep ==
  ASSUME TypeOK, [Next]_vars
  PROVE  TypeOK'
<1>1. AdminTypes' /\ PauseTypes'
  BY AdminStep
<1>2. ASSUME Quiet
      PROVE  CommitteeTypes' /\ ProposalTypes' /\ CheckpointTypes' /\ MintTypes'
             /\ MailTypes'
  <2>1. CommitteeTypes /\ ProposalTypes /\ CheckpointTypes /\ MintTypes /\ MailTypes
    BY TypeParts
  <2>2. CommitteeTypes' /\ MintTypes' /\ MailTypes'
    BY <1>2, <2>1 DEF Quiet, otherVars, CommitteeTypes, MintTypes, MailTypes,
                      committeeVars, mintVars
  <2>3. ProposalTypes' /\ CheckpointTypes'
    BY <1>2, <2>1 DEF Quiet, otherVars, ProposalTypes, CheckpointTypes,
                      proposalVars, checkpointVars
  <2>4. QED
    BY <2>2, <2>3
<1>3. CommitteeTypes' /\ ProposalTypes' /\ CheckpointTypes' /\ MintTypes' /\ MailTypes'
  <2>1. CASE \E m \in Keys, r \in Roots : ProposeCheckpoint(m, r)
    BY <2>1, ProposeTypes
  <2>2. CASE \/ \E m \in Keys, n \in Numbers : SendApproval(m, n)
             \/ \E a \in mail : LoseApproval(a)
    BY <2>2, MailStepTypes
  <2>3. CASE \E a \in mail : ApproveCheckpoint(a)
    BY <2>3, ApproveTypes
  <2>4. CASE \E p \in Principals, c \in CheckpointIds : DeactivateCheckpoint(p, c)
    BY <2>4, DeactivateTypes
  <2>5. CASE \E c \in CheckpointIds, x \in Messages : VerifyAndMint(c, x)
    BY <2>5, VerifyTypes
  <2>6. CASE \E p \in Principals, c \in Committees : InitializeCommittee(p, c)
    BY <2>6, InitializeTypes
  <2>7. QED
    BY <1>2, <2>1, <2>2, <2>3, <2>4, <2>5, <2>6, QuietSteps
<1>4. QED
  BY <1>1, <1>3 DEF TypeOK, AdminTypes, PauseTypes, CommitteeTypes, ProposalTypes,
                    CheckpointTypes, MintTypes, MailTypes

\* Every variable of the verifier stays in its type under every call.
THEOREM ZkVerifierTypeOK == Spec => []TypeOK
<1>1. Init => TypeOK
  BY InitTypes
<1>2. TypeOK /\ [Next]_vars => TypeOK'
  BY TypeStep
<1>3. QED
  BY <1>1, <1>2, PTL DEF Spec

----------------------------------------------------------------------------
(* The approval count of a proposal is the number of those who approved what *)
(* it holds, all of whom have an approved_ entry: this is why a repeated     *)
(* call cannot raise it.  As long as a number is not put back in use, it     *)
(* holds one root, so an approval in the mail means the root it finds.       *)

CountInv ==
  \A n \in Numbers :
     /\ Voters(votes[n]) \subseteq approved[n]
     /\ proposals[n].approvals = Cardinality(Voters(votes[n]))

RootInv ==
  /\ \A n \in Numbers \ reused :
        /\ n >= nextProposal => proposals[n].root = NoRoot
        /\ \A v \in votes[n] : v[2] = proposals[n].root
  /\ \A a \in mail : a.proposal \notin reused => proposals[a.proposal].root = a.root

ThresholdInv == committee # {} => threshold >= 2

Decided(c) ==
  /\ checkpoints[c].root \in Roots
  /\ decided[c].threshold >= 2
  /\ Cardinality(Voters(decided[c].votes)) >= decided[c].threshold
  /\ ~decided[c].reused => \A v \in decided[c].votes : v[2] = checkpoints[c].root

DecidedInv ==
  \A c \in CheckpointIds :
     /\ c < nextCheckpoint => Decided(c)
     /\ c >= nextCheckpoint => checkpoints[c].root = NoRoot

LEMMA VotersType ==
  ASSUME NEW vs \in Votes
  PROVE  Voters(vs) \subseteq Keys /\ IsFiniteSet(Voters(vs))
<1>1. Voters(vs) \in SUBSET Keys
  BY DEF Voters, Votes
<1>2. QED
  BY <1>1, ConstantTypes, FS_Subset

LEMMA VotersAdd ==
  ASSUME NEW vs, NEW m, NEW r
  PROVE  /\ Voters(vs \cup {<<m, r>>}) = Voters(vs) \cup {m}
         /\ Voters({<<m, r>>}) = {m}
  BY DEF Voters

LEMMA InitializeCount ==
  ASSUME TypeOK, CountInv, RootInv, ThresholdInv,
         NEW p \in Principals, NEW c \in Committees, InitializeCommittee(p, c)
  PROVE  CountInv' /\ RootInv' /\ ThresholdInv'
<1> USE DEF InitializeCommittee
<1>1. CountInv'
  BY DEF CountInv
<1>2. RootInv'
  <2>1. ASSUME NEW n \in Numbers \ reused'
        PROVE  n \notin reused /\ n >= nextProposal
    BY <2>1, TypeParts DEF Numbers, ProposalTypes
  <2>2. ASSUME NEW a \in mail, a.proposal \notin reused'
        PROVE  proposals[a.proposal].root = a.root
    BY <2>2 DEF RootInv
  <2>3. QED
    BY <2>1, <2>2 DEF RootInv
<1>3. ThresholdInv'
  BY DEF ThresholdInv
<1>4. QED
  BY <1>1, <1>2, <1>3

LEMMA ProposeCount ==
  ASSUME TypeOK, CountInv, RootInv, ThresholdInv,
         NEW m \in Keys, NEW r \in Roots, ProposeCheckpoint(m, r)
  PROVE  CountInv' /\ RootInv' /\ ThresholdInv'
<1> USE DEF ProposeCheckpoint
<1>1. nextProposal \in Numbers /\ nextProposal' = nextProposal + 1
  BY TypeParts DEF ProposalTypes
<1>2. ASSUME NEW n \in Numbers, n # nextProposal
      PROVE  /\ proposals'[n] = proposals[n] /\ votes'[n] = votes[n]
             /\ approved'[n] = approved[n]
  BY <1>1, <1>2, TypeParts DEF ProposalTypes
<1>3. /\ proposals'[nextProposal].root = r
      /\ proposals'[nextProposal].approvals = 1
      /\ votes'[nextProposal] = {<<m, r>>}
      /\ m \in approved'[nextProposal]
  BY <1>1, TypeParts DEF ProposalTypes
<1>4. CountInv'
  <2>1. Voters({<<m, r>>}) = {m} /\ Cardinality({m}) = 1
    BY VotersAdd, FS_Singleton
  <2>2. /\ Voters(votes'[nextProposal]) \subseteq approved'[nextProposal]
        /\ proposals'[nextProposal].approvals = Cardinality(Voters(votes'[nextProposal]))
    BY <1>3, <2>1
  <2>3. ASSUME NEW n \in Numbers, n # nextProposal
        PROVE  /\ Voters(votes'[n]) \subseteq approved'[n]
               /\ proposals'[n].approvals = Cardinality(Voters(votes'[n]))
    BY <1>2, <2>3 DEF CountInv
  <2>4. QED
    BY <2>2, <2>3 DEF CountInv, Voters
<1>5. RootInv'
  <2>1. ASSUME NEW n \in Numbers \ reused, n # nextProposal
        PROVE  /\ n >= nextProposal' => proposals'[n].root = NoRoot
               /\ \A v \in votes'[n] : v[2] = proposals'[n].root
    BY <1>1, <1>2, <2>1 DEF RootInv, Numbers
  <2>2. /\ ~(nextProposal >= nextProposal')
        /\ \A v \in votes'[nextProposal] : v[2] = proposals'[nextProposal].root
    BY <1>1, <1>3 DEF Numbers
  <2>3. ASSUME NEW a \in mail, a.proposal \notin reused
        PROVE  proposals'[a.proposal].root = a.root
    <3>1. a.proposal \in Numbers /\ a.root \in Roots
      BY MailFields
    <3>2. proposals[a.proposal].root = a.root /\ a.root # NoRoot
      BY <2>3, <3>1, ConstantTypes DEF RootInv
    <3>3. a.proposal # nextProposal
      BY <1>1, <2>3, <3>1, <3>2 DEF RootInv, Numbers
    <3>4. QED
      BY <1>2, <3>1, <3>2, <3>3
  <2>4. QED
    BY <2>1, <2>2, <2>3 DEF RootInv
<1>6. ThresholdInv'
  BY DEF ThresholdInv, committeeVars
<1>7. QED
  BY <1>4, <1>5, <1>6

LEMMA MailCount ==
  ASSUME TypeOK, CountInv, RootInv, ThresholdInv,
         \/ \E m \in Keys, n \in Numbers : SendApproval(m, n)
         \/ \E a \in mail : LoseApproval(a)
  PROVE  CountInv' /\ RootInv' /\ ThresholdInv'
<1>1. UNCHANGED <<committeeVars, proposalVars>>
  BY DEF SendApproval, LoseApproval
<1>2. CountInv' /\ ThresholdInv'
  BY <1>1 DEF CountInv, ThresholdInv, committeeVars, proposalVars
<1>3. ASSUME NEW a \in mail', a.proposal \notin reused
      PROVE  proposals[a.proposal].root = a.root
  BY <1>3 DEF SendApproval, LoseApproval, RootInv
<1>4. RootInv'
  BY <1>1, <1>3 DEF RootInv, proposalVars
<1>5. QED
  BY <1>2, <1>4

\* What an approval does to its proposal, and to no other.
LEMMA ApproveEffect ==
  ASSUME TypeOK, CountInv, NEW a \in mail, ApproveCheckpoint(a)
  PROVE  LET n == a.proposal
             vs == votes[n] \cup {<<a.by, a.root>>}
         IN  /\ n \in Numbers /\ vs \in Votes
             /\ proposals[n].root \in Roots
             /\ proposals'[n].root = proposals[n].root
             /\ proposals'[n].approvals = proposals[n].approvals + 1
             /\ proposals'[n].approvals = Cardinality(Voters(vs))
             /\ votes'[n] = vs
             /\ Voters(vs) \subseteq approved'[n]
             /\ \A k \in Numbers \ {n} : /\ proposals'[k] = proposals[k]
                                         /\ votes'[k] = votes[k]
                                         /\ approved'[k] = approved[k]
<1> DEFINE n == a.proposal
           vs == votes[n] \cup {<<a.by, a.root>>}
<1>1. a.by \in Keys /\ n \in Numbers /\ a.root \in Roots
  BY MailFields
<1>2. votes[n] \in Votes /\ vs \in Votes
  BY <1>1, TypeParts DEF ProposalTypes, Votes
<1>3. /\ proposals'[n].root = proposals[n].root
      /\ proposals'[n].approvals = proposals[n].approvals + 1
      /\ \A k \in Numbers \ {n} : proposals'[k] = proposals[k]
  BY <1>1, TypeParts DEF ApproveCheckpoint, ProposalTypes
<1>4. /\ votes'[n] = vs /\ approved'[n] = approved[n] \cup {a.by}
      /\ \A k \in Numbers \ {n} : votes'[k] = votes[k] /\ approved'[k] = approved[k]
  BY <1>1, TypeParts DEF ApproveCheckpoint, ProposalTypes
<1>5. proposals[n].root \in Roots
  BY <1>1, TypeParts DEF ApproveCheckpoint, MayApprove, ProposalTypes, Proposals
<1>6. Voters(vs) = Voters(votes[n]) \cup {a.by}
  BY VotersAdd
<1>7. a.by \notin Voters(votes[n])
  BY <1>1 DEF ApproveCheckpoint, MayApprove, CountInv
<1>8. Cardinality(Voters(vs)) = Cardinality(Voters(votes[n])) + 1
  BY <1>2, <1>6, <1>7, VotersType, FS_AddElement
<1>9. Voters(votes[n]) \subseteq approved[n]
      /\ proposals[n].approvals = Cardinality(Voters(votes[n]))
  BY <1>1 DEF CountInv
<1>10. QED
  BY <1>1, <1>2, <1>3, <1>4, <1>5, <1>6, <1>8, <1>9

LEMMA ApproveCount ==
  ASSUME TypeOK, CountInv, RootInv, ThresholdInv,
         NEW a \in mail, ApproveCheckpoint(a)
  PROVE  CountInv' /\ RootInv' /\ ThresholdInv'
<1> DEFINE n == a.proposal
           vs == votes[n] \cup {<<a.by, a.root>>}
<1>1. CountInv'
  <2>1. ASSUME NEW k \in Numbers
        PROVE  /\ Voters(votes'[k]) \subseteq approved'[k]
               /\ proposals'[k].approvals = Cardinality(Voters(votes'[k]))
    <3>1. CASE k = n
      BY <3>1, ApproveEffect
    <3>2. CASE k # n
      BY <3>2, ApproveEffect DEF CountInv
    <3>3. QED
      BY <3>1, <3>2
  <2>2. QED
    BY <2>1 DEF CountInv, Voters
<1>2. RootInv'
  <2>1. UNCHANGED <<nextProposal, reused>> /\ mail' = mail \ {a}
    BY DEF ApproveCheckpoint
  <2>2. \A k \in Numbers : proposals'[k].root = proposals[k].root
    BY ApproveEffect
  <2>3. ASSUME NEW k \in Numbers \ reused, NEW v \in votes'[k]
        PROVE  v[2] = proposals[k].root
    <3>1. CASE k = n /\ v \notin votes[n]
      <4>1. v = <<a.by, a.root>>
        BY ZenonT(60), <3>1, ApproveEffect
      <4>2. QED
        BY <3>1, <4>1 DEF RootInv
    <3>2. CASE v \in votes[k]
      BY <3>2 DEF RootInv
    <3>3. QED
      BY ZenonT(60), <3>1, <3>2, ApproveEffect
  <2>4. ASSUME NEW b \in mail', b.proposal \notin reused'
        PROVE  proposals'[b.proposal].root = b.root
    <3>1. b \in mail /\ b.proposal \in Numbers
      BY <2>1, MailFields
    <3>2. QED
      BY <2>1, <2>2, <2>4, <3>1 DEF RootInv
  <2>5. QED
    BY <2>1, <2>2, <2>3, <2>4 DEF RootInv
<1>3. ThresholdInv'
  BY DEF ThresholdInv, ApproveCheckpoint, committeeVars
<1>4. QED
  BY <1>1, <1>2, <1>3

\* Everything but initializeCommittee, proposals, approvals and the mail leaves
\* the votes alone.
VotesKept == UNCHANGED <<committeeVars, proposalVars, mail>>

LEMMA CountStep ==
  ASSUME TypeOK, CountInv, RootInv, ThresholdInv, [Next]_vars
  PROVE  CountInv' /\ RootInv' /\ ThresholdInv'
<1>1. CASE VotesKept
  BY <1>1 DEF VotesKept, committeeVars, proposalVars, CountInv, RootInv, ThresholdInv
<1>2. ASSUME NEW p \in Principals, NEW c \in CheckpointIds, DeactivateCheckpoint(p, c)
      PROVE  VotesKept
  BY <1>2 DEF DeactivateCheckpoint, VotesKept
<1>3. ASSUME NEW c \in CheckpointIds, NEW x \in Messages, VerifyAndMint(c, x)
      PROVE  VotesKept
  BY <1>3 DEF VerifyAndMint, VotesKept
<1>4. ASSUME Quiet
      PROVE  VotesKept
  BY <1>4 DEF Quiet, otherVars, VotesKept
<1>5. CASE \E m \in Keys, r \in Roots : ProposeCheckpoint(m, r)
  BY <1>5, ProposeCount
<1>6. CASE \/ \E m \in Keys, n \in Numbers : SendApproval(m, n)
           \/ \E a \in mail : LoseApproval(a)
  BY <1>6, MailCount
<1>7. CASE \E a \in mail : ApproveCheckpoint(a)
  BY <1>7, ApproveCount
<1>8. CASE \E p \in Principals, c \in Committees : InitializeCommittee(p, c)
  BY <1>8, InitializeCount
<1>9. QED
  BY <1>1, <1>2, <1>3, <1>4, <1>5, <1>6, <1>7, <1>8, QuietSteps

\* What a step does to the checkpoints: one is added at the counter, one is
\* deactivated, or none is touched.
CheckpointsKept == UNCHANGED checkpointVars

LEMMA CheckpointSteps ==
  ASSUME TypeOK, [Next]_vars
  PROVE  \/ \E a \in mail : ApproveCheckpoint(a)
               /\ Activated(a.proposal, votes[a.proposal] \cup {<<a.by, a.root>>})
         \/ \E p \in Principals, c \in CheckpointIds : DeactivateCheckpoint(p, c)
         \/ CheckpointsKept
<1> USE DEF CheckpointsKept
<1>1. ASSUME NEW m \in Keys, NEW r \in Roots, ProposeCheckpoint(m, r)
      PROVE  CheckpointsKept
  BY <1>1 DEF ProposeCheckpoint
<1>2. ASSUME \/ \E m \in Keys, n \in Numbers : SendApproval(m, n)
             \/ \E a \in mail : LoseApproval(a)
      PROVE  CheckpointsKept
  BY <1>2 DEF SendApproval, LoseApproval
<1>3. ASSUME NEW a \in mail, ApproveCheckpoint(a)
      PROVE  CheckpointsKept
             \/ Activated(a.proposal, votes[a.proposal] \cup {<<a.by, a.root>>})
  BY <1>3 DEF ApproveCheckpoint
<1>4. ASSUME NEW c \in CheckpointIds, NEW x \in Messages, VerifyAndMint(c, x)
      PROVE  CheckpointsKept
  BY <1>4 DEF VerifyAndMint
<1>5. ASSUME NEW p \in Principals, NEW c \in Committees, InitializeCommittee(p, c)
      PROVE  CheckpointsKept
  BY <1>5 DEF InitializeCommittee
<1>6. CASE Quiet
  BY <1>6 DEF Quiet, otherVars
<1>7. QED
  BY <1>1, <1>2, <1>3, <1>4, <1>5, <1>6, QuietSteps

\* What activation does to the checkpoints.
LEMMA ActivateEffect ==
  ASSUME TypeOK, CountInv, NEW a \in mail, ApproveCheckpoint(a),
         Activated(a.proposal, votes[a.proposal] \cup {<<a.by, a.root>>})
  PROVE  LET vs == votes[a.proposal] \cup {<<a.by, a.root>>}
         IN  /\ nextCheckpoint \in CheckpointIds /\ nextCheckpoint' = nextCheckpoint + 1
             /\ checkpoints'[nextCheckpoint].root = proposals[a.proposal].root
             /\ decided'[nextCheckpoint].votes = vs
             /\ decided'[nextCheckpoint].threshold = threshold
             /\ decided'[nextCheckpoint].reused = (a.proposal \in reused)
             /\ \A c \in CheckpointIds \ {nextCheckpoint} :
                   checkpoints'[c] = checkpoints[c] /\ decided'[c] = decided[c]
             /\ Cardinality(Voters(vs)) >= threshold
<1> DEFINE vs == votes[a.proposal] \cup {<<a.by, a.root>>}
<1>1. nextCheckpoint \in CheckpointIds /\ nextCheckpoint' = nextCheckpoint + 1
  BY TypeParts DEF Activated, CheckpointTypes
<1>2. /\ checkpoints'[nextCheckpoint].root = proposals[a.proposal].root
      /\ \A c \in CheckpointIds \ {nextCheckpoint} : checkpoints'[c] = checkpoints[c]
  BY <1>1, TypeParts DEF Activated, CheckpointTypes
<1>3. /\ decided'[nextCheckpoint] =
            [votes |-> vs, threshold |-> threshold, reused |-> a.proposal \in reused]
      /\ \A c \in CheckpointIds \ {nextCheckpoint} : decided'[c] = decided[c]
  BY <1>1, TypeParts DEF Activated, CheckpointTypes
<1>4. proposals[a.proposal].approvals + 1 >= threshold
  <2>1. nextCheckpoint' # nextCheckpoint
    BY <1>1, TypeParts DEF CheckpointTypes, CheckpointIds
  <2>2. QED
    BY <2>1 DEF ApproveCheckpoint, checkpointVars
<1>5. Cardinality(Voters(vs)) = proposals[a.proposal].approvals + 1
  BY ApproveEffect
<1>6. QED
  BY <1>1, <1>2, <1>3, <1>4, <1>5

LEMMA ActivateDecided ==
  ASSUME TypeOK, CountInv, RootInv, ThresholdInv, DecidedInv,
         NEW a \in mail, ApproveCheckpoint(a),
         Activated(a.proposal, votes[a.proposal] \cup {<<a.by, a.root>>})
  PROVE  DecidedInv'
<1> DEFINE n == a.proposal
           vs == votes[n] \cup {<<a.by, a.root>>}
<1>1. nextCheckpoint \in Nat /\ nextCheckpoint' = nextCheckpoint + 1
  <2>1. nextCheckpoint \in CheckpointIds /\ nextCheckpoint' = nextCheckpoint + 1
    BY ActivateEffect
  <2>2. QED
    BY <2>1 DEF CheckpointIds
<1>2. ASSUME NEW i, i = nextCheckpoint
      PROVE  Decided(i)'
  <2>1. checkpoints'[nextCheckpoint].root = proposals[n].root
        /\ proposals[n].root \in Roots
    BY ActivateEffect, ApproveEffect
  <2>2. threshold >= 2
    BY DEF ApproveCheckpoint, MayApprove, ThresholdInv
  <2>3. ASSUME n \notin reused, NEW v \in vs
        PROVE  v[2] = proposals[n].root
    <3>1. n \in Numbers /\ proposals[n].root = a.root
      BY <2>3, MailFields DEF RootInv
    <3>2. CASE v \in votes[n]
      BY <2>3, <3>1, <3>2 DEF RootInv
    <3>3. CASE v = <<a.by, a.root>>
      BY <3>1, <3>3
    <3>4. QED
      BY <3>2, <3>3
  <2>4. /\ decided'[nextCheckpoint].votes = vs
        /\ decided'[nextCheckpoint].threshold = threshold
        /\ decided'[nextCheckpoint].reused = (n \in reused)
        /\ Cardinality(Voters(vs)) >= threshold
    BY ActivateEffect
  <2>5. /\ checkpoints'[nextCheckpoint].root \in Roots
        /\ decided'[nextCheckpoint].threshold >= 2
        /\ Cardinality(Voters(decided'[nextCheckpoint].votes))
             >= decided'[nextCheckpoint].threshold
    BY <2>1, <2>2, <2>4
  <2>6. ~decided'[nextCheckpoint].reused =>
           \A v \in decided'[nextCheckpoint].votes :
              v[2] = checkpoints'[nextCheckpoint].root
    BY <2>1, <2>3, <2>4
  <2>7. QED
    BY <1>2, <2>5, <2>6 DEF Decided, Voters
<1>3. ASSUME NEW c \in CheckpointIds, c # nextCheckpoint
      PROVE  checkpoints'[c] = checkpoints[c] /\ decided'[c] = decided[c]
  BY <1>3, ActivateEffect
<1>4. ASSUME NEW c \in CheckpointIds
      PROVE  /\ c < nextCheckpoint' => Decided(c)'
             /\ c >= nextCheckpoint' => checkpoints'[c].root = NoRoot
  <2>1. c \in Nat
    BY DEF CheckpointIds
  <2>2. CASE c = nextCheckpoint
    <3>1. Decided(c)' /\ ~(c >= nextCheckpoint')
      BY <1>1, <1>2, <2>2
    <3>2. QED
      BY <3>1
  <2>3. CASE c # nextCheckpoint
    <3>1. c < nextCheckpoint' => Decided(c)
      BY <1>1, <2>1, <2>3 DEF DecidedInv
    <3>2. Decided(c) => Decided(c)'
      BY <1>3, <2>3 DEF Decided
    <3>3. c >= nextCheckpoint' => checkpoints'[c].root = NoRoot
      BY <1>1, <1>3, <2>1, <2>3 DEF DecidedInv
    <3>4. QED
      BY <3>1, <3>2, <3>3
  <2>4. QED
    BY <2>2, <2>3
<1>5. QED
  BY <1>4 DEF DecidedInv
LEMMA DeactivateEffect ==
  ASSUME TypeOK, NEW p \in Principals, NEW c \in CheckpointIds,
         DeactivateCheckpoint(p, c)
  PROVE  /\ UNCHANGED <<nextCheckpoint, decided>>
         /\ \A d \in CheckpointIds :
               /\ checkpoints'[d].root = checkpoints[d].root
               /\ checkpoints'[d].height = checkpoints[d].height
               /\ checkpoints'[d].active => checkpoints[d].active
<1>1. \A d \in CheckpointIds : d # c => checkpoints'[d] = checkpoints[d]
  BY TypeParts DEF DeactivateCheckpoint, CheckpointTypes
<1>2. checkpoints'[c] = [root |-> checkpoints[c].root,
                         height |-> checkpoints[c].height, active |-> FALSE]
  BY TypeParts DEF DeactivateCheckpoint, CheckpointTypes
<1>3. QED
  BY <1>1, <1>2 DEF DeactivateCheckpoint

LEMMA DecidedStep ==
  ASSUME TypeOK, CountInv, RootInv, ThresholdInv, DecidedInv, [Next]_vars
  PROVE  DecidedInv'
<1>1. CASE \E a \in mail : ApproveCheckpoint(a)
              /\ Activated(a.proposal, votes[a.proposal] \cup {<<a.by, a.root>>})
  BY <1>1, ActivateDecided
<1>2. CASE \E p \in Principals, c \in CheckpointIds : DeactivateCheckpoint(p, c)
  <2>1. UNCHANGED <<nextCheckpoint, decided>>
    BY <1>2, DeactivateEffect
  <2>2. \A d \in CheckpointIds : checkpoints'[d].root = checkpoints[d].root
    BY <1>2, DeactivateEffect
  <2>3. ASSUME NEW d \in CheckpointIds
        PROVE  /\ d < nextCheckpoint' => Decided(d)'
               /\ d >= nextCheckpoint' => checkpoints'[d].root = NoRoot
    BY <2>1, <2>2 DEF DecidedInv, Decided
  <2>4. QED
    BY <2>3 DEF DecidedInv
<1>3. CASE CheckpointsKept
  BY <1>3 DEF CheckpointsKept, checkpointVars, DecidedInv, Decided
<1>4. QED
  BY <1>1, <1>2, <1>3, CheckpointSteps

VerifierInv == TypeOK /\ CountInv /\ RootInv /\ ThresholdInv /\ DecidedInv

LEMMA InitVerifier == Init => VerifierInv
<1> SUFFICES ASSUME Init PROVE VerifierInv
  OBVIOUS
<1>1. Voters({}) = {} /\ Cardinality({}) = 0
  BY FS_EmptySet DEF Voters
<1>2. CountInv
  BY <1>1 DEF Init, CountInv, NoProposal
<1>3. RootInv
  BY DEF Init, RootInv, NoProposal
<1>4. ThresholdInv
  BY DEF Init, ThresholdInv
<1>5. DecidedInv
  BY DEF Init, DecidedInv, NoCheckpoint, CheckpointIds
<1>6. QED
  BY <1>2, <1>3, <1>4, <1>5, InitTypes DEF VerifierInv

\* The inductive invariant: counts of approvals match the voters recorded, the
\* votes of a number not put back in use are for its root, and each checkpoint
\* was decided under a threshold of at least two.
THEOREM VerifierInvariant == Spec => []VerifierInv
<1>1. VerifierInv /\ [Next]_vars => VerifierInv'
  BY TypeStep, CountStep, DecidedStep DEF VerifierInv
<1>2. QED
  BY <1>1, InitVerifier, PTL DEF Spec

\* A checkpoint is active only after as many different members as the threshold
\* asks for approved its proposal, each having seen its root unless the number
\* was put back in use: for any committees, roots and interleavings.
THEOREM ZkVerifierQuorum == Spec => []CheckpointQuorum
<1>1. ASSUME VerifierInv PROVE CheckpointQuorum
  <2>1. ASSUME NEW c \in 0..(nextCheckpoint - 1)
        PROVE  c \in CheckpointIds /\ c < nextCheckpoint
    <3>1. nextCheckpoint \in CheckpointIds
      BY <1>1, TypeParts DEF VerifierInv, CheckpointTypes
    <3>2. QED
      BY <2>1, <3>1, ConstantTypes DEF CheckpointIds
  <2>2. QED
    BY <1>1, <2>1 DEF VerifierInv, DecidedInv, Decided, CheckpointQuorum
<1>2. QED
  BY <1>1, VerifierInvariant, PTL

\* The root and height of a checkpoint never change and deactivation is for
\* good, for any number of initializations of the committee.
THEOREM ZkVerifierRootsFinal == Spec => CheckpointsFinal
<1> DEFINE Final == \A c \in CheckpointIds : checkpoints[c].root # NoRoot =>
                       /\ checkpoints'[c].root = checkpoints[c].root
                       /\ checkpoints'[c].height = checkpoints[c].height
                       /\ checkpoints'[c].active => checkpoints[c].active
<1>1. ASSUME VerifierInv, [Next]_vars PROVE Final
  <2>1. TypeOK /\ CountInv /\ DecidedInv
    BY <1>1 DEF VerifierInv
  <2>2. CASE \E a \in mail : ApproveCheckpoint(a)
                /\ Activated(a.proposal, votes[a.proposal] \cup {<<a.by, a.root>>})
    <3>1. /\ nextCheckpoint \in CheckpointIds
          /\ \A c \in CheckpointIds \ {nextCheckpoint} : checkpoints'[c] = checkpoints[c]
      BY <2>1, <2>2, ActivateEffect
    <3>2. checkpoints[nextCheckpoint].root = NoRoot
      BY <2>1, <3>1 DEF DecidedInv, CheckpointIds
    <3>3. QED
      BY <3>1, <3>2
  <2>3. CASE \E p \in Principals, c \in CheckpointIds : DeactivateCheckpoint(p, c)
    BY <2>1, <2>3, DeactivateEffect
  <2>4. CASE CheckpointsKept
    BY <2>4 DEF CheckpointsKept, checkpointVars
  <2>5. QED
    BY <1>1, <2>1, <2>2, <2>3, <2>4, CheckpointSteps
<1>2. VerifierInv /\ [Next]_vars => [Final]_vars
  BY <1>1
<1>3. Spec => [][Final]_vars
  BY <1>2, VerifierInvariant, PTL DEF Spec
<1>4. QED
  BY <1>3 DEF CheckpointsFinal
----------------------------------------------------------------------------
(* What is minted is marked as processed and was below the root of a         *)
(* checkpoint that exists, and checkpoints keep their roots.                 *)

MintInv ==
  /\ \A i \in 1..Len(minted) :
        /\ minted[i].message \in processed
        /\ minted[i].checkpoint < nextCheckpoint
        /\ minted[i].message \in Leaves[checkpoints[minted[i].checkpoint].root]
  /\ \A i, j \in 1..Len(minted) : minted[i].message = minted[j].message => i = j

LEMMA RootsKept ==
  ASSUME VerifierInv, [Next]_vars
  PROVE  /\ nextCheckpoint' >= nextCheckpoint \/ UNCHANGED nextCheckpoint
         /\ \A c \in CheckpointIds : c < nextCheckpoint =>
               c < nextCheckpoint' /\ checkpoints'[c].root = checkpoints[c].root
<1>1. TypeOK /\ CountInv /\ nextCheckpoint \in Nat
  BY TypeParts DEF VerifierInv, CheckpointTypes, CheckpointIds
<1>2. CASE \E a \in mail : ApproveCheckpoint(a)
              /\ Activated(a.proposal, votes[a.proposal] \cup {<<a.by, a.root>>})
  <2>1. /\ nextCheckpoint' = nextCheckpoint + 1
        /\ \A c \in CheckpointIds \ {nextCheckpoint} : checkpoints'[c] = checkpoints[c]
    BY <1>1, <1>2, ActivateEffect
  <2>2. QED
    BY <1>1, <2>1 DEF CheckpointIds
<1>3. CASE \E p \in Principals, c \in CheckpointIds : DeactivateCheckpoint(p, c)
  BY <1>1, <1>3, DeactivateEffect
<1>4. CASE CheckpointsKept
  BY <1>4 DEF CheckpointsKept, checkpointVars
<1>5. QED
  BY <1>1, <1>2, <1>3, <1>4, CheckpointSteps

\* Only verifyAndMint mints.
LEMMA MintSteps ==
  ASSUME [Next]_vars
  PROVE  \/ \E c \in CheckpointIds, x \in Messages : VerifyAndMint(c, x)
         \/ UNCHANGED mintVars
<1>1. ASSUME NEW m \in Keys, NEW r \in Roots, ProposeCheckpoint(m, r)
      PROVE  UNCHANGED mintVars
  BY <1>1 DEF ProposeCheckpoint
<1>2. ASSUME \/ \E m \in Keys, n \in Numbers : SendApproval(m, n)
             \/ \E a \in mail : LoseApproval(a)
      PROVE  UNCHANGED mintVars
  BY <1>2 DEF SendApproval, LoseApproval
<1>3. ASSUME NEW a \in mail, ApproveCheckpoint(a)
      PROVE  UNCHANGED mintVars
  BY <1>3 DEF ApproveCheckpoint
<1>4. ASSUME NEW p \in Principals, NEW c \in CheckpointIds, DeactivateCheckpoint(p, c)
      PROVE  UNCHANGED mintVars
  BY <1>4 DEF DeactivateCheckpoint
<1>5. ASSUME NEW p \in Principals, NEW c \in Committees, InitializeCommittee(p, c)
      PROVE  UNCHANGED mintVars
  BY <1>5 DEF InitializeCommittee
<1>6. CASE Quiet
  BY <1>6 DEF Quiet, otherVars
<1>7. QED
  BY <1>1, <1>2, <1>3, <1>4, <1>5, <1>6, QuietSteps

LEMMA MintFields ==
  ASSUME TypeOK, NEW i \in 1..Len(minted)
  PROVE  minted[i].message \in Messages /\ minted[i].checkpoint \in CheckpointIds
<1>1. minted \in Seq(Mints)
  BY TypeParts DEF MintTypes
<1>2. minted[i] \in Mints
  BY <1>1, ElementOfSeq
<1>3. QED
  BY <1>2 DEF Mints

LEMMA MintStep ==
  ASSUME VerifierInv, MintInv, [Next]_vars
  PROVE  MintInv'
<1>0. TypeOK
  BY DEF VerifierInv
<1>1. ASSUME NEW i \in 1..Len(minted)
      PROVE  /\ minted[i].checkpoint < nextCheckpoint'
             /\ minted[i].message \in Leaves[checkpoints'[minted[i].checkpoint].root]
  BY <1>0, <1>1, MintFields, RootsKept DEF MintInv
<1>2. CASE UNCHANGED mintVars
  BY <1>1, <1>2 DEF mintVars, MintInv
<1>3. ASSUME NEW c \in CheckpointIds, NEW x \in Messages, VerifyAndMint(c, x)
      PROVE  MintInv'
  <2> DEFINE e == [message |-> x, checkpoint |-> c, height |-> height]
  <2>1. minted \in Seq(Mints) /\ e \in Mints /\ minted' = Append(minted, e)
    BY <1>0, <1>3, TypeParts DEF VerifyAndMint, MintTypes, PauseTypes, Mints
  <2>2. /\ Len(minted) \in Nat /\ Len(minted') = Len(minted) + 1
        /\ \A i \in 1..Len(minted) : minted'[i] = minted[i]
        /\ minted'[Len(minted) + 1] = e
    BY <2>1, AppendProperties, LenProperties
  <2>3. /\ processed' = processed \cup {x} /\ x \notin processed
        /\ x \in Leaves[checkpoints[c].root] /\ checkpoints[c].active
        /\ UNCHANGED <<nextCheckpoint, checkpoints>>
    BY <1>3 DEF VerifyAndMint, checkpointVars
  <2>4. c < nextCheckpoint
    BY <1>0, <2>3, TypeParts DEF CheckpointTypes, CheckpointIds
  <2>5. ASSUME NEW i \in 1..Len(minted')
        PROVE  /\ minted'[i].message \in processed'
               /\ minted'[i].checkpoint < nextCheckpoint'
               /\ minted'[i].message \in Leaves[checkpoints'[minted'[i].checkpoint].root]
               /\ minted'[i].message = x => i = Len(minted) + 1
    <3>1. CASE i = Len(minted) + 1
      BY <2>2, <2>3, <2>4, <3>1
    <3>2. CASE i # Len(minted) + 1
      <4>1. i \in 1..Len(minted) /\ minted'[i] = minted[i]
        BY <2>2, <3>2
      <4>2. QED
        BY <1>1, <2>3, <4>1 DEF MintInv
    <3>3. QED
      BY <3>1, <3>2
  <2>6. ASSUME NEW i \in 1..Len(minted'), NEW j \in 1..Len(minted'),
               minted'[i].message = minted'[j].message
        PROVE  i = j
    <3>1. CASE minted'[i].message = x
      BY <2>5, <2>6, <3>1
    <3>2. CASE minted'[i].message # x
      <4>1. i \in 1..Len(minted) /\ j \in 1..Len(minted)
        BY <2>2, <2>6, <3>2
      <4>2. QED
        BY <2>2, <2>6, <4>1 DEF MintInv
    <3>3. QED
      BY <3>1, <3>2
  <2>7. QED
    BY <2>5, <2>6 DEF MintInv
<1>4. QED
  BY <1>2, <1>3, MintSteps

\* Those who approved a checkpoint had a root with the message below it.
LEMMA QuorumHolds ==
  ASSUME VerifierInv, MintInv
  PROVE  QuorumBehindMint
<1>1. ASSUME NEW i \in 1..Len(minted), ~decided[minted[i].checkpoint].reused
      PROVE  LET d == decided[minted[i].checkpoint] IN
             /\ d.threshold >= 2
             /\ Cardinality({k \in Keys : \E v \in d.votes :
                   v[1] = k /\ minted[i].message \in Leaves[v[2]]}) >= d.threshold
  <2> DEFINE c == minted[i].checkpoint
             d == decided[c]
             with == {k \in Keys : \E v \in d.votes :
                         v[1] = k /\ minted[i].message \in Leaves[v[2]]}
  <2>1. c \in CheckpointIds /\ TypeOK /\ c < nextCheckpoint
    BY <1>1, MintFields DEF VerifierInv, MintInv
  <2>2. Decided(c) /\ d.votes \in Votes /\ d.threshold \in Nat
    BY <2>1, TypeParts DEF VerifierInv, DecidedInv, CheckpointTypes, Decisions
  <2>3. minted[i].message \in Leaves[checkpoints[c].root]
    BY <1>1 DEF MintInv
  <2>4. \A v \in d.votes : v[2] = checkpoints[c].root /\ v[1] \in Keys
    BY <1>1, <2>2 DEF Decided, Votes
  <2>5. Voters(d.votes) \in SUBSET with
    BY <2>3, <2>4 DEF Voters
  <2>6. with \in SUBSET Keys /\ IsFiniteSet(Keys)
    BY ConstantTypes
  <2>7. IsFiniteSet(with) /\ Cardinality(with) \in Nat
    BY <2>6, FS_Subset, FS_CardinalityType
  <2>8. Cardinality(Voters(d.votes)) <= Cardinality(with)
    BY <2>5, <2>7, FS_Subset
  <2>9. Cardinality(Voters(d.votes)) \in Nat
    BY <2>2, VotersType, FS_CardinalityType
  <2>10. d.threshold >= 2 /\ Cardinality(Voters(d.votes)) >= d.threshold
    BY <2>2 DEF Decided
  <2> HIDE DEF with, d
  <2>11. d.threshold >= 2 /\ Cardinality(with) >= d.threshold
    BY <2>2, <2>7, <2>8, <2>9, <2>10
  <2>12. QED
    BY <2>11 DEF with, d
<1>2. QED
  BY <1>1 DEF QuorumBehindMint, MintInv

\* A message is minted once, and a quorum had computed a root with it below:
\* for any number of checkpoints, proofs and submitters.
THEOREM ZkVerifierMints == Spec => []QuorumBehindMint
<1>1. Init => MintInv
  BY DEF Init, MintInv
<1>2. VerifierInv /\ MintInv /\ [Next]_vars => MintInv'
  BY MintStep
<1>3. VerifierInv /\ MintInv => QuorumBehindMint
  BY QuorumHolds
<1>4. QED
  BY <1>1, <1>2, <1>3, VerifierInvariant, PTL DEF Spec

----------------------------------------------------------------------------
(* The pause *)

\* A request is only stored while the verifier is paused, and after the pause
\* took effect; it runs only when the last pause is the whole delay away.
PauseInv ==
  /\ haltedAt <= height
  /\ unpauseAt # 0 => paused /\ haltedAt <= unpauseAt
  /\ ~paused => height - haltedAt >= UnpauseDelay

PauseKept == UNCHANGED pauseVars /\ (UNCHANGED height \/ height' = height + 1)

LEMMA PauseSteps ==
  ASSUME [Next]_vars
  PROVE  \/ PauseKept
         \/ \E p \in Principals :
               EmergencyPause(p) \/ RequestUnpause(p) \/ ExecuteUnpause(p)
<1> USE DEF PauseKept
<1>1. ASSUME NEW p \in Principals, SetVerifyingKey(p) \/ AcceptAdmin(p)
      PROVE  PauseKept
  BY <1>1 DEF SetVerifyingKey, AcceptAdmin
<1>2. ASSUME NEW p \in Principals, NEW q \in Principals, ProposeAdmin(p, q)
      PROVE  PauseKept
  BY <1>2 DEF ProposeAdmin
<1>3. CASE NewBlock
  BY <1>3 DEF NewBlock
<1>4. ASSUME NEW m \in Keys, NEW r \in Roots, ProposeCheckpoint(m, r)
      PROVE  PauseKept
  BY <1>4 DEF ProposeCheckpoint
<1>5. ASSUME NEW m \in Keys, NEW n \in Numbers, SendApproval(m, n)
      PROVE  PauseKept
  BY <1>5 DEF SendApproval
<1>6. ASSUME NEW a \in mail, LoseApproval(a) \/ ApproveCheckpoint(a)
      PROVE  PauseKept
  BY <1>6 DEF LoseApproval, ApproveCheckpoint
<1>7. ASSUME NEW p \in Principals, NEW c \in CheckpointIds, DeactivateCheckpoint(p, c)
      PROVE  PauseKept
  BY <1>7 DEF DeactivateCheckpoint
<1>8. ASSUME NEW c \in CheckpointIds, NEW x \in Messages, VerifyAndMint(c, x)
      PROVE  PauseKept
  BY <1>8 DEF VerifyAndMint
<1>9. ASSUME NEW p \in Principals, NEW c \in Committees, InitializeCommittee(p, c)
      PROVE  PauseKept
  BY <1>9 DEF InitializeCommittee
<1>10. CASE UNCHANGED vars
  BY <1>10 DEF vars
<1>11. QED
  BY <1>1, <1>2, <1>3, <1>4, <1>5, <1>6, <1>7, <1>8, <1>9, <1>10 DEF Next

\* What was far enough away stays so.
LEMMA Later ==
  ASSUME NEW a \in Nat, NEW b \in Nat, NEW h \in Int, NEW d \in Nat,
         b >= a, a - h >= d
  PROVE  b - h >= d
  OBVIOUS

LEMMA PauseStep == TypeOK /\ PauseInv /\ [Next]_vars => PauseInv'
<1> SUFFICES ASSUME TypeOK, PauseInv, [Next]_vars PROVE PauseInv'
  OBVIOUS
<1>0. /\ height \in Nat /\ height' \in Nat /\ haltedAt \in Int
      /\ unpauseAt \in Nat /\ UnpauseDelay \in Nat /\ haltedAt <= height
  BY AdminStep, TypeParts, ConstantTypes DEF PauseTypes, PauseInv
<1>1. CASE PauseKept
  <2>1. /\ paused' = paused /\ unpauseAt' = unpauseAt /\ haltedAt' = haltedAt
        /\ height' >= height
    BY <1>0, <1>1 DEF PauseKept, pauseVars
  <2>2. height - haltedAt >= UnpauseDelay => height' - haltedAt >= UnpauseDelay
    BY <1>0, <2>1, Later
  <2>3. haltedAt' <= height'
    BY <1>0, <2>1
  <2>4. height - haltedAt >= UnpauseDelay => height' - haltedAt' >= UnpauseDelay
    BY <2>1, <2>2
  <2>5. QED
    BY Zenon, <2>1, <2>3, <2>4 DEF PauseInv
<1>2. ASSUME NEW p, EmergencyPause(p)
      PROVE  PauseInv'
  <2>1. /\ paused' /\ unpauseAt' = unpauseAt /\ height' = height
        /\ haltedAt' = IF paused THEN haltedAt ELSE height
    BY Zenon, <1>2 DEF EmergencyPause
  <2>2. CASE paused
    <3>1. haltedAt' = haltedAt /\ haltedAt' <= height'
      BY <1>0, <2>1, <2>2
    <3>2. QED
      BY Zenon, <2>1, <2>2, <3>1 DEF PauseInv
  <2>3. CASE ~paused
    <3>1. unpauseAt' = 0
      BY Zenon, <2>1, <2>3 DEF PauseInv
    <3>2. haltedAt' <= height'
      BY <1>0, <2>1, <2>3
    <3>3. QED
      BY Zenon, <2>1, <3>1, <3>2 DEF PauseInv
  <2>4. QED
    BY <2>2, <2>3
<1>3. ASSUME NEW p, RequestUnpause(p)
      PROVE  PauseInv'
  <2>1. /\ paused /\ paused' = paused /\ unpauseAt' = height
        /\ height' = height /\ haltedAt' = haltedAt
    BY Zenon, <1>3 DEF RequestUnpause
  <2>2. haltedAt' <= height' /\ haltedAt' <= unpauseAt'
    BY <1>0, <2>1
  <2>3. QED
    BY Zenon, <2>1, <2>2 DEF PauseInv
<1>4. ASSUME NEW p, ExecuteUnpause(p)
      PROVE  PauseInv'
  <2>1. /\ unpauseAt # 0 /\ height - unpauseAt >= UnpauseDelay
        /\ unpauseAt' = 0 /\ height' = height /\ haltedAt' = haltedAt
    BY <1>4 DEF ExecuteUnpause
  <2>2. haltedAt <= unpauseAt
    BY <2>1 DEF PauseInv
  <2>3. height - haltedAt >= UnpauseDelay
    BY <1>0, <2>1, <2>2
  <2>4. height' - haltedAt' >= UnpauseDelay /\ haltedAt' <= height'
    BY <1>0, <2>1, <2>3
  <2>5. QED
    BY Zenon, <2>1, <2>4 DEF PauseInv
<1>5. QED
  BY <1>1, <1>2, <1>3, <1>4, PauseSteps

LEMMA PauseInit == Init => PauseInv
<1> SUFFICES ASSUME Init PROVE PauseInv
  OBVIOUS
<1>1. height = 1 /\ paused = FALSE /\ unpauseAt = 0 /\ haltedAt = 1 - UnpauseDelay
  BY Zenon DEF Init, Genesis
<1>2. haltedAt <= height /\ height - haltedAt >= UnpauseDelay
  BY <1>1, ConstantTypes
<1>3. QED
  BY Zenon, <1>1, <1>2 DEF PauseInv

\* Nothing is proposed, approved or minted while the verifier is paused.
LEMMA MovesUnpaused ==
  ASSUME [Next]_vars, votes' # votes \/ minted' # minted
  PROVE  ~paused
<1>1. ASSUME NEW m \in Keys, NEW r \in Roots, ProposeCheckpoint(m, r)
      PROVE  ~paused
  BY <1>1 DEF ProposeCheckpoint
<1>2. ASSUME NEW a \in mail, ApproveCheckpoint(a)
      PROVE  ~paused
  BY <1>2 DEF ApproveCheckpoint, MayApprove
<1>3. ASSUME NEW c \in CheckpointIds, NEW x \in Messages, VerifyAndMint(c, x)
      PROVE  ~paused
  BY <1>3 DEF VerifyAndMint
<1>4. ASSUME NEW m \in Keys, NEW n \in Numbers, SendApproval(m, n)
      PROVE  FALSE
  BY <1>4 DEF SendApproval, proposalVars, mintVars
<1>5. ASSUME NEW a \in mail, LoseApproval(a)
      PROVE  FALSE
  BY <1>5 DEF LoseApproval, proposalVars, mintVars
<1>6. ASSUME NEW p \in Principals, NEW c \in CheckpointIds, DeactivateCheckpoint(p, c)
      PROVE  FALSE
  BY <1>6 DEF DeactivateCheckpoint, proposalVars, mintVars
<1>7. ASSUME NEW p \in Principals, NEW c \in Committees, InitializeCommittee(p, c)
      PROVE  FALSE
  BY <1>7 DEF InitializeCommittee, mintVars
<1>8. CASE Quiet
  BY <1>8 DEF Quiet, otherVars, proposalVars, mintVars
<1>9. QED
  BY <1>1, <1>2, <1>3, <1>4, <1>5, <1>6, <1>7, <1>8, QuietSteps

\* Once a pause has taken effect nothing is proposed, approved or minted for the
\* whole unpause delay, for any delay and any approvals in flight.
THEOREM ZkVerifierPauseHolds == Spec => PauseHolds
<1>1. PauseInv /\ [Next]_vars
        => [(votes' # votes \/ minted' # minted)
              => height - haltedAt >= UnpauseDelay]_vars
  BY MovesUnpaused DEF PauseInv
<1>2. QED
  BY <1>1, PauseInit, PauseStep, ZkVerifierTypeOK, PTL DEF Spec, PauseHolds
=============================================================================
