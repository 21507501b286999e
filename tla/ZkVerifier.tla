----------------------------- MODULE ZkVerifier -----------------------------
(***************************************************************************)
(* The DecentralChain contract dcc/contracts/bridge/zk_verifier.ride: a    *)
(* committee agrees on checkpoints, the Merkle roots of deposits on        *)
(* Solana, and whoever proves a message to be under an active root has it  *)
(* minted by the bridge core.                                              *)
(*                                                                         *)
(* One action per @Callable; an invocation that throws changes nothing.    *)
(* An approval names a proposal by its number only, while the validator    *)
(* that sends it has looked at the proposal's root before                  *)
(* (validator/src/zk/zk-bridge-service.ts): approvals travel in mail and   *)
(* remember the root their sender saw.  The slot stored beside a root is   *)
(* left out, no callable reads it.  A proof exists for a message and a     *)
(* root exactly when the message is a leaf below that root.                *)
(***************************************************************************)
EXTENDS Integers, Sequences, FiniteSets

CONSTANTS
  Keys,           \* public keys of committee members
  Committees,     \* what initializeCommittee may be called with
  Principals,     \* addresses that may be admin
  NoOne,          \* an absent entry
  Roots,          \* commitment roots
  NoRoot,         \* an absent root
  Messages,       \* message ids
  Leaves,         \* the messages below each root
  Lookback,       \* 5: how many proposals a validator scans
  MaxAge,         \* maxCheckpointAge: 10080 blocks
  Expiry,         \* checkpointExpiryBlocks: 1440
  UnpauseDelay,   \* unpauseDelayBlocks: 100
  AdminDelay,     \* adminTransferDelay: 100
  MaxProposals, MaxCheckpoints, MaxInFlight, MaxHeight   \* bounds of the model

ASSUME ZkVerifierConstants ==
  /\ IsFiniteSet(Keys)
  /\ \A c \in Committees : c.keys \subseteq Keys /\ c.threshold \in Nat
  /\ NoOne \notin Principals /\ NoRoot \notin Roots
  /\ Leaves \in [Roots -> SUBSET Messages]
  /\ {Lookback, MaxAge, Expiry, UnpauseDelay, AdminDelay, MaxProposals,
      MaxCheckpoints, MaxInFlight, MaxHeight} \subseteq Nat

VARIABLES
  admin, pendingAdmin, transferHeight,
  paused,
  unpauseAt,      \* unpause_requested_at; 0: no entry
  vkSet,
  committee, threshold,
  nextProposal,
  proposals,      \* root (NoRoot: no entry), approvals and finalized, by number
  approved,       \* the keys with a proposal_N_approved_ entry, by number
  nextCheckpoint,
  checkpoints,    \* root, height and active, by id
  processed,      \* messages with a zk_processed_ entry
  height,
  mail,           \* approvals sent and not yet included: by whom, for which
                  \* proposal, with the root its sender saw
  votes,          \* history: who proposed or approved what a proposal holds
                  \* now, with the root each of them saw
  reused,         \* history: numbers initializeCommittee has put back in use
  decided,        \* history: votes, threshold and reuse behind a checkpoint
  minted,         \* history: the mints authorized
  haltedAt        \* history: height at which the pause now in force, or else
                  \* the last one, took effect

adminVars == <<admin, pendingAdmin, transferHeight, vkSet>>
pauseVars == <<paused, unpauseAt, haltedAt>>
committeeVars == <<committee, threshold>>
proposalVars == <<nextProposal, proposals, approved, votes, reused>>
checkpointVars == <<nextCheckpoint, checkpoints, decided>>
mintVars == <<processed, minted>>
vars == <<adminVars, pauseVars, committeeVars, proposalVars, checkpointVars,
          mintVars, mail, height>>

Numbers == 0..MaxProposals
CheckpointIds == 0..MaxCheckpoints
NoProposal == [root |-> NoRoot, approvals |-> 0, finalized |-> FALSE]
NoCheckpoint == [root |-> NoRoot, height |-> 0, active |-> FALSE]
Undecided == [votes |-> {}, threshold |-> 0, reused |-> FALSE]
Genesis == 1      \* height of `initialize`; any positive height would do

\* initialize
Init ==
  /\ admin \in Principals /\ pendingAdmin = NoOne /\ transferHeight = 0
  /\ paused = FALSE /\ unpauseAt = 0 /\ haltedAt = Genesis - UnpauseDelay
  /\ vkSet = FALSE
  /\ committee = {} /\ threshold = 0
  /\ nextProposal = 0 /\ nextCheckpoint = 0
  /\ proposals = [n \in Numbers |-> NoProposal]
  /\ approved = [n \in Numbers |-> {}]
  /\ votes = [n \in Numbers |-> {}]
  /\ reused = {}
  /\ checkpoints = [c \in CheckpointIds |-> NoCheckpoint]
  /\ decided = [c \in CheckpointIds |-> Undecided]
  /\ processed = {} /\ minted = <<>>
  /\ mail = {}
  /\ height = Genesis

(***************************************************************************)
(* The committee and its checkpoints                                       *)
(***************************************************************************)
InitializeAfresh(p, c) == \* mutation: the checkpoint counter is reset as well
  /\ p = admin
  /\ c.threshold >= 2 /\ c.threshold <= 3
  /\ committee' = committee \cup c.keys
  /\ threshold' = c.threshold
  /\ nextProposal' = 0 /\ nextCheckpoint' = 0
  /\ reused' = reused \cup 0..(nextProposal - 1)
  /\ UNCHANGED <<adminVars, pauseVars, proposals, approved, votes, checkpoints,
                 decided, mintVars, mail, height>>

\* Members are only ever added.  Proposals are numbered from 0 again; what the
\* old ones left, their approved_ entries included, stays.
InitializeCommittee(p, c) ==
  /\ p = admin
  /\ c.threshold >= 2 /\ c.threshold <= 3
  /\ committee' = committee \cup c.keys
  /\ threshold' = c.threshold
  /\ nextProposal' = 0
  /\ reused' = reused \cup 0..(nextProposal - 1)
  /\ UNCHANGED <<adminVars, pauseVars, proposals, approved, votes,
                 checkpointVars, mintVars, mail, height>>

\* A proposal is its proposer's approval.
ProposeCheckpoint(m, r) ==
  /\ ~paused
  /\ m \in committee
  /\ nextProposal < MaxProposals
  /\ nextProposal' = nextProposal + 1
  /\ proposals' = [proposals EXCEPT ![nextProposal] =
                     [root |-> r, approvals |-> 1, finalized |-> FALSE]]
  /\ approved' = [approved EXCEPT ![nextProposal] = @ \cup {m}]
  /\ votes' = [votes EXCEPT ![nextProposal] = {<<m, r>>}]
  /\ UNCHANGED <<adminVars, pauseVars, committeeVars, reused, checkpointVars,
                 mintVars, mail, height>>

\* A validator finds an open proposal of the root it has computed itself and
\* sends its approval (findOrCreateCheckpointProposal, approveCheckpoint).
SendApproval(m, n) ==
  /\ Cardinality(mail) < MaxInFlight
  /\ n < nextProposal /\ n >= nextProposal - Lookback
  /\ proposals[n].root # NoRoot /\ ~proposals[n].finalized
  /\ mail' = mail \cup {[by |-> m, proposal |-> n, root |-> proposals[n].root]}
  /\ UNCHANGED <<adminVars, pauseVars, committeeVars, proposalVars,
                 checkpointVars, mintVars, height>>

\* The transaction is refused, or never included.
LoseApproval(a) ==
  /\ mail' = mail \ {a}
  /\ UNCHANGED <<adminVars, pauseVars, committeeVars, proposalVars,
                 checkpointVars, mintVars, height>>

MayApproveAgain(m, n) ==  \* mutation: earlier approvals are not looked up
  /\ ~paused
  /\ m \in committee
  /\ proposals[n].root # NoRoot /\ ~proposals[n].finalized

MayApprove(m, n) ==
  /\ ~paused
  /\ m \in committee
  /\ proposals[n].root # NoRoot /\ ~proposals[n].finalized
  /\ m \notin approved[n]

\* The threshold is the one in force now.
Activated(n, vs) ==
  /\ nextCheckpoint < MaxCheckpoints
  /\ nextCheckpoint' = nextCheckpoint + 1
  /\ checkpoints' = [checkpoints EXCEPT ![nextCheckpoint] =
        [root |-> proposals[n].root, height |-> height, active |-> TRUE]]
  /\ decided' = [decided EXCEPT ![nextCheckpoint] =
        [votes |-> vs, threshold |-> threshold, reused |-> n \in reused]]

ApproveCheckpoint(a) ==
  LET n == a.proposal
      approvals == proposals[n].approvals + 1
      vs == votes[n] \cup {<<a.by, a.root>>}
  IN
  /\ MayApprove(a.by, n)
  /\ approved' = [approved EXCEPT ![n] = @ \cup {a.by}]
  /\ votes' = [votes EXCEPT ![n] = vs]
  /\ \/ /\ approvals >= threshold
        /\ proposals' = [proposals EXCEPT ![n] =
              [root |-> proposals[n].root, approvals |-> approvals, finalized |-> TRUE]]
        /\ Activated(n, vs)
     \/ /\ approvals < threshold
        /\ proposals' = [proposals EXCEPT ![n] =
              [root |-> proposals[n].root, approvals |-> approvals, finalized |-> FALSE]]
        /\ UNCHANGED checkpointVars
  /\ mail' = mail \ {a}
  /\ UNCHANGED <<adminVars, pauseVars, committeeVars, nextProposal, reused,
                 mintVars, height>>

\* The admin at any time, anybody once the checkpoint has expired; also while
\* paused.
DeactivateCheckpoint(p, c) ==
  /\ checkpoints[c].active
  /\ p = admin \/ height - checkpoints[c].height >= Expiry
  /\ checkpoints' = [checkpoints EXCEPT ![c] =
        [root |-> checkpoints[c].root, height |-> checkpoints[c].height,
         active |-> FALSE]]
  /\ UNCHANGED <<adminVars, pauseVars, committeeVars, proposalVars,
                 nextCheckpoint, decided, mintVars, mail, height>>

(***************************************************************************)
(* Minting                                                                 *)
(***************************************************************************)
VerifyTwice(c, x) ==      \* mutation: zk_processed_ is not looked up
  /\ ~paused
  /\ vkSet
  /\ checkpoints[c].active
  /\ height - checkpoints[c].height <= MaxAge
  /\ x \in Leaves[checkpoints[c].root]
  /\ processed' = processed \cup {x}
  /\ minted' = Append(minted, [message |-> x, checkpoint |-> c, height |-> height])
  /\ UNCHANGED <<adminVars, pauseVars, committeeVars, proposalVars,
                 checkpointVars, mail, height>>

\* Whoever holds a proof may submit it.  The bridge core may refuse the mint
\* (paused, a cap, already minted): then the whole invocation fails.
VerifyAndMint(c, x) ==
  /\ ~paused
  /\ vkSet
  /\ checkpoints[c].active
  /\ height - checkpoints[c].height <= MaxAge
  /\ x \notin processed
  /\ x \in Leaves[checkpoints[c].root]
  /\ processed' = processed \cup {x}
  /\ minted' = Append(minted, [message |-> x, checkpoint |-> c, height |-> height])
  /\ UNCHANGED <<adminVars, pauseVars, committeeVars, proposalVars,
                 checkpointVars, mail, height>>

(***************************************************************************)
(* Administration and emergency controls: admin only                       *)
(***************************************************************************)
otherVars == <<committeeVars, proposalVars, checkpointVars, mintVars, mail>>

\* Once, for good.
SetVerifyingKey(p) ==
  /\ p = admin
  /\ ~vkSet
  /\ vkSet' = TRUE
  /\ UNCHANGED <<admin, pendingAdmin, transferHeight, pauseVars, otherVars, height>>

EmergencyPause(p) ==
  /\ p = admin
  /\ paused' = TRUE
  /\ haltedAt' = IF paused THEN haltedAt ELSE height
  /\ UNCHANGED <<adminVars, unpauseAt, otherVars, height>>

RequestUnpause(p) ==
  /\ p = admin
  /\ paused
  /\ unpauseAt' = height
  /\ UNCHANGED <<adminVars, paused, haltedAt, otherVars, height>>

UnpauseKeepingRequest(p) ==  \* mutation: the request is not deleted
  /\ p = admin
  /\ paused
  /\ unpauseAt # 0
  /\ height - unpauseAt >= UnpauseDelay
  /\ paused' = FALSE
  /\ UNCHANGED <<adminVars, unpauseAt, haltedAt, otherVars, height>>

ExecuteUnpause(p) ==
  /\ p = admin
  /\ paused
  /\ unpauseAt # 0
  /\ height - unpauseAt >= UnpauseDelay
  /\ paused' = FALSE
  /\ unpauseAt' = 0
  /\ UNCHANGED <<adminVars, haltedAt, otherVars, height>>

ProposeAdmin(p, q) ==
  /\ p = admin
  /\ pendingAdmin' = q /\ transferHeight' = height
  /\ UNCHANGED <<admin, vkSet, pauseVars, otherVars, height>>

AcceptAdmin(p) ==
  /\ p = pendingAdmin
  /\ height - transferHeight >= AdminDelay
  /\ admin' = p
  /\ pendingAdmin' = NoOne /\ transferHeight' = 0
  /\ UNCHANGED <<vkSet, pauseVars, otherVars, height>>

NewBlock ==
  /\ height < MaxHeight
  /\ height' = height + 1
  /\ UNCHANGED <<adminVars, pauseVars, otherVars>>

Next ==
  \/ \E m \in Keys :
        \/ \E r \in Roots : ProposeCheckpoint(m, r)
        \/ \E n \in Numbers : SendApproval(m, n)
  \/ \E a \in mail : LoseApproval(a) \/ ApproveCheckpoint(a)
  \/ \E c \in CheckpointIds :
        \/ \E p \in Principals : DeactivateCheckpoint(p, c)
        \/ \E x \in Messages : VerifyAndMint(c, x)
  \/ \E p \in Principals :
        \/ \E c \in Committees : InitializeCommittee(p, c)
        \/ SetVerifyingKey(p)
        \/ EmergencyPause(p) \/ RequestUnpause(p) \/ ExecuteUnpause(p)
        \/ \E q \in Principals : ProposeAdmin(p, q)
        \/ AcceptAdmin(p)
  \/ NewBlock

Spec == Init /\ [][Next]_vars

----------------------------------------------------------------------------
Proposals == [root : Roots \cup {NoRoot}, approvals : Nat, finalized : BOOLEAN]
Checkpoints == [root : Roots \cup {NoRoot}, height : Nat, active : BOOLEAN]
Votes == SUBSET (Keys \X Roots)
Decisions == [votes : Votes, threshold : Nat, reused : BOOLEAN]
Mints == [message : Messages, checkpoint : CheckpointIds, height : Nat]

\* Every variable stays in its type, and only what exists is active.
TypeOK ==
  /\ admin \in Principals /\ pendingAdmin \in Principals \cup {NoOne}
  /\ {transferHeight, unpauseAt, threshold, height} \subseteq Nat
  /\ {paused, vkSet} \subseteq BOOLEAN /\ haltedAt \in Int
  /\ committee \subseteq Keys
  /\ nextProposal \in Numbers /\ nextCheckpoint \in CheckpointIds
  /\ proposals \in [Numbers -> Proposals]
  /\ approved \in [Numbers -> SUBSET Keys]
  /\ votes \in [Numbers -> Votes]
  /\ reused \subseteq Numbers
  /\ checkpoints \in [CheckpointIds -> Checkpoints]
  /\ decided \in [CheckpointIds -> Decisions]
  /\ processed \subseteq Messages
  /\ minted \in Seq(Mints)
  /\ mail \subseteq [by : Keys, proposal : Numbers, root : Roots]
  /\ \A c \in CheckpointIds : c >= nextCheckpoint => ~checkpoints[c].active

Voters(vs) == {v[1] : v \in vs}

\* A checkpoint has the approval of as many different members as the threshold
\* asked for, however approvals, refusals and committees interleaved; and each
\* of them had seen the very root it activates, unless initializeCommittee put
\* the proposal's number back in use meanwhile.
CheckpointQuorum ==
  \A c \in 0..(nextCheckpoint - 1) :
     LET d == decided[c] IN
     /\ Cardinality(Voters(d.votes)) >= d.threshold
     /\ ~d.reused => \A v \in d.votes : v[2] = checkpoints[c].root

\* A message is authorized once, and a quorum of members had computed a root
\* with this message below it (same exception), whoever submits which proof
\* against which checkpoint.
QuorumBehindMint ==
  /\ \A i, j \in 1..Len(minted) : minted[i].message = minted[j].message => i = j
  /\ \A i \in 1..Len(minted) :
        LET d == decided[minted[i].checkpoint] IN
        ~d.reused =>
          /\ d.threshold >= 2
          /\ Cardinality({k \in Keys : \E v \in d.votes :
                 v[1] = k /\ minted[i].message \in Leaves[v[2]]}) >= d.threshold

\* "Checkpoint roots cannot be substituted": the root and height of a
\* checkpoint never change, and once inactive it stays inactive, also when the
\* committee is initialized again.
CheckpointsFinal ==
  [][\A c \in CheckpointIds : checkpoints[c].root # NoRoot =>
       /\ checkpoints'[c].root = checkpoints[c].root
       /\ checkpoints'[c].height = checkpoints[c].height
       /\ checkpoints'[c].active => checkpoints[c].active]_vars

\* VULN-9: once a pause has taken effect nothing is proposed, approved or
\* minted for the whole unpause delay, whatever was requested before and
\* whatever is in the mail.
PauseHolds ==
  [][(votes' # votes \/ minted' # minted)
       => height - haltedAt >= UnpauseDelay]_vars
=============================================================================
