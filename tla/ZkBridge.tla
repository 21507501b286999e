------------------------------ MODULE ZkBridge ------------------------------
(***************************************************************************)
(* The DecentralChain contract dcc/contracts/bridge/zk_bridge.ride: it     *)
(* issues wSOL for deposits on Solana, against committee signatures        *)
(* (committeeMint) or at the call of the ZK verifier contract              *)
(* (zkMintAuthorized), and burns it for the way back.                      *)
(*                                                                         *)
(* One action per @Callable; an invocation that throws changes nothing.    *)
(* Amounts to mint are in lamports, what is issued, queued and counted is  *)
(* in wSOL units, Ratio lamports each, rounded down.  Burn records and the *)
(* per-user nonces that name them never collide with a mint's id and are   *)
(* left out; so are the read-only callables.                               *)
(***************************************************************************)
EXTENDS Integers, Sequences, FiniteSets, FiniteSetsExt

CONSTANTS
  Ids,            \* transfer ids and message ids: one space of processed_ keys
  Keys,           \* committee public keys
  Committees,     \* what initializeCommittee may be called with
  Principals,     \* addresses of users and contracts
  NoOne,          \* an absent entry
  Amounts,        \* amounts the callers may ask for
  Ratio,          \* 10: lamports in a wSOL unit
  MinMint, MaxSingle, MaxHourly, MaxDaily,
  LargeTx,        \* largeTxThreshold
  LargeDelay,     \* largeTxDelayBlocks: 100
  HourlyWindow, DailyWindow,  \* 120 and 1440 blocks
  Anomaly,        \* anomalyThresholdPerHour
  UnpauseDelay,   \* unpauseDelayBlocks: 100
  AdminDelay,     \* adminTransferDelay: 100
  MaxHeight       \* bound of the model: the chain stops here

ASSUME ZkBridgeConstants ==
  /\ IsFiniteSet(Ids) /\ IsFiniteSet(Keys)
  /\ NoOne \notin Principals
  /\ \A c \in Committees : c.keys \subseteq Keys /\ c.threshold \in Nat
  /\ Amounts \subseteq Nat
  /\ {Ratio, HourlyWindow, DailyWindow} \subseteq Nat \ {0}
  /\ {MinMint, MaxSingle, MaxHourly, MaxDaily, LargeTx, LargeDelay, Anomaly,
      UnpauseDelay, AdminDelay, MaxHeight} \subseteq Nat
  /\ Ratio <= MinMint

VARIABLES
  admin, guardian, pendingAdmin, transferHeight,
  zkVerifier,
  paused,
  unpauseAt,      \* unpause_requested_at; 0: no entry
  committee, threshold,
  processed,      \* ids with a processed_ entry
  queue,          \* pending large mints, by id: NotQueued or amount and height
  hourly, hourlyReset, daily, dailyReset,
  totalMinted, totalBurned,
  supply,         \* wSOL in circulation
  height,
  accepted,       \* history: the mints accepted, with lamports and height
  issued,         \* history: the mints issued
  haltedAt        \* history: height at which the pause now in force, or else
                  \* the last one, took effect

roleVars  == <<admin, guardian, pendingAdmin, transferHeight, zkVerifier>>
pauseVars == <<paused, unpauseAt, haltedAt>>
sigVars   == <<committee, threshold>>
limitVars == <<hourly, hourlyReset, daily, dailyReset>>
mintVars  == <<processed, queue, accepted, issued>>
supplyVars == <<totalMinted, totalBurned, supply>>
vars == <<roleVars, pauseVars, sigVars, limitVars, mintVars, supplyVars, height>>

NotQueued == [amount |-> 0, height |-> 0]
Genesis == 1      \* height of `initialize`; any positive height would do

\* initialize
Init ==
  /\ admin \in Principals /\ guardian \in Principals
  /\ pendingAdmin = NoOne /\ transferHeight = 0 /\ zkVerifier = NoOne
  /\ paused = FALSE /\ unpauseAt = 0
  /\ committee = {} /\ threshold = 0
  /\ processed = {} /\ queue = [i \in Ids |-> NotQueued]
  /\ hourly = 0 /\ hourlyReset = Genesis
  /\ daily = 0 /\ dailyReset = Genesis
  /\ totalMinted = 0 /\ totalBurned = 0 /\ supply = 0
  /\ height = Genesis
  /\ accepted = <<>> /\ issued = <<>>
  /\ haltedAt = Genesis - UnpauseDelay

(***************************************************************************)
(* Minting                                                                 *)
(***************************************************************************)
\* checkHourlyLimit, checkDailyLimit: a window starts with the first mint
\* after the last window ended.
HourOver == height - hourlyReset >= HourlyWindow
DayOver == height - dailyReset >= DailyWindow

ChargeForgetting(a) ==    \* mutation: earlier mints are not added up
  /\ (IF HourOver THEN 0 ELSE hourly) + a <= MaxHourly
  /\ (IF DayOver THEN 0 ELSE daily) + a <= MaxDaily
  /\ hourly' = 0 /\ daily' = 0
  /\ hourlyReset' = IF HourOver THEN height ELSE hourlyReset
  /\ dailyReset' = IF DayOver THEN height ELSE dailyReset

Charge(a) ==
  /\ (IF HourOver THEN 0 ELSE hourly) + a <= MaxHourly
  /\ (IF DayOver THEN 0 ELSE daily) + a <= MaxDaily
  /\ hourly' = (IF HourOver THEN 0 ELSE hourly) + a
  /\ hourlyReset' = IF HourOver THEN height ELSE hourlyReset
  /\ daily' = (IF DayOver THEN 0 ELSE daily) + a
  /\ dailyReset' = IF DayOver THEN height ELSE dailyReset

\* Reissue and ScriptTransfer
Issue(id, units) ==
  /\ supply' = supply + units
  /\ issued' = Append(issued, [id |-> id, amount |-> units, height |-> height])

\* What the two mint paths share.  The counter moves when a large mint is
\* queued (HIGH-5); the anomaly pause takes effect with this very mint.
Mint(id, a) ==
  /\ id \notin processed
  /\ a >= MinMint /\ a <= MaxSingle
  /\ Charge(a)
  /\ processed' = processed \cup {id}
  /\ accepted' = Append(accepted, [id |-> id, amount |-> a, height |-> height])
  /\ totalMinted' = totalMinted + (a \div Ratio)
  /\ IF hourly' > Anomaly
     THEN paused' = TRUE /\ haltedAt' = height
     ELSE UNCHANGED <<paused, haltedAt>>
  /\ \/ /\ a >= LargeTx
        /\ queue' = [queue EXCEPT ![id] = [amount |-> a \div Ratio, height |-> height]]
        /\ UNCHANGED <<supply, issued>>
     \/ /\ a < LargeTx
        /\ Issue(id, a \div Ratio)
        /\ UNCHANGED queue
  /\ UNCHANGED <<roleVars, unpauseAt, sigVars, totalBurned, height>>

\* Signatures of distinct keys that are not members do not count.
CommitteeMint(id, a, signers) ==
  /\ ~paused
  /\ threshold > 0
  /\ Cardinality(signers \cap committee) >= threshold
  /\ Mint(id, a)

ZkMintAuthorized(p, id, a) ==
  /\ ~paused
  /\ p = zkVerifier
  /\ Mint(id, a)

ExecuteKeeping(id) ==     \* mutation: the entry stays queued
  /\ ~paused
  /\ queue[id] # NotQueued
  /\ height - queue[id].height >= LargeDelay
  /\ Issue(id, queue[id].amount)
  /\ UNCHANGED <<roleVars, pauseVars, sigVars, limitVars, processed, accepted,
                 totalMinted, totalBurned, height, queue>>

ExecuteEarly(id) ==       \* mutation: the delay is not checked
  /\ ~paused
  /\ queue[id] # NotQueued
  /\ Issue(id, queue[id].amount)
  /\ queue' = [queue EXCEPT ![id] = NotQueued]
  /\ UNCHANGED <<roleVars, pauseVars, sigVars, limitVars, processed, accepted,
                 totalMinted, totalBurned, height>>

ExecutePendingMint(id) ==
  /\ ~paused
  /\ queue[id] # NotQueued
  /\ height - queue[id].height >= LargeDelay
  /\ Issue(id, queue[id].amount)
  /\ queue' = [queue EXCEPT ![id] = NotQueued]
  /\ UNCHANGED <<roleVars, pauseVars, sigVars, limitVars, processed, accepted,
                 totalMinted, totalBurned, height>>

MayHalt(p) == p \in {admin, guardian}

CancelUncounted(p, id) == \* mutation: the code before E-8
  /\ MayHalt(p)
  /\ queue' = [queue EXCEPT ![id] = NotQueued]
  /\ UNCHANGED <<roleVars, pauseVars, sigVars, limitVars, processed, accepted,
                 issued, totalMinted, totalBurned, supply, height>>

CancelReopening(p, id) == \* mutation: the id may be minted again
  /\ MayHalt(p)
  /\ totalMinted' = totalMinted - queue[id].amount
  /\ queue' = [queue EXCEPT ![id] = NotQueued]
  /\ processed' = processed \ {id}
  /\ UNCHANGED <<roleVars, pauseVars, sigVars, limitVars, accepted, issued,
                 totalBurned, supply, height>>

\* Anything may be cancelled, also what is not queued; the id stays processed.
CancelPendingMint(p, id) ==
  /\ MayHalt(p)
  /\ totalMinted' = totalMinted - queue[id].amount
  /\ queue' = [queue EXCEPT ![id] = NotQueued]
  /\ UNCHANGED <<roleVars, pauseVars, sigVars, limitVars, processed, accepted,
                 issued, totalBurned, supply, height>>

Burn(units) ==
  /\ ~paused
  /\ units <= supply
  /\ units >= MinMint \div Ratio
  /\ supply' = supply - units
  /\ totalBurned' = totalBurned + units
  /\ UNCHANGED <<roleVars, pauseVars, sigVars, limitVars, mintVars, totalMinted,
                 height>>

(***************************************************************************)
(* Emergency controls: the guardian may pause but not call an unpause off  *)
(***************************************************************************)
EmergencyPause(p) ==
  /\ MayHalt(p)
  /\ paused' = TRUE
  /\ haltedAt' = IF paused THEN haltedAt ELSE height
  /\ UNCHANGED <<roleVars, unpauseAt, sigVars, limitVars, mintVars, supplyVars,
                 height>>

RequestAnytime(p) ==      \* mutation: allowed while the bridge runs
  /\ p = admin
  /\ unpauseAt' = height
  /\ UNCHANGED <<roleVars, paused, haltedAt, sigVars, limitVars, mintVars,
                 supplyVars, height>>

RequestUnpause(p) ==
  /\ p = admin
  /\ paused
  /\ unpauseAt' = height
  /\ UNCHANGED <<roleVars, paused, haltedAt, sigVars, limitVars, mintVars,
                 supplyVars, height>>

ExecuteUnpause(p) ==
  /\ p = admin
  /\ paused
  /\ unpauseAt # 0
  /\ height - unpauseAt >= UnpauseDelay
  /\ paused' = FALSE
  /\ unpauseAt' = 0
  /\ UNCHANGED <<roleVars, haltedAt, sigVars, limitVars, mintVars, supplyVars,
                 height>>

(***************************************************************************)
(* Administration                                                          *)
(***************************************************************************)
otherVars == <<pauseVars, limitVars, mintVars, supplyVars, height>>

\* Members are only ever added.
InitializeCommittee(p, c) ==
  /\ p = admin
  /\ c.threshold >= 2 /\ c.threshold <= 3
  /\ committee' = committee \cup c.keys
  /\ threshold' = c.threshold
  /\ UNCHANGED <<roleVars, otherVars>>

TransferAdmin(p, q) ==
  /\ p = admin
  /\ pendingAdmin' = q /\ transferHeight' = height
  /\ UNCHANGED <<admin, guardian, zkVerifier, sigVars, otherVars>>

AcceptAdmin(p) ==
  /\ p = pendingAdmin
  /\ height - transferHeight >= AdminDelay
  /\ admin' = p
  /\ pendingAdmin' = NoOne /\ transferHeight' = 0
  /\ UNCHANGED <<guardian, zkVerifier, sigVars, otherVars>>

UpdateGuardian(p, q) ==
  /\ p = admin
  /\ guardian' = q
  /\ UNCHANGED <<admin, pendingAdmin, transferHeight, zkVerifier, sigVars, otherVars>>

SetZkVerifier(p, q) ==
  /\ p = admin
  /\ zkVerifier' = q
  /\ UNCHANGED <<admin, guardian, pendingAdmin, transferHeight, sigVars, otherVars>>

NewBlock ==
  /\ height < MaxHeight
  /\ height' = height + 1
  /\ UNCHANGED <<roleVars, pauseVars, sigVars, limitVars, mintVars, supplyVars>>

Next ==
  \/ \E id \in Ids :
        \/ \E a \in Amounts :
              \/ \E s \in SUBSET Keys : CommitteeMint(id, a, s)
              \/ \E p \in Principals : ZkMintAuthorized(p, id, a)
        \/ ExecutePendingMint(id)
        \/ \E p \in Principals : CancelPendingMint(p, id)
  \/ \E a \in Amounts : Burn(a)
  \/ \E p \in Principals :
        \/ EmergencyPause(p) \/ RequestUnpause(p) \/ ExecuteUnpause(p)
        \/ AcceptAdmin(p)
        \/ \E c \in Committees : InitializeCommittee(p, c)
        \/ \E q \in Principals :
              TransferAdmin(p, q) \/ UpdateGuardian(p, q) \/ SetZkVerifier(p, q)
  \/ NewBlock

Spec == Init /\ [][Next]_vars

----------------------------------------------------------------------------
Mints == [id : Ids, amount : Nat, height : Nat]

Queued == SumFunctionOnSet([id \in Ids |-> queue[id].amount], Ids)

\* The counters account for the wSOL in circulation: what was counted as minted
\* is circulating, burned or still queued, whichever way queued mints end
\* (HIGH-5, E-8).
SupplyAccounted == supply + Queued + totalBurned = totalMinted

\* A transfer is minted at most once, for the amount accepted, and not while it
\* is queued, whatever mix of the two paths, the queue and cancellations it met.
IssuedOnce ==
  /\ \A i, j \in 1..Len(issued) : issued[i].id = issued[j].id => i = j
  /\ \A i \in 1..Len(issued) :
        /\ queue[issued[i].id] = NotQueued
        /\ \E k \in 1..Len(accepted) :
              /\ accepted[k].id = issued[i].id
              /\ accepted[k].amount \div Ratio = issued[i].amount

\* A large mint is public for the whole delay before it is issued.
LargeMintsWait ==
  \A i \in 1..Len(issued), k \in 1..Len(accepted) :
     accepted[k].id = issued[i].id /\ accepted[k].amount >= LargeTx
       => issued[i].height - accepted[k].height >= LargeDelay

AcceptedSince(h) ==
  SumFunctionOnSet([k \in 1..Len(accepted) |-> accepted[k].amount],
                   {k \in 1..Len(accepted) : accepted[k].height > h})

\* The tumbling windows bound what any stretch of blocks of a window's length
\* can let in: at most twice the hourly cap, at most twice the daily cap.
MintRateBounded ==
  /\ AcceptedSince(height - HourlyWindow) <= 2 * MaxHourly
  /\ AcceptedSince(height - DailyWindow) <= 2 * MaxDaily

\* VULN-9: once a pause has taken effect nothing is accepted, issued or burned
\* for the whole unpause delay, whatever was requested before.
PauseHolds ==
  [][(accepted' # accepted \/ issued' # issued \/ totalBurned' # totalBurned)
       => height - haltedAt >= UnpauseDelay]_vars

----------------------------------------------------------------------------
\* What has become of each transfer.  The history tells a mint that was issued
\* from one that was cancelled; the contract forgets both but for the id.
Stage(id) ==
  IF id \notin processed THEN "new"
  ELSE IF queue[id] # NotQueued THEN "promised"
  ELSE IF \E i \in 1..Len(issued) : issued[i].id = id THEN "issued"
  ELSE "withdrawn"

Stages == [id \in Ids |-> Stage(id)]
UnitAmounts == {a \div Ratio : a \in Amounts}

Promised == INSTANCE Issuance WITH
  Units <- UnitAmounts, Delay <- LargeDelay, stage <- Stages, due <- queue,
  circulating <- supply, now <- height

\* The contract implements Issuance: each way a deposit can go through the two
\* mint paths, the queue, cancellation and the limits is one of the ways its
\* transfer may go, and wSOL circulates for nothing else (HIGH-5, E-8, and the
\* processed_ entries of both paths).
Implements == Promised!Spec
=============================================================================
