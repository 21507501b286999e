------------------------------ MODULE Offchain ------------------------------
(***************************************************************************)
(* The programs that follow the chains or act on them from outside, side   *)
(* by side: the watchers of a validator (BurnWatcher; DepositWatcher), the *)
(* handling of its signing key (Keys), the Telegram bot (Relay), the       *)
(* deployment scripts (Deployment), the trees of the messages of a         *)
(* checkpoint (Merkle) and the encodings of a deposit (Encoding).  They    *)
(* share no state; each but the first has names of its own here.           *)
(***************************************************************************)
EXTENDS BurnWatcher

CONSTANTS
  Txs, VaultDeposits, NoTx, Limit, Depth, Modes,
  Confirmations,      \* Required of the deposit watcher
  Failures,           \* its Faults
  MaxStops, MaxInjections, MaxForks, MaxSlot,
  MaxKeys, MaxToggles,
  Spl, Sol,
  Withdrawals,        \* Burns of the bot
  Slot, Polls, Retries,
  MaxErrors,          \* its MaxFaults
  MaxRuns,
  MaxSetbacks,        \* MaxFaults of the deployment scripts
  TreeDepth, MessageIds,
  MaxLeaves,          \* MaxMessages of the trees
  Width, IdSize, Short, Long, Version, Bodies, Senders, Ids, Amounts, Slots

ASSUME DepositWatcherConstants ==
  /\ VaultDeposits \subseteq Txs /\ NoTx \notin Txs
  /\ Limit \in Nat \ {0} /\ {Depth, Confirmations} \subseteq Nat
  /\ Modes \subseteq {"poll", "socket"}
  /\ Failures \subseteq {"fetch", "lag", "verify", "seed", "crash", "fork"}
  /\ {MaxStops, MaxInjections, MaxForks, MaxSlot} \subseteq Nat

\* A checkpoint is cut at ZK_MAX_EVENTS_PER_CHECKPOINT events, 100; the prover
\* refuses more than the tree holds.
ASSUME TreeConstants ==
  TreeDepth \in Nat /\ MaxLeaves \in Nat /\ MaxLeaves <= 2 ^ TreeDepth

\* Bytes of 8 bits, 32 in a field, 4 and 8 in the integers; an address has 26.
\* An amount is positive in the contract's signed integers.
ASSUME EncodingConstants ==
  LET Value == 0..2 ^ Width - 1
      Field == [1..IdSize -> Value]
  IN /\ Width \in Nat \ {0}
     /\ IdSize \in Nat /\ IdSize >= 3 /\ IdSize % 2 = 0
     /\ {Short, Long} \subseteq 1..IdSize /\ Short <= Long /\ Long >= 2
     /\ Version \in Value /\ Bodies \subseteq Value
     /\ Senders \subseteq Field /\ Ids \subseteq Field
     /\ \A a \in Amounts : a \in Nat /\ 2 * a < 2 ^ (Width * Long)
     /\ Slots \subseteq 0..2 ^ (Width * Long) - 1

VARIABLES
  slot, chain, slotOf, phase, mode, signature, last, batch, feed, deposits,
  verifying, reports, missed, times, injections, stops, forks, misses,
  file, encFile, backups, env, signer, announced, rotated, registered, job,
  generated, toggles, orphaned,
  consensus, landed, relayed, recorded, statuses, scanned, polls, relays, started,
  errors,
  facts, mempool, script, said, runs, setbacks,
  messages,
  deposit, id, log, answer

D == INSTANCE DepositWatcher WITH
  Deposits <- VaultDeposits, Required <- Confirmations, Faults <- Failures,
  MaxCrashes <- MaxStops, at <- slotOf, cursor <- signature, pending <- deposits,
  checking <- verifying, lost <- missed, crashes <- stops
K == INSTANCE Keys
R == INSTANCE Relay WITH
  Burns <- Withdrawals, MaxFaults <- MaxErrors, minted <- relayed, rows <- statuses,
  cursor <- scanned, faults <- errors
C == INSTANCE Deployment WITH
  MaxFaults <- MaxSetbacks, chain <- facts, pending <- mempool, faults <- setbacks
L == INSTANCE Merkle WITH
  Depth <- TreeDepth, Messages <- MessageIds, MaxMessages <- MaxLeaves
E == INSTANCE Encoding

----------------------------------------------------------------------------
\* A deposit that is reported is final, in the slot it was reported with, and is
\* not reported again unasked (solana-watcher.ts).
DepositsFinal == D!ReportedFinal

\* A final deposit is reported, or lost in one of the ways the model names.
DepositsReportedOrLost == D!ReportedOrLost

\* No key that was shown or registered is lost (threshold-signer.ts, the key scripts).
KeysKept == K!KeysKept

\* The Telegram bot relays a deposit or a burn at most once.
RelayedOnce == R!RelayedOnce

\* What a deployment script calls complete is in force on the chain.
CompleteInForce == C!CompleteInForce

\* Merkle proofs lead to their root from their own leaf only (zk-utils.ts, merkle.ts).
ProofsLead == L!ProofsLead

\* What the Solana program writes, both mint paths and the contracts read alike.
EncodingsAgree == E!EncodingsAgree

=============================================================================
