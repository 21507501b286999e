----------------------------- MODULE Consensus -----------------------------
(***************************************************************************)
(* The validators: validator/src/consensus/engine.ts, its wiring in        *)
(* main.ts, the rate limiter, and the peer-to-peer transport between them. *)
(*                                                                         *)
(* A watcher reports a finalized deposit or burn; the node signs it, opens *)
(* a round and broadcasts its attestation; the attestations of peers are   *)
(* added until the threshold is met, and the node submits the transfer to  *)
(* the other chain.  Each action is one callback run by a node's event     *)
(* loop (the local signature resolves before any other callback runs).     *)
(* Timers are kept per transfer, not per round, and are never cleared.     *)
(*                                                                         *)
(* An attestation is a key and a message.  Which key a node signs a        *)
(* transfer with, which canonical message it builds (nodes with other fees *)
(* or chain ids build another one) and how many attestations it needs come *)
(* from the nodes' configuration: a setup, fixed for each transfer.  No    *)
(* whitelist is modelled: main.ts never fills registeredValidators.        *)
(***************************************************************************)
EXTENDS Integers, FiniteSets, Sequences, FiniteSetsExt

CONSTANTS
  Nodes, Keys,
  Transfers,      \* those within the static limits, below the ZK threshold
  Setups,         \* how the system may be set up: see Init
  Gross, Net,     \* Gross[t], Net[t]: the amount before and after the fee
  MaxDaily,       \* maxDailyOutflowLamports
  MaxProcessed,   \* MAX_PROCESSED_TRANSFERS: 100000 in the code
  MaxWindows,     \* bound of the model: MaxWindows[n], rate limiter windows of n that end
  MaxCrashes      \* bound of the model: crashes of all nodes together

Faulty == {"crash", "submission"}

ASSUME ConsensusConstants ==
  /\ IsFiniteSet(Nodes) /\ IsFiniteSet(Transfers) /\ IsFiniteSet(Keys)
  /\ \A s \in Setups :
        /\ s.faults \subseteq Faulty
        /\ \A t \in Transfers :
              /\ s.of[t].key \in [Nodes -> Keys] /\ DOMAIN s.of[t].message = Nodes
              /\ s.of[t].required \in Nat \ {0}
              /\ s.of[t].events \in [Nodes -> Nat]
  /\ Gross \in [Transfers -> Nat] /\ Net \in [Transfers -> Nat]
  /\ \A t \in Transfers : 0 < Net[t] /\ Net[t] <= Gross[t]
  /\ MaxDaily \in Nat /\ MaxProcessed \in Nat \ {0}
  /\ MaxWindows \in [Nodes -> Nat] /\ MaxCrashes \in Nat

VARIABLES
  setup,       \* for each transfer the key and the message of each node, the
               \* attestations required and the reports each node gets; and
               \* what the environment may do: see Faulty
  pending,     \* pendingConsensus: an open round, or NoRound
  timers,      \* consensus timeouts not fired yet, per node and transfer
  sweeps,      \* delayed deletions of pendingConsensus entries not run yet
  processed,   \* processedTransfers, oldest first; written through to disk
  spent,       \* the rate limiter's dailyOutflow; written through to disk
  net,         \* attestations on the wire
  txs,         \* submissions to the destination chains
  seen,        \* reports so far, per node and transfer
  round,       \* history: rounds opened so far, per node and transfer
  window,      \* history: rate limiter windows so far, per node
  verdicts,    \* history: <<node, transfer, round, verdict>> emitted
  crashes

nodeVars == <<pending, timers, sweeps, processed, spent>>
histVars == <<seen, round, window, verdicts, crashes, setup>>
vars == <<nodeVars, net, txs, histVars>>

NoRound == [keys |-> {}, resolved |-> FALSE]

SetOf(s) == {s[i] : i \in 1..Len(s)}
Key(n, t) == setup.of[t].key[n]
Message(n, t) == setup.of[t].message[n]
Zero == [n \in Nodes |-> [t \in Transfers |-> 0]]

Init ==
  /\ setup \in Setups
  /\ pending = [n \in Nodes |-> [t \in Transfers |-> NoRound]]
  /\ timers = Zero /\ sweeps = Zero
  /\ processed = [n \in Nodes |-> <<>>]
  /\ spent = [n \in Nodes |-> 0]
  /\ net = {} /\ txs = {}
  /\ seen = Zero /\ round = Zero
  /\ window = [n \in Nodes |-> 0]
  /\ verdicts = {} /\ crashes = 0

(***************************************************************************)
(* checkConsensus, once the threshold is met, and the consensus_reached    *)
(* listener up to its first await: the round is deleted, the rate limiter  *)
(* is charged with the net amount, and the submission is sent unless the   *)
(* limiter refuses, in which case the transfer is dropped.                 *)
(***************************************************************************)
Tx(n, t, k, keys) ==
  [node |-> n, transfer |-> t, round |-> k, keys |-> keys, status |-> "sent",
   awaited |-> TRUE, window |-> window[n]]

\* Mutation: the limiter is charged, and its answer ignored.
ReachedUnlimited(n, t, k, keys) ==
  /\ pending' = [pending EXCEPT ![n][t] = NoRound]
  /\ sweeps' = [sweeps EXCEPT ![n][t] = @ + 1]
  /\ verdicts' = verdicts \cup {<<n, t, k, "reached">>}
  /\ spent' = [spent EXCEPT ![n] = @ + Net[t]]
  /\ txs' = txs \cup {Tx(n, t, k, keys)}

Reached(n, t, k, keys) ==
  /\ pending' = [pending EXCEPT ![n][t] = NoRound]
  /\ sweeps' = [sweeps EXCEPT ![n][t] = @ + 1]
  /\ verdicts' = verdicts \cup {<<n, t, k, "reached">>}
  /\ IF spent[n] + Net[t] <= MaxDaily
     THEN /\ spent' = [spent EXCEPT ![n] = @ + Net[t]]
          /\ txs' = txs \cup {Tx(n, t, k, keys)}
     ELSE UNCHANGED <<spent, txs>>

Enough(t, keys) == Cardinality(keys) >= setup.of[t].required

\* A round of node n now holds the attestations of `keys`.
Update(n, t, k, keys) ==
  IF Enough(t, keys)
  THEN Reached(n, t, k, keys)
  ELSE /\ pending' = [pending EXCEPT ![n][t] = [keys |-> keys, resolved |-> FALSE]]
       /\ UNCHANGED <<sweeps, verdicts, spent, txs>>

(***************************************************************************)
(* The deposit_finalized and burn_finalized listeners, proposeAttestation  *)
(***************************************************************************)
\* canConsume is asked about the gross amount.
Admitted(n, t) ==
  /\ spent[n] + Gross[t] <= MaxDaily
  /\ t \notin SetOf(processed[n])
  /\ pending[n][t] = NoRound

Attestations(n, t) ==
  {[to |-> m, transfer |-> t, key |-> Key(n, t), message |-> Message(n, t),
    stamp |-> round[n][t] + 1] : m \in Nodes \ {n}}

\* A report the guards refuse is dropped: the watcher does not repeat it.
Finalized(n, t) ==
  /\ seen[n][t] < setup.of[t].events[n]
  /\ seen' = [seen EXCEPT ![n][t] = @ + 1]
  /\ \/ /\ ~Admitted(n, t)
        /\ UNCHANGED <<nodeVars, net, txs, round, verdicts>>
     \/ /\ Admitted(n, t)
        /\ round' = [round EXCEPT ![n][t] = @ + 1]
        /\ net' = net \cup Attestations(n, t)
        /\ Update(n, t, round[n][t] + 1, {Key(n, t)})
        /\ timers' = IF Enough(t, {Key(n, t)}) THEN timers
                     ELSE [timers EXCEPT ![n][t] = @ + 1]
        /\ UNCHANGED processed
  /\ UNCHANGED <<window, crashes, setup>>

(***************************************************************************)
(* receiveAttestation.  An attestation sent to a peer that is not          *)
(* connected is lost: that is one that is never received.                  *)
(***************************************************************************)
CountsMismatched(m) ==                \* mutation: the message is not compared
  LET p == pending[m.to][m.transfer]
  IN  /\ p # NoRound
      /\ ~p.resolved
      /\ m.key \notin p.keys

\* An attestation for a transfer with no open round is dropped, not stored.
Counts(m) ==
  LET p == pending[m.to][m.transfer]
  IN  /\ p # NoRound
      /\ ~p.resolved
      /\ m.key \notin p.keys
      /\ m.message = Message(m.to, m.transfer)

Receive(m) ==
  LET n == m.to
      t == m.transfer
  IN  /\ net' = net \ {m}
      /\ \/ /\ Counts(m)
            /\ Update(n, t, round[n][t], pending[n][t].keys \cup {m.key})
         \/ /\ ~Counts(m)
            /\ UNCHANGED <<pending, sweeps, verdicts, spent, txs>>
      /\ UNCHANGED <<timers, processed, seen, round, window, crashes, setup>>

(***************************************************************************)
(* checkConsensusTimeout and the delayed deletions (5 s and 60 s)          *)
(***************************************************************************)
TimeoutAnyway(n, t) ==                \* mutation: `resolved` is not checked
  /\ timers[n][t] > 0
  /\ timers' = [timers EXCEPT ![n][t] = @ - 1]
  /\ \/ /\ pending[n][t] # NoRound
        /\ pending' = [pending EXCEPT ![n][t].resolved = TRUE]
        /\ sweeps' = [sweeps EXCEPT ![n][t] = @ + 1]
        /\ verdicts' = verdicts \cup {<<n, t, round[n][t],
              IF pending[n][t].resolved THEN "failed again" ELSE "failed">>}
     \/ /\ pending[n][t] = NoRound
        /\ UNCHANGED <<pending, sweeps, verdicts>>
  /\ UNCHANGED <<processed, spent, net, txs, seen, round, window, crashes, setup>>

TimeoutUnswept(n, t) ==               \* mutation: the round is never deleted
  /\ timers[n][t] > 0
  /\ timers' = [timers EXCEPT ![n][t] = @ - 1]
  /\ \/ /\ pending[n][t] # NoRound /\ ~pending[n][t].resolved
        /\ pending' = [pending EXCEPT ![n][t].resolved = TRUE]
        /\ verdicts' = verdicts \cup {<<n, t, round[n][t], "failed">>}
     \/ /\ pending[n][t] = NoRound \/ pending[n][t].resolved
        /\ UNCHANGED <<pending, verdicts>>
  /\ UNCHANGED <<sweeps, processed, spent, net, txs, seen, round, window, crashes, setup>>

Timeout(n, t) ==
  /\ timers[n][t] > 0
  /\ timers' = [timers EXCEPT ![n][t] = @ - 1]
  /\ \/ /\ pending[n][t] # NoRound /\ ~pending[n][t].resolved
        /\ pending' = [pending EXCEPT ![n][t] = [keys |-> @.keys, resolved |-> TRUE]]
        /\ sweeps' = [sweeps EXCEPT ![n][t] = @ + 1]
        /\ verdicts' = verdicts \cup {<<n, t, round[n][t], "failed">>}
     \/ /\ pending[n][t] = NoRound \/ pending[n][t].resolved
        /\ UNCHANGED <<pending, sweeps, verdicts>>
  /\ UNCHANGED <<processed, spent, net, txs, seen, round, window, crashes, setup>>

\* It deletes whatever round is open for the transfer by then.
Sweep(n, t) ==
  /\ sweeps[n][t] > 0
  /\ sweeps' = [sweeps EXCEPT ![n][t] = @ - 1]
  /\ pending' = [pending EXCEPT ![n][t] = NoRound]
  /\ UNCHANGED <<timers, processed, spent, net, txs, histVars>>

(***************************************************************************)
(* The submission, and markSubmitted once it has landed.  Replay           *)
(* protection on the destination chain lets one submission per transfer    *)
(* through; it also checks the threshold and the signatures.               *)
(***************************************************************************)
Landed == {x.transfer : x \in {y \in txs : y.status = "landed"}}

Became(x, status, awaited) ==
  txs' = (txs \ {x}) \cup {[x EXCEPT !.status = status, !.awaited = awaited]}

Land(x) ==
  /\ x.status = "sent" /\ x.transfer \notin Landed
  /\ Became(x, "landed", x.awaited)
  /\ UNCHANGED <<nodeVars, net, histVars>>

\* The contract rejects a transfer that was already executed.
Reject(x) ==
  /\ x.status = "sent" /\ x.transfer \in Landed
  /\ Became(x, "failed", FALSE)
  /\ UNCHANGED <<nodeVars, net, histVars>>

\* The RPC fails before, or (the confirmation times out) after the fact; the
\* error is logged and the transfer is neither retried nor marked.
SubmissionFails(x) ==
  /\ "submission" \in setup.faults
  /\ \/ x.status = "sent" /\ Became(x, "failed", FALSE)
     \/ x.status = "landed" /\ x.awaited /\ Became(x, "landed", FALSE)
  /\ UNCHANGED <<nodeVars, net, histVars>>

\* Set.add keeps the place of an element it holds; the oldest is evicted.
Remembered(n, t) ==
  LET all == IF t \in SetOf(processed[n]) THEN processed[n]
                                          ELSE Append(processed[n], t)
  IN  IF Len(all) > MaxProcessed THEN Tail(all) ELSE all

ConfirmUnlanded(x) ==                 \* mutation: marked once it is sent
  /\ x.awaited
  /\ Became(x, x.status, FALSE)
  /\ processed' = [processed EXCEPT ![x.node] = Remembered(x.node, x.transfer)]
  /\ UNCHANGED <<pending, timers, sweeps, spent, net, histVars>>

Confirm(x) ==
  /\ x.status = "landed" /\ x.awaited
  /\ Became(x, "landed", FALSE)
  /\ processed' = [processed EXCEPT ![x.node] = Remembered(x.node, x.transfer)]
  /\ UNCHANGED <<pending, timers, sweeps, spent, net, histVars>>

(***************************************************************************)
(* The environment                                                         *)
(***************************************************************************)
\* maybeResetWindow: 24 hours after windowStart; it is looked at when needed.
WindowEnds(n) ==
  /\ spent[n] > 0 /\ window[n] < MaxWindows[n]
  /\ spent' = [spent EXCEPT ![n] = 0]
  /\ window' = [window EXCEPT ![n] = @ + 1]
  /\ UNCHANGED <<pending, timers, sweeps, processed, net, txs, seen, round,
                 verdicts, crashes, setup>>

\* A node stops and restarts: rounds and timers are gone, what it sent is not.
Crash(n) ==
  /\ "crash" \in setup.faults
  /\ crashes < MaxCrashes
  /\ crashes' = crashes + 1
  /\ pending' = [pending EXCEPT ![n] = [t \in Transfers |-> NoRound]]
  /\ timers' = [timers EXCEPT ![n] = Zero[n]]
  /\ sweeps' = [sweeps EXCEPT ![n] = Zero[n]]
  /\ net' = {m \in net : m.to # n}
  /\ txs' = {[x EXCEPT !.awaited = @ /\ x.node # n] : x \in txs}
  /\ UNCHANGED <<processed, spent, seen, round, window, verdicts, setup>>

Next ==
  \/ \E n \in Nodes :
        \/ \E t \in Transfers : Finalized(n, t) \/ Timeout(n, t) \/ Sweep(n, t)
        \/ WindowEnds(n) \/ Crash(n)
  \/ \E m \in net : Receive(m)
  \/ \E x \in txs : Land(x) \/ Reject(x) \/ SubmissionFails(x) \/ Confirm(x)

Spec == Init /\ [][Next]_vars

\* Node.js runs the callbacks of setTimeout.
FairSpec ==
  Spec /\ WF_vars(\E n \in Nodes, t \in Transfers : Timeout(n, t) \/ Sweep(n, t))

\* On top of that, nothing fails: every node hears of every transfer, every
\* attestation is delivered, and chains include and confirm what they are sent.
ReliableSpec ==
  /\ FairSpec
  /\ \A n \in Nodes, t \in Transfers : WF_vars(seen[n][t] = 0 /\ Finalized(n, t))
  /\ WF_vars(\E m \in net : Receive(m))
  /\ WF_vars(\E x \in txs : Land(x) \/ Reject(x) \/ Confirm(x))

----------------------------------------------------------------------------
\* What a node submits carries enough distinct keys, and each of them belongs
\* to a validator that itself saw the event and signed the very message the
\* submitter signs, whatever was lost, retried or swept in between.
QuorumBehindSubmission ==
  \A x \in txs :
     /\ Cardinality(x.keys) >= setup.of[x.transfer].required
     /\ \A k \in x.keys : \E n \in Nodes :
           /\ Key(n, x.transfer) = k
           /\ round[n][x.transfer] > 0
           /\ Message(n, x.transfer) = Message(x.node, x.transfer)

\* What a node submits within one window of its rate limiter stays within the
\* daily cap, although rounds are admitted against an allowance that is charged
\* only when they are decided, several may be open at once, and nodes restart.
OutflowLimited ==
  \A n \in Nodes : \A w \in 0..window[n] :
     SumFunctionOnSet([x \in txs |-> Net[x.transfer]],
                      {x \in txs : x.node = n /\ x.window = w}) <= MaxDaily

\* A transfer a node remembers as processed, and so will never propose again,
\* did execute on the destination chain: no failure, crash or early deletion
\* makes a node give up funds that are still locked.
ProcessedLanded == \A n \in Nodes : SetOf(processed[n]) \subseteq Landed

\* A round is announced once, as reached or as failed, although timers of
\* earlier rounds of the same transfer may still fire.
OneVerdict ==
  \A v, w \in verdicts :
     (v[1] = w[1] /\ v[2] = w[2] /\ v[3] = w[3]) => v = w

\* No round blocks its transfer for ever: it is decided or times out, and is
\* cleaned up "so this transfer can be retried".
RoundsEnd ==
  \A n \in Nodes, t \in Transfers :
     pending[n][t] # NoRound ~> pending[n][t] = NoRound

\* engine.ts: "Liveness guaranteed with 2f+1 honest validators": once every
\* validator is told of a transfer, it is executed.
AttestedExecuted ==
  \A t \in Transfers :
     (\A n \in Nodes : round[n][t] > 0) ~> (t \in Landed)
=============================================================================
