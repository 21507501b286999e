-------------------------- MODULE ConsensusProofs ---------------------------
(***************************************************************************)
(* Theorems about Consensus for every value of its constants: any number   *)
(* of validators, keys and transfers, any setup, threshold and daily cap,  *)
(* whatever is lost, delayed, reordered, retried or stopped in between.    *)
(***************************************************************************)
EXTENDS Consensus, SumTheorems

----------------------------------------------------------------------------
(* Type correctness *)

Rounds == [keys : SUBSET Keys, resolved : BOOLEAN]
Submissions == [node : Nodes, transfer : Transfers, round : Nat, keys : SUBSET Keys,
                status : {"sent", "landed", "failed"}, awaited : BOOLEAN, window : Nat]
Counters == [Nodes -> [Transfers -> Nat]]
Verdicts == Nodes \X Transfers \X Nat \X {"reached", "failed"}

TypeOK ==
  /\ setup \in Setups
  /\ pending \in [Nodes -> [Transfers -> Rounds]]
  /\ timers \in Counters /\ sweeps \in Counters
  /\ processed \in [Nodes -> Seq(Transfers)]
  /\ spent \in [Nodes -> Nat]
  /\ \A m \in net : m.to \in Nodes /\ m.transfer \in Transfers /\ m.key \in Keys
  /\ txs \in SUBSET Submissions /\ IsFiniteSet(txs)
  /\ seen \in Counters /\ round \in Counters
  /\ window \in [Nodes -> Nat]
  /\ verdicts \in SUBSET Verdicts
  /\ crashes \in Nat

----------------------------------------------------------------------------
(* The inductive invariant *)

\* A validator that itself saw the event of t, and signs it with key k, signs
\* the very message that n signs.
Backed(n, t, k) ==
  \E q \in Nodes : Key(q, t) = k /\ round[q][t] > 0 /\ Message(q, t) = Message(n, t)

\* An attestation on the wire was signed by a validator that saw the event.
Witnessed(m) ==
  \E q \in Nodes : /\ Key(q, m.transfer) = m.key /\ round[q][m.transfer] > 0
                   /\ Message(q, m.transfer) = m.message

\* A round only ever counts attestations of the message its own node signs.
Attested ==
  /\ \A m \in net : Witnessed(m)
  /\ \A n \in Nodes, t \in Transfers : \A k \in pending[n][t].keys : Backed(n, t, k)

\* Verdicts are about rounds that were opened, and the round that is open and
\* unresolved has none yet.
Undecided ==
  \A v \in verdicts :
     /\ v[3] <= round[v[1]][v[2]]
     /\ pending[v[1]][v[2]] # NoRound /\ ~pending[v[1]][v[2]].resolved
          => v[3] < round[v[1]][v[2]]

\* What a node submitted in one window of its limiter.
Outflow(n, w) ==
  SumFunctionOnSet([x \in txs |-> Net[x.transfer]], {x \in txs : x.node = n /\ x.window = w})

\* The limiter was charged for all that was submitted in the current window,
\* and nothing was submitted in a window yet to come.
Charged ==
  /\ \A x \in txs : x.window <= window[x.node]
  /\ \A n \in Nodes : Outflow(n, window[n]) <= spent[n] /\ spent[n] <= MaxDaily

Inv ==
  /\ TypeOK /\ Attested /\ Undecided /\ Charged
  /\ QuorumBehindSubmission /\ OneVerdict /\ ProcessedLanded /\ OutflowLimited

----------------------------------------------------------------------------
(* Type correctness is preserved *)

LEMMA ConstantTypes ==
  /\ IsFiniteSet(Keys) /\ IsFiniteSet(Nodes)
  /\ MaxDaily \in Nat /\ MaxProcessed \in Nat /\ MaxProcessed > 0
  /\ \A t \in Transfers : Net[t] \in Nat /\ Gross[t] \in Nat /\ Net[t] <= Gross[t]
  /\ \A s \in Setups, t \in Transfers, n \in Nodes :
        s.of[t].key[n] \in Keys /\ s.of[t].required \in Nat /\ s.of[t].required > 0
  BY ConsensusConstants

LEMMA NoRoundType == NoRound \in Rounds
  BY DEF NoRound, Rounds

\* What becomes of one entry of pendingConsensus leaves the others alone.
LEMMA PendingSet ==
  ASSUME TypeOK, NEW n \in Nodes, NEW t \in Transfers, NEW r \in Rounds,
         pending' = [pending EXCEPT ![n][t] = r]
  PROVE  /\ pending' \in [Nodes -> [Transfers -> Rounds]]
         /\ \A m \in Nodes, u \in Transfers :
               pending'[m][u] = IF m = n /\ u = t THEN r ELSE pending[m][u]
  BY DEF TypeOK

LEMMA ReachedType ==
  ASSUME TypeOK, NEW n \in Nodes, NEW t \in Transfers, NEW k \in Nat,
         NEW keys \in SUBSET Keys, Reached(n, t, k, keys)
  PROVE  /\ pending' \in [Nodes -> [Transfers -> Rounds]] /\ sweeps' \in Counters
         /\ verdicts' \in SUBSET Verdicts /\ spent' \in [Nodes -> Nat]
         /\ txs' \in SUBSET Submissions /\ IsFiniteSet(txs')
<1>1. pending' \in [Nodes -> [Transfers -> Rounds]]
  BY NoRoundType DEF Reached, TypeOK
<1>2. sweeps' \in Counters
  BY DEF Reached, TypeOK, Counters
<1>3. verdicts' \in SUBSET Verdicts
  BY DEF Reached, TypeOK, Verdicts
<1>4. Tx(n, t, k, keys) \in Submissions
  BY DEF Tx, Submissions, TypeOK
<1>5. spent' \in [Nodes -> Nat] /\ txs' \in SUBSET Submissions /\ IsFiniteSet(txs')
  <2>1. IsFiniteSet(txs \cup {Tx(n, t, k, keys)})
    BY FS_AddElement DEF TypeOK
  <2>2. CASE UNCHANGED <<spent, txs>>
    BY <2>2 DEF TypeOK
  <2>3. CASE /\ spent' = [spent EXCEPT ![n] = spent[n] + Net[t]]
             /\ txs' = txs \cup {Tx(n, t, k, keys)}
    BY <1>4, <2>1, <2>3, ConstantTypes DEF TypeOK
  <2> QED BY <2>2, <2>3 DEF Reached
<1> QED BY <1>1, <1>2, <1>3, <1>5

LEMMA UpdateType ==
  ASSUME TypeOK, NEW n \in Nodes, NEW t \in Transfers, NEW k \in Nat,
         NEW keys \in SUBSET Keys, Update(n, t, k, keys)
  PROVE  /\ pending' \in [Nodes -> [Transfers -> Rounds]] /\ sweeps' \in Counters
         /\ verdicts' \in SUBSET Verdicts /\ spent' \in [Nodes -> Nat]
         /\ txs' \in SUBSET Submissions /\ IsFiniteSet(txs')
<1>1. CASE Enough(t, keys)
  <2>1. Reached(n, t, k, keys)
    BY <1>1 DEF Update
  <2> QED BY <2>1, ReachedType, Zenon
<1>2. CASE ~Enough(t, keys)
  <2> DEFINE r == [keys |-> keys, resolved |-> FALSE]
  <2>1. r \in Rounds
    BY DEF Rounds
  <2>2. pending' = [pending EXCEPT ![n][t] = r] /\ UNCHANGED <<sweeps, verdicts, spent, txs>>
    BY <1>2, Zenon DEF Update
  <2> HIDE DEF r
  <2>3. pending' \in [Nodes -> [Transfers -> Rounds]]
    BY <2>1, <2>2, PendingSet
  <2> QED BY <2>2, <2>3 DEF TypeOK
<1> QED BY <1>1, <1>2

LEMMA KeyType ==
  ASSUME TypeOK, NEW n \in Nodes, NEW t \in Transfers
  PROVE  Key(n, t) \in Keys /\ setup.of[t].required \in Nat /\ setup.of[t].required > 0
  BY ConstantTypes DEF TypeOK, Key

LEMMA FinalizedType ==
  ASSUME TypeOK, NEW n \in Nodes, NEW t \in Transfers, Finalized(n, t)
  PROVE  TypeOK'
<1>1. /\ setup' \in Setups /\ window' \in [Nodes -> Nat] /\ crashes' \in Nat
      /\ seen' \in Counters
  BY DEF Finalized, TypeOK, Counters
<1>2. CASE UNCHANGED <<nodeVars, net, txs, round, verdicts>>
  BY <1>1, <1>2 DEF TypeOK, nodeVars
<1>3. CASE /\ round' = [round EXCEPT ![n][t] = @ + 1]
           /\ net' = net \cup Attestations(n, t)
           /\ Update(n, t, round[n][t] + 1, {Key(n, t)})
           /\ timers' = IF Enough(t, {Key(n, t)}) THEN timers
                        ELSE [timers EXCEPT ![n][t] = @ + 1]
           /\ UNCHANGED processed
  <2>1. round[n][t] + 1 \in Nat /\ {Key(n, t)} \in SUBSET Keys
    BY KeyType DEF TypeOK, Counters
  <2>2. round' \in Counters
    BY <1>3 DEF TypeOK, Counters
  <2>3. timers' \in Counters
    BY <1>3 DEF TypeOK, Counters
  <2>4. \A m \in net' : m.to \in Nodes /\ m.transfer \in Transfers /\ m.key \in Keys
    BY <1>3, <2>1 DEF TypeOK, Attestations
  <2>5. processed' \in [Nodes -> Seq(Transfers)]
    BY <1>3 DEF TypeOK
  <2>6. Update(n, t, round[n][t] + 1, {Key(n, t)})
    BY <1>3
  <2>7. /\ pending' \in [Nodes -> [Transfers -> Rounds]] /\ sweeps' \in Counters
        /\ verdicts' \in SUBSET Verdicts /\ spent' \in [Nodes -> Nat]
        /\ txs' \in SUBSET Submissions /\ IsFiniteSet(txs')
    BY <2>1, <2>6, UpdateType
  <2> QED BY <1>1, <2>2, <2>3, <2>4, <2>5, <2>7 DEF TypeOK
<1> QED BY <1>2, <1>3 DEF Finalized

LEMMA ReceiveType ==
  ASSUME TypeOK, NEW m \in net, Receive(m)
  PROVE  TypeOK'
<1> DEFINE n == m.to
           t == m.transfer
<1>1. n \in Nodes /\ t \in Transfers /\ m.key \in Keys
  BY DEF TypeOK
<1>2. /\ net' = net \ {m}
      /\ UNCHANGED <<timers, processed, seen, round, window, crashes, setup>>
  BY DEF Receive
<1>3. CASE UNCHANGED <<pending, sweeps, verdicts, spent, txs>>
  BY <1>2, <1>3 DEF TypeOK
<1>4. CASE Update(n, t, round[n][t], pending[n][t].keys \cup {m.key})
  <2>1. round[n][t] \in Nat /\ pending[n][t].keys \cup {m.key} \in SUBSET Keys
    BY <1>1 DEF TypeOK, Counters, Rounds
  <2>2. /\ pending' \in [Nodes -> [Transfers -> Rounds]] /\ sweeps' \in Counters
        /\ verdicts' \in SUBSET Verdicts /\ spent' \in [Nodes -> Nat]
        /\ txs' \in SUBSET Submissions /\ IsFiniteSet(txs')
    <3> HIDE DEF n, t
    <3> QED BY <1>1, <1>4, <2>1, UpdateType
  <2> QED BY <1>2, <2>2 DEF TypeOK
<1> QED BY <1>3, <1>4 DEF Receive

\* A round that times out keeps its attestations.
LEMMA TimedOut ==
  ASSUME TypeOK, NEW n \in Nodes, NEW t \in Transfers
  PROVE  pending' = [pending EXCEPT ![n][t] = [keys |-> @.keys, resolved |-> TRUE]] =>
         /\ pending' \in [Nodes -> [Transfers -> Rounds]]
         /\ \A m \in Nodes, u \in Transfers :
               pending'[m][u] = IF m = n /\ u = t
                                THEN [keys |-> pending[n][t].keys, resolved |-> TRUE]
                                ELSE pending[m][u]
<1> DEFINE late == [keys |-> pending[n][t].keys, resolved |-> TRUE]
<1>1. late \in Rounds
  BY DEF TypeOK, Rounds
<1> HIDE DEF late
<1>2. ASSUME pending' = [pending EXCEPT ![n][t] = late]
      PROVE  /\ pending' \in [Nodes -> [Transfers -> Rounds]]
             /\ \A m \in Nodes, u \in Transfers :
                   pending'[m][u] = IF m = n /\ u = t THEN late ELSE pending[m][u]
  BY <1>1, <1>2, PendingSet
<1> QED BY <1>2, Zenon DEF late

LEMMA TimeoutType ==
  ASSUME TypeOK, NEW n \in Nodes, NEW t \in Transfers, Timeout(n, t)
  PROVE  TypeOK'
<1>1. /\ timers[n][t] > 0 /\ timers' = [timers EXCEPT ![n][t] = @ - 1]
      /\ UNCHANGED <<processed, spent, net, txs, seen, round, window, crashes, setup>>
  BY DEF Timeout
<1>2. timers' \in Counters
  BY <1>1 DEF TypeOK, Counters
<1>3. CASE UNCHANGED <<pending, sweeps, verdicts>>
  BY <1>1, <1>2, <1>3 DEF TypeOK
<1>4. CASE /\ pending' = [pending EXCEPT ![n][t] = [keys |-> @.keys, resolved |-> TRUE]]
           /\ sweeps' = [sweeps EXCEPT ![n][t] = @ + 1]
           /\ verdicts' = verdicts \cup {<<n, t, round[n][t], "failed">>}
  <2>1. pending' \in [Nodes -> [Transfers -> Rounds]]
    BY <1>4, TimedOut, Zenon
  <2>2. sweeps' = [sweeps EXCEPT ![n][t] = @ + 1]
        /\ verdicts' = verdicts \cup {<<n, t, round[n][t], "failed">>}
    BY <1>4, Zenon
  <2>3. sweeps' \in Counters
    BY <2>2 DEF TypeOK, Counters
  <2>4. verdicts' \in SUBSET Verdicts
    BY <2>2 DEF TypeOK, Verdicts, Counters
  <2> QED BY <1>1, <1>2, <2>1, <2>3, <2>4 DEF TypeOK
<1> QED BY <1>3, <1>4, Zenon DEF Timeout

LEMMA SweepType ==
  ASSUME TypeOK, NEW n \in Nodes, NEW t \in Transfers, Sweep(n, t)
  PROVE  TypeOK'
<1>1. /\ sweeps[n][t] > 0 /\ sweeps' = [sweeps EXCEPT ![n][t] = @ - 1]
      /\ pending' = [pending EXCEPT ![n][t] = NoRound]
      /\ UNCHANGED <<timers, processed, spent, net, txs, histVars>>
  BY DEF Sweep
<1>2. sweeps' \in Counters
  BY <1>1 DEF TypeOK, Counters
<1>3. pending' \in [Nodes -> [Transfers -> Rounds]]
  BY <1>1, NoRoundType, PendingSet
<1> QED BY <1>1, <1>2, <1>3 DEF TypeOK, histVars

\* What happens to submissions that were sent: each may change its status, but
\* not what was submitted, nor that it landed.
Renamed(name) ==
  /\ txs' = {name[x] : x \in txs}
  /\ \A x \in txs :
        /\ name[x] \in Submissions
        /\ name[x].node = x.node /\ name[x].transfer = x.transfer
        /\ name[x].keys = x.keys /\ name[x].window = x.window
        /\ x.status = "landed" => name[x].status = "landed"

LEMMA RenamedType ==
  ASSUME TypeOK, NEW name, Renamed(name)
  PROVE  txs' \in SUBSET Submissions /\ IsFiniteSet(txs')
<1>1. IsFiniteSet({name[x] : x \in txs})
  BY RenamedFinite DEF TypeOK
<1> QED BY <1>1 DEF Renamed

LEMMA BecameRenamed ==
  ASSUME TypeOK, NEW x \in txs, NEW status \in {"sent", "landed", "failed"},
         NEW awaited \in BOOLEAN, x.status = "landed" => status = "landed",
         Became(x, status, awaited)
  PROVE  \E name : Renamed(name) /\ name[x].status = status
<1> DEFINE y == [x EXCEPT !.status = status, !.awaited = awaited]
           name == [z \in txs |-> IF z = x THEN y ELSE z]
<1>1. x \in Submissions
  BY DEF TypeOK
<1>2. /\ y \in Submissions /\ y.node = x.node /\ y.transfer = x.transfer
      /\ y.keys = x.keys /\ y.window = x.window /\ y.status = status
  BY <1>1 DEF Submissions
<1>3. txs' = (txs \ {x}) \cup {y}
  BY DEF Became
<1> HIDE DEF y
<1>4. txs' = {name[z] : z \in txs}
  BY <1>3
<1>5. Renamed(name)
  BY <1>1, <1>2, <1>4 DEF Renamed, TypeOK
<1> QED BY <1>2, <1>5

LEMMA CrashRenamed ==
  ASSUME TypeOK, NEW n \in Nodes, Crash(n)
  PROVE  \E name : Renamed(name)
<1> DEFINE name == [x \in txs |-> [x EXCEPT !.awaited = @ /\ x.node # n]]
<1>1. txs' = {name[x] : x \in txs}
  BY DEF Crash
<1>2. ASSUME NEW x \in txs
      PROVE  /\ name[x] \in Submissions
             /\ name[x].node = x.node /\ name[x].transfer = x.transfer
             /\ name[x].keys = x.keys /\ name[x].window = x.window
             /\ name[x].status = x.status
  BY ZenonT(60) DEF TypeOK, Submissions
<1> HIDE DEF name
<1>3. Renamed(name)
  BY <1>1, <1>2 DEF Renamed
<1> QED BY <1>3

\* Remembering a transfer adds that one and may forget another.
LEMMA RememberedIs ==
  ASSUME TypeOK, NEW n \in Nodes, NEW t \in Transfers
  PROVE  /\ Remembered(n, t) \in Seq(Transfers)
         /\ SetOf(Remembered(n, t)) \subseteq SetOf(processed[n]) \cup {t}
<1>1. processed[n] \in Seq(Transfers)
  BY DEF TypeOK
<1> DEFINE all == IF t \in SetOf(processed[n]) THEN processed[n]
                                               ELSE Append(processed[n], t)
<1>2. /\ all \in Seq(Transfers)
      /\ \A i \in 1..Len(all) : all[i] = t \/ \E j \in 1..Len(processed[n]) : all[i] = processed[n][j]
  BY <1>1 DEF SetOf
<1>3. Remembered(n, t) = IF Len(all) > MaxProcessed THEN Tail(all) ELSE all
  BY DEF Remembered
<1> HIDE DEF all
<1>4. CASE Len(all) > MaxProcessed
  <2>1. all # <<>> /\ Len(all) > 0
    BY <1>2, <1>4, ConstantTypes
  <2>2. Tail(all) \in Seq(Transfers) /\ Len(Tail(all)) = Len(all) - 1
        /\ \A i \in 1..Len(Tail(all)) : i + 1 \in 1..Len(all) /\ Tail(all)[i] = all[i + 1]
    BY <1>2, <2>1
  <2> QED BY <1>2, <1>3, <1>4, <2>2 DEF SetOf
<1>5. CASE ~(Len(all) > MaxProcessed)
  BY <1>2, <1>3, <1>5 DEF SetOf
<1> QED BY <1>4, <1>5

\* A step of a submission on its way: no node notices.
LEMMA ChainType ==
  ASSUME TypeOK, UNCHANGED <<nodeVars, net, histVars>>, NEW name, Renamed(name)
  PROVE  TypeOK'
<1>1. txs' \in SUBSET Submissions /\ IsFiniteSet(txs')
  BY RenamedType
<1> QED BY <1>1 DEF TypeOK, nodeVars, histVars

\* What the destination chain and the RPC may do to a submission.
LEMMA LandRenamed ==
  ASSUME TypeOK, NEW x \in txs, Land(x) \/ Reject(x) \/ SubmissionFails(x)
  PROVE  (\E name : Renamed(name)) /\ UNCHANGED <<nodeVars, net, histVars>>
<1>1. x.awaited \in BOOLEAN
  BY DEF TypeOK, Submissions
<1>2. UNCHANGED <<nodeVars, net, histVars>>
  BY DEF Land, Reject, SubmissionFails
<1>3. \/ x.status = "sent" /\ Became(x, "landed", x.awaited)
      \/ x.status = "sent" /\ Became(x, "failed", FALSE)
      \/ Became(x, "landed", FALSE)
  BY Zenon DEF Land, Reject, SubmissionFails
<1>4. CASE x.status = "sent" /\ Became(x, "landed", x.awaited)
  BY <1>1, <1>2, <1>4, BecameRenamed
<1>5. CASE x.status = "sent" /\ Became(x, "failed", FALSE)
  BY <1>2, <1>5, BecameRenamed
<1>6. CASE Became(x, "landed", FALSE)
  BY <1>2, <1>6, BecameRenamed
<1> QED BY <1>3, <1>4, <1>5, <1>6

LEMMA ConfirmRenamed ==
  ASSUME TypeOK, NEW x \in txs, Confirm(x)
  PROVE  /\ \E name : Renamed(name) /\ name[x].status = "landed"
         /\ x.node \in Nodes /\ x.transfer \in Transfers
         /\ processed' = [processed EXCEPT ![x.node] = Remembered(x.node, x.transfer)]
         /\ UNCHANGED <<pending, timers, sweeps, spent, net, histVars>>
<1>1. x.status = "landed" /\ Became(x, "landed", FALSE)
  BY DEF Confirm
<1>2. \E name : Renamed(name) /\ name[x].status = "landed"
  BY <1>1, BecameRenamed
<1>3. x.node \in Nodes /\ x.transfer \in Transfers
  BY DEF TypeOK, Submissions
<1> QED BY <1>2, <1>3 DEF Confirm

LEMMA ConfirmType ==
  ASSUME TypeOK, NEW x \in txs, Confirm(x)
  PROVE  TypeOK'
<1>1. txs' \in SUBSET Submissions /\ IsFiniteSet(txs')
  BY ConfirmRenamed, RenamedType
<1>2. Remembered(x.node, x.transfer) \in Seq(Transfers)
  BY ConfirmRenamed, RememberedIs
<1>3. processed' \in [Nodes -> Seq(Transfers)]
  BY <1>2, ConfirmRenamed DEF TypeOK
<1>4. UNCHANGED <<pending, timers, sweeps, spent, net, histVars>>
  BY ConfirmRenamed
<1> QED BY <1>1, <1>3, <1>4 DEF TypeOK, histVars

LEMMA WindowType ==
  ASSUME TypeOK, NEW n \in Nodes, WindowEnds(n)
  PROVE  TypeOK'
<1>1. spent' \in [Nodes -> Nat] /\ window' \in [Nodes -> Nat]
  BY DEF WindowEnds, TypeOK
<1> QED BY <1>1 DEF WindowEnds, TypeOK

LEMMA CrashType ==
  ASSUME TypeOK, NEW n \in Nodes, Crash(n)
  PROVE  TypeOK'
<1>1. txs' \in SUBSET Submissions /\ IsFiniteSet(txs')
  BY CrashRenamed, RenamedType
<1>2. /\ pending' = [pending EXCEPT ![n] = [t \in Transfers |-> NoRound]]
      /\ timers' = [timers EXCEPT ![n] = Zero[n]]
      /\ sweeps' = [sweeps EXCEPT ![n] = Zero[n]]
      /\ net' = {m \in net : m.to # n} /\ crashes' = crashes + 1
      /\ UNCHANGED <<processed, spent, seen, round, window, verdicts, setup>>
  BY DEF Crash
<1>3. [t \in Transfers |-> NoRound] \in [Transfers -> Rounds]
  BY NoRoundType
<1>4. pending' \in [Nodes -> [Transfers -> Rounds]]
  BY <1>2, <1>3 DEF TypeOK
<1>5. Zero[n] \in [Transfers -> Nat]
  BY DEF Zero
<1>6. timers' \in Counters /\ sweeps' \in Counters
  BY <1>2, <1>5 DEF TypeOK, Counters
<1> QED BY <1>1, <1>2, <1>4, <1>6 DEF TypeOK

LEMMA InitType == Init => TypeOK
<1> SUFFICES ASSUME Init PROVE TypeOK
  OBVIOUS
<1>1. pending \in [Nodes -> [Transfers -> Rounds]]
  BY NoRoundType DEF Init
<1>2. Zero \in Counters
  BY DEF Zero, Counters
<1>3. processed \in [Nodes -> Seq(Transfers)] /\ spent \in [Nodes -> Nat]
      /\ window \in [Nodes -> Nat]
  BY DEF Init
<1>4. net = {} /\ txs = {} /\ verdicts = {} /\ crashes = 0 /\ setup \in Setups
      /\ timers = Zero /\ sweeps = Zero /\ seen = Zero /\ round = Zero
  BY DEF Init
<1> QED BY <1>1, <1>2, <1>3, <1>4, FS_EmptySet DEF TypeOK

LEMMA TypeStep ==
  ASSUME TypeOK, [Next]_vars
  PROVE  TypeOK'
<1>1. ASSUME NEW n \in Nodes, NEW t \in Transfers,
             Finalized(n, t) \/ Timeout(n, t) \/ Sweep(n, t)
      PROVE  TypeOK'
  BY <1>1, FinalizedType, TimeoutType, SweepType
<1>2. ASSUME NEW n \in Nodes, WindowEnds(n) \/ Crash(n) PROVE TypeOK'
  BY <1>2, WindowType, CrashType
<1>3. ASSUME NEW m \in net, Receive(m) PROVE TypeOK'
  BY <1>3, ReceiveType
<1>4. ASSUME NEW x \in txs, Land(x) \/ Reject(x) \/ SubmissionFails(x) PROVE TypeOK'
  BY <1>4, LandRenamed, ChainType
<1>5. ASSUME NEW x \in txs, Confirm(x) PROVE TypeOK'
  BY <1>5, ConfirmType
<1>6. CASE UNCHANGED vars
  BY <1>6 DEF vars, nodeVars, histVars, TypeOK
<1> QED BY <1>1, <1>2, <1>3, <1>4, <1>5, <1>6 DEF Next

----------------------------------------------------------------------------
(* A quorum of witnesses behind each submission *)

Quorate(x) ==
  /\ Cardinality(x.keys) >= setup.of[x.transfer].required
  /\ \A k \in x.keys : Backed(x.node, x.transfer, k)

LEMMA QuorumIsQuorate == QuorumBehindSubmission <=> \A x \in txs : Quorate(x)
  BY DEF QuorumBehindSubmission, Quorate, Backed

\* The setup stays, and what a node has seen it has seen.
LEMMA RoundGrows ==
  ASSUME TypeOK, [Next]_vars
  PROVE  setup' = setup /\ \A n \in Nodes, t \in Transfers : round'[n][t] >= round[n][t]
<1>1. CASE setup' = setup /\ round' = round
  BY <1>1 DEF TypeOK, Counters
<1>2. ASSUME NEW n \in Nodes, NEW t \in Transfers, Finalized(n, t),
             ~(setup' = setup /\ round' = round)
      PROVE  setup' = setup /\ \A m \in Nodes, u \in Transfers : round'[m][u] >= round[m][u]
  <2>1. setup' = setup
    BY <1>2 DEF Finalized
  <2>2. round' = [round EXCEPT ![n][t] = @ + 1]
    BY <1>2, <2>1 DEF Finalized
  <2>3. ASSUME NEW m \in Nodes, NEW u \in Transfers
        PROVE  /\ round[m][u] \in Nat
               /\ round'[m][u] = IF m = n /\ u = t THEN round[n][t] + 1 ELSE round[m][u]
    BY <2>2 DEF TypeOK, Counters
  <2>4. ASSUME NEW m \in Nodes, NEW u \in Transfers PROVE round'[m][u] >= round[m][u]
    BY <2>3
  <2> QED BY <2>1, <2>4
<1>3. ASSUME NEW n \in Nodes, NEW t \in Transfers, Timeout(n, t) \/ Sweep(n, t)
      PROVE  setup' = setup /\ round' = round
  BY <1>3 DEF Timeout, Sweep, histVars
<1>4. ASSUME NEW n \in Nodes, WindowEnds(n) \/ Crash(n)
      PROVE  setup' = setup /\ round' = round
  BY <1>4 DEF WindowEnds, Crash
<1>5. ASSUME NEW m \in net, Receive(m) PROVE setup' = setup /\ round' = round
  BY <1>5 DEF Receive
<1>6. ASSUME NEW x \in txs, Land(x) \/ Reject(x) \/ SubmissionFails(x) \/ Confirm(x)
      PROVE  setup' = setup /\ round' = round
  BY <1>6, Zenon DEF Land, Reject, SubmissionFails, Confirm, histVars
<1>7. CASE UNCHANGED vars
  BY <1>1, <1>7 DEF vars, histVars
<1>8. ASSUME NEW n \in Nodes, NEW t \in Transfers, Finalized(n, t)
      PROVE  setup' = setup /\ \A m \in Nodes, u \in Transfers : round'[m][u] >= round[m][u]
  BY <1>1, <1>2, <1>8
<1> QED BY <1>1, <1>3, <1>4, <1>5, <1>6, <1>7, <1>8 DEF Next

LEMMA BackedStays ==
  ASSUME TypeOK, [Next]_vars, NEW n, NEW t \in Transfers, NEW k, Backed(n, t, k)
  PROVE  Backed(n, t, k)'
<1>1. PICK q \in Nodes : Key(q, t) = k /\ round[q][t] > 0 /\ Message(q, t) = Message(n, t)
  BY DEF Backed
<1>2. setup' = setup /\ round'[q][t] >= round[q][t] /\ round[q][t] \in Nat /\ round'[q][t] \in Nat
  <2>1. round \in Counters
    BY DEF TypeOK
  <2>2. round' \in Counters
    BY TypeStep, Zenon DEF TypeOK
  <2>3. setup' = setup /\ round'[q][t] >= round[q][t]
    BY RoundGrows
  <2> QED BY <2>1, <2>2, <2>3 DEF Counters
<1>3. Key(q, t)' = k /\ Message(q, t)' = Message(n, t)'
  BY <1>1, <1>2 DEF Key, Message
<1>4. round'[q][t] > 0
  BY <1>1, <1>2
<1> QED BY <1>3, <1>4 DEF Backed

LEMMA QuorateStays ==
  ASSUME TypeOK, [Next]_vars, NEW x \in Submissions, NEW y,
         y.node = x.node, y.transfer = x.transfer, y.keys = x.keys, Quorate(x)
  PROVE  Quorate(y)'
<1>1. x.transfer \in Transfers
  BY DEF Submissions
<1>2. \A k \in x.keys : Backed(x.node, x.transfer, k)'
  BY <1>1, BackedStays DEF Quorate
<1>3. setup' = setup
  BY RoundGrows
<1> QED BY <1>2, <1>3 DEF Quorate

\* checkConsensus: the round goes on with its attestations, or it is over.
LEMMA UpdatePending ==
  ASSUME TypeOK, NEW n \in Nodes, NEW t \in Transfers, NEW k \in Nat,
         NEW keys \in SUBSET Keys, Update(n, t, k, keys)
  PROVE  \A m \in Nodes, u \in Transfers :
            \/ pending'[m][u] = pending[m][u]
            \/ pending'[m][u] = NoRound
            \/ m = n /\ u = t /\ pending'[m][u].keys = keys
<1>1. CASE Enough(t, keys)
  <2>1. Reached(n, t, k, keys)
    BY <1>1 DEF Update
  <2>2. pending' = [pending EXCEPT ![n][t] = NoRound]
    BY <2>1 DEF Reached
  <2>3. \A m \in Nodes, u \in Transfers :
           pending'[m][u] = IF m = n /\ u = t THEN NoRound ELSE pending[m][u]
    BY <2>2, NoRoundType, PendingSet
  <2> QED BY <2>3
<1>2. CASE ~Enough(t, keys)
  <2> DEFINE r == [keys |-> keys, resolved |-> FALSE]
  <2>1. r \in Rounds
    BY DEF Rounds
  <2>2. pending' = [pending EXCEPT ![n][t] = r]
    BY <1>2, Zenon DEF Update
  <2>3. r.keys = keys
    OBVIOUS
  <2> HIDE DEF r
  <2>4. \A m \in Nodes, u \in Transfers :
           pending'[m][u] = IF m = n /\ u = t THEN r ELSE pending[m][u]
    BY <2>1, <2>2, PendingSet
  <2> QED BY <2>3, <2>4
<1> QED BY <1>1, <1>2

\* The verdict, if there is one, is given as the round is deleted.
LEMMA UpdateVerdict ==
  ASSUME TypeOK, NEW n \in Nodes, NEW t \in Transfers, NEW k,
         NEW keys, Update(n, t, k, keys)
  PROVE  \/ UNCHANGED verdicts
         \/ verdicts' = verdicts \cup {<<n, t, k, "reached">>} /\ pending'[n][t] = NoRound
<1>1. CASE UNCHANGED verdicts
  BY <1>1
<1>2. CASE Reached(n, t, k, keys)
  <2>1. pending' = [pending EXCEPT ![n][t] = NoRound]
        /\ verdicts' = verdicts \cup {<<n, t, k, "reached">>}
    BY <1>2 DEF Reached
  <2>2. pending'[n][t] = NoRound
    BY <2>1, NoRoundType, PendingSet
  <2> QED BY <2>1, <2>2
<1> QED BY <1>1, <1>2 DEF Update

\* What is submitted, if anything, carries enough attestations, and is charged.
LEMMA UpdateSubmits ==
  ASSUME NEW n, NEW t, NEW k, NEW keys, Update(n, t, k, keys)
  PROVE  \/ UNCHANGED <<txs, spent>>
         \/ /\ Enough(t, keys) /\ txs' = txs \cup {Tx(n, t, k, keys)}
            /\ spent[n] + Net[t] <= MaxDaily
            /\ spent' = [spent EXCEPT ![n] = spent[n] + Net[t]]
  BY Zenon DEF Update, Reached

LEMMA WitnessedStays ==
  ASSUME TypeOK, [Next]_vars, NEW m \in net, Witnessed(m)
  PROVE  Witnessed(m)'
<1> DEFINE t == m.transfer
<1>1. PICK q \in Nodes : Key(q, t) = m.key /\ round[q][t] > 0 /\ Message(q, t) = m.message
  BY DEF Witnessed
<1>2. t \in Transfers
  BY DEF TypeOK
<1>3. round'[q][t] >= round[q][t] /\ round[q][t] \in Nat /\ round'[q][t] \in Nat /\ setup' = setup
  <2>1. round \in Counters
    BY DEF TypeOK
  <2>2. round' \in Counters
    BY TypeStep, Zenon DEF TypeOK
  <2>3. setup' = setup /\ round'[q][t] >= round[q][t]
    BY <1>2, RoundGrows
  <2> QED BY <1>2, <2>1, <2>2, <2>3 DEF Counters
<1>4. round'[q][t] > 0
  BY <1>1, <1>3
<1>5. Key(q, t)' = m.key /\ Message(q, t)' = m.message
  BY <1>1, <1>3 DEF Key, Message
<1> QED BY <1>4, <1>5 DEF Witnessed

\* It is enough to look at attestations and counted keys that are new.
LEMMA AttestedIf ==
  ASSUME TypeOK, Attested, [Next]_vars,
         \A m \in net' : m \in net \/ Witnessed(m)',
         \A n \in Nodes, t \in Transfers : \A k \in pending'[n][t].keys :
            k \in pending[n][t].keys \/ Backed(n, t, k)'
  PROVE  Attested'
<1>1. \A m \in net' : Witnessed(m)'
  BY WitnessedStays DEF Attested
<1>2. ASSUME NEW n \in Nodes, NEW t \in Transfers, NEW k \in pending'[n][t].keys
      PROVE  Backed(n, t, k)'
  <2>1. CASE k \in pending[n][t].keys
    BY <2>1, BackedStays DEF Attested
  <2> QED BY <2>1
<1> QED BY <1>1, <1>2 DEF Attested

\* A node that has just been told of a transfer is a witness of its own key.
LEMMA OwnWitness ==
  ASSUME TypeOK, TypeOK', setup' = setup, NEW n \in Nodes, NEW t \in Transfers,
         round' = [round EXCEPT ![n][t] = @ + 1]
  PROVE  /\ \A k \in {Key(n, t)} : Backed(n, t, k)'
         /\ \A m \in Attestations(n, t) : Witnessed(m)'
<1>1. round'[n][t] = round[n][t] + 1 /\ round[n][t] \in Nat
  BY DEF TypeOK, Counters
<1>2. round'[n][t] > 0
  BY <1>1
<1>3. \A k \in {Key(n, t)} : Backed(n, t, k)'
  BY <1>2 DEF Backed, Key, Message
<1>4. ASSUME NEW m \in Attestations(n, t) PROVE Witnessed(m)'
  <2>1. m.transfer = t /\ m.key = Key(n, t) /\ m.message = Message(n, t)
    BY DEF Attestations
  <2>2. Key(n, t)' = Key(n, t) /\ Message(n, t)' = Message(n, t)
    BY DEF Key, Message
  <2> QED BY <1>2, <2>1, <2>2 DEF Witnessed
<1> QED BY <1>3, <1>4

\* What a round counts and submits, when an attestation is added to it.
LEMMA UpdateAttested ==
  ASSUME TypeOK, [Next]_vars, QuorumBehindSubmission,
         NEW n \in Nodes, NEW t \in Transfers, NEW k \in Nat, NEW keys \in SUBSET Keys,
         Update(n, t, k, keys), \A q \in keys : Backed(n, t, q)'
  PROVE  /\ \A m \in Nodes, u \in Transfers : \A q \in pending'[m][u].keys :
               q \in pending[m][u].keys \/ Backed(m, u, q)'
         /\ \A x \in txs' : Quorate(x)'
<1>1. ASSUME NEW m \in Nodes, NEW u \in Transfers, NEW q \in pending'[m][u].keys
      PROVE  q \in pending[m][u].keys \/ Backed(m, u, q)'
  <2>1. \/ pending'[m][u] = pending[m][u]
        \/ pending'[m][u] = NoRound
        \/ m = n /\ u = t /\ pending'[m][u].keys = keys
    BY UpdatePending
  <2>2. NoRound.keys = {}
    BY DEF NoRound
  <2>3. CASE pending'[m][u] = pending[m][u]
    BY <2>3
  <2>4. CASE pending'[m][u] = NoRound
    BY <2>2, <2>4
  <2>5. CASE m = n /\ u = t /\ pending'[m][u].keys = keys
    BY <2>5
  <2> QED BY <2>1, <2>3, <2>4, <2>5
<1>2. \A x \in txs : Quorate(x)'
  BY QuorumIsQuorate, QuorateStays DEF TypeOK
<1>3. \A x \in txs' : Quorate(x)'
  <2>1. CASE Enough(t, keys) /\ txs' = txs \cup {Tx(n, t, k, keys)}
    <3>1. PICK x : x = Tx(n, t, k, keys)
      OBVIOUS
    <3>2. x.node = n /\ x.transfer = t /\ x.keys = keys
      BY <3>1 DEF Tx
    <3>3. setup' = setup
      BY RoundGrows
    <3>4. Cardinality(keys) >= setup.of[t].required
      BY <2>1 DEF Enough
    <3>5. Quorate(x)'
      BY <3>2, <3>3, <3>4 DEF Quorate
    <3> QED BY <1>2, <2>1, <3>1, <3>5
  <2>2. CASE UNCHANGED txs
    BY <1>2, <2>2
  <2>3. UNCHANGED txs \/ (Enough(t, keys) /\ txs' = txs \cup {Tx(n, t, k, keys)})
    BY UpdateSubmits
  <2> QED BY <2>1, <2>2, <2>3
<1> QED BY <1>1, <1>3

\* Where nothing is signed and no submission is new, all stays attested.
LEMMA NothingSigned ==
  ASSUME TypeOK, Attested, QuorumBehindSubmission, [Next]_vars, net' \subseteq net,
         \A n \in Nodes, t \in Transfers :
            pending'[n][t].keys \subseteq pending[n][t].keys,
         UNCHANGED txs \/ \E name : Renamed(name)
  PROVE  Attested' /\ QuorumBehindSubmission'
<1>1. Attested'
  BY AttestedIf
<1>2. ASSUME NEW y \in txs' PROVE Quorate(y)'
  <2>1. PICK x \in txs : y.node = x.node /\ y.transfer = x.transfer /\ y.keys = x.keys
    BY DEF Renamed
  <2>2. x \in Submissions /\ Quorate(x)
    BY QuorumIsQuorate DEF TypeOK
  <2> QED BY <2>1, <2>2, QuorateStays
<1>3. QuorumBehindSubmission'
  BY <1>2 DEF QuorumBehindSubmission, Quorate, Backed
<1> QED BY <1>1, <1>3

LEMMA QuorumStep ==
  ASSUME TypeOK, Attested, QuorumBehindSubmission, [Next]_vars
  PROVE  Attested' /\ QuorumBehindSubmission'
<1>1. ASSUME UNCHANGED <<pending, net>>, UNCHANGED txs \/ \E name : Renamed(name)
      PROVE  Attested' /\ QuorumBehindSubmission'
  BY <1>1, NothingSigned
<1>2. ASSUME NEW n \in Nodes, NEW t \in Transfers, Finalized(n, t)
      PROVE  Attested' /\ QuorumBehindSubmission'
  <2>1. CASE UNCHANGED <<nodeVars, net, txs, round, verdicts>>
    BY <1>1, <2>1 DEF nodeVars
  <2>2. CASE /\ round' = [round EXCEPT ![n][t] = @ + 1]
             /\ net' = net \cup Attestations(n, t)
             /\ Update(n, t, round[n][t] + 1, {Key(n, t)})
    <3>1. round[n][t] + 1 \in Nat /\ {Key(n, t)} \in SUBSET Keys
      BY KeyType DEF TypeOK, Counters
    <3>2. setup' = setup /\ TypeOK'
      BY TypeStep, RoundGrows
    <3>3. (\A q \in {Key(n, t)} : Backed(n, t, q)') /\ \A m \in Attestations(n, t) : Witnessed(m)'
      BY <2>2, <3>2, OwnWitness
    <3>4. /\ \A m \in Nodes, u \in Transfers : \A q \in pending'[m][u].keys :
                q \in pending[m][u].keys \/ Backed(m, u, q)'
          /\ \A x \in txs' : Quorate(x)'
      BY <2>2, <3>1, <3>3, UpdateAttested
    <3>5. Attested'
      BY <2>2, <3>3, <3>4, AttestedIf
    <3>6. QuorumBehindSubmission'
      BY <3>4 DEF QuorumBehindSubmission, Quorate, Backed
    <3> QED BY <3>5, <3>6
  <2> QED BY <1>2, <2>1, <2>2 DEF Finalized
<1>3. ASSUME NEW m \in net, Receive(m)
      PROVE  Attested' /\ QuorumBehindSubmission'
  <2> DEFINE n == m.to
             t == m.transfer
             keys == pending[n][t].keys \cup {m.key}
  <2>1. n \in Nodes /\ t \in Transfers /\ m.key \in Keys
    BY DEF TypeOK
  <2>2. net' \subseteq net
    BY <1>3 DEF Receive
  <2>3. CASE UNCHANGED <<pending, sweeps, verdicts, spent, txs>>
    BY <2>2, <2>3, NothingSigned
  <2>4. CASE Counts(m) /\ Update(n, t, round[n][t], keys)
    <3>1. round[n][t] \in Nat /\ keys \in SUBSET Keys
      BY <2>1 DEF TypeOK, Counters, Rounds
    <3>2. m.message = Message(n, t)
      BY <2>4 DEF Counts
    <3>3. Backed(n, t, m.key)
      BY <3>2 DEF Attested, Witnessed, Backed
    <3>4. \A q \in keys : Backed(n, t, q)
      BY <2>1, <3>3 DEF Attested
    <3>5. \A q \in keys : Backed(n, t, q)'
      <4> HIDE DEF n, t, keys
      <4> QED BY <2>1, <3>4, BackedStays
    <3>6. /\ \A i \in Nodes, u \in Transfers : \A q \in pending'[i][u].keys :
                q \in pending[i][u].keys \/ Backed(i, u, q)'
          /\ \A x \in txs' : Quorate(x)'
      <4>1. PICK i, u, ks : i = n /\ u = t /\ ks = keys
        OBVIOUS
      <4> HIDE DEF n, t, keys
      <4>2. Update(i, u, round[i][u], ks)
        BY <2>4, <4>1
      <4>3. i \in Nodes /\ u \in Transfers /\ ks \in SUBSET Keys /\ round[i][u] \in Nat
        BY <2>1, <3>1, <4>1
      <4>4. \A q \in ks : Backed(i, u, q)'
        <5>1. \A q \in ks : Backed(i, u, q)
          BY <3>4, <4>1
        <5> QED BY <4>3, <5>1, BackedStays
      <4>5. PICK k : k = round[i][u]
        OBVIOUS
      <4> QED BY <4>2, <4>3, <4>4, <4>5, UpdateAttested
    <3>7. Attested'
      BY <2>2, <3>6, AttestedIf
    <3>8. QuorumBehindSubmission'
      BY <3>6 DEF QuorumBehindSubmission, Quorate, Backed
    <3> QED BY <3>7, <3>8
  <2> QED BY <1>3, <2>3, <2>4 DEF Receive
<1>4. ASSUME NEW n \in Nodes, NEW t \in Transfers, Timeout(n, t)
      PROVE  Attested' /\ QuorumBehindSubmission'
  <2>1. UNCHANGED <<net, txs>>
    BY <1>4 DEF Timeout
  <2>2. \/ UNCHANGED pending
        \/ pending' = [pending EXCEPT ![n][t] = [keys |-> @.keys, resolved |-> TRUE]]
    BY <1>4, Zenon DEF Timeout
  <2>3. CASE UNCHANGED pending
    BY <1>1, <2>1, <2>3
  <2>4. CASE pending' = [pending EXCEPT ![n][t] = [keys |-> @.keys, resolved |-> TRUE]]
    <3>1. \A m \in Nodes, u \in Transfers :
             pending'[m][u] = IF m = n /\ u = t
                              THEN [keys |-> pending[n][t].keys, resolved |-> TRUE]
                              ELSE pending[m][u]
      BY <2>4, TimedOut, Zenon
    <3>2. \A m \in Nodes, u \in Transfers : pending'[m][u].keys \subseteq pending[m][u].keys
      BY <3>1
    <3> QED BY <2>1, <3>2, NothingSigned
  <2> QED BY <2>2, <2>3, <2>4
<1>5. ASSUME NEW n \in Nodes, NEW t \in Transfers, Sweep(n, t)
      PROVE  Attested' /\ QuorumBehindSubmission'
  <2>1. pending' = [pending EXCEPT ![n][t] = NoRound] /\ UNCHANGED <<net, txs>>
    BY <1>5 DEF Sweep
  <2>2. \A m \in Nodes, u \in Transfers :
           pending'[m][u] = IF m = n /\ u = t THEN NoRound ELSE pending[m][u]
    BY <2>1, NoRoundType, PendingSet
  <2>3. \A m \in Nodes, u \in Transfers : pending'[m][u].keys \subseteq pending[m][u].keys
    BY <2>2 DEF NoRound
  <2> QED BY <2>1, <2>3, NothingSigned
<1>6. ASSUME NEW n \in Nodes, WindowEnds(n)
      PROVE  Attested' /\ QuorumBehindSubmission'
  BY <1>1, <1>6 DEF WindowEnds
<1>7. ASSUME NEW n \in Nodes, Crash(n)
      PROVE  Attested' /\ QuorumBehindSubmission'
  <2>1. pending' = [pending EXCEPT ![n] = [t \in Transfers |-> NoRound]] /\ net' \subseteq net
    BY <1>7 DEF Crash
  <2>2. \A m \in Nodes, u \in Transfers :
           pending'[m][u] = IF m = n THEN NoRound ELSE pending[m][u]
    BY <2>1 DEF TypeOK
  <2>3. \A m \in Nodes, u \in Transfers : pending'[m][u].keys \subseteq pending[m][u].keys
    BY <2>2 DEF NoRound
  <2> QED BY <1>7, <2>1, <2>3, CrashRenamed, NothingSigned
<1>8. ASSUME NEW x \in txs, Land(x) \/ Reject(x) \/ SubmissionFails(x)
      PROVE  Attested' /\ QuorumBehindSubmission'
  <2>1. (\E name : Renamed(name)) /\ UNCHANGED <<nodeVars, net, histVars>>
    BY <1>8, LandRenamed
  <2> QED BY <1>1, <2>1 DEF nodeVars
<1>9. ASSUME NEW x \in txs, Confirm(x)
      PROVE  Attested' /\ QuorumBehindSubmission'
  <2>1. (\E name : Renamed(name)) /\ UNCHANGED <<pending, net>>
    BY <1>9, ConfirmRenamed
  <2> QED BY <1>1, <2>1
<1>10. CASE UNCHANGED vars
  BY <1>1, <1>10 DEF vars, nodeVars
<1> QED BY <1>2, <1>3, <1>4, <1>5, <1>6, <1>7, <1>8, <1>9, <1>10 DEF Next

----------------------------------------------------------------------------
(* One verdict for each round *)

\* Rounds are numbered, and a verdict on a round with a number that no verdict
\* on the transfer has reached is the only one on that round.
LEMMA NewVerdict ==
  ASSUME TypeOK, OneVerdict, NEW n \in Nodes, NEW t \in Transfers, NEW k \in Nat, NEW d,
         \A v \in verdicts : v[1] = n /\ v[2] = t => v[3] < k,
         verdicts' = verdicts \cup {<<n, t, k, d>>}
  PROVE  OneVerdict'
<1> SUFFICES ASSUME NEW v \in verdicts', NEW w \in verdicts',
                    v[1] = w[1] /\ v[2] = w[2] /\ v[3] = w[3]
             PROVE  v = w
  BY DEF OneVerdict
<1>1. \A x \in verdicts : x[3] \in Nat
  BY DEF TypeOK, Verdicts
<1>2. CASE v \in verdicts /\ w \in verdicts
  BY <1>2 DEF OneVerdict
<1>3. CASE v \in verdicts /\ w = <<n, t, k, d>>
  BY <1>1, <1>3
<1>4. CASE v = <<n, t, k, d>> /\ w \in verdicts
  BY <1>1, <1>4
<1> QED BY <1>2, <1>3, <1>4

\* Where no verdict is given and no round is opened, and what happens to an open
\* round is that it is resolved or deleted, nothing is undecided that was decided.
LEMMA NothingDecided ==
  ASSUME TypeOK, Undecided, OneVerdict, UNCHANGED <<verdicts, round>>,
         \A n \in Nodes, t \in Transfers :
            \/ pending'[n][t] = pending[n][t]
            \/ pending'[n][t] = NoRound
            \/ pending'[n][t].resolved
            \/ pending[n][t] # NoRound /\ ~pending[n][t].resolved
  PROVE  Undecided' /\ OneVerdict'
<1>1. OneVerdict'
  BY DEF OneVerdict
<1>2. ASSUME NEW v \in verdicts PROVE v[1] \in Nodes /\ v[2] \in Transfers
  BY DEF TypeOK, Verdicts
<1>3. Undecided'
  BY <1>2 DEF Undecided
<1> QED BY <1>1, <1>3

LEMMA VerdictStep ==
  ASSUME TypeOK, Undecided, OneVerdict, [Next]_vars
  PROVE  Undecided' /\ OneVerdict'
<1>0. ASSUME NEW v \in verdicts
      PROVE  /\ v[1] \in Nodes /\ v[2] \in Transfers /\ v[3] \in Nat
             /\ v[3] <= round[v[1]][v[2]]
  BY DEF Undecided, TypeOK, Verdicts
<1>1. ASSUME UNCHANGED <<pending, verdicts, round>> PROVE Undecided' /\ OneVerdict'
  BY <1>1, NothingDecided
<1>2. ASSUME NEW n \in Nodes, NEW t \in Transfers, Finalized(n, t)
      PROVE  Undecided' /\ OneVerdict'
  <2>1. CASE UNCHANGED <<nodeVars, net, txs, round, verdicts>>
    BY <1>1, <2>1 DEF nodeVars
  <2>2. CASE /\ round' = [round EXCEPT ![n][t] = @ + 1]
             /\ Update(n, t, round[n][t] + 1, {Key(n, t)})
    <3> DEFINE k == round[n][t] + 1
    <3>1. round[n][t] \in Nat /\ k \in Nat /\ {Key(n, t)} \in SUBSET Keys
      BY KeyType DEF TypeOK, Counters
    <3>2. \A m \in Nodes, u \in Transfers :
             /\ round[m][u] \in Nat
             /\ round'[m][u] = IF m = n /\ u = t THEN k ELSE round[m][u]
      BY <2>2 DEF TypeOK, Counters
    <3>3. \A v \in verdicts : v[1] = n /\ v[2] = t => v[3] < k
      BY <1>0, <3>1
    <3>4. /\ \A m \in Nodes, u \in Transfers :
                pending'[m][u] = pending[m][u] \/ pending'[m][u] = NoRound \/ (m = n /\ u = t)
          /\ \/ UNCHANGED verdicts
             \/ verdicts' = verdicts \cup {<<n, t, k, "reached">>} /\ pending'[n][t] = NoRound
      <4>1. Update(n, t, k, {Key(n, t)})
        BY <2>2
      <4> HIDE DEF k
      <4>2. \/ UNCHANGED verdicts
            \/ verdicts' = verdicts \cup {<<n, t, k, "reached">>} /\ pending'[n][t] = NoRound
        BY <4>1, UpdateVerdict
      <4>3. ASSUME NEW m \in Nodes, NEW u \in Transfers
            PROVE  pending'[m][u] = pending[m][u] \/ pending'[m][u] = NoRound
                   \/ (m = n /\ u = t)
        BY <3>1, <4>1, UpdatePending
      <4> QED BY <4>2, <4>3
    <3> HIDE DEF k
    <3>5. OneVerdict'
      <4>1. CASE UNCHANGED verdicts
        BY <4>1 DEF OneVerdict
      <4>2. CASE verdicts' = verdicts \cup {<<n, t, k, "reached">>}
        BY ZenonT(60), <3>1, <3>3, <4>2, NewVerdict
      <4> QED BY <3>4, <4>1, <4>2
    <3>6. ASSUME NEW v \in verdicts'
          PROVE  /\ v[3] <= round'[v[1]][v[2]]
                 /\ pending'[v[1]][v[2]] # NoRound /\ ~pending'[v[1]][v[2]].resolved
                      => v[3] < round'[v[1]][v[2]]
      <4>1. CASE v \in verdicts /\ v[1] = n /\ v[2] = t
        BY <1>0, <3>1, <3>2, <3>3, <4>1
      <4>2. CASE v \in verdicts /\ ~(v[1] = n /\ v[2] = t)
        <5>1. v[1] \in Nodes /\ v[2] \in Transfers
          BY <1>0, <4>2
        <5>2. /\ round'[v[1]][v[2]] = round[v[1]][v[2]]
              /\ pending'[v[1]][v[2]] \in {pending[v[1]][v[2]], NoRound}
          BY <3>2, <3>4, <4>2, <5>1
        <5> QED BY <4>2, <5>1, <5>2 DEF Undecided
      <4>3. CASE v \notin verdicts
        <5>1. v = <<n, t, k, "reached">> /\ pending'[n][t] = NoRound
          BY <3>4, <4>3
        <5> QED BY <3>1, <3>2, <5>1
      <4> QED BY <4>1, <4>2, <4>3
    <3>7. Undecided'
      BY <3>6 DEF Undecided
    <3> QED BY <3>5, <3>7
  <2> QED BY <1>2, <2>1, <2>2 DEF Finalized
<1>3. ASSUME NEW m \in net, Receive(m) PROVE Undecided' /\ OneVerdict'
  <2>1. CASE UNCHANGED <<pending, verdicts>>
    BY <1>1, <1>3, <2>1 DEF Receive
  <2>2. CASE Counts(m) /\ Update(m.to, m.transfer, round[m.to][m.transfer],
                                 pending[m.to][m.transfer].keys \cup {m.key})
    <3>1. PICK n, t, k, keys : /\ n = m.to /\ t = m.transfer /\ k = round[n][t]
                               /\ keys = pending[n][t].keys \cup {m.key}
      OBVIOUS
    <3>2. n \in Nodes /\ t \in Transfers /\ k \in Nat /\ keys \in SUBSET Keys
      BY <3>1 DEF TypeOK, Counters, Rounds
    <3>3. Update(n, t, k, keys) /\ pending[n][t] # NoRound /\ ~pending[n][t].resolved
      BY <2>2, <3>1 DEF Counts
    <3>4. UNCHANGED round
      BY <1>3 DEF Receive
    <3>5. \A v \in verdicts : v[1] = n /\ v[2] = t => v[3] < k
      BY <3>1, <3>3 DEF Undecided
    <3>6. /\ \A i \in Nodes, u \in Transfers :
                pending'[i][u] = pending[i][u] \/ pending'[i][u] = NoRound \/ (i = n /\ u = t)
          /\ \/ UNCHANGED verdicts
             \/ verdicts' = verdicts \cup {<<n, t, k, "reached">>} /\ pending'[n][t] = NoRound
      <4>1. \/ UNCHANGED verdicts
            \/ verdicts' = verdicts \cup {<<n, t, k, "reached">>} /\ pending'[n][t] = NoRound
        BY <3>2, <3>3, UpdateVerdict
      <4>2. ASSUME NEW i \in Nodes, NEW u \in Transfers
            PROVE  pending'[i][u] = pending[i][u] \/ pending'[i][u] = NoRound
                   \/ (i = n /\ u = t)
        BY <3>2, <3>3, UpdatePending
      <4> QED BY <4>1, <4>2
    <3>7. CASE UNCHANGED verdicts
      <4>1. \A i \in Nodes, u \in Transfers :
               \/ pending'[i][u] = pending[i][u]
               \/ pending'[i][u] = NoRound
               \/ pending'[i][u].resolved
               \/ pending[i][u] # NoRound /\ ~pending[i][u].resolved
        BY <3>3, <3>6
      <4> QED BY <3>4, <3>7, <4>1, NothingDecided
    <3>8. CASE verdicts' = verdicts \cup {<<n, t, k, "reached">>} /\ pending'[n][t] = NoRound
      <4>1. OneVerdict'
        BY <3>2, <3>5, <3>8, NewVerdict
      <4>2. ASSUME NEW v \in verdicts'
            PROVE  /\ v[3] <= round[v[1]][v[2]]
                   /\ pending'[v[1]][v[2]] # NoRound /\ ~pending'[v[1]][v[2]].resolved
                        => v[3] < round[v[1]][v[2]]
        <5>1. CASE v \in verdicts
          <6>1. v[1] \in Nodes /\ v[2] \in Transfers
            BY <1>0, <5>1
          <6>2. pending'[v[1]][v[2]] \in {pending[v[1]][v[2]], NoRound}
            BY <3>6, <3>8, <6>1
          <6> QED BY <5>1, <6>2 DEF Undecided
        <5>2. CASE v \notin verdicts
          <6>1. v = <<n, t, k, "reached">>
            BY <3>8, <5>2
          <6> QED BY <3>1, <3>2, <3>8, <6>1
        <5> QED BY <5>1, <5>2
      <4>3. Undecided'
        BY <3>4, <4>2 DEF Undecided
      <4> QED BY <4>1, <4>3
    <3> QED BY <3>6, <3>7, <3>8
  <2> QED BY <1>3, <2>1, <2>2 DEF Receive
<1>4. ASSUME NEW n \in Nodes, NEW t \in Transfers, Timeout(n, t)
      PROVE  Undecided' /\ OneVerdict'
  <2>1. UNCHANGED round
    BY <1>4 DEF Timeout
  <2>2. \/ UNCHANGED <<pending, sweeps, verdicts>>
        \/ /\ pending[n][t] # NoRound /\ ~pending[n][t].resolved
           /\ pending' = [pending EXCEPT ![n][t] = [keys |-> @.keys, resolved |-> TRUE]]
           /\ verdicts' = verdicts \cup {<<n, t, round[n][t], "failed">>}
    BY <1>4, Zenon DEF Timeout
  <2>3. CASE UNCHANGED <<pending, sweeps, verdicts>>
    BY <1>1, <2>1, <2>3
  <2>4. CASE /\ pending[n][t] # NoRound /\ ~pending[n][t].resolved
             /\ pending' = [pending EXCEPT ![n][t] = [keys |-> @.keys, resolved |-> TRUE]]
             /\ verdicts' = verdicts \cup {<<n, t, round[n][t], "failed">>}
    <3>1. \A m \in Nodes, u \in Transfers :
             pending'[m][u] = IF m = n /\ u = t
                              THEN [keys |-> pending[n][t].keys, resolved |-> TRUE]
                              ELSE pending[m][u]
      BY <2>4, TimedOut, Zenon
    <3>2. /\ pending'[n][t].resolved
          /\ \A m \in Nodes, u \in Transfers :
                ~(m = n /\ u = t) => pending'[m][u] = pending[m][u]
      BY <3>1
    <3>3. pending[n][t] # NoRound /\ ~pending[n][t].resolved
          /\ verdicts' = verdicts \cup {<<n, t, round[n][t], "failed">>}
      BY <2>4, Zenon
    <3>4. \A v \in verdicts : v[1] = n /\ v[2] = t => v[3] < round[n][t]
      BY <3>3 DEF Undecided
    <3>5. round[n][t] \in Nat
      BY DEF TypeOK, Counters
    <3>6. OneVerdict'
      BY ZenonT(60), <3>3, <3>4, <3>5, NewVerdict
    <3>7. ASSUME NEW v \in verdicts'
          PROVE  /\ v[3] <= round[v[1]][v[2]]
                 /\ pending'[v[1]][v[2]] # NoRound /\ ~pending'[v[1]][v[2]].resolved
                      => v[3] < round[v[1]][v[2]]
      <4>1. CASE v \in verdicts
        BY <1>0, <3>2, <4>1 DEF Undecided
      <4>2. CASE v \notin verdicts
        <5>1. v = <<n, t, round[n][t], "failed">>
          BY <3>3, <4>2
        <5> QED BY <3>2, <3>5, <5>1
      <4> QED BY <4>1, <4>2
    <3>8. Undecided'
      BY <2>1, <3>7 DEF Undecided
    <3> QED BY <3>6, <3>8
  <2> QED BY <2>2, <2>3, <2>4
<1>5. ASSUME NEW n \in Nodes, NEW t \in Transfers, Sweep(n, t)
      PROVE  Undecided' /\ OneVerdict'
  <2>1. pending' = [pending EXCEPT ![n][t] = NoRound] /\ UNCHANGED <<verdicts, round>>
    BY <1>5 DEF Sweep, histVars
  <2>2. \A m \in Nodes, u \in Transfers :
           pending'[m][u] = IF m = n /\ u = t THEN NoRound ELSE pending[m][u]
    BY <2>1, NoRoundType, PendingSet
  <2> QED BY <2>1, <2>2, NothingDecided
<1>6. ASSUME NEW n \in Nodes, WindowEnds(n) PROVE Undecided' /\ OneVerdict'
  BY <1>1, <1>6 DEF WindowEnds
<1>7. ASSUME NEW n \in Nodes, Crash(n) PROVE Undecided' /\ OneVerdict'
  <2>1. pending' = [pending EXCEPT ![n] = [t \in Transfers |-> NoRound]]
        /\ UNCHANGED <<verdicts, round>>
    BY <1>7 DEF Crash
  <2>2. \A m \in Nodes, u \in Transfers :
           pending'[m][u] = IF m = n THEN NoRound ELSE pending[m][u]
    BY <2>1 DEF TypeOK
  <2> QED BY <2>1, <2>2, NothingDecided
<1>8. ASSUME NEW x \in txs, Land(x) \/ Reject(x) \/ SubmissionFails(x) \/ Confirm(x)
      PROVE  Undecided' /\ OneVerdict'
  <2>1. UNCHANGED <<pending, verdicts, round>>
    BY <1>8, LandRenamed, ConfirmRenamed DEF nodeVars, histVars
  <2> QED BY <1>1, <2>1
<1>9. CASE UNCHANGED vars
  BY <1>1, <1>9 DEF vars, nodeVars, histVars
<1> QED BY <1>2, <1>3, <1>4, <1>5, <1>6, <1>7, <1>8, <1>9 DEF Next

----------------------------------------------------------------------------
(* What the rate limiter and the chains do, step by step *)

\* What a step does to the submissions and to the limiter that let them out.
NothingSubmitted == UNCHANGED <<txs, spent, window>>
Submitted(n, t, k, keys) ==
  /\ txs' = txs \cup {Tx(n, t, k, keys)} /\ UNCHANGED window
  /\ spent[n] + Net[t] <= MaxDaily /\ spent' = [spent EXCEPT ![n] = spent[n] + Net[t]]
Progressed == (\E name : Renamed(name)) /\ UNCHANGED <<spent, window>>
Reset(n) == /\ spent' = [spent EXCEPT ![n] = 0] /\ window' = [window EXCEPT ![n] = @ + 1]
            /\ UNCHANGED txs

LEMMA LimiterStep ==
  ASSUME TypeOK, [Next]_vars
  PROVE  \/ NothingSubmitted
         \/ \E n \in Nodes, t \in Transfers, k \in Nat, keys \in SUBSET Keys :
               Submitted(n, t, k, keys)
         \/ Progressed
         \/ \E n \in Nodes : Reset(n)
<1> DEFINE Goal == \/ NothingSubmitted
                   \/ \E n \in Nodes, t \in Transfers, k \in Nat, keys \in SUBSET Keys :
                         Submitted(n, t, k, keys)
                   \/ Progressed
                   \/ \E n \in Nodes : Reset(n)
<1>1. ASSUME NEW n \in Nodes, NEW t \in Transfers, NEW k \in Nat, NEW keys \in SUBSET Keys,
             Update(n, t, k, keys), UNCHANGED window
      PROVE  Goal
  <2>1. CASE UNCHANGED <<txs, spent>>
    BY <1>1, <2>1 DEF NothingSubmitted
  <2>2. CASE /\ txs' = txs \cup {Tx(n, t, k, keys)}
             /\ spent[n] + Net[t] <= MaxDaily
             /\ spent' = [spent EXCEPT ![n] = spent[n] + Net[t]]
    <3>1. Submitted(n, t, k, keys)
      BY <1>1, <2>2 DEF Submitted
    <3> QED BY <3>1
  <2> QED BY <1>1, <2>1, <2>2, UpdateSubmits
<1>2. ASSUME NEW n \in Nodes, NEW t \in Transfers, Finalized(n, t) PROVE Goal
  <2>1. UNCHANGED window
    BY <1>2 DEF Finalized
  <2>2. CASE UNCHANGED <<nodeVars, net, txs, round, verdicts>>
    BY <2>1, <2>2 DEF nodeVars, NothingSubmitted
  <2>3. CASE Update(n, t, round[n][t] + 1, {Key(n, t)})
    <3>1. round[n][t] + 1 \in Nat /\ {Key(n, t)} \in SUBSET Keys
      BY KeyType DEF TypeOK, Counters
    <3> HIDE DEF Goal
    <3> QED BY <1>1, <2>1, <2>3, <3>1
  <2> QED BY <1>2, <2>2, <2>3 DEF Finalized
<1>3. ASSUME NEW m \in net, Receive(m) PROVE Goal
  <2>1. UNCHANGED window
    BY <1>3 DEF Receive
  <2>2. CASE UNCHANGED <<pending, sweeps, verdicts, spent, txs>>
    BY <2>1, <2>2 DEF NothingSubmitted
  <2>3. CASE Update(m.to, m.transfer, round[m.to][m.transfer],
                    pending[m.to][m.transfer].keys \cup {m.key})
    <3>1. PICK n, t, k, keys : /\ n = m.to /\ t = m.transfer /\ k = round[n][t]
                               /\ keys = pending[n][t].keys \cup {m.key}
      OBVIOUS
    <3>2. n \in Nodes /\ t \in Transfers /\ k \in Nat /\ keys \in SUBSET Keys
      BY <3>1 DEF TypeOK, Counters, Rounds
    <3>3. Update(n, t, k, keys)
      BY <2>3, <3>1
    <3> HIDE DEF Goal
    <3> QED BY <1>1, <2>1, <3>2, <3>3
  <2> QED BY <1>3, <2>2, <2>3 DEF Receive
<1>4. ASSUME NEW n \in Nodes, NEW t \in Transfers, Timeout(n, t) \/ Sweep(n, t) PROVE Goal
  BY <1>4 DEF Timeout, Sweep, histVars, NothingSubmitted
<1>5. ASSUME NEW n \in Nodes, WindowEnds(n) PROVE Goal
  BY <1>5 DEF WindowEnds, Reset
<1>6. ASSUME NEW n \in Nodes, Crash(n) PROVE Goal
  <2>1. UNCHANGED <<spent, window>>
    BY <1>6 DEF Crash
  <2> QED BY <1>6, <2>1, CrashRenamed DEF Progressed
<1>7. ASSUME NEW x \in txs, Land(x) \/ Reject(x) \/ SubmissionFails(x) \/ Confirm(x) PROVE Goal
  BY <1>7, LandRenamed, ConfirmRenamed DEF Progressed, nodeVars, histVars
<1>8. CASE UNCHANGED vars
  BY <1>8 DEF vars, nodeVars, histVars, NothingSubmitted
<1> QED BY <1>2, <1>3, <1>4, <1>5, <1>6, <1>7, <1>8 DEF Next

----------------------------------------------------------------------------
(* What is remembered as processed was executed *)

\* What has landed has landed.
LEMMA LandedGrows ==
  ASSUME TypeOK, [Next]_vars
  PROVE  Landed \subseteq Landed'
<1>1. CASE UNCHANGED txs
  BY <1>1 DEF Landed
<1>2. ASSUME NEW x, txs' = txs \cup {x} PROVE Landed \subseteq Landed'
  BY <1>2 DEF Landed
<1>3. ASSUME NEW name, Renamed(name) PROVE Landed \subseteq Landed'
  BY <1>3 DEF Landed, Renamed
<1> QED BY <1>1, <1>2, <1>3, LimiterStep DEF NothingSubmitted, Submitted, Progressed, Reset

LEMMA ProcessedStep ==
  ASSUME TypeOK, ProcessedLanded, [Next]_vars
  PROVE  ProcessedLanded'
<1>1. ASSUME UNCHANGED processed PROVE ProcessedLanded'
  BY <1>1, LandedGrows DEF ProcessedLanded
<1>2. ASSUME NEW n \in Nodes, NEW t \in Transfers, Finalized(n, t) PROVE ProcessedLanded'
  BY <1>1, <1>2 DEF Finalized, nodeVars
<1>3. ASSUME NEW n \in Nodes, NEW t \in Transfers, Timeout(n, t) \/ Sweep(n, t)
      PROVE  ProcessedLanded'
  BY <1>1, <1>3 DEF Timeout, Sweep
<1>4. ASSUME NEW n \in Nodes, WindowEnds(n) \/ Crash(n) PROVE ProcessedLanded'
  BY <1>1, <1>4 DEF WindowEnds, Crash
<1>5. ASSUME NEW m \in net, Receive(m) PROVE ProcessedLanded'
  BY <1>1, <1>5 DEF Receive
<1>6. ASSUME NEW x \in txs, Land(x) \/ Reject(x) \/ SubmissionFails(x) PROVE ProcessedLanded'
  BY <1>1, <1>6, LandRenamed DEF nodeVars
<1>7. ASSUME NEW x \in txs, Confirm(x) PROVE ProcessedLanded'
  <2>1. PICK name : Renamed(name) /\ name[x].status = "landed"
    BY <1>7, ConfirmRenamed
  <2>2. name[x] \in txs' /\ name[x].transfer = x.transfer
    BY <2>1 DEF Renamed
  <2>3. x.transfer \in Landed'
    BY <2>1, <2>2 DEF Landed
  <2>4. x.node \in Nodes /\ x.transfer \in Transfers
        /\ processed' = [processed EXCEPT ![x.node] = Remembered(x.node, x.transfer)]
    BY <1>7, ConfirmRenamed
  <2>5. SetOf(Remembered(x.node, x.transfer)) \subseteq SetOf(processed[x.node]) \cup {x.transfer}
    BY <2>4, RememberedIs
  <2>6. ASSUME NEW n \in Nodes PROVE SetOf(processed'[n]) \subseteq Landed'
    <3>1. CASE n = x.node
      <4>1. processed'[n] = Remembered(x.node, x.transfer)
        BY <2>4, <3>1 DEF TypeOK
      <4>2. SetOf(processed[n]) \subseteq Landed'
        BY LandedGrows DEF ProcessedLanded
      <4> QED BY <2>3, <2>5, <3>1, <4>1, <4>2
    <3>2. CASE n # x.node
      <4>1. processed'[n] = processed[n]
        BY <2>4, <3>2 DEF TypeOK
      <4> QED BY <4>1, LandedGrows DEF ProcessedLanded
    <3> QED BY <3>1, <3>2
  <2> QED BY <2>6 DEF ProcessedLanded, SetOf
<1>8. CASE UNCHANGED vars
  BY <1>1, <1>8 DEF vars, nodeVars
<1> QED BY <1>2, <1>3, <1>4, <1>5, <1>6, <1>7, <1>8 DEF Next

----------------------------------------------------------------------------
(* The daily cap bounds what leaves in a window *)

\* The amounts that the submissions T of node n in its window w send out.
Sent(T, n, w) == {x \in T : x.node = n /\ x.window = w}
Worth == [x \in Submissions |-> Net[x.transfer]]
Total(T, n, w) == SumFunctionOnSet(Worth, Sent(T, n, w))

LEMMA WorthType == \A x \in Submissions : Worth[x] = Net[x.transfer] /\ Worth[x] \in Nat
  BY ConstantTypes DEF Worth, Submissions

LEMMA SentType ==
  ASSUME NEW T \in SUBSET Submissions, IsFiniteSet(T), NEW n, NEW w
  PROVE  Sent(T, n, w) \in SUBSET Submissions /\ IsFiniteSet(Sent(T, n, w))
<1>1. Sent(T, n, w) \in SUBSET T
  BY DEF Sent
<1> QED BY <1>1, FS_Subset

LEMMA TotalType ==
  ASSUME NEW T \in SUBSET Submissions, IsFiniteSet(T), NEW n, NEW w
  PROVE  Total(T, n, w) \in Nat
  BY SentType, WorthType, SumNat DEF Total

LEMMA OutflowTotal ==
  ASSUME NEW T \in SUBSET Submissions, IsFiniteSet(T), NEW n, NEW w
  PROVE  SumFunctionOnSet([x \in T |-> Net[x.transfer]], {x \in T : x.node = n /\ x.window = w})
           = Total(T, n, w)
<1> DEFINE f == [x \in T |-> Net[x.transfer]]
           S == Sent(T, n, w)
<1>1. S \in SUBSET Submissions /\ IsFiniteSet(S) /\ S \subseteq T
  <2>1. S \subseteq T
    BY DEF Sent
  <2> QED BY <2>1, SentType
<1>2. \A x \in S : f[x] = Worth[x] /\ f[x] \in Int
  BY <1>1, WorthType
<1>3. SumFunctionOnSet(f, S) = SumFunctionOnSet(Worth, S)
  <2> HIDE DEF f, S
  <2> QED BY <1>1, <1>2, SumSame
<1> QED BY <1>3 DEF Total, Sent

\* One more submission adds its amount to one window of one node, at most.
LEMMA TotalAdd ==
  ASSUME NEW T \in SUBSET Submissions, IsFiniteSet(T), NEW y \in Submissions, NEW n, NEW w
  PROVE  /\ Total(T \cup {y}, n, w) <= Total(T, n, w) + Net[y.transfer]
         /\ ~(y.node = n /\ y.window = w) => Total(T \cup {y}, n, w) = Total(T, n, w)
<1>1. Net[y.transfer] \in Nat /\ Worth[y] = Net[y.transfer] /\ Total(T, n, w) \in Nat
  BY WorthType, TotalType
<1>2. CASE ~(y.node = n /\ y.window = w) \/ y \in T
  <2>1. Sent(T \cup {y}, n, w) = Sent(T, n, w)
    BY <1>2 DEF Sent
  <2>2. Total(T \cup {y}, n, w) = Total(T, n, w)
    BY <2>1, Zenon DEF Total
  <2> QED BY <1>1, <2>2
<1>3. CASE y.node = n /\ y.window = w /\ y \notin T
  <2>1. Sent(T \cup {y}, n, w) = Sent(T, n, w) \cup {y} /\ y \notin Sent(T, n, w)
    BY <1>3 DEF Sent
  <2>2. Sent(T, n, w) \in SUBSET Submissions /\ IsFiniteSet(Sent(T, n, w))
    BY SentType
  <2>3. \A x \in Sent(T, n, w) \cup {y} : Worth[x] \in Int
    BY <2>2, WorthType
  <2>4. SumFunctionOnSet(Worth, Sent(T, n, w) \cup {y})
          = SumFunctionOnSet(Worth, Sent(T, n, w)) + Worth[y]
    BY <2>1, <2>2, <2>3, SumAdd
  <2>5. Total(T \cup {y}, n, w) = SumFunctionOnSet(Worth, Sent(T, n, w) \cup {y})
    BY <2>1, Zenon DEF Total
  <2>6. Total(T \cup {y}, n, w) = Total(T, n, w) + Net[y.transfer]
    BY <1>1, <2>4, <2>5 DEF Total
  <2> QED BY <1>1, <1>3, <2>6
<1> QED BY <1>2, <1>3

\* Progress of the submissions adds nothing.
LEMMA TotalRenamed ==
  ASSUME TypeOK, NEW name, Renamed(name), NEW n, NEW w
  PROVE  Total(txs', n, w) <= Total(txs, n, w)
<1> DEFINE S == Sent(txs, n, w)
<1>1. S \in SUBSET Submissions /\ IsFiniteSet(S) /\ S \subseteq txs
  <2>1. S \subseteq txs
    BY DEF Sent
  <2>2. txs \in SUBSET Submissions /\ IsFiniteSet(txs)
    BY DEF TypeOK
  <2> QED BY <2>1, <2>2, SentType
<1>2. Sent(txs', n, w) = {name[x] : x \in S}
  BY DEF Sent, Renamed
<1>3. \A x \in S : Worth[x] \in Nat /\ Worth[name[x]] = Worth[x]
  BY <1>1, WorthType DEF Renamed
<1>4. SumFunctionOnSet(Worth, {name[x] : x \in S}) <= SumFunctionOnSet(Worth, S)
  <2> HIDE DEF S
  <2> QED BY <1>1, <1>3, SumRenamed
<1>5. Total(txs', n, w) = SumFunctionOnSet(Worth, {name[x] : x \in S})
  BY <1>2, Zenon DEF Total
<1> QED BY <1>4, <1>5 DEF Total

\* The invariants in terms of totals.
Capped(T, win) == \A n \in Nodes : \A w \in 0..win[n] : Total(T, n, w) <= MaxDaily
Metered(T, win, sp) ==
  /\ \A x \in T : x.window <= win[x.node]
  /\ \A n \in Nodes : Total(T, n, win[n]) <= sp[n] /\ sp[n] <= MaxDaily

LEMMA CappedIs == TypeOK => (OutflowLimited <=> Capped(txs, window))
  BY ZenonT(60), OutflowTotal DEF TypeOK, OutflowLimited, Capped

LEMMA MeteredIs == TypeOK => (Charged <=> Metered(txs, window, spent))
  BY OutflowTotal DEF TypeOK, Charged, Outflow, Metered

LEMMA OutflowStep ==
  ASSUME TypeOK, Charged, OutflowLimited, [Next]_vars
  PROVE  Charged' /\ OutflowLimited'
<1>1. TypeOK' /\ txs \in SUBSET Submissions /\ IsFiniteSet(txs)
      /\ spent \in [Nodes -> Nat] /\ window \in [Nodes -> Nat] /\ MaxDaily \in Nat
  BY TypeStep, ConstantTypes DEF TypeOK
<1>2. Metered(txs, window, spent) /\ Capped(txs, window)
  BY CappedIs, MeteredIs
<1>3. \A n, w : Total(txs, n, w) \in Nat
  BY <1>1, TotalType
<1>4. Metered(txs', window', spent') /\ Capped(txs', window')
  <2>1. CASE NothingSubmitted
    BY <1>2, <2>1 DEF NothingSubmitted
  <2>2. ASSUME NEW n \in Nodes, NEW t \in Transfers, NEW k \in Nat, NEW keys \in SUBSET Keys,
               Submitted(n, t, k, keys)
        PROVE  Metered(txs', window', spent') /\ Capped(txs', window')
    <3>1. PICK y : y = Tx(n, t, k, keys)
      OBVIOUS
    <3>2. y \in Submissions /\ y.node = n /\ y.transfer = t /\ y.window = window[n]
      BY <1>1, <3>1 DEF Tx, Submissions
    <3>3. /\ txs' = txs \cup {y} /\ window' = window /\ spent[n] + Net[t] <= MaxDaily
          /\ spent' = [spent EXCEPT ![n] = spent[n] + Net[t]]
      BY <2>2, <3>1 DEF Submitted
    <3>4. \A m, w : /\ Total(txs', m, w) <= Total(txs, m, w) + Net[t]
                    /\ ~(n = m /\ window[n] = w) => Total(txs', m, w) = Total(txs, m, w)
      <4>1. \A m, w : /\ Total(txs \cup {y}, m, w) <= Total(txs, m, w) + Net[t]
                      /\ ~(n = m /\ window[n] = w) => Total(txs \cup {y}, m, w) = Total(txs, m, w)
        BY <1>1, <3>2, TotalAdd
      <4> QED BY <3>3, <4>1, Zenon
    <3>5. Net[t] \in Nat /\ \A m, w : Total(txs', m, w) \in Nat
      BY <1>1, ConstantTypes, TotalType DEF TypeOK
    <3>6. \A x \in txs' : x.window <= window'[x.node]
      BY <1>1, <1>2, <3>2, <3>3 DEF Metered
    <3>7. ASSUME NEW m \in Nodes
          PROVE  Total(txs', m, window'[m]) <= spent'[m] /\ spent'[m] <= MaxDaily
      <4>1. Total(txs, m, window[m]) <= spent[m] /\ spent[m] <= MaxDaily /\ spent[m] \in Nat
        BY <1>1, <1>2 DEF Metered
      <4>2. CASE m = n
        <5>1. spent'[m] = spent[n] + Net[t] /\ window'[m] = window[n]
          BY <1>1, <3>3, <4>2
        <5>2. Total(txs', m, window'[m]) = Total(txs', n, window[n])
          BY <4>2, <5>1, Zenon
        <5>3. Total(txs', n, window[n]) <= Total(txs, n, window[n]) + Net[t]
          BY <3>4
        <5>4. Total(txs, n, window[n]) <= spent[n] /\ spent[n] \in Nat
          BY <4>1, <4>2, Zenon
        <5>5. Total(txs, n, window[n]) \in Nat /\ Total(txs', n, window[n]) \in Nat
          BY <1>3, <3>5
        <5>6. Total(txs', n, window[n]) <= spent[n] + Net[t]
          BY <3>5, <5>3, <5>4, <5>5
        <5> QED BY <3>3, <5>1, <5>2, <5>6
      <4>3. CASE m # n
        <5>1. spent'[m] = spent[m] /\ window'[m] = window[m]
          BY <1>1, <3>3, <4>3
        <5> QED BY <3>4, <4>1, <4>3, <5>1
      <4> QED BY <4>2, <4>3
    <3>8. ASSUME NEW m \in Nodes, NEW w \in 0..window'[m]
          PROVE  Total(txs', m, w) <= MaxDaily
      <4>1. Total(txs, m, w) <= MaxDaily
        BY <1>2, <3>3 DEF Capped
      <4>2. CASE n = m /\ window[n] = w
        <5>1. Total(txs', n, window'[n]) <= spent'[n] /\ spent'[n] <= MaxDaily
          BY <3>7
        <5>2. Total(txs', n, window'[n]) = Total(txs', m, w)
          BY <3>3, <4>2, Zenon
        <5>3. Total(txs', n, window'[n]) \in Nat /\ spent'[n] \in Nat /\ MaxDaily \in Nat
          BY <1>1, <3>5 DEF TypeOK
        <5>4. Total(txs', n, window'[n]) <= MaxDaily
          BY <5>1, <5>3
        <5> QED BY <5>2, <5>4
      <4> QED BY <3>4, <4>1, <4>2
    <3> QED BY <3>6, <3>7, <3>8 DEF Metered, Capped
  <2>3. ASSUME NEW name, Renamed(name), UNCHANGED <<spent, window>>
        PROVE  Metered(txs', window', spent') /\ Capped(txs', window')
    <3>1. \A n, w : Total(txs', n, w) <= Total(txs, n, w) /\ Total(txs', n, w) \in Nat
      BY <1>1, <2>3, TotalRenamed, TotalType DEF TypeOK
    <3>2. \A x \in txs' : x.window <= window'[x.node]
      BY <1>2, <2>3 DEF Renamed, Metered
    <3>3. ASSUME NEW n \in Nodes
          PROVE  Total(txs', n, window'[n]) <= spent'[n] /\ spent'[n] <= MaxDaily
      BY <1>1, <1>2, <1>3, <2>3, <3>1 DEF Metered
    <3>4. ASSUME NEW n \in Nodes, NEW w \in 0..window'[n]
          PROVE  Total(txs', n, w) <= MaxDaily
      BY <1>1, <1>2, <1>3, <2>3, <3>1 DEF Capped
    <3> QED BY <3>2, <3>3, <3>4 DEF Metered, Capped
  <2>4. ASSUME NEW n \in Nodes, Reset(n)
        PROVE  Metered(txs', window', spent') /\ Capped(txs', window')
    <3>1. /\ spent'[n] = 0 /\ window'[n] = window[n] + 1
          /\ \A m \in Nodes : m # n => spent'[m] = spent[m] /\ window'[m] = window[m]
          /\ txs' = txs
      BY <1>1, <2>4 DEF Reset
    <3>2. \A x \in txs : x.node \in Nodes /\ x.window \in Nat /\ x.window <= window[x.node]
      BY <1>1, <1>2 DEF Submissions, Metered
    <3>3. \A x \in txs' : x.window <= window'[x.node]
      BY <1>1, <3>1, <3>2
    <3>4. Sent(txs, n, window[n] + 1) = {}
      BY <1>1, <3>2 DEF Sent
    <3>5. Total(txs, n, window[n] + 1) = 0
      BY <3>4, SumEmpty, Zenon DEF Total
    <3>6. ASSUME NEW m \in Nodes
          PROVE  Total(txs', m, window'[m]) <= spent'[m] /\ spent'[m] <= MaxDaily
      BY <1>1, <1>2, <3>1, <3>5 DEF Metered
    <3>7. ASSUME NEW m \in Nodes, NEW w \in 0..window'[m]
          PROVE  Total(txs', m, w) <= MaxDaily
      <4>1. CASE m = n /\ w = window[n] + 1
        BY <1>1, <3>1, <3>5, <4>1
      <4>2. CASE ~(m = n /\ w = window[n] + 1)
        <5>1. w \in 0..window[m]
          BY <1>1, <3>1, <4>2
        <5> QED BY <1>2, <3>1, <5>1 DEF Capped
      <4> QED BY <4>1, <4>2
    <3> QED BY <3>3, <3>6, <3>7 DEF Metered, Capped
  <2> QED BY <2>1, <2>2, <2>3, <2>4, LimiterStep DEF Progressed
<1>5. /\ OutflowLimited' <=> Capped(txs', window')
      /\ Charged' <=> Metered(txs', window', spent')
  <2>1. txs' \in SUBSET Submissions /\ IsFiniteSet(txs')
    BY <1>1 DEF TypeOK
  <2>2. \A n, w : SumFunctionOnSet([x \in txs' |-> Net[x.transfer]],
                                 {x \in txs' : x.node = n /\ x.window = w})
                  = Total(txs', n, w)
    BY <2>1, OutflowTotal
  <2>3. OutflowLimited' <=> Capped(txs', window')
    <3>1. ASSUME NEW n \in Nodes, NEW w \in 0..window'[n]
          PROVE  SumFunctionOnSet([x \in txs' |-> Net[x.transfer]],
                                  {x \in txs' : x.node = n /\ x.window = w}) <= MaxDaily
                   <=> Total(txs', n, w) <= MaxDaily
      BY <2>2, Zenon
    <3> QED BY <3>1, Zenon DEF OutflowLimited, Capped
  <2>4. Charged' <=> Metered(txs', window', spent')
    BY <2>2 DEF Charged, Outflow, Metered
  <2> QED BY <2>3, <2>4
<1> QED BY <1>4, <1>5

----------------------------------------------------------------------------
(* No round is left without a callback *)

\* A round that is undecided has a timer that will fire, one that timed out has
\* a deletion that will run.
RoundsWatched ==
  \A n \in Nodes, t \in Transfers :
     /\ pending[n][t].resolved => sweeps[n][t] > 0
     /\ pending[n][t] # NoRound /\ ~pending[n][t].resolved => timers[n][t] > 0

\* One entry may be counted up.
Raised(f, g, n, t) == g = f \/ g = [f EXCEPT ![n][t] = @ + 1]

LEMMA CountedUp ==
  ASSUME NEW f \in Counters, NEW n \in Nodes, NEW t \in Transfers,
         NEW g, Raised(f, g, n, t)
  PROVE  \A m \in Nodes, u \in Transfers : f[m][u] > 0 => g[m][u] > 0
  BY DEF Counters, Raised

\* Counting down one entry, too.
LEMMA CountedDown ==
  ASSUME NEW f \in Counters, NEW n \in Nodes, NEW t \in Transfers
  PROVE  \A m \in Nodes, u \in Transfers :
            (m # n \/ u # t) => [f EXCEPT ![n][t] = @ - 1][m][u] = f[m][u]
  BY DEF Counters

\* The attestation that decides a round deletes it; one that does not leaves it
\* undecided.
LEMMA UpdateWatched ==
  ASSUME TypeOK, NEW n \in Nodes, NEW t \in Transfers, NEW k \in Nat,
         NEW keys \in SUBSET Keys, Update(n, t, k, keys)
  PROVE  /\ Raised(sweeps, sweeps', n, t)
         /\ \A m \in Nodes, u \in Transfers :
               (m # n \/ u # t) => pending'[m][u] = pending[m][u]
         /\ ~pending'[n][t].resolved
         /\ pending'[n][t] # NoRound => ~Enough(t, keys)
<1>1. CASE Enough(t, keys)
  <2>1. Reached(n, t, k, keys)
    BY <1>1 DEF Update
  <2>2. pending' = [pending EXCEPT ![n][t] = NoRound]
        /\ sweeps' = [sweeps EXCEPT ![n][t] = @ + 1]
    BY <2>1 DEF Reached
  <2>3. \A m \in Nodes, u \in Transfers :
           pending'[m][u] = IF m = n /\ u = t THEN NoRound ELSE pending[m][u]
    BY <2>2, NoRoundType, PendingSet
  <2>4. pending'[n][t] = NoRound /\ ~NoRound.resolved
    BY <2>3 DEF NoRound
  <2> QED BY <2>2, <2>3, <2>4 DEF Raised
<1>2. CASE ~Enough(t, keys)
  <2> DEFINE r == [keys |-> keys, resolved |-> FALSE]
  <2>1. r \in Rounds /\ ~r.resolved
    BY DEF Rounds
  <2>2. pending' = [pending EXCEPT ![n][t] = r] /\ sweeps' = sweeps
    BY <1>2, Zenon DEF Update
  <2> HIDE DEF r
  <2>3. \A m \in Nodes, u \in Transfers :
           pending'[m][u] = IF m = n /\ u = t THEN r ELSE pending[m][u]
    BY <2>1, <2>2, PendingSet
  <2> QED BY <1>2, <2>1, <2>2, <2>3 DEF Raised
<1> QED BY <1>1, <1>2

LEMMA WatchedFinalized ==
  ASSUME TypeOK, RoundsWatched, NEW n \in Nodes, NEW t \in Transfers, Finalized(n, t)
  PROVE  RoundsWatched'
<1>1. CASE UNCHANGED <<nodeVars, net, txs, round, verdicts>>
  BY <1>1 DEF RoundsWatched, nodeVars
<1>2. CASE /\ Admitted(n, t)
           /\ Update(n, t, round[n][t] + 1, {Key(n, t)})
           /\ timers' = IF Enough(t, {Key(n, t)}) THEN timers
                        ELSE [timers EXCEPT ![n][t] = @ + 1]
  <2> DEFINE keys == {Key(n, t)}
  <2>1. round[n][t] + 1 \in Nat /\ keys \in SUBSET Keys
    BY KeyType DEF TypeOK, Counters
  <2> HIDE DEF keys
  <2>2. Update(n, t, round[n][t] + 1, keys)
    BY <1>2 DEF keys
  <2>3. /\ Raised(sweeps, sweeps', n, t)
        /\ \A m \in Nodes, u \in Transfers :
              (m # n \/ u # t) => pending'[m][u] = pending[m][u]
        /\ ~pending'[n][t].resolved
        /\ pending'[n][t] # NoRound => ~Enough(t, keys)
    BY <2>1, <2>2, UpdateWatched
  <2>4. \A m \in Nodes, u \in Transfers : sweeps[m][u] > 0 => sweeps'[m][u] > 0
    <3>1. sweeps \in Counters
      BY DEF TypeOK
    <3> QED BY <2>3, <3>1, CountedUp
  <2>5. timers \in Counters /\ Raised(timers, timers', n, t)
    BY <1>2 DEF TypeOK, Raised
  <2>6. \A m \in Nodes, u \in Transfers : timers[m][u] > 0 => timers'[m][u] > 0
    BY <2>5, CountedUp
  <2>7. ASSUME ~Enough(t, keys) PROVE timers'[n][t] > 0
    <3>1. timers' = [timers EXCEPT ![n][t] = @ + 1]
      BY <1>2, <2>7 DEF keys
    <3> QED BY <3>1 DEF TypeOK, Counters
  <2> QED BY <2>3, <2>4, <2>6, <2>7 DEF RoundsWatched
<1> QED BY <1>1, <1>2 DEF Finalized

LEMMA WatchedReceive ==
  ASSUME TypeOK, RoundsWatched, NEW m \in net, Receive(m)
  PROVE  RoundsWatched'
<1> DEFINE n == m.to
           t == m.transfer
           keys == pending[n][t].keys \cup {m.key}
<1>1. n \in Nodes /\ t \in Transfers /\ m.key \in Keys
  BY DEF TypeOK
<1>2. CASE ~Counts(m)
  BY <1>2 DEF Receive, RoundsWatched
<1>3. CASE Counts(m)
  <2>1. /\ pending[n][t] # NoRound /\ ~pending[n][t].resolved /\ timers' = timers
        /\ Update(n, t, round[n][t], keys)
    BY <1>3 DEF Receive, Counts
  <2>2. round[n][t] \in Nat /\ keys \in SUBSET Keys
    BY <1>1 DEF TypeOK, Counters, Rounds
  <2> HIDE DEF keys, n, t
  <2>3. /\ Raised(sweeps, sweeps', n, t)
        /\ \A p \in Nodes, u \in Transfers :
              (p # n \/ u # t) => pending'[p][u] = pending[p][u]
        /\ ~pending'[n][t].resolved
    BY <1>1, <2>1, <2>2, UpdateWatched
  <2>4. \A p \in Nodes, u \in Transfers : sweeps[p][u] > 0 => sweeps'[p][u] > 0
    <3>1. sweeps \in Counters
      BY DEF TypeOK
    <3> QED BY <1>1, <2>3, <3>1, CountedUp
  <2>5. timers[n][t] > 0
    BY <1>1, <2>1 DEF RoundsWatched
  <2> QED BY <1>1, <2>1, <2>3, <2>4, <2>5 DEF RoundsWatched
<1> QED BY <1>2, <1>3

\* Whichever timer fires first takes the round; the sweep that runs first
\* deletes it.
LEMMA WatchedTimeout ==
  ASSUME TypeOK, RoundsWatched, NEW n \in Nodes, NEW t \in Transfers, Timeout(n, t)
  PROVE  RoundsWatched'
<1>1. /\ timers' = [timers EXCEPT ![n][t] = @ - 1]
      /\ \A m \in Nodes, u \in Transfers :
            (m # n \/ u # t) => timers'[m][u] = timers[m][u]
  BY CountedDown DEF Timeout, TypeOK
<1>2. CASE pending[n][t] = NoRound \/ pending[n][t].resolved
  <2>1. ~NoRound.resolved
    BY DEF NoRound
  <2>2. pending' = pending /\ sweeps' = sweeps
    BY <1>2, <2>1 DEF Timeout
  <2> QED BY <1>1, <1>2, <2>1, <2>2 DEF RoundsWatched
<1>3. CASE pending[n][t] # NoRound /\ ~pending[n][t].resolved
  <2>1. /\ pending' = [pending EXCEPT ![n][t] = [keys |-> @.keys, resolved |-> TRUE]]
        /\ sweeps' = [sweeps EXCEPT ![n][t] = @ + 1]
    BY <1>3, Zenon DEF Timeout
  <2>2. \A m \in Nodes, u \in Transfers :
           pending'[m][u] = IF m = n /\ u = t
                            THEN [keys |-> pending[n][t].keys, resolved |-> TRUE]
                            ELSE pending[m][u]
    BY <2>1, TimedOut, Zenon
  <2>3. pending'[n][t] = [keys |-> pending[n][t].keys, resolved |-> TRUE]
    BY <2>2, Zenon
  <2>4. pending'[n][t].resolved
    BY <2>3
  <2>5. \A m \in Nodes, u \in Transfers :
           (m # n \/ u # t) => pending'[m][u] = pending[m][u]
    BY <2>2, Zenon
  <2>6. \A m \in Nodes, u \in Transfers : sweeps[m][u] > 0 => sweeps'[m][u] > 0
    <3>1. sweeps \in Counters /\ Raised(sweeps, sweeps', n, t)
      BY <2>1 DEF TypeOK, Raised
    <3> QED BY <3>1, CountedUp
  <2>7. sweeps'[n][t] > 0
    BY <2>1 DEF TypeOK, Counters
  <2> QED BY <1>1, <2>4, <2>5, <2>6, <2>7 DEF RoundsWatched
<1> QED BY <1>2, <1>3

LEMMA WatchedSweep ==
  ASSUME TypeOK, RoundsWatched, NEW n \in Nodes, NEW t \in Transfers, Sweep(n, t)
  PROVE  RoundsWatched'
<1>1. /\ sweeps' = [sweeps EXCEPT ![n][t] = @ - 1] /\ timers' = timers
      /\ pending' = [pending EXCEPT ![n][t] = NoRound]
  BY DEF Sweep
<1>2. \A m \in Nodes, u \in Transfers : (m # n \/ u # t) => sweeps'[m][u] = sweeps[m][u]
  BY <1>1, CountedDown DEF TypeOK
<1>3. \A m \in Nodes, u \in Transfers :
         pending'[m][u] = IF m = n /\ u = t THEN NoRound ELSE pending[m][u]
  BY <1>1, NoRoundType, PendingSet
<1>4. ~NoRound.resolved
  BY DEF NoRound
<1> QED BY <1>1, <1>2, <1>3, <1>4 DEF RoundsWatched

LEMMA WatchedCrash ==
  ASSUME TypeOK, RoundsWatched, NEW n \in Nodes, Crash(n)
  PROVE  RoundsWatched'
<1> DEFINE none == [t \in Transfers |-> NoRound]
<1>1. /\ pending' = [pending EXCEPT ![n] = none]
      /\ timers' = [timers EXCEPT ![n] = Zero[n]]
      /\ sweeps' = [sweeps EXCEPT ![n] = Zero[n]]
  BY DEF Crash
<1>2. \A t \in Transfers : none[t] = NoRound
  OBVIOUS
<1>3. ~NoRound.resolved
  BY DEF NoRound
<1> HIDE DEF none
<1>4. /\ pending'[n] = none
      /\ \A m \in Nodes : m # n => /\ pending'[m] = pending[m] /\ timers'[m] = timers[m]
                                   /\ sweeps'[m] = sweeps[m]
  BY <1>1 DEF TypeOK, Counters
<1> QED BY <1>2, <1>3, <1>4 DEF RoundsWatched

LEMMA WatchedStep ==
  ASSUME TypeOK, RoundsWatched, [Next]_vars
  PROVE  RoundsWatched'
<1>1. ASSUME UNCHANGED <<pending, timers, sweeps>> PROVE RoundsWatched'
  BY <1>1 DEF RoundsWatched
<1>2. ASSUME NEW n \in Nodes, NEW t \in Transfers,
             Finalized(n, t) \/ Timeout(n, t) \/ Sweep(n, t)
      PROVE  RoundsWatched'
  BY <1>2, WatchedFinalized, WatchedTimeout, WatchedSweep
<1>3. ASSUME NEW n \in Nodes, WindowEnds(n) \/ Crash(n) PROVE RoundsWatched'
  BY <1>1, <1>3, WatchedCrash DEF WindowEnds
<1>4. ASSUME NEW m \in net, Receive(m) PROVE RoundsWatched'
  BY <1>4, WatchedReceive
<1>5. ASSUME NEW x \in txs, Land(x) \/ Reject(x) \/ SubmissionFails(x) \/ Confirm(x)
      PROVE  RoundsWatched'
  BY <1>1, <1>5 DEF Land, Reject, SubmissionFails, Confirm, nodeVars
<1>6. CASE UNCHANGED vars
  BY <1>1, <1>6 DEF vars, nodeVars
<1> QED BY <1>2, <1>3, <1>4, <1>5, <1>6 DEF Next

----------------------------------------------------------------------------
(* The theorems *)

LEMMA InitInv == Init => Inv
<1> SUFFICES ASSUME Init PROVE Inv
  OBVIOUS
<1>1. TypeOK
  BY InitType
<1>2. Attested /\ QuorumBehindSubmission
  BY DEF Init, Attested, QuorumBehindSubmission, NoRound
<1>3. Undecided /\ OneVerdict
  BY DEF Init, Undecided, OneVerdict
<1>4. ProcessedLanded
  BY DEF Init, ProcessedLanded, SetOf
<1>5. Charged /\ OutflowLimited
  <2>1. txs = {} /\ \A n \in Nodes : spent[n] = 0 /\ window[n] = 0
    BY DEF Init
  <2>2. ASSUME NEW n, NEW w PROVE Total({}, n, w) = 0
    <3>1. Sent({}, n, w) = {}
      BY DEF Sent
    <3> QED BY <3>1, SumEmpty, Zenon DEF Total
  <2>3. Metered(txs, window, spent) /\ Capped(txs, window)
    BY <2>1, <2>2, ConstantTypes DEF Metered, Capped
  <2> QED BY <1>1, <2>3, CappedIs, MeteredIs
<1> QED BY <1>1, <1>2, <1>3, <1>4, <1>5 DEF Inv

LEMMA InvStep == Inv /\ [Next]_vars => Inv'
  BY TypeStep, QuorumStep, VerdictStep, ProcessedStep, OutflowStep DEF Inv

\* Every state of engine.ts, its rate limiter and its processed set satisfies the
\* inductive invariant.
THEOREM Invariance == Spec => []Inv
  BY InitInv, InvStep, PTL DEF Spec

\* What a node submits was attested by enough keys, each of a validator that
\* itself saw the event and signed the submitter's very message: engine.ts,
\* whatever is lost, swept or retried, for any setup of keys and thresholds.
THEOREM SubmissionsQuorate == Spec => []QuorumBehindSubmission
  BY Invariance, PTL DEF Inv

\* A round is announced once, as reached or as failed: the timers of engine.ts,
\* kept per transfer and never cleared, decide nothing twice.
THEOREM VerdictsUnique == Spec => []OneVerdict
  BY Invariance, PTL DEF Inv

\* A transfer that is remembered as processed, and so never proposed again, was
\* executed on the destination chain.
THEOREM ProcessedExecuted == Spec => []ProcessedLanded
  BY Invariance, PTL DEF Inv

\* The net amounts a node submits within one window of its rate limiter stay
\* within the daily cap, for any amounts, number of transfers and interleaving.
THEOREM OutflowCapped == Spec => []OutflowLimited
  BY Invariance, PTL DEF Inv

\* What RoundsEnd rests on, and the part of it that no schedule can spoil: a
\* round of engine.ts that blocks its transfer has a setTimeout of its own node
\* still to fire, which ends it, although timers are kept per transfer, are never
\* cleared, and may take a later round than the one they were armed for.
THEOREM RoundsAlwaysWatched == Spec => []RoundsWatched
<1>1. Init => RoundsWatched
  BY DEF Init, RoundsWatched, NoRound
<1>2. Inv => TypeOK
  BY DEF Inv
<1> QED BY <1>1, <1>2, WatchedStep, Invariance, PTL DEF Spec
=============================================================================
