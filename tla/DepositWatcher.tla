--------------------------- MODULE DepositWatcher ---------------------------
(***************************************************************************)
(* validator/src/watchers/solana-watcher.ts: how one validator learns of   *)
(* the deposits on Solana and reports them, once final, to main.ts (the    *)
(* deposit_finalized event).                                               *)
(*                                                                         *)
(* By default the watcher polls: it asks for the signatures after its      *)
(* cursor, of which the node returns the newest Limit, and goes through    *)
(* them oldest first.  With a WebSocket it is told of each transaction     *)
(* instead, and has no cursor.  An operator may inject a transaction.  All *)
(* three feed pendingEvents, which the finality loop empties.  An action   *)
(* is what runs between two awaits.  A confirmed transaction may lose its  *)
(* fork and land again, under the same signature and transfer id, in a     *)
(* later slot.                                                             *)
(***************************************************************************)
EXTENDS Integers, FiniteSets, Sequences

CONSTANTS
  Txs,          \* signatures of transactions of the program
  Deposits,     \* those with a deposit event; the others failed or do not deposit
  NoTx,
  Limit,        \* signatures returned at once: 50 in the code
  Depth,        \* slots after which Solana finalizes
  Required,     \* requiredConfirmations, counted from the finalized slot
  Modes,        \* "poll", "socket"
  Faults,       \* what the environment may do: see Faulty
  MaxCrashes, MaxInjections, MaxForks, MaxSlot     \* bounds of the model

\* "fetch", "verify": a request fails, when a transaction is looked up and when
\*   a deposit is verified; "lag": the node has not indexed a transaction yet
\*   and answers null; "seed": the request that seeds the cursor fails.
Faulty == {"fetch", "lag", "verify", "seed", "crash", "fork"}

VARIABLES
  slot,         \* the confirmed slot
  chain,        \* confirmed transactions, oldest first
  at,           \* the slot a transaction last landed in; 0: not yet
  phase,        \* "down", "seeding", "running"
  mode,
  cursor,       \* the cursor on disk, or NoTx
  last,         \* lastSeenSignature, or NoTx
  batch,        \* what this poll still has to handle, oldest first: signatures
                \* and the slots they were in
  feed,         \* logs the socket has still to deliver
  pending,      \* pendingEvents: the slot of each pending deposit; 0: none
  checking,     \* the deposit the finality loop is verifying, or NoTx
  reports,      \* history: <<deposit, slot>> reported as final
  lost,         \* history: deposits lost in a way that is known: see Lose
  times,        \* history: how often a deposit was reported
  injections,   \* how often a transaction was injected
  crashes, forks, misses        \* misses: seed requests that failed

chainVars == <<slot, chain, at>>
pollVars == <<cursor, last, batch>>
faultVars == <<injections, crashes, forks, misses>>
histVars == <<reports, times, lost>>
vars == <<chainVars, phase, mode, pollVars, feed, pending, checking, histVars,
          faultVars>>

Up == phase = "running"
OnChain(t) == \E i \in 1..Len(chain) : chain[i] = t
Before(t, u) == \E i, j \in 1..Len(chain) : i < j /\ chain[i] = t /\ chain[j] = u
Final(t) == OnChain(t) /\ slot - Depth - at[t] >= Required
Reported(t) == \E r \in reports : r[1] = t

Init ==
  /\ slot = 1 /\ chain = <<>> /\ at = [t \in Txs |-> 0]
  /\ phase = "seeding" /\ mode \in Modes
  /\ cursor = NoTx /\ last = NoTx /\ batch = <<>> /\ feed = {}
  /\ pending = [t \in Txs |-> 0] /\ checking = NoTx
  /\ reports = {} /\ times = [t \in Txs |-> 0] /\ lost = {}
  /\ injections = [t \in Txs |-> 0]
  /\ crashes = 0 /\ forks = 0 /\ misses = 0

\* History: deposits that will not be reported, unless they are injected.
Lose(ts) == lost' = lost \cup {t \in ts \cap Deposits : ~Reported(t)}

\* A transaction that was in slot s and landed again overtook these, so that a
\* cursor that points to it is past them.
Overtaken(t, s) ==
  IF at[t] = s THEN {} ELSE {u \in Txs \ {t} : OnChain(u) /\ at[u] >= s}

(***************************************************************************)
(* runPollingLoop: where to start                                          *)
(***************************************************************************)
\* The stored cursor if there is one, else the newest signature.
Seed ==
  /\ phase = "seeding" /\ mode = "poll"
  /\ phase' = "running"
  /\ last' = IF cursor = NoTx /\ chain # <<>> THEN chain[Len(chain)] ELSE cursor
  /\ cursor' = last'
  /\ IF cursor = NoTx THEN Lose({t \in Txs : OnChain(t)}) ELSE UNCHANGED lost
  /\ UNCHANGED <<chainVars, mode, batch, feed, pending, checking, reports, times,
                 faultVars>>

\* The newest signature is asked for before the stored cursor is read: when
\* that request fails the cursor is not read either.
SeedFails ==
  /\ "seed" \in Faults /\ phase = "seeding" /\ mode = "poll"
  /\ phase' = "running"
  /\ misses' = misses + 1
  /\ UNCHANGED <<chainVars, mode, pollVars, feed, pending, checking, histVars,
                 injections, crashes, forks>>

Subscribe ==
  /\ phase = "seeding" /\ mode = "socket"
  /\ phase' = "running"
  /\ UNCHANGED <<chainVars, mode, pollVars, feed, pending, checking, histVars,
                 faultVars>>

(***************************************************************************)
(* pollNewTransactions, processLogs                                        *)
(***************************************************************************)
\* What the node finds after lastSeenSignature: everything, if it does not
\* know that signature.
Place == IF OnChain(last) THEN CHOOSE i \in 1..Len(chain) : chain[i] = last ELSE 0
Newer == SubSeq(chain, Place + 1, Len(chain))

Newest(s) == SubSeq(s, Len(s) - Limit + 1, Len(s))

Fetch ==
  /\ Up /\ mode = "poll" /\ batch = <<>>
  /\ Newer # <<>>
  /\ LET found == IF Len(Newer) > Limit THEN Newest(Newer) ELSE Newer
     IN /\ batch' = [i \in 1..Len(found) |-> [tx |-> found[i], slot |-> at[found[i]]]]
        /\ Lose({Newer[i] : i \in 1..(Len(Newer) - Len(found))})
  /\ UNCHANGED <<chainVars, phase, mode, cursor, last, feed, pending, checking,
                 reports, times, faultVars>>

AdvanceCursor(t) == last' = t /\ cursor' = t

\* pendingEvents.set, unless the transfer is pending already.
Noted(t) ==
  pending' = IF t \in Deposits /\ pending[t] = 0
             THEN [pending EXCEPT ![t] = at[t]] ELSE pending

Handle(t) ==
  /\ Up /\ batch # <<>> /\ t = Head(batch).tx /\ OnChain(t)
  /\ Noted(t)
  /\ AdvanceCursor(t) /\ batch' = Tail(batch)
  /\ Lose(Overtaken(t, Head(batch).slot))
  /\ UNCHANGED <<chainVars, phase, mode, feed, checking, reports, times,
                 faultVars>>

\* No transaction under this signature, or none yet: moved past.
HandleNothing(t) ==
  /\ Up /\ batch # <<>> /\ t = Head(batch).tx
  /\ ~OnChain(t) \/ "lag" \in Faults
  /\ AdvanceCursor(t) /\ batch' = Tail(batch)
  /\ Lose({t} \cup Overtaken(t, Head(batch).slot))
  /\ UNCHANGED <<chainVars, phase, mode, feed, pending, checking, reports,
                 times, faultVars>>

FetchFailsPassing(t) ==               \* mutation: the cursor moves all the same
  /\ "fetch" \in Faults /\ Up /\ batch # <<>> /\ t = Head(batch).tx
  /\ AdvanceCursor(t) /\ batch' = Tail(batch)
  /\ UNCHANGED <<chainVars, phase, mode, feed, pending, checking, histVars,
                 faultVars>>

\* The cursor is held for the next poll.
FetchFails(t) ==
  /\ "fetch" \in Faults /\ Up /\ batch # <<>> /\ t = Head(batch).tx
  /\ batch' = <<>>
  /\ UNCHANGED <<chainVars, phase, mode, cursor, last, feed, pending, checking,
                 histVars, faultVars>>

(***************************************************************************)
(* subscribeToLogs; injectTransaction, which an operator calls through     *)
(* /admin/replay                                                           *)
(***************************************************************************)
Logged(t) ==
  /\ Up /\ t \in feed
  /\ feed' = feed \ {t}
  /\ pending' = IF t \in Deposits /\ pending[t] = 0
                THEN [pending EXCEPT ![t] = at[t]] ELSE pending
  /\ UNCHANGED <<chainVars, phase, mode, pollVars, checking, histVars, faultVars>>

Inject(t) ==
  /\ phase # "down" /\ OnChain(t) /\ injections[t] < MaxInjections
  /\ injections' = [injections EXCEPT ![t] = @ + 1]
  /\ Noted(t)
  /\ UNCHANGED <<chainVars, phase, mode, pollVars, feed, checking, histVars,
                 crashes, forks, misses>>

(***************************************************************************)
(* runFinalityLoop, verifyTransactionFinality, verifyDepositPDA            *)
(***************************************************************************)
Check(t) ==
  /\ phase # "down" /\ checking = NoTx
  /\ pending[t] # 0 /\ slot - Depth - pending[t] >= Required
  /\ checking' = t
  /\ UNCHANGED <<chainVars, phase, mode, pollVars, feed, pending, histVars,
                 faultVars>>

Done(t) == pending' = [pending EXCEPT ![t] = 0] /\ checking' = NoTx

ReportAnySlot(t) ==                   \* mutation: the slot is not compared
  /\ checking = t /\ OnChain(t)
  /\ Done(t)
  /\ reports' = reports \cup {<<t, pending[t]>>}
  /\ times' = [times EXCEPT ![t] = @ + 1]
  /\ UNCHANGED <<chainVars, phase, mode, pollVars, feed, lost, faultVars>>

\* emit deposit_finalized
Report(t) ==
  /\ checking = t /\ OnChain(t) /\ at[t] = pending[t]
  /\ Done(t)
  /\ reports' = reports \cup {<<t, pending[t]>>}
  /\ times' = [times EXCEPT ![t] = @ + 1]
  /\ UNCHANGED <<chainVars, phase, mode, pollVars, feed, lost, faultVars>>

\* emit deposit_invalidated: also when a request fails, and when the
\* transaction landed again in another slot.
Invalidate(t) ==
  /\ checking = t
  /\ ~OnChain(t) \/ at[t] # pending[t] \/ "verify" \in Faults
  /\ Done(t)
  /\ Lose({u \in {t} : OnChain(u)})
  /\ UNCHANGED <<chainVars, phase, mode, pollVars, feed, reports, times,
                 faultVars>>

(***************************************************************************)
(* The process stops and starts                                            *)
(***************************************************************************)
Crash ==
  /\ "crash" \in Faults /\ phase # "down" /\ crashes < MaxCrashes
  /\ crashes' = crashes + 1
  /\ phase' = "down"
  /\ Lose({t \in Txs : pending[t] # 0} \cup feed)
  /\ pending' = [t \in Txs |-> 0] /\ checking' = NoTx
  /\ batch' = <<>> /\ last' = NoTx /\ feed' = {}
  /\ UNCHANGED <<chainVars, mode, cursor, reports, times, injections, forks,
                 misses>>

Restart ==
  /\ phase = "down"
  /\ phase' = "seeding"
  /\ UNCHANGED <<chainVars, mode, pollVars, feed, pending, checking, histVars,
                 faultVars>>

(***************************************************************************)
(* Solana                                                                  *)
(***************************************************************************)
\* The last transactions are early enough to become final within the bound.
Land(t) ==
  /\ ~OnChain(t) /\ slot + Depth + Required <= MaxSlot
  /\ chain' = Append(chain, t)
  /\ at' = [at EXCEPT ![t] = slot]
  /\ feed' = IF Up /\ mode = "socket" THEN feed \cup {t} ELSE feed
  /\ lost' = lost \cup
       IF mode = "socket" THEN (IF Up THEN {} ELSE {t} \cap Deposits)
       ELSE IF t \notin {last, cursor} THEN {}
       ELSE {u \in Deposits : OnChain(u) /\ at[u] >= at[t] /\ ~Reported(u)}
            \cup ({t} \cap Deposits)
  /\ UNCHANGED <<slot, phase, mode, pollVars, pending, checking, reports, times,
                 faultVars>>

\* The blocks of some slots that are not final yet are abandoned; those that
\* replace them have later slots.
Fork ==
  /\ "fork" \in Faults /\ forks < MaxForks /\ slot < MaxSlot
  /\ slot' = slot + 1
  /\ \E s \in (slot - Depth + 1)..slot, k \in 0..(Len(chain) - 1) :
        /\ \A i \in 1..Len(chain) : i <= k <=> at[chain[i]] < s
        /\ chain' = SubSeq(chain, 1, k)
  /\ forks' = forks + 1
  /\ UNCHANGED <<at, phase, mode, pollVars, feed, pending, checking, histVars,
                 injections, crashes, misses>>

NewSlot ==
  /\ slot < MaxSlot
  /\ slot' = slot + 1
  /\ UNCHANGED <<chain, at, phase, mode, pollVars, feed, pending, checking,
                 histVars, faultVars>>

Poll == \/ Seed \/ SeedFails \/ Subscribe \/ Fetch
        \/ \E t \in Txs : Handle(t) \/ HandleNothing(t) \/ FetchFails(t) \/ Logged(t)
Finality == \E t \in Txs : Check(t) \/ Report(t) \/ Invalidate(t)

Next ==
  \/ Poll \/ Finality \/ Crash \/ Restart
  \/ Fork \/ NewSlot \/ \E t \in Txs : Land(t) \/ Inject(t)

Spec == Init /\ [][Next]_vars

\* Each loop re-arms itself, a stopped validator is started again, and looking
\* up a transaction does not fail every time.
FairSpec ==
  /\ Spec
  /\ WF_vars(Poll) /\ WF_vars(Finality) /\ WF_vars(NewSlot) /\ WF_vars(Restart)
  /\ \A t \in Txs : SF_vars(Handle(t) \/ HandleNothing(t))

----------------------------------------------------------------------------
\* "This protects against reorgs where a transaction might disappear": however
\* the deposit was learned of, and though its transaction may lose its fork and
\* land again while it is pending, a deposit that is reported is final, in the
\* slot it was reported with; and it is reported again only after it was injected
\* or the poll loop lost its place (the cursor was not read, or its transaction
\* lost its fork).
ReportedFinal ==
  /\ \A r \in reports : Final(r[1]) /\ at[r[1]] = r[2]
  /\ \A t \in Deposits : times[t] <= 1 + injections[t] + misses + forks

\* A final deposit is reported, although requests fail, transactions lose their
\* fork and the validator restarts, unless it is lost in one of the ways the
\* model names: it was pending or unheard of when the validator stopped, its
\* verification failed, the node had not indexed it, more than Limit
\* transactions were new, or the cursor's own transaction landed again.
ReportedOrLost ==
  []<>(\A t \in Deposits : Final(t) => Reported(t) \/ t \in lost)
=============================================================================
