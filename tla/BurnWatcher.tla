---------------------------- MODULE BurnWatcher ----------------------------
(***************************************************************************)
(* validator/src/watchers/dcc-watcher.ts: how one validator learns of the  *)
(* burns on DecentralChain and reports them, once final, to the consensus  *)
(* engine (the burn_finalized event).                                      *)
(*                                                                         *)
(* Three asynchronous loops share pendingBurns and seenBurnIds: the poll   *)
(* loop scans blocks behind a persisted cursor, the reconcile loop sweeps  *)
(* the contract's burn records, and the finality loop reports or drops     *)
(* what is pending.  An action is what runs between two awaits.  The burn  *)
(* id is a hash over the block height, so a burn has one height for ever,  *)
(* and one that was rolled back does not come back under the same id.      *)
(***************************************************************************)
EXTENDS Integers, FiniteSets

CONSTANTS
  Burns,
  NoBurn,
  Required,     \* requiredConfirmations: 10 by default
  Lag,          \* SCAN_LAG_BLOCKS: 1
  MaxGap,       \* MAX_RESUME_GAP_BLOCKS: 1000
  Faults,       \* what the environment may do: see Faulty
  MaxCrashes,   \* bound of the model
  MaxHeight     \* bound of the model: the chain stops here

\* "late": a microblock joins a block after the next one appeared.
\* "rollback": a block less than Required deep is abandoned.
\* "detail", "verify": a request to the node fails, when a transaction is
\*   looked up and when a burn is verified.
Faulty == {"late", "rollback", "detail", "verify", "crash"}

ASSUME BurnWatcherConstants ==
  /\ IsFiniteSet(Burns) /\ NoBurn \notin Burns
  /\ Required \in Nat \ {0} /\ Lag \in Nat \ {0} /\ MaxGap \in Nat
  /\ Faults \subseteq Faulty
  /\ MaxCrashes \in Nat /\ MaxHeight \in Nat \ {0}

VARIABLES
  tip,          \* height of the chain
  at,           \* height of the block a burn is in; 0: not submitted yet
  gone,         \* burns whose block was rolled back
  up,           \* the validator is running
  cursor,       \* lastProcessedHeight; written through to disk
  seen,         \* seenBurnIds; written through to disk
  pending,      \* keys of pendingBurns
  scanning,     \* the poll loop is inside scanBlock(cursor + 1)
  todo,         \* transactions of that block still to be looked at
  sweep,        \* records the reconcile loop has still to look at
  locating,     \* the burn findBurnTxId is looking for, or NoBurn
  checking,     \* the burn verifyBurnOnChain is looking at, or NoBurn
  reported,     \* history: burns reported at least once
  lost,         \* history: burns on the chain that a crash or a failed request
                \* took out of pendingBurns
  crashes

chainVars == <<tip, at, gone>>
pollVars  == <<cursor, scanning, todo>>
sweepVars == <<sweep, locating>>
sharedVars == <<pending, seen>>
histVars  == <<reported, lost, crashes>>
vars == <<chainVars, up, pollVars, sweepVars, sharedVars, checking, histVars>>

OnChain(b) == at[b] # 0 /\ b \notin gone
Final(b) == OnChain(b) /\ tip - at[b] >= Required

Init ==
  /\ tip = 1 /\ at = [b \in Burns |-> 0] /\ gone = {}
  /\ up = TRUE /\ cursor = 1 /\ seen = {} /\ pending = {}
  /\ scanning = FALSE /\ todo = {}
  /\ sweep = {} /\ locating = NoBurn /\ checking = NoBurn
  /\ reported = {} /\ lost = {} /\ crashes = 0

(***************************************************************************)
(* runPollLoop, scanBlock, checkForBurnEvent                               *)
(***************************************************************************)
\* A block that cannot be fetched is tried again: no step.
ScanBlock ==
  /\ up /\ ~scanning
  /\ cursor + 1 <= tip - Lag
  /\ scanning' = TRUE
  /\ todo' = {b \in Burns : OnChain(b) /\ at[b] = cursor + 1}
  /\ UNCHANGED <<chainVars, up, cursor, sweepVars, sharedVars, checking, histVars>>

\* The burn is pending, and its id is on disk.
Noted(b) ==
  /\ pending' = pending \cup {b}
  /\ seen' = seen \cup {b}

ScanTxMarkingFirst(b) ==              \* mutation: seen before it is fetched
  /\ up /\ b \in todo
  /\ todo' = todo \ {b}
  /\ seen' = seen \cup {b}
  /\ pending' \in {pending \cup {b}, pending}
  /\ UNCHANGED <<chainVars, up, cursor, scanning, sweepVars, checking, histVars>>

\* A transaction whose details cannot be fetched is skipped; the block still
\* counts as scanned.  Only pendingBurns is consulted, not seenBurnIds.
ScanTx(b) ==
  /\ up /\ b \in todo
  /\ todo' = todo \ {b}
  /\ \/ OnChain(b) /\ Noted(b)
     \/ /\ ~OnChain(b) \/ "detail" \in Faults
        /\ UNCHANGED sharedVars
  /\ UNCHANGED <<chainVars, up, cursor, scanning, sweepVars, checking, histVars>>

ScanDone ==
  /\ up /\ scanning /\ todo = {}
  /\ scanning' = FALSE
  /\ cursor' = cursor + 1
  /\ UNCHANGED <<chainVars, up, todo, sweepVars, sharedVars, checking, histVars>>

(***************************************************************************)
(* runReconcileLoop, reconcileBurns, findBurnTxId                          *)
(***************************************************************************)
Handled == pending \cup seen

\* The records that are handled already are skipped on the way, with no await.
Reconcile ==
  /\ up /\ sweep = {} /\ locating = NoBurn
  /\ sweep' = {b \in Burns : OnChain(b)} \ Handled
  /\ sweep' # {}
  /\ UNCHANGED <<chainVars, up, pollVars, locating, sharedVars, checking, histVars>>

Locate(b) ==
  /\ up /\ b \in sweep /\ locating = NoBurn
  /\ sweep' = sweep \ {b}
  /\ locating' = IF b \in Handled THEN NoBurn ELSE b
  /\ UNCHANGED <<chainVars, up, pollVars, sharedVars, checking, histVars>>

\* The burn may have been handled while its transaction was looked for.
Located(b) ==
  /\ up /\ locating = b /\ OnChain(b)
  /\ Noted(b)
  /\ locating' = NoBurn
  /\ UNCHANGED <<chainVars, up, pollVars, sweep, checking, histVars>>

NotLocated(b) ==
  /\ up /\ locating = b
  /\ ~OnChain(b) \/ "detail" \in Faults
  /\ locating' = NoBurn
  /\ UNCHANGED <<chainVars, up, pollVars, sweep, sharedVars, checking, histVars>>

(***************************************************************************)
(* runFinalityLoop, verifyBurnOnChain                                      *)
(***************************************************************************)
Check(b) ==
  /\ up /\ checking = NoBurn
  /\ b \in pending /\ tip - at[b] >= Required
  /\ checking' = b
  /\ UNCHANGED <<chainVars, up, pollVars, sweepVars, sharedVars, histVars>>

ReportUnverified(b) ==                \* mutation: the chain is not asked again
  /\ up /\ checking = b
  /\ reported' = reported \cup {b}
  /\ pending' = pending \ {b}
  /\ checking' = NoBurn
  /\ UNCHANGED <<chainVars, up, pollVars, sweepVars, seen, lost, crashes>>

\* emit burn_finalized
Report(b) ==
  /\ up /\ checking = b
  /\ OnChain(b)
  /\ reported' = reported \cup {b}
  /\ pending' = pending \ {b}
  /\ checking' = NoBurn
  /\ UNCHANGED <<chainVars, up, pollVars, sweepVars, seen, lost, crashes>>

\* emit burn_invalidated: any failed request counts as a refutation.
Invalidate(b) ==
  /\ up /\ checking = b
  /\ ~OnChain(b) \/ "verify" \in Faults
  /\ pending' = pending \ {b}
  /\ checking' = NoBurn
  /\ lost' = IF OnChain(b) THEN lost \cup {b} ELSE lost
  /\ UNCHANGED <<chainVars, up, pollVars, sweepVars, seen, reported, crashes>>

(***************************************************************************)
(* The process stops; seedHeightThenPoll when it is back                   *)
(***************************************************************************)
Crash ==
  /\ "crash" \in Faults /\ up /\ crashes < MaxCrashes
  /\ crashes' = crashes + 1
  /\ up' = FALSE
  /\ lost' = lost \cup {b \in pending : OnChain(b)}
  /\ pending' = {} /\ scanning' = FALSE /\ todo' = {}
  /\ sweep' = {} /\ locating' = NoBurn /\ checking' = NoBurn
  /\ UNCHANGED <<chainVars, cursor, seen, reported>>

Restart ==
  /\ ~up
  /\ up' = TRUE
  /\ cursor' = IF tip - cursor <= MaxGap THEN cursor ELSE tip
  /\ UNCHANGED <<chainVars, scanning, todo, sweepVars, sharedVars, checking,
                 histVars>>

(***************************************************************************)
(* The chain                                                               *)
(***************************************************************************)
nodeVars == <<up, pollVars, sweepVars, sharedVars, checking, histVars>>

\* The last burns are early enough to become final within the bound.
BurnOnChain(b) ==
  /\ at[b] = 0
  /\ tip + Required <= MaxHeight
  /\ \E h \in {tip} \cup (IF "late" \in Faults /\ tip > 1 THEN {tip - 1} ELSE {}) :
        at' = [at EXCEPT ![b] = h]
  /\ UNCHANGED <<tip, gone, nodeVars>>

Rollback(b) ==
  /\ "rollback" \in Faults
  /\ OnChain(b) /\ ~Final(b)
  /\ gone' = gone \cup {b}
  /\ UNCHANGED <<tip, at, nodeVars>>

NewBlock ==
  /\ tip < MaxHeight
  /\ tip' = tip + 1
  /\ UNCHANGED <<at, gone, nodeVars>>

Poll == ScanBlock \/ (\E b \in Burns : ScanTx(b)) \/ ScanDone
Sweep == Reconcile \/ \E b \in Burns : Locate(b) \/ Located(b) \/ NotLocated(b)
Finality == \E b \in Burns : Check(b) \/ Report(b) \/ Invalidate(b)

Next ==
  \/ Poll \/ Sweep \/ Finality
  \/ Crash \/ Restart
  \/ NewBlock \/ \E b \in Burns : BurnOnChain(b) \/ Rollback(b)

Spec == Init /\ [][Next]_vars

\* The event loop serves each of the three loops, the chain grows, a stopped
\* validator is started again, and requests to locate a burn do not fail for
\* ever.
FairSpec ==
  /\ Spec
  /\ WF_vars(Poll) /\ WF_vars(Sweep) /\ WF_vars(Finality)
  /\ WF_vars(NewBlock) /\ WF_vars(Restart)
  /\ \A b \in Burns : SF_vars(Located(b))

----------------------------------------------------------------------------
\* Every variable stays in its type, and the cursor behind the blocks that are
\* still being formed, except where a restart moves it to the tip.
TypeOK ==
  /\ tip \in 1..MaxHeight /\ at \in [Burns -> 0..MaxHeight]
  /\ gone \subseteq Burns
  /\ up \in BOOLEAN /\ scanning \in BOOLEAN
  /\ cursor \in 1..tip
  /\ {seen, pending, todo, sweep, reported, lost} \subseteq SUBSET Burns
  /\ {locating, checking} \subseteq Burns \cup {NoBurn}
  /\ crashes \in 0..MaxCrashes

\* "Must verify burns independently - never trust unverified events": whatever
\* the three loops saw and when, a burn they report is on the chain under the
\* required number of blocks.
ReportedFinal == \A b \in reported : Final(b)

\* A burn that becomes final is reported, although scans race with late
\* microblocks, lookups fail and the cursor jumps, unless the validator stopped
\* or a request failed while it was pending.
ReportedOrLost ==
  []<>(\A b \in Burns : Final(b) => b \in reported \cup lost)
=============================================================================
