--------------------------- MODULE Reconciliation ---------------------------
(***************************************************************************)
(* monitoring/src/reconciliation.ts: a daemon that compares the books of   *)
(* the two chains every 30 seconds.                                        *)
(*                                                                         *)
(* A cycle reads the balance of the vault, then the totals of the vault's  *)
(* config, and meanwhile the two totals of the bridge contract; the chains *)
(* go on between the reads.  Lamports and wSOL have different precision:   *)
(* one unit of wSOL is Unit lamports.                                      *)
(***************************************************************************)
EXTENDS Integers, FiniteSets

CONSTANTS
  Unit,         \* SOL_TO_WSOL_DIVISOR: 10
  Warn,         \* warnDriftLamports
  Critical,     \* criticalDriftLamports
  MaxDeposits,  \* bound of the model: deposits, of one unit of wSOL each
  MaxExcess,    \* bound of the model: what is minted or drained unduly
  MaxFailures   \* bound of the model: requests that fail

ASSUME ReconciliationConstants ==
  /\ Unit \in Nat \ {0} /\ {Warn, Critical} \subseteq Nat \ {0} /\ Warn <= Critical
  /\ {MaxDeposits, MaxExcess, MaxFailures} \subseteq Nat

VARIABLES
  vault,              \* lamports in the vault
  locked, unlocked,   \* total_locked, total_unlocked of the vault's config
  minted, burned,     \* total_minted, total_burned of the bridge contract
  excess,             \* history: units minted or drained unduly
  running,            \* a cycle is under way
  unread,             \* the requests of the cycle not yet answered
  seen,               \* what it has read
  still,              \* history: no read of this cycle failed, and the books
                      \* have not moved since it began
  last,               \* the last snapshot: what it saw, its status, and still
  failures

books == [vault |-> vault, locked |-> locked, unlocked |-> unlocked,
          minted |-> minted, burned |-> burned]
bookVars == <<vault, locked, unlocked, minted, burned, excess>>
cycleVars == <<running, unread, seen, last>>
vars == <<bookVars, cycleVars, still, failures>>

Nothing == [vault |-> 0, locked |-> 0, unlocked |-> 0, minted |-> 0, burned |-> 0]
Requests == {"balance", "config", "minted", "burned"}

Init ==
  /\ vault = 0 /\ locked = 0 /\ unlocked = 0 /\ minted = 0 /\ burned = 0 /\ excess = 0
  /\ running = FALSE /\ unread = {} /\ seen = Nothing
  /\ last = [seen |-> Nothing, status |-> "ok", still |-> TRUE]
  /\ still = FALSE /\ failures = 0

(***************************************************************************)
(* The chains                                                              *)
(***************************************************************************)
Moved == still' = FALSE /\ UNCHANGED <<cycleVars, failures>>

Deposit ==
  /\ locked + unlocked < MaxDeposits * Unit
  /\ vault' = vault + Unit /\ locked' = locked + Unit
  /\ UNCHANGED <<unlocked, minted, burned, excess>> /\ Moved

Mint ==
  /\ minted * Unit < locked + unlocked
  /\ minted' = minted + 1
  /\ UNCHANGED <<vault, locked, unlocked, burned, excess>> /\ Moved

Burn ==
  /\ burned < minted
  /\ burned' = burned + 1
  /\ UNCHANGED <<vault, locked, unlocked, minted, excess>> /\ Moved

\* The program moves the amount from one total to the other.
Unlock ==
  /\ unlocked < burned * Unit /\ locked >= Unit /\ vault >= Unit
  /\ vault' = vault - Unit
  /\ locked' = locked - Unit /\ unlocked' = unlocked + Unit
  /\ UNCHANGED <<minted, burned, excess>> /\ Moved

\* What the daemon is there to find.
Excess ==
  /\ excess < MaxExcess /\ excess' = excess + 1
  /\ \/ minted' = minted + 1 /\ UNCHANGED vault
     \/ vault >= Unit /\ vault' = vault - Unit /\ UNCHANGED minted
  /\ UNCHANGED <<locked, unlocked, burned>> /\ Moved

(***************************************************************************)
(* reconcile, fetchSolanaState, fetchDccState                              *)
(***************************************************************************)
Begin ==
  /\ ~running /\ running' = TRUE
  /\ unread' = Requests /\ seen' = Nothing /\ still' = TRUE
  /\ UNCHANGED <<bookVars, last, failures>>

\* The config is asked for after the balance has come.
Asked == IF "balance" \in unread THEN unread \ {"config"} ELSE unread

Read(r) ==
  /\ r \in Asked
  /\ unread' = unread \ {r}
  /\ seen' = CASE r = "balance" -> [seen EXCEPT !.vault = vault]
               [] r = "config" -> [seen EXCEPT !.locked = locked, !.unlocked = unlocked]
               [] r = "minted" -> [seen EXCEPT !.minted = minted]
               [] r = "burned" -> [seen EXCEPT !.burned = burned]
  /\ UNCHANGED <<bookVars, running, last, still, failures>>

\* A config that cannot be read counts as zero, and so do both totals of the
\* contract when one of them cannot be read.
ReadFails(r) ==
  /\ r \in Asked \ {"balance"} /\ failures < MaxFailures
  /\ failures' = failures + 1 /\ still' = FALSE
  /\ IF r = "config" THEN unread' = unread \ {r} /\ UNCHANGED seen
     ELSE /\ unread' = unread \ {"minted", "burned"}
          /\ seen' = [seen EXCEPT !.minted = 0, !.burned = 0]
  /\ UNCHANGED <<bookVars, running, last>>

\* Without the balance there is no comparison at all.
BalanceFails ==
  /\ "balance" \in unread /\ failures < MaxFailures
  /\ failures' = failures + 1 /\ still' = FALSE
  /\ running' = FALSE /\ unread' = {} /\ seen' = Nothing
  /\ last' = [seen |-> Nothing, status |-> "error", still |-> FALSE]
  /\ UNCHANGED bookVars

StatusRaw(b) ==       \* mutation: wSOL is compared with lamports as it is
  LET drift == (b.minted - b.burned) - (b.locked - b.unlocked) IN
  CASE b.locked - b.unlocked > b.vault \/ drift >= Critical -> "critical"
    [] drift >= Warn \/ -drift >= Warn -> "warn"
    [] OTHER -> "ok"

\* The net locked amount is total_locked - total_unlocked, although the program
\* has taken what it unlocked from total_locked already.
Status(b) ==
  LET drift == Unit * (b.minted - b.burned) - (b.locked - b.unlocked) IN
  CASE b.locked - b.unlocked > b.vault -> "critical"
    [] drift >= Critical -> "critical"
    [] drift >= Warn \/ -drift >= Warn -> "warn"
    [] OTHER -> "ok"

\* The snapshot is kept, and an alert sent unless the status is "ok".
Conclude ==
  /\ running /\ unread = {}
  /\ last' = [seen |-> seen, status |-> Status(seen), still |-> still]
  /\ running' = FALSE /\ seen' = Nothing /\ still' = FALSE
  /\ UNCHANGED <<bookVars, unread, failures>>

Chains == Deposit \/ Mint \/ Burn \/ Unlock \/ Excess
Cycle == Begin \/ Conclude \/ \E r \in Requests : Read(r)

Next == Chains \/ Cycle \/ BalanceFails \/ \E r \in Requests : ReadFails(r)

Spec == Init /\ [][Next]_vars

\* The interval goes on; a request is answered in the end.
FairSpec == Spec /\ WF_vars(Cycle)

----------------------------------------------------------------------------
\* Every lamport that left wSOL in circulation is in the vault.
Backing(b) == b.vault - Unit * (b.minted - b.burned)

\* "Positive drift (DCC supply exceeds SOL locked) is the insolvency direction
\* and escalates to critical": what a cycle calls critical, while the chains
\* stood still and every request was answered, is not fully backed.
SolventNotCritical ==
  last.still /\ last.status = "critical" => Backing(last.seen) < 0

\* An insolvency that stays is reported again and again, however many requests
\* fail and whatever moves while a cycle reads.
InsolvencyReported ==
  <>[](-Backing(books) >= Critical) => []<>(last.status = "critical")
=============================================================================
