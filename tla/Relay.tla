-------------------------------- MODULE Relay --------------------------------
(***************************************************************************)
(* The Telegram bot: bridge/monitor.cjs looks for deposits to a user's     *)
(* Solana wallet and for burns by his DCC wallet, and bridge/relay.cjs     *)
(* brings each to the other chain.  What it knows is in SQLite (store.cjs);*)
(* polls and relays in progress are in memory.                             *)
(*                                                                         *)
(* Polls are started by setInterval whether or not the last one has ended. *)
(* An action is what runs between two awaits.  A transaction is a number,  *)
(* in the order of the chain; one user is enough, since a poll goes on     *)
(* with the others whatever happens to one.                                *)
(***************************************************************************)
EXTENDS Integers, Sequences, FiniteSets, SequencesExt

CONSTANTS
  Spl, Sol,      \* deposits of tokens and of SOL
  Burns,         \* calls of burnToken by the user's wallet
  Slot,          \* the slot or the height of a transaction
  Polls,         \* polls that may be under way at a time
  Retries,       \* MAX_RETRIES: 5
  MaxFaults      \* bound of the model: failed requests and restarts

VARIABLES
  consensus,     \* USE_CONSENSUS
  landed,        \* transactions that are on their chains
  minted,        \* transfers the bridge contract has minted
  recorded,      \* table deposits
  rows,          \* table transfers: the status of the row of each transaction
  cursor,        \* table scan_cursors, and the maps filled from it
  polls,
  relays,        \* what each relay is doing
  started,       \* history: how often a relay was started for each transaction
  faults

dbVars == <<recorded, rows, cursor>>
vars == <<consensus, landed, minted, dbVars, polls, relays, started, faults>>

Deposits == Spl \cup Sol
Items == Deposits \cup Burns
Chain(x) == IF x \in Burns THEN "dcc" ELSE "solana"
NoPoll == [at |-> "idle", list |-> <<>>, since |-> 0]
NoRelay == [at |-> "idle", tries |-> 0]
Statuses == {"none", "pending", "sol_confirmed", "dcc_minted", "complete", "pending_unlock",
             "pending_confirmation", "failed"}

Init ==
  /\ consensus \in BOOLEAN
  /\ landed = {} /\ minted = {}
  /\ recorded = {} /\ rows = [x \in Items |-> "none"]
  /\ cursor = [c \in {"solana", "dcc"} |-> 0]
  /\ polls = [p \in Polls |-> NoPoll] /\ relays = [x \in Items |-> NoRelay]
  /\ started = [x \in Items |-> 0] /\ faults = 0

Faulty == faults < MaxFaults /\ faults' = faults + 1
At(p, stage) == polls[p].at = stage
Poll(p, poll) == polls' = [polls EXCEPT ![p] = poll]
Row(x, status) == rows' = [rows EXCEPT ![x] = status]
Relay(x, relay) == relays' = [relays EXCEPT ![x] = relay]

Land(x) ==
  /\ x \notin landed /\ \A y \in Items : y < x /\ Chain(y) = Chain(x) => y \in landed
  /\ landed' = landed \cup {x}
  /\ UNCHANGED <<consensus, minted, dbVars, polls, relays, started, faults>>

(***************************************************************************)
(* pollSolanaUser and pollDcc                                              *)
(***************************************************************************)
Begin(p, c) ==
  /\ At(p, "idle")
  /\ Poll(p, [at |-> IF c = "dcc" THEN "burns" ELSE "spl", list |-> <<>>, since |-> cursor[c]])
  /\ UNCHANGED <<consensus, landed, minted, dbVars, relays, started, faults>>

\* The newest first.  A transaction that cannot be fetched is skipped.  For burns
\* the lower bound is the minimum of the cursors and of 0.
NewestFirst(S) == SetToSortSeq(S, >)
Scan(p) ==
  LET wanted == CASE At(p, "spl") -> {x \in landed \cap Spl : Slot[x] > polls[p].since}
                  [] At(p, "sol") -> {x \in landed \cap Sol : Slot[x] > polls[p].since}
                  [] At(p, "burns") -> landed \cap Burns
      next == CASE At(p, "spl") -> "spl-list" [] At(p, "sol") -> "sol-list"
                [] At(p, "burns") -> "burn-list"
  IN
  /\ polls[p].at \in {"spl", "sol", "burns"}
  /\ \/ Poll(p, [polls[p] EXCEPT !.at = next, !.list = NewestFirst(wanted)])
        /\ UNCHANGED faults
     \/ \E x \in wanted : Poll(p, [polls[p] EXCEPT !.at = next,
                                                   !.list = NewestFirst(wanted \ {x})])
        /\ Faulty
  /\ UNCHANGED <<consensus, landed, minted, dbVars, relays, started>>

Listing(p) == polls[p].at \in {"spl-list", "sol-list", "burn-list"}
Advanced(p) == [polls[p] EXCEPT !.list = Tail(@)]

Exhausted(p) ==
  /\ Listing(p) /\ polls[p].list = <<>>
  /\ Poll(p, IF At(p, "spl-list") THEN [polls[p] EXCEPT !.at = "sol"] ELSE NoPoll)
  /\ UNCHANGED <<consensus, landed, minted, dbVars, relays, started, faults>>

RecordAnyway(p) ==   \* mutation: only the cursor tells what was seen
  /\ Listing(p) /\ polls[p].list # <<>>
  /\ recorded' = recorded \cup {Head(polls[p].list)} /\ Row(Head(polls[p].list), "pending")
  /\ Poll(p, [polls[p] EXCEPT !.at = CASE At(p, "spl-list") -> "spl-told"
                [] At(p, "sol-list") -> "sol-told" [] At(p, "burn-list") -> "burn-told"])
  /\ UNCHANGED <<consensus, landed, minted, cursor, relays, started, faults>>

\* recordDeposit, createTransfer; then the user is notified.
Record(p) ==
  LET x == Head(polls[p].list)
      old == x \in recorded \/ (x \in Burns /\ Slot[x] <= cursor["dcc"])
  IN
  /\ Listing(p) /\ polls[p].list # <<>>
  /\ \/ old /\ Poll(p, Advanced(p)) /\ UNCHANGED <<recorded, rows>>
     \/ /\ ~old /\ recorded' = recorded \cup {x} /\ Row(x, "pending")
        /\ Poll(p, [polls[p] EXCEPT !.at =
             CASE At(p, "spl-list") -> "spl-told" [] At(p, "sol-list") -> "sol-told"
               [] At(p, "burn-list") -> "burn-told"])
  /\ UNCHANGED <<consensus, landed, minted, cursor, relays, started, faults>>

\* The relay is started and not waited for; the cursor may go back when tokens
\* are listed, not when SOL is.
Start(p) ==
  LET x == Head(polls[p].list) IN
  /\ polls[p].at \in {"spl-told", "sol-told", "burn-told"}
  /\ started' = [started EXCEPT ![x] = @ + 1]
  /\ Relay(x, [NoRelay EXCEPT !.at = "trying"])
  /\ Row(x, IF x \in Burns THEN "pending" ELSE "sol_confirmed")
  /\ cursor' = [cursor EXCEPT ![Chain(x)] =
                  IF x \in Sol /\ Slot[x] <= @ THEN @ ELSE Slot[x]]
  /\ Poll(p, [Advanced(p) EXCEPT !.at =
       CASE At(p, "spl-told") -> "spl-list" [] At(p, "sol-told") -> "sol-list"
         [] At(p, "burn-told") -> "burn-list"])
  /\ UNCHANGED <<consensus, landed, minted, recorded, faults>>

(***************************************************************************)
(* relaySolToDcc                                                           *)
(***************************************************************************)
Trying(x) == relays[x].at = "trying" /\ x \in Deposits

Mint(x) ==
  /\ Trying(x) /\ ~consensus /\ x \notin minted
  /\ minted' = minted \cup {x}
  /\ Row(x, "dcc_minted") /\ Relay(x, [relays[x] EXCEPT !.at = "waiting"])
  /\ UNCHANGED <<consensus, landed, recorded, cursor, polls, started, faults>>

\* The broadcast fails, or its answer is lost; a transfer that was minted is
\* refused; no validator serves the endpoint that consensus mode calls.
Failed(x) ==
  IF relays[x].tries + 1 < Retries
  THEN Relay(x, [relays[x] EXCEPT !.tries = @ + 1]) /\ UNCHANGED rows
  ELSE Relay(x, NoRelay) /\ Row(x, "failed")

MintFails(x) ==
  /\ Trying(x)
  /\ \/ (consensus \/ x \in minted) /\ UNCHANGED <<minted, faults>>
     \/ ~consensus /\ x \notin minted /\ Faulty /\ minted' \in {minted, minted \cup {x}}
  /\ Failed(x)
  /\ UNCHANGED <<consensus, landed, recorded, cursor, polls, started>>

\* waitForTx
Confirm(x) ==
  /\ relays[x].at = "waiting"
  /\ Relay(x, NoRelay)
  /\ \/ Row(x, "complete") /\ UNCHANGED faults
     \/ Row(x, "pending_confirmation") /\ Faulty
  /\ UNCHANGED <<consensus, landed, minted, recorded, cursor, polls, started>>

(***************************************************************************)
(* relayDccToSol: only consensus mode asks for an unlock                   *)
(***************************************************************************)
Unlock(x) ==
  /\ relays[x].at = "trying" /\ x \in Burns
  /\ IF consensus THEN Failed(x) ELSE Relay(x, NoRelay) /\ Row(x, "pending_unlock")
  /\ UNCHANGED <<consensus, landed, minted, recorded, cursor, polls, started, faults>>

\* Recorded deposits are not looked at when the bot starts.
Restart ==
  /\ Faulty
  /\ polls' = [p \in Polls |-> NoPoll] /\ relays' = [x \in Items |-> NoRelay]
  /\ UNCHANGED <<consensus, landed, minted, dbVars, started>>

Next ==
  \/ \E x \in Items : Land(x) \/ Mint(x) \/ MintFails(x) \/ Confirm(x) \/ Unlock(x)
  \/ \E p \in Polls : \/ \E c \in {"solana", "dcc"} : Begin(p, c)
                      \/ Scan(p) \/ Exhausted(p) \/ Record(p) \/ Start(p)
  \/ Restart

Spec == Init /\ [][Next]_vars

----------------------------------------------------------------------------
\* Every deposit and every burn is relayed at most once, however polls overlap,
\* the cursor moves back and forth and the bot restarts; and a row that calls a
\* deposit complete is right.
RelayedOnce ==
  \A x \in Items : started[x] <= 1 /\ (rows[x] \in {"dcc_minted", "complete"} => x \in minted)
=============================================================================
