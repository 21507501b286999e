------------------------------- MODULE Monitor -------------------------------
(***************************************************************************)
(* monitoring/src: a service next to the validators that watches the two   *)
(* chains, the validators and the fee payers, sends alerts, and on some of *)
(* them pauses the bridge with the guardian's key.                         *)
(*                                                                         *)
(* The checks run on timers of their own; an action is what runs between   *)
(* two awaits.  The guardian's key is configured.  On DecentralChain the   *)
(* pause calls a function that no contract has, so it changes nothing.     *)
(* The checks that only alert (pause, fee payers, logs) are left out.      *)
(***************************************************************************)
EXTENDS Integers, FiniteSets

CONSTANTS
  Validators,   \* health endpoints: 1..n, asked in this order
  MinActive,    \* minActiveValidators
  Unit,         \* lamports per unit of wSOL
  MaxMinted,    \* bound of the model: units ever minted
  MaxTurns,     \* bound of the model: what happens to nodes and validators
  MaxOrders     \* bound of the model: pauses, resumes and restarts

VARIABLES
  balance,          \* lamports in the vault
  supply,           \* total_minted: units of wSOL ever minted
  paused,           \* of the vault's config
  node,             \* the DCC node: "up", "stuck", "down"
  asleep,           \* validators whose health endpoint does not say ok
  reading,          \* what the supply check under way has read
  previous, peak,   \* previousVaultBalance; the greatest of vaultBalanceHistory
  height,           \* previousChainCheck: "none", "seen", "zero"
  polled,           \* the health check under way: endpoints asked, and active
  sending,          \* an emergency pause is on its way
  turns, orders

worldVars == <<balance, supply, paused, node, asleep>>
memory == <<reading, previous, peak, height, polled>>
vars == <<worldVars, memory, sending, turns, orders>>

Nothing == [stage |-> "none", balance |-> 0, supply |-> 0]
Nobody == [asked |-> 0, active |-> 0]

Init ==
  /\ balance = 0 /\ supply = 0 /\ paused = FALSE /\ node = "up"
  /\ asleep = {}
  /\ reading = Nothing /\ previous = 0 /\ peak = 0 /\ height = "none"
  /\ polled = Nobody /\ sending = FALSE
  /\ turns = 0 /\ orders = 0

(***************************************************************************)
(* What is watched                                                         *)
(***************************************************************************)
Turn == turns < MaxTurns /\ turns' = turns + 1

Bridge ==
  /\ \/ ~paused /\ supply < MaxMinted            \* a deposit and its mint
        /\ balance' = balance + Unit /\ supply' = supply + 1
     \/ supply < MaxMinted                       \* minted without a deposit
        /\ supply' = supply + 1 /\ UNCHANGED balance
     \/ ~paused /\ balance >= Unit               \* a burn and its unlock
        /\ balance' = balance - Unit /\ UNCHANGED supply
  /\ Turn
  /\ UNCHANGED <<paused, node, asleep, memory, sending, orders>>

Nodes ==
  /\ \/ node' \in {"up", "stuck", "down"} /\ UNCHANGED asleep
     \/ /\ \E v \in Validators : asleep' = (asleep \cup {v}) \ (asleep \cap {v})
        /\ UNCHANGED node
  /\ Turn
  /\ UNCHANGED <<balance, supply, paused, memory, sending, orders>>

Order == orders < MaxOrders /\ orders' = orders + 1

\* The authority pauses and resumes.
Pause ==
  /\ Order /\ paused' = TRUE
  /\ UNCHANGED <<balance, supply, node, asleep, memory, sending, turns>>

Resume ==
  /\ Order /\ paused /\ paused' = FALSE
  /\ UNCHANGED <<balance, supply, node, asleep, memory, sending, turns>>

(***************************************************************************)
(* checkSupplyInvariant: balance, then supply, then the config             *)
(***************************************************************************)
ReadBalance ==
  /\ reading = Nothing
  /\ reading' = [stage |-> "supply", balance |-> balance, supply |-> 0]
  /\ UNCHANGED <<worldVars, previous, peak, height, polled, sending, turns, orders>>

\* A node that does not answer stands for a supply of zero.
ReadSupply ==
  /\ reading.stage = "supply"
  /\ reading' = [reading EXCEPT !.stage = "check",
                                !.supply = IF node = "down" THEN 0 ELSE supply]
  /\ UNCHANGED <<worldVars, previous, peak, height, polled, sending, turns, orders>>

ExceededPart(r) ==       \* mutation: no ratio is made to an empty vault
  r.balance > 0 /\ r.supply > r.balance

\* Units of wSOL are compared with lamports as they are, and burned ones count.
Exceeded(r) == r.supply > r.balance

Depleted(r) == previous > 0 /\ 10 * (previous - r.balance) > previous

\* The detector's checks, once the config was read; the rate of depletion over
\* the last hour may also be alarming if the balance was higher in that hour.
CheckSupply ==
  /\ reading.stage = "check"
  /\ sending' \in IF Exceeded(reading) \/ Depleted(reading) THEN {TRUE}
                  ELSE IF peak > reading.balance THEN {sending, TRUE} ELSE {sending}
  /\ previous' = reading.balance
  /\ peak' \in {reading.balance} \cup (IF peak > reading.balance THEN {peak} ELSE {})
  /\ reading' = Nothing
  /\ UNCHANGED <<worldVars, height, polled, turns, orders>>

\* Without the config neither check is made.
ConfigFails ==
  /\ reading.stage = "check" /\ Turn
  /\ reading' = Nothing
  /\ UNCHANGED <<worldVars, previous, peak, height, polled, sending, orders>>

(***************************************************************************)
(* checkChainHealth, checkValidatorHealth                                  *)
(***************************************************************************)
\* A node that does not answer has height 0: the chain looks stalled, and the
\* next check sees it leap.
CheckChains ==
  /\ sending' = (sending \/ \/ node = "down" /\ height # "none"
                            \/ node = "stuck" /\ height = "seen")
  /\ height' = IF node = "down" THEN "zero" ELSE "seen"
  /\ UNCHANGED <<worldVars, reading, previous, peak, polled, turns, orders>>

AskValidator ==
  /\ polled.asked < Cardinality(Validators)
  /\ LET v == polled.asked + 1 IN
     polled' = [asked |-> v, active |-> polled.active + IF v \in asleep THEN 0 ELSE 1]
  /\ UNCHANGED <<worldVars, reading, previous, peak, height, sending, turns, orders>>

CheckValidators ==
  /\ polled.asked = Cardinality(Validators)
  /\ sending' = (sending \/ polled.active < MinActive)
  /\ polled' = Nobody
  /\ UNCHANGED <<worldVars, reading, previous, peak, height, turns, orders>>

(***************************************************************************)
(* triggerEmergencyPause, after its awaits: the transaction lands or fails *)
(***************************************************************************)
PauseLands ==
  /\ sending /\ sending' = FALSE /\ paused' = TRUE
  /\ UNCHANGED <<balance, supply, node, asleep, memory, turns, orders>>

PauseFails ==
  /\ sending /\ sending' = FALSE /\ Turn
  /\ UNCHANGED <<worldVars, memory, orders>>

\* What the monitor remembers is lost when it restarts.
Restart ==
  /\ Order
  /\ reading' = Nothing /\ previous' = 0 /\ peak' = 0 /\ height' = "none"
  /\ polled' = Nobody /\ sending' = FALSE
  /\ UNCHANGED <<worldVars, turns>>

World == Bridge \/ Nodes \/ Pause \/ Resume
Supplies == ReadBalance \/ ReadSupply \/ CheckSupply
Next ==
  \/ World \/ Supplies \/ ConfigFails \/ CheckChains
  \/ AskValidator \/ CheckValidators \/ PauseLands \/ PauseFails \/ Restart

Spec == Init /\ [][Next]_vars

\* The timers go on, requests are answered in the end, a pause lands in the end.
Fairness == WF_vars(Supplies) /\ WF_vars(PauseLands)

----------------------------------------------------------------------------
\* "Even if all validators are compromised, the monitor can detect anomalies and
\* trigger pause": a supply that stays above the vault's balance, while the DCC
\* node can be reached, keeps the bridge paused again and again, whatever skew
\* the reads of a check have, whichever of them fail, and whoever resumes.
InsolvencyPauses == <>[](supply > balance /\ node # "down") => []<>paused
=============================================================================
