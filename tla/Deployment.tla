----------------------------- MODULE Deployment -----------------------------
(***************************************************************************)
(* The scripts that put the contracts on the chains and configure them.    *)
(*                                                                         *)
(* A chain is the set of facts its accounts show: the code of account A    *)
(* ("controller" or "bridge"), of account B ("verifier") and of the dUSD   *)
(* account, and the data entries the calls leave.  Account A is the one    *)
(* the environment's nonce gives every script of the bridge.  A script is  *)
(* a list of transactions; it broadcasts one, waits for it, and goes on.   *)
(* The node refuses a transaction that its state makes fail, and a         *)
(* transaction it took may reach a block late, or never.  An operator runs *)
(* one script at a time, and runs another, or the same again, when one     *)
(* stops.  One token stands for the registry of sixteen.                   *)
(***************************************************************************)
EXTENDS Integers, Sequences, FiniteSets

CONSTANTS
  MaxRuns,      \* bound of the model: scripts started
  MaxFaults     \* bound of the model: crashes and transactions not seen in time

VARIABLES
  chain,        \* the facts in force
  pending,      \* transactions the node took and no block holds
  script,       \* the running script: its name, its steps left, the one awaited
  said,         \* history: scripts that announced completion
  runs, faults

vars == <<chain, pending, script, said, runs, faults>>

(***************************************************************************)
(* Transactions: what each needs, what makes it fail, what it leaves       *)
(***************************************************************************)
CodeOfA == {"controller", "bridge"}
Call(fact, needs, bars) ==
  [adds |-> {fact}, drops |-> {}, needs |-> needs, bars |-> bars,
   unless |-> {}, tolerant |-> FALSE]
SetScript(code) ==
  [Call(code, {}, {}) EXCEPT !.drops = IF code \in CodeOfA THEN CodeOfA \ {code} ELSE {}]
Unless(facts, tx) == [tx EXCEPT !.unless = facts]   \* skipped when one shows
Tolerant(tx) == [tx EXCEPT !.tolerant = TRUE]       \* a refusal is passed over

\* The controller and the bridge core both call their owner's entry "admin";
\* no script calls the core's initialize, which takes one argument, not two.
Initialize == Call("admin", {"controller"}, {"admin"})
RegisterValidator == Call("validator", {"controller", "admin"}, {"validator"})
RegisterToken == Call("token", {"controller", "admin"}, {"token"})
InitializeCommittee == Call("members", {"bridge", "admin"}, {})
SetZkVerifier == Call("link", {"bridge", "admin"}, {})
InitializeVerifier == Call("admin of B", {"verifier"}, {"admin of B"})
SetVerifyingKey == Call("key", {"verifier", "admin of B"}, {"key"})
InitializeCommitteeOfB == Call("members of B", {"verifier", "admin of B"}, {})
NoSuchFunction(f) == Call(f, {f}, {})
InitializeDusd == Call("admin of dusd", {"dusd"}, {"admin of dusd"})
RegisterDusdValidator ==
  Call("validator of dusd", {"dusd", "admin of dusd"}, {"validator of dusd"})
InitializeVault == Call("vault", {}, {"vault"})
CreateMultisig == Call("multisig", {}, {"multisig"})

(***************************************************************************)
(* Scripts: code is the contract the environment names for account A       *)
(***************************************************************************)
Deploy(code) == <<SetScript(code), Initialize, RegisterValidator>>
DeployDccMainnet(code) == Deploy(code) \o <<Tolerant(RegisterToken)>>
DeployDccMainnetV2 == Deploy("controller") \o <<Tolerant(RegisterToken)>>
DeployDccCjs == Deploy("controller") \o <<RegisterToken>>
ScriptsDeployDcc(code) ==
  <<Unless(CodeOfA, SetScript(code)), Unless({"admin"}, Initialize),
    Unless({"validator"}, RegisterValidator)>>
DeployDusd == <<SetScript("dusd"), InitializeDusd, RegisterDusdValidator>>
RedeployBridgeContract == <<SetScript("controller")>>
UpgradeDccContract(code) == <<SetScript(code)>>
InitCommittee == <<InitializeCommittee>>
SetMintCaps == <<Call("cap on one mint", {"controller", "admin"}, {}),
                 Call("cap on a day", {"controller", "admin"}, {})>>
DeployZkVerifier ==
  <<SetScript("verifier"), InitializeVerifier, SetScript("bridge"), SetZkVerifier,
    SetVerifyingKey, InitializeCommitteeOfB>>
DeployZkVerifierContinue ==
  <<Unless({"key"}, SetVerifyingKey),
    Unless({"members of B"}, InitializeCommitteeOfB)>>
RedeployContractB == <<SetScript("verifier")>>
RedeployContractBV2 ==
  <<SetScript("verifier"), NoSuchFunction("resetVerifyingKey"), SetVerifyingKey>>
UploadCompressedVk == <<NoSuchFunction("resetVerifyingKey"), SetVerifyingKey>>
UploadNewVk == <<SetVerifyingKey>>
InitializeBridge == <<InitializeVault>>
SetupMultisig ==
  <<CreateMultisig, NoSuchFunction("update_config of one key"),
    NoSuchFunction("update_guardian")>>

Steps(name, code) ==
  CASE name = "deploy-dcc" -> Deploy(code)
    [] name = "deploy-dcc-mainnet" -> DeployDccMainnet(code)
    [] name = "deploy-dcc-mainnet-v2" -> DeployDccMainnetV2
    [] name = "deploy-dcc.cjs" -> DeployDccCjs
    [] name = "scripts/deploy-dcc" -> ScriptsDeployDcc(code)
    [] name = "deploy-dusd" -> DeployDusd
    [] name = "redeploy-bridge-contract" -> RedeployBridgeContract
    [] name = "upgrade-dcc-contract" -> UpgradeDccContract(code)
    [] name = "init-committee" -> InitCommittee
    [] name = "set-mint-caps" -> SetMintCaps
    [] name = "deploy-zk-verifier" -> DeployZkVerifier
    [] name = "deploy-zk-verifier-continue" -> DeployZkVerifierContinue
    [] name = "redeploy-contract-b" -> RedeployContractB
    [] name = "redeploy-contract-b-v2" -> RedeployContractBV2
    [] name = "upload-compressed-vk" -> UploadCompressedVk
    [] name = "upload-new-vk" -> UploadNewVk
    [] name = "initialize-bridge" -> InitializeBridge
    [] name = "setup-multisig" -> SetupMultisig

Names ==
  {"deploy-dcc", "deploy-dcc-mainnet", "deploy-dcc-mainnet-v2", "deploy-dcc.cjs",
   "scripts/deploy-dcc", "deploy-dusd", "redeploy-bridge-contract",
   "upgrade-dcc-contract", "init-committee", "set-mint-caps", "deploy-zk-verifier",
   "deploy-zk-verifier-continue", "redeploy-contract-b", "redeploy-contract-b-v2",
   "upload-compressed-vk", "upload-new-vk", "initialize-bridge", "setup-multisig"}
\* These exit at their start, having said that the work was done before.
Looks(name) ==
  CASE name \in {"deploy-dcc", "deploy-dcc-mainnet", "deploy-dcc-mainnet-v2",
                 "deploy-dcc.cjs"} -> {"admin"}
    [] name = "deploy-dusd" -> {"admin of dusd"}
    [] OTHER -> {}
\* This one gives up at its start.
GivesUp(name) == IF name = "upload-new-vk" THEN {"key"} ELSE {}
\* These wait for a transaction in vain and go on, or do not wait.
Careless == {"upload-compressed-vk", "redeploy-contract-b", "set-mint-caps"}

NoScript == [name |-> "none", left |-> <<>>, awaits |-> FALSE]
Running == script # NoScript
Tx == script.left[1]
Onward == [script EXCEPT !.left = Tail(@), !.awaits = FALSE]

Init ==
  /\ chain = {} /\ pending = {} /\ script = NoScript /\ said = {}
  /\ runs = 0 /\ faults = 0

Start(name, code) ==
  /\ ~Running /\ runs < MaxRuns /\ runs' = runs + 1
  /\ script' = IF (Looks(name) \cup GivesUp(name)) \cap chain # {} THEN NoScript
               ELSE [name |-> name, left |-> Steps(name, code), awaits |-> FALSE]
  /\ UNCHANGED <<chain, pending, said, faults>>

Allowed(tx) == tx.needs \subseteq chain /\ tx.bars \cap chain = {}

\* The script finds the step done, or broadcasts its transaction, or is told
\* that the node refuses it.
Do ==
  /\ Running /\ script.left # <<>> /\ ~script.awaits
  /\ \/ /\ Tx.unless \cap chain # {}
        /\ script' = Onward /\ UNCHANGED pending
     \/ /\ Tx.unless \cap chain = {} /\ Allowed(Tx)
        /\ pending' = pending \cup {Tx}
        /\ script' = [script EXCEPT !.awaits = TRUE]
     \/ /\ Tx.unless \cap chain = {} /\ ~Allowed(Tx)
        /\ script' = IF Tx.tolerant THEN Onward ELSE NoScript
        /\ UNCHANGED pending
  /\ UNCHANGED <<chain, said, runs, faults>>

\* A transaction reaches a block, or no longer applies and is dropped.
Land(tx) ==
  /\ tx \in pending /\ pending' = pending \ {tx}
  /\ chain' = IF Allowed(tx) THEN (chain \ tx.drops) \cup tx.adds ELSE chain
  /\ UNCHANGED <<script, said, runs, faults>>

\* One nobody waits for any more may be forgotten by the node.
Forgotten(tx) ==
  /\ tx \in pending /\ pending' = pending \ {tx}
  /\ ~(Running /\ script.awaits /\ Tx = tx)
  /\ UNCHANGED <<chain, script, said, runs, faults>>

\* The transaction awaited is seen in a block.
Confirmed ==
  /\ Running /\ script.awaits /\ Tx \notin pending /\ Tx.adds \subseteq chain
  /\ script' = Onward
  /\ UNCHANGED <<chain, pending, said, runs, faults>>

\* mutation: a transaction not seen in time is taken for confirmed.
UnconfirmedPassed ==
  /\ Running /\ script.awaits /\ faults < MaxFaults /\ faults' = faults + 1
  /\ script' = Onward
  /\ UNCHANGED <<chain, pending, said, runs>>

\* The transaction awaited is not seen in time: the script throws, or goes on.
Unconfirmed ==
  /\ Running /\ script.awaits /\ faults < MaxFaults /\ faults' = faults + 1
  /\ script' = IF script.name \in Careless THEN Onward ELSE NoScript
  /\ UNCHANGED <<chain, pending, said, runs>>

\* One that was dropped is never seen.
NeverSeen ==
  /\ Running /\ script.awaits /\ Tx \notin pending /\ ~(Tx.adds \subseteq chain)
  /\ script' = IF script.name \in Careless THEN Onward ELSE NoScript
  /\ UNCHANGED <<chain, pending, said, runs, faults>>

Crash ==
  /\ Running /\ faults < MaxFaults /\ faults' = faults + 1 /\ script' = NoScript
  /\ UNCHANGED <<chain, pending, said, runs>>

\* "Deployment complete".
Finish ==
  /\ Running /\ script.left = <<>> /\ script' = NoScript
  /\ said' = said \cup {script.name}
  /\ UNCHANGED <<chain, pending, runs, faults>>

Next ==
  \/ \E name \in Names, code \in CodeOfA : Start(name, code)
  \/ Do \/ Confirmed \/ Unconfirmed \/ NeverSeen \/ Crash \/ Finish
  \/ \E tx \in pending : Land(tx) \/ Forgotten(tx)

Spec == Init /\ [][Next]_vars

-----------------------------------------------------------------------------
\* The data entries a script's calls leave: code may be replaced afterwards.
Promised(name) ==
  (UNION {Steps(name, "controller")[k].adds :
            k \in {k \in DOMAIN Steps(name, "controller") :
                     ~Steps(name, "controller")[k].tolerant}})
    \ (CodeOfA \cup {"verifier", "dusd"})

\* A script that waits for its transactions and announces completion (other
\* than one that found an owner at its start and did nothing) leaves every
\* owner, validator, token, committee, link and key of its list on the chain,
\* whatever ran, crashed, landed late or was lost before it.
CompleteInForce == \A name \in said \ Careless : Promised(name) \subseteq chain
=============================================================================
