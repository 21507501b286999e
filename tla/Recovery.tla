------------------------------ MODULE Recovery ------------------------------
(***************************************************************************)
(* The tools an operator runs when a deposit was locked but not minted:    *)
(* scripts/settle-stuck-deposits.ts, recover-deposit.mjs, generate-proof-  *)
(* host.mjs with resubmit-proof.mjs, recover-stuck-mints.mjs and mint-     *)
(* dusd-correction.mjs, while the validators go on with the same deposits. *)
(*                                                                         *)
(* A contract mints a transfer once and remembers it under a key of its    *)
(* own: the bridge controller, the bridge core's committee path, the core  *)
(* for the proofs of the verifier, the dUSD contract.  A tool waits for    *)
(* every read and every broadcast; it fails where Fails says.              *)
(***************************************************************************)
EXTENDS Integers, Sequences, FiniteSets, SequencesExt

CONSTANTS
  Native, Stable,   \* deposits of SOL and of USDC, in the order of their slots
  Large,            \* native deposits of 100 SOL or more
  Refused,          \* native deposits that mint() throws for
  Listed,           \* the stable deposits the hard-coded lists name
  Limit,            \* --limit of the settling tool
  Recent,           \* how many checkpoints recover-deposit looks at: 21
  Tools,            \* the tools the operator uses
  MaxCheckpoints,   \* bound of the model
  MaxFailures       \* bound of the model: reads and broadcasts that fail

VARIABLES
  seen,         \* deposit records on Solana
  roots,        \* the leaves of the checkpoints, oldest first
  processed,    \* by contract: the deposits it has minted
  run,          \* the tool that is running
  saved,        \* /tmp/proof-data.json: a deposit, the checkpoint its proof is
                \* for, and the checkpoint it is sent with
  settled,      \* history: what the settling tool minted
  failures

chainVars == <<seen, roots, processed>>
vars == <<seen, roots, processed, run, saved, settled, failures>>

Deposits == Native \cup Stable
Contracts == {"controller", "committee", "proof", "dusd"}
NoProof == [deposit |-> 0, root |-> 0, sent |-> 0]
Idle == [tool |-> "none", todo |-> {}, at |-> "next", proof |-> NoProof, sent |-> 0]

Init ==
  /\ seen = {} /\ roots = <<>>
  /\ processed = [k \in Contracts |-> {}]
  /\ run = Idle /\ saved = NoProof /\ settled = {} /\ failures = 0

Minting(k, d) == processed' = [processed EXCEPT ![k] = @ \cup {d}]
Fails == failures < MaxFailures /\ failures' = failures + 1
Runs(t) == run.tool = t

(***************************************************************************)
(* Users and validators                                                    *)
(***************************************************************************)
Deposit(d) ==
  /\ d \notin seen /\ seen' = seen \cup {d}
  /\ UNCHANGED <<roots, processed, run, saved, settled, failures>>

\* Large deposits are put under checkpoints, one by one or several at a time.
Checkpoint(S) ==
  /\ S # {} /\ S \subseteq seen \cap Large /\ Len(roots) < MaxCheckpoints
  /\ S \notin ToSet(roots)
  /\ roots' = Append(roots, S)
  /\ UNCHANGED <<seen, processed, run, saved, settled, failures>>

Mint(d) ==
  /\ \/ d \in (seen \cap Native) \ (Large \cup Refused \cup processed["controller"])
        /\ Minting("controller", d)
     \/ d \in (UNION ToSet(roots)) \ processed["proof"] /\ Minting("proof", d)
     \/ d \in (seen \cap Stable) \ processed["dusd"] /\ Minting("dusd", d)
  /\ UNCHANGED <<seen, roots, run, saved, settled, failures>>

(***************************************************************************)
(* settle-stuck-deposits --broadcast --limit Limit, with an active key on  *)
(* a contract that takes one signature                                     *)
(***************************************************************************)
Settle ==
  /\ run = Idle /\ "settle" \in Tools
  /\ run' = [Idle EXCEPT !.tool = "settle", !.todo = seen]
  /\ UNCHANGED <<chainVars, saved, settled, failures>>

Skips(d) == run' = IF run.todo = {d} THEN Idle
                   ELSE [run EXCEPT !.todo = @ \ {d}, !.at = "next"]

\* processed_ of the controller; a failed read means not processed.
Ask ==
  LET d == Min(run.todo) IN
  /\ Runs("settle") /\ run.at = "next" /\ run.todo # {}
  /\ \/ /\ d \in Stable \cup processed["controller"] /\ Skips(d) /\ UNCHANGED failures
     \/ /\ d \in Native \ processed["controller"]
        /\ run' = IF run.sent >= Limit THEN Idle ELSE [run EXCEPT !.at = "send"]
        /\ UNCHANGED failures
     \/ /\ d \in processed["controller"] /\ Fails
        /\ run' = IF run.sent >= Limit THEN Idle ELSE [run EXCEPT !.at = "send"]
  /\ UNCHANGED <<chainVars, saved, settled>>

SettlesNothing ==
  /\ Runs("settle") /\ run.todo = {} /\ run' = Idle
  /\ UNCHANGED <<chainVars, saved, settled, failures>>

Send ==
  LET d == Min(run.todo) IN
  /\ Runs("settle") /\ run.at = "send" /\ d \notin processed["controller"] \cup Refused
  /\ Minting("controller", d) /\ settled' = settled \cup {d}
  /\ run' = IF run.todo = {d} THEN Idle
            ELSE [run EXCEPT !.todo = @ \ {d}, !.at = "next", !.sent = @ + 1]
  /\ UNCHANGED <<seen, roots, saved, failures>>

SendFailsForGood ==  \* mutation: a failure ends the run
  /\ Runs("settle") /\ run.at = "send"
  /\ \/ Min(run.todo) \in processed["controller"] \cup Refused /\ UNCHANGED failures
     \/ Fails
  /\ run' = Idle
  /\ UNCHANGED <<chainVars, saved, settled>>

SendFails ==
  LET d == Min(run.todo) IN
  /\ Runs("settle") /\ run.at = "send"
  /\ \/ d \in processed["controller"] \cup Refused /\ UNCHANGED failures
     \/ Fails
  /\ Skips(d)
  /\ UNCHANGED <<chainVars, saved, settled>>

(***************************************************************************)
(* recover-deposit: one deposit by its id, or all that a scan finds; the   *)
(* first one that cannot be recovered ends the process                     *)
(***************************************************************************)
\* It asks the verifier for message ids in hexadecimal, while the keys have them
\* in base 58: only what the committee path minted counts as processed.
Scan ==
  /\ run = Idle /\ "recover" \in Tools /\ seen # {}
  /\ LET missed == seen \ processed["committee"] IN
     \/ \E d \in seen : run' = [Idle EXCEPT !.tool = "recover", !.todo = {d}]
     \/ run' = IF missed = {} THEN Idle
               ELSE [Idle EXCEPT !.tool = "recover", !.todo = missed]
  /\ UNCHANGED <<chainVars, saved, settled, failures>>

\* The newest first; its root must be that of a tree with nothing else in it.
Look ==
  LET d == Max(run.todo)
      found == {c \in 1..Len(roots) : c >= Len(roots) - Recent + 1 /\ roots[c] = {d}}
  IN
  /\ Runs("recover") /\ run.at = "next"
  /\ run' = IF found = {} THEN Idle
            ELSE [run EXCEPT !.at = "prove", !.proof =
                    [deposit |-> d, root |-> Max(found), sent |-> Max(found)]]
  /\ UNCHANGED <<chainVars, saved, settled, failures>>

\* verifyAndMint, 3 to 5 minutes later.
Accepts(p) ==
  /\ p.root # 0 /\ p.sent \in 1..Len(roots) /\ roots[p.sent] = roots[p.root]
  /\ p.deposit \notin processed["proof"]

Prove ==
  LET p == run.proof IN
  /\ run.tool \in {"recover", "host"} /\ run.at = "prove"
  /\ \/ Accepts(p) /\ Minting("proof", p.deposit) /\ Skips(p.deposit) /\ UNCHANGED failures
     \/ ~Accepts(p) /\ run' = Idle /\ UNCHANGED <<processed, failures>>
     \/ Fails /\ run' = Idle /\ UNCHANGED processed
  /\ saved' = IF Runs("host") THEN p ELSE saved
  /\ UNCHANGED <<seen, roots, settled>>

\* generate-proof-host: the deposit of the hard-coded sender that has the slot of
\* the latest checkpoint, or else its latest; the proof may be for an older
\* checkpoint, but is sent with the number of the latest.
ProveOnHost ==
  LET n == Len(roots) IN
  /\ run = Idle /\ "host" \in Tools /\ n > 0
  /\ \E d \in seen \cap Native :
       \E c \in {i \in 1..n : i >= n - 5 /\ roots[i] = {d}} :
          /\ \A i \in c+1..n : roots[i] # {d}
          /\ run' = [Idle EXCEPT !.tool = "host", !.todo = {d}, !.at = "prove",
                                 !.proof = [deposit |-> d, root |-> c, sent |-> n]]
  /\ UNCHANGED <<chainVars, saved, settled, failures>>

Resubmit ==
  /\ run = Idle /\ "host" \in Tools /\ Accepts(saved)
  /\ Minting("proof", saved.deposit)
  /\ UNCHANGED <<seen, roots, run, saved, settled, failures>>

(***************************************************************************)
(* recover-stuck-mints, mint-dusd-correction: hard-coded lists             *)
(***************************************************************************)
\* No check at all, and a refusal is passed over.
MintStuck ==
  /\ run = Idle /\ "stuck" \in Tools
  /\ \E S \in SUBSET (Listed \ processed["committee"]) :
        processed' = [processed EXCEPT !["committee"] = @ \cup S]
  /\ UNCHANGED <<seen, roots, run, saved, settled, failures>>

\* Any entry for a listed transfer aborts it; so does a failure halfway.
Correct ==
  /\ run = Idle /\ "dusd" \in Tools /\ Listed # {} /\ Listed \cap processed["dusd"] = {}
  /\ run' = [Idle EXCEPT !.tool = "dusd", !.todo = Listed]
  /\ UNCHANGED <<chainVars, saved, settled, failures>>

MintDusd ==
  /\ Runs("dusd")
  /\ LET d == Min(run.todo) IN
     \/ d \notin processed["dusd"] /\ Minting("dusd", d) /\ Skips(d) /\ UNCHANGED failures
     \/ d \in processed["dusd"] /\ run' = Idle /\ UNCHANGED <<processed, failures>>
     \/ Fails /\ run' = Idle /\ UNCHANGED processed
  /\ UNCHANGED <<seen, roots, saved, settled>>

Settling == Settle \/ Ask \/ SettlesNothing \/ Send \/ SendFails
Proving == Scan \/ Look \/ Prove \/ ProveOnHost \/ Resubmit
Listing == MintStuck \/ Correct \/ MintDusd
Outside == \/ \E d \in Deposits : Deposit(d) \/ Mint(d)
           \/ \E S \in SUBSET Large : Checkpoint(S)

Next == Outside \/ Settling \/ Proving \/ Listing

Spec == Init /\ [][Next]_vars

Goes == Ask \/ SettlesNothing \/ Send \/ SendFails \/ Look \/ Prove \/ MintDusd

\* A tool that runs goes on, and the operator runs the settling tool again and
\* again among the others.
Fairness ==
  /\ SF_vars(Settle)
  /\ WF_vars(Goes)

MintedBy(d) == {k \in Contracts : d \in processed[k]}

----------------------------------------------------------------------------
\* "Settles deposits that locked funds but never minted": every native deposit
\* the contract does not refuse is minted in the end, although others are
\* refused in every run, validators race the tool, reads and broadcasts fail and
\* a run ends at its limit.
StuckSettled ==
  []<>(\A d \in Native \ Refused : d \in seen => MintedBy(d) # {})

\* "Every mint is checked against isTransferProcessed on-chain first, so
\* re-running is safe and cannot double-mint": what the tool minted was minted
\* by nobody else.
CannotDoubleMint == \A d \in settled : MintedBy(d) = {"controller"}
=============================================================================
