---------------------------- MODULE MCOffchain ----------------------------
(* Instances for TLC of the programs of Offchain.  They share no state, so  *)
(* a behaviour picks one of them, part, and the others stay where they      *)
(* begin.                                                                   *)
EXTENDS Offchain

VARIABLE part

dVars == <<slot, chain, slotOf, phase, mode, signature, last, batch, feed, deposits,
           verifying, reports, missed, times, injections, stops, forks, misses>>
kVars == <<file, encFile, backups, env, signer, announced, rotated, registered, job,
           generated, toggles, orphaned>>
rVars == <<consensus, landed, relayed, recorded, statuses, scanned, polls, relays,
           started, errors>>
cVars == <<facts, mempool, script, said, runs, setbacks>>
lVars == <<messages>>
eVars == <<deposit, id, log, answer>>
all == <<part, vars, dVars, kVars, rVars, cVars, lVars, eVars>>

mcAll == Faulty
mcSlots == <<1, 1, 3>>
mcSenders == {<<0, 0, 1, 2>>, <<3, 0, 0, 0>>, <<0, 0, 0, 0>>}
mcIds == {<<a, b, c, d>> : a \in {0, 3}, b \in {0, 1}, c \in {0, 2}, d \in {0, 1}}

Begin ==
  /\ part \in {"burns", "deposits", "keys", "bot", "scripts", "tree", "bytes"}
  /\ Init /\ D!Init /\ K!Init /\ R!Init /\ C!Init /\ L!Init /\ E!Init
  /\ part = "deposits" \/ mode = "poll"
  /\ part = "keys" \/ ~env
  /\ part = "bot" \/ ~consensus
  /\ \/ part = "bytes"
     \/ deposit = [to |-> E!Address(0), sender |-> <<0, 0, 0, 0>>, amount |-> 1,
                   slot |-> 0, index |-> 1, nonce |-> 0]

Burning(A) ==
  /\ part = "burns" /\ A
  /\ UNCHANGED <<part, dVars, kVars, rVars, cVars, lVars, eVars>>
Depositing(A) ==
  /\ part = "deposits" /\ A
  /\ UNCHANGED <<part, vars, kVars, rVars, cVars, lVars, eVars>>
Keeping(A) ==
  /\ part = "keys" /\ A
  /\ UNCHANGED <<part, vars, dVars, rVars, cVars, lVars, eVars>>
Relaying(A) ==
  /\ part = "bot" /\ A
  /\ UNCHANGED <<part, vars, dVars, kVars, cVars, lVars, eVars>>
Deploying(A) ==
  /\ part = "scripts" /\ A
  /\ UNCHANGED <<part, vars, dVars, kVars, rVars, lVars, eVars>>
Growing(A) ==
  /\ part = "tree" /\ A
  /\ UNCHANGED <<part, vars, dVars, kVars, rVars, cVars, eVars>>
Translating(A) ==
  /\ part = "bytes" /\ A
  /\ UNCHANGED <<part, vars, dVars, kVars, rVars, cVars, lVars>>

Step ==
  \/ Burning(Next)
  \/ Depositing(D!Next)
  \/ Keeping(K!Next)
  \/ Relaying(R!Next)
  \/ Deploying(C!Next)
  \/ Growing(L!Next)
  \/ Translating(E!Next)

\* The fairness of each part's own specification.  Only one part runs in a
\* behaviour, so that fairness to a disjunction of two parts' actions is
\* fairness to the action of the one that runs.
Following ==
  /\ Begin /\ [][Step]_all
  /\ WF_all(Burning(Poll) \/ Depositing(D!Poll))
  /\ WF_all(Burning(Sweep))
  /\ WF_all(Burning(Finality) \/ Depositing(D!Finality))
  /\ WF_all(Burning(NewBlock) \/ Depositing(D!NewSlot))
  /\ WF_all(Burning(Restart) \/ Depositing(D!Restart))
  /\ \A b \in Burns :
       SF_all(Burning(Located(b)) \/ Depositing(D!Handle(b) \/ D!HandleNothing(b)))
=============================================================================
