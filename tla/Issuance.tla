------------------------------ MODULE Issuance ------------------------------
(***************************************************************************)
(* What the DecentralChain bridge promises of a deposit, whatever path,    *)
(* limit or role is involved: a transfer is issued at once or promised; a  *)
(* promise is kept after a delay, or withdrawn for good; and tokens come   *)
(* into circulation in no other way.  ZkBridge implements this.            *)
(***************************************************************************)
EXTENDS Integers

CONSTANTS
  Ids,            \* transfers
  Units,          \* amounts that may be issued
  Delay           \* between a promise and its issue

VARIABLES
  stage,          \* "new", "promised", "issued" or "withdrawn", by id
  due,            \* what was promised, and when
  circulating,
  now

issuanceVars == <<stage, due, circulating, now>>

Nothing == [amount |-> 0, height |-> 0]

Init ==
  /\ stage = [i \in Ids |-> "new"]
  /\ due = [i \in Ids |-> Nothing]
  /\ circulating = 0 /\ now = 1

Pay(i, units) ==
  /\ stage' = [stage EXCEPT ![i] = "issued"]
  /\ due' = [due EXCEPT ![i] = Nothing]
  /\ circulating' = circulating + units
  /\ UNCHANGED now

Issue(i) == stage[i] = "new" /\ \E units \in Units : Pay(i, units)

Promise(i) ==
  /\ stage[i] = "new"
  /\ stage' = [stage EXCEPT ![i] = "promised"]
  /\ \E units \in Units : due' = [due EXCEPT ![i] = [amount |-> units, height |-> now]]
  /\ UNCHANGED <<circulating, now>>

Keep(i) ==
  /\ stage[i] = "promised"
  /\ now - due[i].height >= Delay
  /\ Pay(i, due[i].amount)

Withdraw(i) ==
  /\ stage[i] = "promised"
  /\ stage' = [stage EXCEPT ![i] = "withdrawn"]
  /\ due' = [due EXCEPT ![i] = Nothing]
  /\ UNCHANGED <<circulating, now>>

Retire ==
  /\ \E units \in 0..circulating : circulating' = circulating - units
  /\ UNCHANGED <<stage, due, now>>

Tick == now' = now + 1 /\ UNCHANGED <<stage, due, circulating>>

Next ==
  \/ \E i \in Ids : Issue(i) \/ Promise(i) \/ Keep(i) \/ Withdraw(i)
  \/ Retire \/ Tick

Spec == Init /\ [][Next]_issuanceVars
=============================================================================
