-------------------------- MODULE ZkPipelineProofs --------------------------
(***************************************************************************)
(* Theorems about ZkPipeline for every value of its constants: any number  *)
(* of validators, deposits and windows, any set-up (who hears of what, who *)
(* proves, what may fail), any number of crashes.                          *)
(*                                                                         *)
(* The state falls into what the contract keeps and what the nodes keep;   *)
(* all they share is `computed`, the roots each node has computed, which   *)
(* only grows.  So each half of the invariant is kept by every step that   *)
(* lets the other half only grow, and an action needs one fact about each. *)
(***************************************************************************)
EXTENDS ZkPipeline, TLAPS, SequenceTheorems, FiniteSetTheorems, WellFoundedInduction

----------------------------------------------------------------------------
(* The inductive invariant *)

Stages == {"none", "open", "closing", "approving", "proposing", "naming",
           "polling", "reading", "proving"}
Window == [stage : Stages, events : Seq(Deposits), proposal : Nat,
           checkpoint : Nat, done : Nat]
NodeState == [win : [Slots -> Window], current : Slots \cup {0},
              handle : Slots \cup {0}, armed : SUBSET Slots]

\* What a window of a node may hold, when the node has been told of the deposits t
\* and has computed the roots k, the deposits h are minted or given up, and the
\* contract has given out the proposals below np and the checkpoints below nc.
Proper(W, t, h, k, np, nc) ==
  /\ W \in Window
  /\ Elements(W.events) \subseteq t
  /\ W.stage = "none" => W.events = <<>>
  /\ W.stage \notin {"none", "open"} => W.events # <<>>
  /\ W.stage \notin {"none", "open", "closing"} => W.events \in k
  /\ W.stage = "naming" => np >= 1
  /\ W.stage \in {"approving", "polling"} => W.proposal < np
  /\ W.stage = "reading" => nc >= 1
  /\ W.stage = "proving" => W.checkpoint < nc /\ W.done < Len(W.events)
  /\ W.stage # "proving" => W.done = 0
  /\ \A i \in 1..Len(W.events) : i <= W.done => W.events[i] \in h

Good(x, t, h, k, np, nc) ==
  x \in NodeState /\ \A w \in Slots : Proper(x.win[w], t, h, k, np, nc)
Holds(x) == UNION {Elements(x.win[w].events) : w \in Slots}

NodeTypes ==
  /\ setup \in Setups
  /\ phase \in [Nodes -> {"down", "starting", "scanning", "running"}]
  /\ win \in [Nodes -> [Slots -> Window]]
  /\ current \in [Nodes -> Slots \cup {0}] /\ handle \in [Nodes -> Slots \cup {0}]
  /\ armed \in [Nodes -> SUBSET Slots]
  /\ told \in [Nodes -> SUBSET Deposits]
  /\ computed \in [Nodes -> SUBSET Seq(Deposits)]
  /\ dropped \in [Nodes -> SUBSET Deposits]
  /\ crashes \in Nat

Windows ==
  \A n \in Nodes : Good(Node(n), told[n], processed \cup dropped[n], computed[n],
                        nextProposal, nextCheckpoint)
Rooted ==
  \A n \in Nodes : \A w \in Slots :
     win[n][w].stage = "closing" => win[n][w].events \in computed[n]
Learned == \A n \in Nodes : \A r \in computed[n] : Elements(r) \subseteq told[n]

ContractTypes ==
  /\ committee = Nodes /\ threshold = Threshold
  /\ nextProposal \in V!Numbers /\ nextCheckpoint \in V!CheckpointIds
  /\ proposals \in [V!Numbers -> [root : Seq(Deposits), approvals : Nat,
                                  finalized : BOOLEAN]]
  /\ approved \in [V!Numbers -> SUBSET Nodes]
  /\ checkpoints \in [V!CheckpointIds -> [root : Seq(Deposits), height : Nat,
                                          active : BOOLEAN]]
  /\ processed \subseteq Deposits
  /\ minted \in Seq([message : Deposits, checkpoint : V!CheckpointIds, height : Nat])
  /\ mail \subseteq [by : Nodes, proposal : V!Numbers, root : Seq(Deposits)]

Knowing(r) == {n \in Nodes : r \in computed[n]}
Attested ==
  /\ \A p \in V!Numbers :
       IF p < nextProposal
       THEN /\ proposals[p].approvals = Cardinality(approved[p])
            /\ approved[p] \subseteq Knowing(proposals[p].root)
       ELSE approved[p] = {}
  /\ \A p \in V!Numbers : proposals[p].finalized => nextCheckpoint >= 1
Mailed ==
  \A a \in mail : a.proposal < nextProposal /\
                  a.by \in Knowing(proposals[a.proposal].root)
Agreed ==
  \A c \in V!CheckpointIds : c < nextCheckpoint =>
     Cardinality(Knowing(checkpoints[c].root)) >= Threshold
Proven ==
  \A i \in 1..Len(minted) :
     /\ minted[i].checkpoint < nextCheckpoint
     /\ minted[i].message \in Elements(checkpoints[minted[i].checkpoint].root)

NodeInv == NodeTypes /\ Windows /\ Rooted /\ Learned /\ Accounted
ContractInv == ContractTypes /\ Attested /\ Mailed /\ Agreed /\ Proven
Inv == NodeInv /\ ContractInv

----------------------------------------------------------------------------
(* Operators of the model *)

LEMMA Constants ==
  /\ IsFiniteSet(Nodes) /\ Threshold \in {2, 3} /\ Slots \subseteq Nat \ {0}
  /\ Slots # {} /\ MaxEvents \in Nat \ {0}
  /\ MaxProposals \in Nat /\ MaxCheckpoints \in Nat
BY ZkPipelineConstants

\* A nonempty set of numbers has a least element, a bounded one a greatest.
LEMMA LeastIn ==
  ASSUME NEW S \in SUBSET Nat, S # {}
  PROVE  Min(S) \in S /\ \A y \in S : Min(S) <= y
<1>1. PICK m \in S : \A y \in S : <<y, m>> \notin OpToRel(<, Nat)
  BY NatLessThanWellFounded, WFMin
<1>2. ASSUME NEW y \in S PROVE m <= y
  <2>1. y \in Nat /\ m \in Nat
    OBVIOUS
  <2>2. ~(y < m)
    BY <1>1, <2>1, Zenon DEF OpToRel
  <2> QED BY <2>1, <2>2
<1> QED BY <1>2 DEF Min

LEMMA GreatestIn ==
  ASSUME NEW b \in Nat, NEW S \in SUBSET (0..b), S # {} PROVE Max(S) \in S
<1> DEFINE Above == {u \in 0..b : \A y \in S : y <= u}
<1>1. Above \in SUBSET Nat /\ b \in Above
  OBVIOUS
<1>2. PICK m \in Above : \A u \in Above : m <= u
  <2> HIDE DEF Above
  <2> QED BY <1>1, LeastIn
<1>3. m \in S
  <2> SUFFICES ASSUME m \notin S PROVE FALSE
    OBVIOUS
  <2>1. m \in Nat /\ \A y \in S : y \in Nat /\ y < m
    BY <1>2
  <2>2. PICK y \in S : TRUE
    OBVIOUS
  <2>3. m - 1 \in Above
    BY <2>1, <2>2
  <2> QED BY <1>2, <2>1, <2>3
<1> QED BY <1>2, <1>3 DEF Max

LEMMA ElementsNone == Elements(<<>>) = {}
BY DEF Elements

LEMMA ElementsAppend ==
  ASSUME NEW s \in Seq(Deposits), NEW d \in Deposits
  PROVE  /\ Append(s, d) \in Seq(Deposits) /\ Append(s, d) # <<>>
         /\ Elements(Append(s, d)) = Elements(s) \cup {d}
         /\ Len(Append(s, d)) = Len(s) + 1
<1>1. /\ Append(s, d) \in Seq(Deposits) /\ Len(Append(s, d)) = Len(s) + 1
      /\ \A i \in 1..Len(s) : Append(s, d)[i] = s[i]
      /\ Append(s, d)[Len(s) + 1] = d /\ Len(s) \in Nat
  OBVIOUS
<1>2. Elements(Append(s, d)) \subseteq Elements(s) \cup {d}
  BY <1>1 DEF Elements
<1>3. Elements(s) \cup {d} \subseteq Elements(Append(s, d))
  BY <1>1 DEF Elements
<1> QED BY <1>1, <1>2, <1>3

LEMMA ElementsIn ==
  ASSUME NEW s \in Seq(Deposits), NEW i \in 1..Len(s)
  PROVE  s[i] \in Elements(s) /\ s[i] \in Deposits
BY DEF Elements

LEMMA Windowed == NoWindow \in Window /\ Fresh \in Window /\ Fresh.stage = "open"
                  /\ Fresh.events = <<>> /\ Fresh.done = 0
<1>1. <<>> \in Seq(Deposits) /\ 0 \in Nat
  OBVIOUS
<1>2. NoWindow \in Window /\ NoWindow.events = <<>> /\ NoWindow.done = 0
  BY <1>1 DEF NoWindow, Window, Stages
<1>3. /\ Fresh \in Window /\ Fresh.stage = "open" /\ Fresh.events = NoWindow.events
      /\ Fresh.done = NoWindow.done
  BY <1>2 DEF Fresh, Window, Stages
<1> QED BY <1>2, <1>3

----------------------------------------------------------------------------
(* What the steps of a node do to its windows *)

LEMMA ProperGrows ==
  ASSUME NEW W, NEW t, NEW h, NEW k, NEW np, NEW nc, np \in Nat, nc \in Nat,
         NEW t2, NEW h2, NEW k2, NEW np2, NEW nc2, np2 \in Nat, nc2 \in Nat,
         t \subseteq t2, h \subseteq h2, k \subseteq k2, np <= np2, nc <= nc2,
         Proper(W, t, h, k, np, nc)
  PROVE  Proper(W, t2, h2, k2, np2, nc2)
<1>1. W \in Window /\ W.proposal \in Nat /\ W.checkpoint \in Nat
  BY DEF Proper, Window
<1> QED BY <1>1 DEF Proper

LEMMA GoodGrows ==
  ASSUME NEW x, NEW t, NEW h, NEW k, NEW np, NEW nc, np \in Nat, nc \in Nat,
         NEW t2, NEW h2, NEW k2, NEW np2, NEW nc2, np2 \in Nat, nc2 \in Nat,
         t \subseteq t2, h \subseteq h2, k \subseteq k2, np <= np2, nc <= nc2,
         Good(x, t, h, k, np, nc)
  PROVE  Good(x, t2, h2, k2, np2, nc2)
BY ProperGrows DEF Good

\* A window that does not exist, and one just opened, may be in any state.
LEMMA ProperFresh ==
  ASSUME NEW t, NEW h, NEW k, NEW np, NEW nc
  PROVE  Proper(NoWindow, t, h, k, np, nc) /\ Proper(Fresh, t, h, k, np, nc)
<1>1. /\ NoWindow.stage = "none" /\ NoWindow.events = <<>> /\ NoWindow.done = 0
      /\ Len(<<>>) = 0
  BY DEF NoWindow
<1> QED BY <1>1, Windowed, ElementsNone DEF Proper

LEMMA With1 ==
  ASSUME NEW x \in NodeState, NEW w \in Slots, NEW rec \in Window
  PROVE  /\ [x EXCEPT !.win[w] = rec] \in NodeState
         /\ [x EXCEPT !.win[w] = rec].win = [x.win EXCEPT ![w] = rec]
         /\ [x EXCEPT !.win[w] = rec].win[w] = rec
         /\ \A v \in Slots : v # w => [x EXCEPT !.win[w] = rec].win[v] = x.win[v]
         /\ [x EXCEPT !.win[w] = rec].current = x.current
<1> DEFINE u == [x.win EXCEPT ![w] = rec]
           y == [x EXCEPT !.win = u]
<1>1. u \in [Slots -> Window] /\ u[w] = rec /\ \A v \in Slots : v # w => u[v] = x.win[v]
  BY DEF NodeState
<1>2. y = [x EXCEPT !.win[w] = rec]
  OBVIOUS
<1> HIDE DEF u
<1>3. y \in NodeState /\ y.win = u /\ y.current = x.current
  BY <1>1 DEF NodeState
<1>4. u = [x.win EXCEPT ![w] = rec]
  BY DEF u
<1> HIDE DEF y
<1> QED BY <1>1, <1>2, <1>3, <1>4

\* One window replaced by a proper one.
LEMMA GoodWith ==
  ASSUME NEW t, NEW h, NEW k, NEW np, NEW nc, NEW x, Good(x, t, h, k, np, nc),
         NEW w \in Slots, NEW rec, Proper(rec, t, h, k, np, nc)
  PROVE  Good([x EXCEPT !.win[w] = rec], t, h, k, np, nc)
<1>1. x \in NodeState /\ rec \in Window
  BY DEF Good, Proper
<1> DEFINE y == [x EXCEPT !.win[w] = rec]
<1>2. /\ y \in NodeState /\ y.win[w] = rec
      /\ \A v \in Slots : v # w => y.win[v] = x.win[v]
  BY <1>1, With1
<1> HIDE DEF y
<1>3. Good(y, t, h, k, np, nc)
  BY <1>2 DEF Good
<1> QED BY <1>3 DEF y

LEMMA HoldsWith ==
  ASSUME NEW x \in NodeState, NEW w \in Slots, NEW rec \in Window
  PROVE  /\ Holds(x) \subseteq Holds([x EXCEPT !.win[w] = rec])
                                 \cup Elements(x.win[w].events)
         /\ Elements(rec.events) \subseteq Holds([x EXCEPT !.win[w] = rec])
<1> DEFINE y == [x EXCEPT !.win[w] = rec]
<1>1. /\ y \in NodeState /\ y.win[w] = rec
      /\ \A v \in Slots : v # w => y.win[v] = x.win[v]
  BY With1
<1> HIDE DEF y
<1>2. Elements(rec.events) \subseteq Holds(y)
  BY <1>1 DEF Holds
<1>3. Holds(x) \subseteq Holds(y) \cup Elements(x.win[w].events)
  BY <1>1 DEF Holds
<1> QED BY <1>2, <1>3 DEF y

\* openNewWindow takes a free window, closeWindow keeps the events.
LEMMA GoodOpen ==
  ASSUME NEW t, NEW h, NEW k, NEW np, NEW nc, NEW x, Good(x, t, h, k, np, nc),
         Free(x) # {}
  PROVE  /\ Good(Open(x), t, h, k, np, nc) /\ Holds(x) \subseteq Holds(Open(x))
         /\ Open(x).current \in Slots /\ Open(x).win[Open(x).current].stage = "open"
<1>1. x \in NodeState /\ x.win \in [Slots -> Window] /\ x.armed \subseteq Slots
  BY DEF Good, NodeState
<1>2. Min(Free(x)) \in Free(x)
  BY Constants, LeastIn DEF Free
<1> DEFINE w == Min(Free(x))
           u == [x.win EXCEPT ![w] = Fresh]
           y == [win |-> u, current |-> w, handle |-> w, armed |-> x.armed \cup {w}]
<1>3. w \in Slots /\ x.win[w].stage = "none" /\ Open(x) = y
  BY <1>2 DEF Free, Open
<1> HIDE DEF w
<1>4. u \in [Slots -> Window] /\ u[w] = Fresh /\ \A v \in Slots : v # w => u[v] = x.win[v]
  BY <1>1, <1>3, Windowed
<1> HIDE DEF u
<1>5. y \in NodeState /\ y.win = u /\ y.current = w
  BY <1>1, <1>3, <1>4 DEF NodeState
<1> HIDE DEF y
<1>6. Good(y, t, h, k, np, nc)
  <2>1. Proper(Fresh, t, h, k, np, nc)
    BY ProperFresh
  <2> QED BY <1>3, <1>4, <1>5, <2>1 DEF Good
<1>7. Elements(x.win[w].events) = {}
  BY <1>3, ElementsNone DEF Good, Proper
<1>8. Holds(x) \subseteq Holds(y)
  BY <1>4, <1>5, <1>7 DEF Holds
<1>9. y.win[y.current].stage = "open" /\ y.current \in Slots
  BY <1>3, <1>4, <1>5, Windowed
<1> QED BY <1>3, <1>6, <1>8, <1>9

LEMMA GoodClose ==
  ASSUME NEW t, NEW h, NEW k, NEW np, NEW nc, NEW x, Good(x, t, h, k, np, nc),
         NEW w \in Slots, x.win[w].stage = "open", x.win[w].events # <<>>
  PROVE  Good(Close(x, w), t, h, k, np, nc) /\ Holds(x) \subseteq Holds(Close(x, w))
<1>1. /\ x \in NodeState /\ x.win \in [Slots -> Window] /\ x.armed \subseteq Slots
      /\ x.current \in Slots \cup {0}
  BY DEF Good, NodeState
<1> DEFINE rec == [x.win[w] EXCEPT !.stage = "closing"]
           u == [x.win EXCEPT ![w] = rec]
           y == [win |-> u, current |-> x.current, handle |-> 0,
                 armed |-> x.armed \ {x.handle}]
<1>2. Proper(x.win[w], t, h, k, np, nc) /\ x.win[w] \in Window
  BY DEF Good, Proper
<1>3. /\ rec \in Window /\ rec.stage = "closing" /\ rec.events = x.win[w].events
      /\ rec.done = x.win[w].done
  BY <1>2 DEF Window, Stages
<1>4. Close(x, w) = y
  BY DEF Close
<1> HIDE DEF rec
<1>5. Proper(rec, t, h, k, np, nc)
  BY <1>2, <1>3 DEF Proper
<1>6. u \in [Slots -> Window] /\ u[w] = rec /\ \A v \in Slots : v # w => u[v] = x.win[v]
  BY <1>1, <1>3
<1> HIDE DEF u
<1>7. y \in NodeState /\ y.win = u
  BY <1>1, <1>6 DEF NodeState
<1> HIDE DEF y
<1>8. Good(y, t, h, k, np, nc)
  BY <1>5, <1>6, <1>7 DEF Good
<1>9. Holds(x) \subseteq Holds(y)
  BY <1>3, <1>6, <1>7 DEF Holds
<1> QED BY <1>4, <1>8, <1>9

LEMMA GoodTidy ==
  ASSUME NEW t, NEW h, NEW k, NEW np, NEW nc, NEW x, Good(x, t, h, k, np, nc)
  PROVE  /\ Good(Tidy(x), t, h, k, np, nc)
         /\ Holds(x) \subseteq Holds(Tidy(x)) \cup Orphaned(x)
         /\ Orphaned(x) \subseteq Deposits
<1>1. x \in NodeState /\ x.win \in [Slots -> Window]
  BY DEF Good, NodeState
<1> DEFINE u == [w \in Slots |-> IF Orphan(x, w) THEN NoWindow ELSE x.win[w]]
           y == [x EXCEPT !.win = u]
<1>2. Tidy(x) = y
  BY DEF Tidy
<1>3. /\ u \in [Slots -> Window]
      /\ \A w \in Slots : u[w] = IF Orphan(x, w) THEN NoWindow ELSE x.win[w]
  BY <1>1, Windowed
<1> HIDE DEF u
<1>4. y \in NodeState /\ y.win = u
  BY <1>1, <1>3 DEF NodeState
<1> HIDE DEF y
<1>5. Good(y, t, h, k, np, nc)
  <2>1. Proper(NoWindow, t, h, k, np, nc)
    BY ProperFresh
  <2> QED BY <1>3, <1>4, <2>1 DEF Good
<1>6. Holds(x) \subseteq Holds(y) \cup Orphaned(x)
  BY <1>3, <1>4 DEF Holds, Orphaned
<1>7. Orphaned(x) \subseteq Deposits
  <2>1. \A w \in Slots : x.win[w].events \in Seq(Deposits)
    BY <1>1 DEF Window
  <2> QED BY <2>1, ElementsIn DEF Orphaned, Elements
<1> QED BY <1>2, <1>5, <1>6, <1>7

----------------------------------------------------------------------------
(* The nodes' half of the invariant *)

ContractGrows ==
  /\ nextProposal \in Nat /\ nextProposal' \in Nat /\ nextProposal <= nextProposal'
  /\ nextCheckpoint \in Nat /\ nextCheckpoint' \in Nat
  /\ nextCheckpoint <= nextCheckpoint' /\ processed \subseteq processed'
KnowledgeGrows == \A m \in Nodes : computed[m] \subseteq computed'[m]

LEMMA Becoming ==
  ASSUME NEW n, NEW x, NEW ds, Becomes(n, x, ds)
  PROVE  /\ win' = [win EXCEPT ![n] = Tidy(x).win]
         /\ current' = [current EXCEPT ![n] = Tidy(x).current]
         /\ handle' = [handle EXCEPT ![n] = Tidy(x).handle]
         /\ armed' = [armed EXCEPT ![n] = Tidy(x).armed]
         /\ dropped' = [dropped EXCEPT ![n] = @ \cup ds \cup Orphaned(x)]
         /\ computed' = [computed EXCEPT ![n] = @ \cup
               {Tidy(x).win[w].events : w \in {v \in Slots : Tidy(x).win[v].stage = "closing"}}]
BY DEF Becomes

\* A step of one node: what it holds next is proper, and of what it has been told
\* nothing gets lost.
LEMMA Moves ==
  ASSUME NodeInv, ContractGrows, setup' = setup, crashes' \in Nat,
         phase' \in [Nodes -> {"down", "starting", "scanning", "running"}],
         NEW n \in Nodes, NEW t \in SUBSET Deposits, told[n] \subseteq t,
         told' = [told EXCEPT ![n] = t],
         NEW ds \in SUBSET Deposits, NEW x, Becomes(n, x, ds),
         Good(x, t, processed' \cup dropped[n] \cup ds, computed[n],
              nextProposal', nextCheckpoint'),
         n \in Provers => t \subseteq processed' \cup dropped[n] \cup ds \cup Holds(x)
  PROVE  NodeInv' /\ KnowledgeGrows
<1> DEFINE y == Tidy(x)
           lost == Orphaned(x)
           new == {y.win[w].events : w \in {v \in Slots : y.win[v].stage = "closing"}}
           h == processed' \cup dropped[n] \cup ds
<1>1. /\ Good(y, t, h, computed[n], nextProposal', nextCheckpoint')
      /\ Holds(x) \subseteq Holds(y) \cup lost /\ lost \subseteq Deposits
  BY GoodTidy
<1>2. /\ win' = [win EXCEPT ![n] = y.win]
      /\ current' = [current EXCEPT ![n] = y.current]
      /\ handle' = [handle EXCEPT ![n] = y.handle]
      /\ armed' = [armed EXCEPT ![n] = y.armed]
      /\ dropped' = [dropped EXCEPT ![n] = dropped[n] \cup ds \cup lost]
      /\ computed' = [computed EXCEPT ![n] = computed[n] \cup new]
  <2> HIDE DEF y, lost
  <2>1. y = Tidy(x) /\ lost = Orphaned(x)
    BY DEF y, lost
  <2> QED BY <2>1, Becoming
<1> HIDE DEF y, lost
<1>3. /\ y \in NodeState /\ y.win \in [Slots -> Window]
      /\ y = [win |-> y.win, current |-> y.current, handle |-> y.handle,
              armed |-> y.armed]
  BY <1>1 DEF Good, NodeState
<1>4. \A r \in new : r \in Seq(Deposits) /\ Elements(r) \subseteq t
  BY <1>1, <1>3 DEF Good, Proper, Window
<1>5. \A v \in Slots : y.win[v].stage = "closing" => y.win[v].events \in new
  OBVIOUS
<1> HIDE DEF new
<1>6. NodeTypes
  BY DEF NodeInv
<1>7. NodeTypes'
  <2>1. setup' \in Setups /\ told' \in [Nodes -> SUBSET Deposits]
    BY <1>6 DEF NodeTypes
  <2>2. /\ win' \in [Nodes -> [Slots -> Window]]
        /\ current' \in [Nodes -> Slots \cup {0}]
        /\ handle' \in [Nodes -> Slots \cup {0}]
        /\ armed' \in [Nodes -> SUBSET Slots]
    BY <1>2, <1>3, <1>6 DEF NodeTypes, NodeState
  <2>3. computed' \in [Nodes -> SUBSET Seq(Deposits)]
    BY <1>2, <1>4, <1>6 DEF NodeTypes
  <2>4. dropped' \in [Nodes -> SUBSET Deposits]
    BY <1>1, <1>2, <1>6 DEF NodeTypes
  <2> QED BY <2>1, <2>2, <2>3, <2>4 DEF NodeTypes
<1>8. /\ computed'[n] = computed[n] \cup new /\ dropped'[n] = dropped[n] \cup ds \cup lost
      /\ told'[n] = t
      /\ win'[n] = y.win /\ current'[n] = y.current /\ handle'[n] = y.handle
      /\ armed'[n] = y.armed
  BY <1>2, <1>6 DEF NodeTypes
<1>9. ASSUME NEW m \in Nodes, m # n
      PROVE  /\ computed'[m] = computed[m] /\ dropped'[m] = dropped[m]
             /\ told'[m] = told[m] /\ win'[m] = win[m] /\ current'[m] = current[m]
             /\ handle'[m] = handle[m] /\ armed'[m] = armed[m]
  BY <1>2, <1>6, <1>9 DEF NodeTypes
<1>10. KnowledgeGrows
  BY <1>8, <1>9 DEF KnowledgeGrows
<1>11. Windows'
  <2> SUFFICES ASSUME NEW m \in Nodes
               PROVE  Good(Node(m)', told'[m], processed' \cup dropped'[m], computed'[m],
                           nextProposal', nextCheckpoint')
    BY DEF Windows
  <2>1. CASE m = n
    <3>1. Node(n)' = y
      BY <1>3, <1>8 DEF Node
    <3>2. h \subseteq processed' \cup dropped'[n] /\ computed[n] \subseteq computed'[n]
      BY <1>8
    <3>3. t \subseteq told'[n] /\ nextProposal' <= nextProposal'
          /\ nextCheckpoint' <= nextCheckpoint'
      BY <1>8 DEF ContractGrows
    <3> HIDE DEF h
    <3>4. Good(y, told'[n], processed' \cup dropped'[n], computed'[n],
               nextProposal', nextCheckpoint')
      BY <1>1, <3>2, <3>3, GoodGrows DEF ContractGrows
    <3> QED BY <2>1, <3>1, <3>4
  <2>2. CASE m # n
    <3>1. Node(m)' = Node(m)
      BY <1>9, <2>2 DEF Node
    <3>2. Good(Node(m), told[m], processed \cup dropped[m], computed[m],
               nextProposal, nextCheckpoint)
      BY DEF NodeInv, Windows
    <3>3. processed \cup dropped[m] \subseteq processed' \cup dropped'[m]
      BY <1>9, <2>2 DEF ContractGrows
    <3>4. computed[m] \subseteq computed'[m] /\ told[m] \subseteq told'[m]
      BY <1>9, <2>2
    <3>5. Good(Node(m), told'[m], processed' \cup dropped'[m], computed'[m],
               nextProposal', nextCheckpoint')
      BY <3>2, <3>3, <3>4, GoodGrows DEF ContractGrows
    <3> QED BY <3>1, <3>5
  <2> QED BY <2>1, <2>2
<1>12. Rooted'
  <2> SUFFICES ASSUME NEW m \in Nodes, NEW v \in Slots, win'[m][v].stage = "closing"
               PROVE  win'[m][v].events \in computed'[m]
    BY DEF Rooted
  <2>1. CASE m = n
    BY <1>5, <1>8, <2>1
  <2>2. CASE m # n
    BY <1>9, <2>2 DEF NodeInv, Rooted
  <2> QED BY <2>1, <2>2
<1>13. Learned'
  <2> SUFFICES ASSUME NEW m \in Nodes, NEW r \in computed'[m]
               PROVE  Elements(r) \subseteq told'[m]
    BY DEF Learned
  <2>1. CASE m = n
    BY <1>4, <1>8, <2>1 DEF NodeInv, Learned
  <2>2. CASE m # n
    BY <1>9, <2>2 DEF NodeInv, Learned
  <2> QED BY <2>1, <2>2
<1>14. Accounted'
  <2>1. \A m \in Nodes : Held(m)' = UNION {Elements(win'[m][w].events) : w \in Slots}
    BY DEF Held
  <2>2. Provers' = Provers /\ Provers \subseteq Nodes
    BY <1>6, ZkPipelineConstants DEF Provers, NodeTypes, Setup
  <2> SUFFICES ASSUME NEW m \in Provers
               PROVE  told'[m] \subseteq processed' \cup dropped'[m] \cup Held(m)'
    BY <2>2 DEF Accounted
  <2>3. CASE m = n
    <3>1. Held(n)' = Holds(y)
      BY <1>8, <2>1 DEF Holds
    <3> QED BY <1>1, <1>8, <2>3, <3>1
  <2>4. CASE m # n
    <3>1. Held(m)' = Held(m)
      BY <1>9, <2>1, <2>2, <2>4 DEF Held
    <3>2. told[m] \subseteq processed \cup dropped[m] \cup Held(m)
      BY DEF NodeInv, Accounted
    <3>3. told'[m] = told[m] /\ dropped'[m] = dropped[m]
      BY <1>9, <2>2, <2>4
    <3> QED BY <3>1, <3>2, <3>3 DEF ContractGrows
  <2> QED BY <2>3, <2>4
<1> QED BY <1>7, <1>10, <1>11, <1>12, <1>13, <1>14 DEF NodeInv

\* A step of the contract alone.
LEMMA Stays ==
  ASSUME NodeInv, ContractGrows, setup' = setup, crashes' \in Nat,
         phase' \in [Nodes -> {"down", "starting", "scanning", "running"}],
         UNCHANGED <<nodeVars, told, histVars>>
  PROVE  NodeInv' /\ KnowledgeGrows
<1>1. /\ win' = win /\ current' = current /\ handle' = handle /\ armed' = armed
      /\ told' = told /\ computed' = computed /\ dropped' = dropped
  BY DEF nodeVars, histVars
<1>2. NodeTypes'
  BY <1>1 DEF NodeInv, NodeTypes
<1>3. Windows'
  <2> SUFFICES ASSUME NEW m \in Nodes
               PROVE  Good(Node(m)', told'[m], processed' \cup dropped'[m], computed'[m],
                           nextProposal', nextCheckpoint')
    BY DEF Windows
  <2>1. Node(m)' = Node(m)
    BY <1>1 DEF Node
  <2>2. Good(Node(m), told[m], processed \cup dropped[m], computed[m],
             nextProposal, nextCheckpoint)
    BY DEF NodeInv, Windows
  <2>3. processed \cup dropped[m] \subseteq processed' \cup dropped[m]
    BY DEF ContractGrows
  <2>4. Good(Node(m), told[m], processed' \cup dropped[m], computed[m],
             nextProposal', nextCheckpoint')
    BY <2>2, <2>3, GoodGrows DEF ContractGrows
  <2> QED BY <1>1, <2>1, <2>4
<1>4. Rooted' /\ Learned'
  BY <1>1 DEF NodeInv, Rooted, Learned
<1>5. Accounted'
  <2>1. Provers' = Provers /\ \A m \in Nodes : Held(m)' = Held(m)
    BY <1>1 DEF Provers, Held
  <2>2. Provers \subseteq Nodes
    BY ZkPipelineConstants DEF NodeInv, NodeTypes, Provers, Setup
  <2> QED BY <1>1, <2>1, <2>2 DEF NodeInv, Accounted, ContractGrows
<1> QED BY <1>1, <1>2, <1>3, <1>4, <1>5 DEF NodeInv, KnowledgeGrows

----------------------------------------------------------------------------
(* The contract's half of the invariant *)

LEMMA Bounds ==
  ASSUME ContractTypes
  PROVE  /\ nextProposal \in Nat /\ nextCheckpoint \in Nat /\ processed \subseteq Deposits
         /\ V!Numbers = 0..MaxProposals /\ V!CheckpointIds = 0..MaxCheckpoints
         /\ nextProposal \in 0..MaxProposals /\ nextCheckpoint \in 0..MaxCheckpoints
BY Constants DEF ContractTypes, V!Numbers, V!CheckpointIds

LEMMA MintIn ==
  ASSUME ContractTypes, NEW i \in 1..Len(minted)
  PROVE  minted[i].message \in Deposits /\ minted[i].checkpoint \in V!CheckpointIds
<1> DEFINE M == [message : Deposits, checkpoint : V!CheckpointIds, height : Nat]
<1>1. minted \in Seq(M)
  BY DEF ContractTypes
<1>2. \A e \in M : e.message \in Deposits /\ e.checkpoint \in V!CheckpointIds
  OBVIOUS
<1> HIDE DEF M
<1>3. minted[i] \in M
  BY <1>1
<1> QED BY <1>2, <1>3

LEMMA KnowingGrows ==
  ASSUME KnowledgeGrows, NEW r
  PROVE  Knowing(r) \subseteq {n \in Nodes : r \in computed'[n]}
BY DEF KnowledgeGrows, Knowing

LEMMA AgreedStays ==
  ASSUME ContractInv, KnowledgeGrows
  PROVE  \A c \in V!CheckpointIds : c < nextCheckpoint =>
           Cardinality({n \in Nodes : checkpoints[c].root \in computed'[n]}) >= Threshold
<1> SUFFICES ASSUME NEW c \in V!CheckpointIds, c < nextCheckpoint
             PROVE  Cardinality({n \in Nodes : checkpoints[c].root \in computed'[n]})
                      >= Threshold
  OBVIOUS
<1> DEFINE K == Knowing(checkpoints[c].root)
           L == {n \in Nodes : checkpoints[c].root \in computed'[n]}
<1>1. K \subseteq L /\ IsFiniteSet(L) /\ Cardinality(K) >= Threshold
  BY KnowingGrows, Constants, FS_Subset DEF ContractInv, Agreed
<1>2. Cardinality(K) <= Cardinality(L) /\ Cardinality(K) \in Nat /\ Cardinality(L) \in Nat
  BY <1>1, FS_Subset, FS_CardinalityType
<1> HIDE DEF K, L
<1>3. Cardinality(L) >= Threshold
  BY <1>1, <1>2, Constants
<1> QED BY <1>3 DEF L

\* Nothing of the contract changes, or only what is in the mail.
LEMMA ContractQuiet ==
  ASSUME ContractInv, KnowledgeGrows,
         /\ nextProposal' = nextProposal /\ proposals' = proposals
         /\ approved' = approved /\ nextCheckpoint' = nextCheckpoint
         /\ checkpoints' = checkpoints /\ processed' = processed /\ minted' = minted
         /\ committee' = committee /\ threshold' = threshold,
         mail' \subseteq [by : Nodes, proposal : V!Numbers, root : Seq(Deposits)],
         \A a \in mail' : a.proposal < nextProposal /\
                          a.by \in Knowing(proposals[a.proposal].root)
  PROVE  ContractInv'
<1>1. \A r : Knowing(r) \subseteq {n \in Nodes : r \in computed'[n]}
  BY KnowingGrows
<1>2. ContractTypes'
  BY DEF ContractInv, ContractTypes
<1>3. Attested'
  <2>1. \A p \in V!Numbers : {n \in Nodes : proposals'[p].root \in computed'[n]}
            = Knowing(proposals[p].root)'
    BY DEF Knowing
  <2> QED BY <1>1 DEF ContractInv, Attested, Knowing
<1>4. Mailed'
  BY <1>1 DEF Mailed, Knowing
<1>5. Agreed'
  BY AgreedStays DEF Agreed, Knowing
<1>6. Proven'
  BY DEF ContractInv, Proven
<1> QED BY <1>2, <1>3, <1>4, <1>5, <1>6 DEF ContractInv

LEMMA ContractSame ==
  ASSUME ContractInv, UNCHANGED contractVars
  PROVE  ContractGrows /\ (KnowledgeGrows => ContractInv')
<1>1. /\ nextProposal' = nextProposal /\ proposals' = proposals
      /\ approved' = approved /\ nextCheckpoint' = nextCheckpoint
      /\ checkpoints' = checkpoints /\ processed' = processed /\ minted' = minted
      /\ committee' = committee /\ threshold' = threshold /\ mail' = mail
  BY DEF contractVars
<1>2. ContractGrows
  BY <1>1, Bounds DEF ContractInv, ContractGrows
<1>3. mail \subseteq [by : Nodes, proposal : V!Numbers, root : Seq(Deposits)] /\ Mailed
  BY DEF ContractInv, ContractTypes
<1> QED BY <1>1, <1>2, <1>3, ContractQuiet DEF Mailed

LEMMA ContractSends ==
  ASSUME ContractInv, NEW n \in Nodes, NEW p \in 0..(nextProposal - 1),
         V!SendApproval(n, p), proposals[p].root \in computed[n]
  PROVE  ContractGrows /\ (KnowledgeGrows => ContractInv')
<1> DEFINE a == [by |-> n, proposal |-> p, root |-> proposals[p].root]
<1>1. /\ nextProposal' = nextProposal /\ proposals' = proposals
      /\ approved' = approved /\ nextCheckpoint' = nextCheckpoint
      /\ checkpoints' = checkpoints /\ processed' = processed /\ minted' = minted
      /\ committee' = committee /\ threshold' = threshold /\ mail' = mail \cup {a}
  BY DEF V!SendApproval, V!committeeVars, V!proposalVars, V!checkpointVars, V!mintVars
<1>2. ContractGrows
  BY <1>1, Bounds DEF ContractInv, ContractGrows
<1>3. /\ p \in V!Numbers /\ p < nextProposal /\ n \in Knowing(proposals[p].root)
      /\ proposals[p].root \in Seq(Deposits)
  <2>1. p \in V!Numbers /\ p < nextProposal
    <3>1. /\ nextProposal \in Nat /\ V!Numbers = 0..MaxProposals
          /\ nextProposal <= MaxProposals /\ MaxProposals \in Nat
      BY Bounds, Constants DEF ContractInv
    <3> QED BY <3>1
  <2>2. proposals[p].root \in Seq(Deposits)
    BY <2>1 DEF ContractInv, ContractTypes
  <2> QED BY <2>1, <2>2 DEF Knowing
<1>4. /\ a \in [by : Nodes, proposal : V!Numbers, root : Seq(Deposits)]
      /\ a.proposal = p /\ a.by = n
  BY <1>3
<1> HIDE DEF a
<1>5. mail \subseteq [by : Nodes, proposal : V!Numbers, root : Seq(Deposits)] /\ Mailed
  BY DEF ContractInv, ContractTypes
<1> QED BY <1>1, <1>2, <1>3, <1>4, <1>5, ContractQuiet DEF Mailed

LEMMA ContractLoses ==
  ASSUME ContractInv, NEW a, V!LoseApproval(a)
  PROVE  ContractGrows /\ (KnowledgeGrows => ContractInv')
<1>1. /\ nextProposal' = nextProposal /\ proposals' = proposals
      /\ approved' = approved /\ nextCheckpoint' = nextCheckpoint
      /\ checkpoints' = checkpoints /\ processed' = processed /\ minted' = minted
      /\ committee' = committee /\ threshold' = threshold /\ mail' = mail \ {a}
  BY DEF V!LoseApproval, V!committeeVars, V!proposalVars, V!checkpointVars, V!mintVars
<1>2. ContractGrows
  BY <1>1, Bounds DEF ContractInv, ContractGrows
<1>3. mail \subseteq [by : Nodes, proposal : V!Numbers, root : Seq(Deposits)] /\ Mailed
  BY DEF ContractInv, ContractTypes
<1> QED BY <1>1, <1>2, <1>3, ContractQuiet DEF Mailed

\* verify_and_mint of a deposit below the root of a checkpoint that exists.
LEMMA ContractMints ==
  ASSUME ContractInv, NEW c \in V!CheckpointIds, c < nextCheckpoint,
         NEW d \in Deposits, V!VerifyAndMint(c, d), d \in Elements(checkpoints[c].root)
  PROVE  /\ ContractGrows /\ processed' = processed \cup {d}
         /\ KnowledgeGrows => ContractInv'
<1> DEFINE e == [message |-> d, checkpoint |-> c, height |-> 1]
<1>1. /\ nextProposal' = nextProposal /\ proposals' = proposals
      /\ approved' = approved /\ nextCheckpoint' = nextCheckpoint
      /\ checkpoints' = checkpoints /\ processed' = processed \cup {d}
      /\ minted' = Append(minted, e)
      /\ committee' = committee /\ threshold' = threshold /\ mail' = mail
  BY DEF V!VerifyAndMint, V!committeeVars, V!proposalVars, V!checkpointVars
<1>2. ContractGrows
  BY <1>1, Bounds DEF ContractInv, ContractGrows
<1>3. ASSUME KnowledgeGrows PROVE ContractInv'
  <2>1. /\ e \in [message : Deposits, checkpoint : V!CheckpointIds, height : Nat]
        /\ e.message = d /\ e.checkpoint = c
    OBVIOUS
  <2> HIDE DEF e
  <2>2. \A r : Knowing(r) \subseteq {n \in Nodes : r \in computed'[n]}
    BY <1>3, KnowingGrows
  <2>3. ContractTypes'
    <3>1. minted' \in Seq([message : Deposits, checkpoint : V!CheckpointIds, height : Nat])
      BY <1>1, <2>1 DEF ContractInv, ContractTypes
    <3> QED BY <1>1, <3>1 DEF ContractInv, ContractTypes
  <2>4. Attested'
    BY <1>1, <2>2 DEF ContractInv, Attested, Knowing
  <2>5. Mailed'
    BY <1>1, <2>2 DEF ContractInv, Mailed, Knowing
  <2>6. Agreed'
    BY <1>1, <1>3, AgreedStays DEF Agreed, Knowing
  <2>7. Proven'
    <3>1. minted \in Seq([message : Deposits, checkpoint : V!CheckpointIds, height : Nat])
      BY DEF ContractInv, ContractTypes
    <3> SUFFICES ASSUME NEW i \in 1..Len(minted')
                 PROVE  /\ minted'[i].checkpoint < nextCheckpoint
                        /\ minted'[i].message \in Elements(checkpoints[minted'[i].checkpoint].root)
      BY <1>1 DEF Proven
    <3>2. CASE i \in 1..Len(minted)
      <4>1. minted'[i] = minted[i]
        BY <1>1, <2>1, <3>1, <3>2
      <4> QED BY <3>2, <4>1 DEF ContractInv, Proven
    <3>3. CASE i \notin 1..Len(minted)
      <4>1. minted'[i] = e
        BY <1>1, <2>1, <3>1, <3>3
      <4> QED BY <2>1, <4>1
    <3> QED BY <3>2, <3>3
  <2> QED BY <2>3, <2>4, <2>5, <2>6, <2>7 DEF ContractInv
<1> QED BY <1>1, <1>2, <1>3

\* A proposal of a root its proposer has computed: its own approval.
LEMMA ContractProposes ==
  ASSUME ContractInv, NEW n \in Nodes, NEW r \in Seq(Deposits),
         V!ProposeCheckpoint(n, r), r \in computed[n]
  PROVE  /\ ContractGrows /\ nextProposal' >= 1
         /\ KnowledgeGrows => ContractInv'
<1> DEFINE q == nextProposal
           rec == [root |-> r, approvals |-> 1, finalized |-> FALSE]
<1>1. /\ nextProposal' = q + 1 /\ q < MaxProposals
      /\ approved' = [approved EXCEPT ![q] = @ \cup {n}]
      /\ nextCheckpoint' = nextCheckpoint
      /\ checkpoints' = checkpoints /\ processed' = processed /\ minted' = minted
      /\ committee' = committee /\ threshold' = threshold /\ mail' = mail
  BY DEF V!ProposeCheckpoint, V!committeeVars, V!checkpointVars, V!mintVars
<1>2. proposals' = [proposals EXCEPT ![q] = rec]
  BY Zenon DEF V!ProposeCheckpoint
<1>3. q \in Nat /\ q \in V!Numbers /\ q + 1 \in V!Numbers
  BY <1>1, Bounds, Constants DEF ContractInv
<1>4. ContractGrows
  BY <1>1, Bounds DEF ContractInv, ContractGrows
<1>5. /\ rec \in [root : Seq(Deposits), approvals : Nat, finalized : BOOLEAN]
      /\ rec.root = r /\ rec.approvals = 1 /\ rec.finalized = FALSE
  OBVIOUS
<1> HIDE DEF rec
<1>6. /\ proposals'[q] = rec
      /\ \A p \in V!Numbers : p # q => proposals'[p] = proposals[p]
  BY <1>2, <1>3 DEF ContractInv, ContractTypes
<1>7. /\ approved'[q] = {n}
      /\ \A p \in V!Numbers : p # q => approved'[p] = approved[p]
  <2>1. approved[q] = {}
    BY <1>3 DEF ContractInv, Attested
  <2> QED BY <1>1, <1>3, <2>1 DEF ContractInv, ContractTypes
<1>8. ASSUME KnowledgeGrows PROVE ContractInv'
  <2>2. \A s : Knowing(s) \subseteq {m \in Nodes : s \in computed'[m]}
    BY <1>8, KnowingGrows
  <2>3. ContractTypes'
    <3>1. proposals' \in [V!Numbers -> [root : Seq(Deposits), approvals : Nat,
                                        finalized : BOOLEAN]]
      BY <1>2, <1>5 DEF ContractInv, ContractTypes
    <3>2. approved' \in [V!Numbers -> SUBSET Nodes]
      BY <1>1 DEF ContractInv, ContractTypes
    <3>3. nextProposal' \in V!Numbers
      BY <1>1, <1>3
    <3> QED BY <1>1, <3>1, <3>2, <3>3 DEF ContractInv, ContractTypes
  <2>4. Attested'
    <3>1. ASSUME NEW p \in V!Numbers
          PROVE  IF p < q + 1
                 THEN /\ proposals'[p].approvals = Cardinality(approved'[p])
                      /\ approved'[p] \subseteq
                           {m \in Nodes : proposals'[p].root \in computed'[m]}
                 ELSE approved'[p] = {}
      <4>1. CASE p = q
        <5>1. Cardinality({n}) = 1
          BY FS_Singleton
        <5>2. n \in {m \in Nodes : r \in computed'[m]}
          BY <2>2 DEF Knowing
        <5>3. q < q + 1
          BY <1>3
        <5>4. proposals'[q].approvals = Cardinality(approved'[q])
          BY <1>5, <1>6, <1>7, <5>1
        <5>5. approved'[q] \subseteq {m \in Nodes : proposals'[q].root \in computed'[m]}
          BY <1>5, <1>6, <1>7, <5>2
        <5> QED BY <4>1, <5>3, <5>4, <5>5
      <4>2. CASE p # q
        <5>1. (p < q + 1) <=> (p < q)
          BY <1>3, <4>2, Bounds DEF ContractInv
        <5>2. proposals'[p] = proposals[p] /\ approved'[p] = approved[p]
          BY <1>6, <1>7, <4>2
        <5>3. IF p < q THEN /\ proposals[p].approvals = Cardinality(approved[p])
                            /\ approved[p] \subseteq Knowing(proposals[p].root)
              ELSE approved[p] = {}
          BY DEF ContractInv, Attested
        <5> QED BY <2>2, <5>1, <5>2, <5>3
      <4> QED BY <4>1, <4>2
    <3>2. \A p \in V!Numbers : proposals'[p].finalized => nextCheckpoint >= 1
      BY <1>5, <1>6 DEF ContractInv, Attested
    <3> QED BY <1>1, <3>1, <3>2 DEF Attested, Knowing
  <2>5. Mailed'
    <3> SUFFICES ASSUME NEW a \in mail
                 PROVE  /\ a.proposal < q + 1
                        /\ a.by \in {m \in Nodes : proposals'[a.proposal].root \in computed'[m]}
      BY <1>1 DEF Mailed, Knowing
    <3>1. a.proposal \in V!Numbers /\ a.proposal < q /\
          a.by \in Knowing(proposals[a.proposal].root)
      BY DEF ContractInv, ContractTypes, Mailed
    <3>2. a.proposal \in Nat /\ a.proposal # q /\ a.proposal < q + 1
      BY <1>3, <3>1, Bounds DEF ContractInv
    <3> QED BY <1>6, <2>2, <3>1, <3>2
  <2>6. Agreed'
    BY <1>1, <1>8, AgreedStays DEF Agreed, Knowing
  <2>7. Proven'
    BY <1>1 DEF ContractInv, Proven
  <2> QED BY <2>3, <2>4, <2>5, <2>6, <2>7 DEF ContractInv
<1> QED BY <1>1, <1>3, <1>4, <1>8

\* An approval is included.  If it is the one the threshold waits for, those who
\* approved are as many nodes that have computed the root of the checkpoint.
LEMMA ContractApproves ==
  ASSUME ContractInv, NEW a \in mail, V!ApproveCheckpoint(a)
  PROVE  ContractGrows /\ (KnowledgeGrows => ContractInv')
<1> DEFINE q == a.proposal
           r == proposals[q].root
           new == approved[q] \cup {a.by}
           count == proposals[q].approvals + 1
           fin == count >= Threshold
<1>1. /\ q \in V!Numbers /\ a.by \in Nodes /\ q < nextProposal /\ a.by \in Knowing(r)
      /\ r \in Seq(Deposits) /\ proposals[q].approvals \in Nat
      /\ approved[q] \subseteq Nodes
  BY DEF ContractInv, ContractTypes, Mailed
<1> DEFINE rec == [root |-> r, approvals |-> count, finalized |-> fin]
<1>2. fin \in BOOLEAN /\ (fin <=> count >= Threshold) /\ threshold = Threshold
  BY DEF ContractInv, ContractTypes
<1>3. /\ proposals' = [proposals EXCEPT ![q] = rec]
      /\ fin => V!Activated(q, votes[q] \cup {<<a.by, a.root>>})
      /\ ~fin => UNCHANGED V!checkpointVars
  <2>1. CASE fin
    <3>1. ~(count < threshold)
      BY <1>1, <1>2, <2>1, Constants
    <3>2. /\ proposals' = [proposals EXCEPT ![q] = [root |-> r, approvals |-> count,
                                                    finalized |-> TRUE]]
          /\ V!Activated(q, votes[q] \cup {<<a.by, a.root>>})
      BY <3>1 DEF V!ApproveCheckpoint
    <3>3. fin = TRUE
      BY <1>2, <2>1
    <3> HIDE DEF fin
    <3> QED BY <2>1, <3>2, <3>3
  <2>2. CASE ~fin
    <3>1. ~(count >= threshold)
      BY <1>1, <1>2, <2>2, Constants
    <3>2. /\ proposals' = [proposals EXCEPT ![q] = [root |-> r, approvals |-> count,
                                                    finalized |-> FALSE]]
          /\ UNCHANGED V!checkpointVars
      BY <3>1 DEF V!ApproveCheckpoint
    <3>3. fin = FALSE
      BY <1>2, <2>2
    <3> HIDE DEF fin
    <3> QED BY <2>2, <3>2, <3>3
  <2> QED BY <2>1, <2>2
<1>4. /\ nextProposal' = nextProposal /\ approved' = [approved EXCEPT ![q] = new]
      /\ processed' = processed /\ minted' = minted /\ mail' = mail \ {a}
      /\ committee' = committee /\ threshold' = threshold /\ a.by \notin approved[q]
  BY DEF V!ApproveCheckpoint, V!MayApprove, V!committeeVars, V!mintVars
<1>5. /\ rec \in [root : Seq(Deposits), approvals : Nat, finalized : BOOLEAN]
      /\ rec.root = r /\ rec.approvals = count /\ rec.finalized = fin
  BY <1>1, <1>2
<1> HIDE DEF rec, fin
<1>6. /\ proposals'[q] = rec
      /\ \A p \in V!Numbers : p # q => proposals'[p] = proposals[p]
  BY <1>1, <1>3 DEF ContractInv, ContractTypes
<1>7. /\ approved'[q] = new
      /\ \A p \in V!Numbers : p # q => approved'[p] = approved[p]
  BY <1>1, <1>4 DEF ContractInv, ContractTypes
<1>8. \A p \in V!Numbers : proposals'[p].root = proposals[p].root
  BY <1>5, <1>6
<1>9. /\ count = Cardinality(new) /\ new \subseteq Knowing(r) /\ IsFiniteSet(new)
      /\ count \in Nat
  <2>1. /\ proposals[q].approvals = Cardinality(approved[q])
        /\ approved[q] \subseteq Knowing(r)
    BY <1>1 DEF ContractInv, Attested
  <2>2. IsFiniteSet(approved[q])
    BY <1>1, Constants, FS_Subset
  <2>3. Cardinality(new) = Cardinality(approved[q]) + 1 /\ IsFiniteSet(new)
    BY <1>4, <2>2, FS_AddElement
  <2> QED BY <1>1, <2>1, <2>3
\* The checkpoints that were there stay, and a new one has the root of the proposal.
<1> DEFINE g == nextCheckpoint
<1>10. /\ g \in V!CheckpointIds /\ g \in Nat /\ nextCheckpoint' \in V!CheckpointIds
       /\ nextCheckpoint' \in Nat
       /\ checkpoints' \in [V!CheckpointIds -> [root : Seq(Deposits), height : Nat,
                                                active : BOOLEAN]]
       /\ \A c \in V!CheckpointIds : c # g => checkpoints'[c] = checkpoints[c]
       /\ IF fin THEN nextCheckpoint' = g + 1 /\ checkpoints'[g].root = r
          ELSE nextCheckpoint' = g /\ checkpoints' = checkpoints
  <2>1. g \in V!CheckpointIds /\ g \in Nat
    BY Bounds DEF ContractInv
  <2>2. CASE ~fin
    BY <1>3, <2>1, <2>2 DEF V!checkpointVars, ContractInv, ContractTypes
  <2>3. CASE fin
    <3> DEFINE cp == [root |-> r, height |-> 1, active |-> TRUE]
    <3>1. nextCheckpoint' = g + 1 /\ g < MaxCheckpoints
      BY <1>3, <2>3 DEF V!Activated
    <3>2. checkpoints' = [checkpoints EXCEPT ![g] = cp]
      BY <1>3, <2>3, Zenon DEF V!Activated
    <3>3. cp \in [root : Seq(Deposits), height : Nat, active : BOOLEAN] /\ cp.root = r
      BY <1>1
    <3> HIDE DEF cp
    <3>4. /\ checkpoints' \in [V!CheckpointIds -> [root : Seq(Deposits), height : Nat,
                                                   active : BOOLEAN]]
          /\ \A c \in V!CheckpointIds : c # g => checkpoints'[c] = checkpoints[c]
          /\ checkpoints'[g] = cp
      BY <2>1, <3>2, <3>3 DEF ContractInv, ContractTypes
    <3>5. nextCheckpoint' \in V!CheckpointIds /\ nextCheckpoint' \in Nat
      BY <2>1, <3>1, Bounds, Constants DEF ContractInv
    <3> QED BY <2>1, <2>3, <3>1, <3>3, <3>4, <3>5
  <2> QED BY <2>2, <2>3
<1>11. ContractGrows
  BY <1>4, <1>10, Bounds DEF ContractInv, ContractGrows
<1>12. ASSUME KnowledgeGrows PROVE ContractInv'
  <2>2. \A s : Knowing(s) \subseteq {m \in Nodes : s \in computed'[m]}
    BY <1>12, KnowingGrows
  <2>3. ContractTypes'
    <3>1. proposals' \in [V!Numbers -> [root : Seq(Deposits), approvals : Nat,
                                        finalized : BOOLEAN]]
      BY <1>3, <1>5 DEF ContractInv, ContractTypes
    <3>2. approved' \in [V!Numbers -> SUBSET Nodes]
      BY <1>1, <1>4 DEF ContractInv, ContractTypes
    <3> QED BY <1>4, <1>10, <3>1, <3>2 DEF ContractInv, ContractTypes
  <2>4. Attested'
    <3>1. ASSUME NEW p \in V!Numbers
          PROVE  IF p < nextProposal
                 THEN /\ proposals'[p].approvals = Cardinality(approved'[p])
                      /\ approved'[p] \subseteq
                           {m \in Nodes : proposals'[p].root \in computed'[m]}
                 ELSE approved'[p] = {}
      <4>1. CASE p = q
        <5>1. proposals'[q].approvals = Cardinality(approved'[q])
          BY <1>5, <1>6, <1>7, <1>9
        <5>2. approved'[q] \subseteq {m \in Nodes : proposals'[q].root \in computed'[m]}
          BY <1>5, <1>6, <1>7, <1>9, <2>2
        <5> QED BY <1>1, <4>1, <5>1, <5>2
      <4>2. CASE p # q
        <5>2. proposals'[p] = proposals[p] /\ approved'[p] = approved[p]
          BY <1>6, <1>7, <4>2
        <5>3. IF p < nextProposal
              THEN /\ proposals[p].approvals = Cardinality(approved[p])
                   /\ approved[p] \subseteq Knowing(proposals[p].root)
              ELSE approved[p] = {}
          BY DEF ContractInv, Attested
        <5> QED BY <2>2, <5>2, <5>3
      <4> QED BY <4>1, <4>2
    <3>2. ASSUME NEW p \in V!Numbers, proposals'[p].finalized PROVE nextCheckpoint' >= 1
      <4>1. CASE p = q
        BY <1>5, <1>6, <1>10, <3>2, <4>1
      <4>2. CASE p # q
        <5>1. nextCheckpoint >= 1
          BY <1>6, <3>2, <4>2 DEF ContractInv, Attested
        <5> QED BY <1>10, <5>1
      <4> QED BY <4>1, <4>2
    <3> QED BY <1>4, <3>1, <3>2 DEF Attested, Knowing
  <2>5. Mailed'
    <3> SUFFICES ASSUME NEW b \in mail
                 PROVE  /\ b.proposal < nextProposal
                        /\ b.by \in {m \in Nodes : proposals'[b.proposal].root \in computed'[m]}
      BY <1>4 DEF Mailed, Knowing
    <3>1. b.proposal \in V!Numbers /\ b.proposal < nextProposal /\
          b.by \in Knowing(proposals[b.proposal].root)
      BY DEF ContractInv, ContractTypes, Mailed
    <3> QED BY <1>8, <2>2, <3>1
  <2>6. Agreed'
    <3> SUFFICES ASSUME NEW c \in V!CheckpointIds, c < nextCheckpoint'
                 PROVE  Cardinality({m \in Nodes : checkpoints'[c].root \in computed'[m]})
                          >= Threshold
      BY DEF Agreed, Knowing
    <3>1. CASE c # g
      <4>1. c < g /\ checkpoints'[c] = checkpoints[c]
        BY <1>10, <3>1, Bounds DEF ContractInv
      <4> QED BY <1>12, <4>1, AgreedStays
    <3>2. CASE c = g
      <4> DEFINE L == {m \in Nodes : checkpoints'[c].root \in computed'[m]}
      <4>1. fin /\ checkpoints'[c].root = r
        BY <1>10, <3>2
      <4>2. new \subseteq L /\ IsFiniteSet(L)
        BY <1>9, <2>2, <4>1, Constants, FS_Subset
      <4>3. Cardinality(new) <= Cardinality(L) /\ Cardinality(L) \in Nat
        BY <4>2, FS_Subset, FS_CardinalityType
      <4>4. count >= Threshold
        BY <1>2, <4>1
      <4> HIDE DEF L, new, count
      <4>5. Cardinality(L) >= Threshold
        BY <1>9, <4>3, <4>4, Constants
      <4> QED BY <4>5 DEF L
    <3> QED BY <3>1, <3>2
  <2>7. Proven'
    <3> SUFFICES ASSUME NEW i \in 1..Len(minted)
                 PROVE  /\ minted[i].checkpoint < nextCheckpoint'
                        /\ minted[i].message \in
                             Elements(checkpoints'[minted[i].checkpoint].root)
      BY <1>4 DEF Proven
    <3>1. /\ minted[i].checkpoint < nextCheckpoint
          /\ minted[i].message \in Elements(checkpoints[minted[i].checkpoint].root)
          /\ minted[i].checkpoint \in V!CheckpointIds
      <4>1. /\ minted[i].checkpoint < nextCheckpoint
            /\ minted[i].message \in Elements(checkpoints[minted[i].checkpoint].root)
        BY DEF ContractInv, Proven
      <4>2. minted[i].checkpoint \in V!CheckpointIds
        BY MintIn DEF ContractInv
      <4> QED BY <4>1, <4>2
    <3>2. minted[i].checkpoint # g /\ minted[i].checkpoint < nextCheckpoint'
      BY <1>10, <3>1, Bounds DEF ContractInv
    <3> QED BY <1>10, <3>1, <3>2
  <2> QED BY <2>3, <2>4, <2>5, <2>6, <2>7 DEF ContractInv
<1> QED BY <1>11, <1>12

----------------------------------------------------------------------------
(* One window of a node after the other *)

LEMMA GoodNow ==
  ASSUME NodeInv, ContractGrows, NEW n \in Nodes, NEW ds, NEW t, told[n] \subseteq t
  PROVE  /\ Good(Node(n), t, processed' \cup dropped[n] \cup ds, computed[n],
                 nextProposal', nextCheckpoint')
         /\ Node(n) \in NodeState
         /\ n \in Provers => told[n] \subseteq processed' \cup dropped[n] \cup Holds(Node(n))
<1>1. Good(Node(n), told[n], processed \cup dropped[n], computed[n],
           nextProposal, nextCheckpoint)
  BY DEF NodeInv, Windows
<1>2. processed \cup dropped[n] \subseteq processed' \cup dropped[n] \cup ds
  BY DEF ContractGrows
<1>3. Good(Node(n), t, processed' \cup dropped[n] \cup ds, computed[n],
           nextProposal', nextCheckpoint')
  BY <1>1, <1>2, GoodGrows DEF ContractGrows
<1>4. Holds(Node(n)) = Held(n)
  BY DEF Holds, Held, Node
<1> QED BY <1>1, <1>3, <1>4 DEF Good, NodeInv, Accounted, ContractGrows

\* A window is replaced by one that is proper, and possibly a new one opened.
LEMMA Replaces ==
  ASSUME NodeInv, ContractGrows, setup' = setup, crashes' = crashes, phase' = phase,
         told' = told, NEW n \in Nodes, NEW w \in Slots, win[n][w].stage # "none",
         NEW ds \in SUBSET Deposits, NEW rec,
         Proper(rec, told[n], processed' \cup dropped[n] \cup ds, computed[n],
                nextProposal', nextCheckpoint'),
         n \in Provers => Elements(win[n][w].events) \subseteq
                            Elements(rec.events) \cup processed' \cup dropped[n] \cup ds,
         \/ Becomes(n, With(n, w, rec), ds)
         \/ Free(Node(n)) # {} /\ Becomes(n, Open(With(n, w, rec)), ds)
  PROVE  NodeInv' /\ KnowledgeGrows
<1> DEFINE t == told[n]
           h == processed' \cup dropped[n] \cup ds
           y == With(n, w, rec)
           z == Open(y)
<1>1. /\ Good(Node(n), t, h, computed[n], nextProposal', nextCheckpoint')
      /\ Node(n) \in NodeState
      /\ n \in Provers => t \subseteq processed' \cup dropped[n] \cup Holds(Node(n))
  BY GoodNow
<1>2. rec \in Window /\ Node(n).win[w] = win[n][w] /\ Node(n).win = win[n]
  BY DEF Proper, Node
<1>3. Good(y, t, h, computed[n], nextProposal', nextCheckpoint')
  BY <1>1, GoodWith DEF With
<1>4. /\ Holds(Node(n)) \subseteq Holds(y) \cup Elements(win[n][w].events)
      /\ Elements(rec.events) \subseteq Holds(y)
  BY <1>1, <1>2, HoldsWith DEF With
<1>5. n \in Provers => t \subseteq h \cup Holds(y)
  BY <1>1, <1>4
<1>6. /\ told[n] \in SUBSET Deposits /\ told' = [told EXCEPT ![n] = told[n]]
      /\ crashes' \in Nat
      /\ phase' \in [Nodes -> {"down", "starting", "scanning", "running"}]
  BY DEF NodeInv, NodeTypes
<1> HIDE DEF h, y
<1>7. CASE Becomes(n, With(n, w, rec), ds)
  BY <1>3, <1>5, <1>6, <1>7, Moves DEF h, y
<1>8. CASE Free(Node(n)) # {} /\ Becomes(n, Open(With(n, w, rec)), ds)
  <2>1. Free(y) # {}
    <3>1. PICK v \in Slots : win[n][v].stage = "none"
      BY <1>2, <1>8 DEF Free
    <3>2. y.win[v] = Node(n).win[v]
      BY <1>1, <1>2, <3>1, With1 DEF y, With
    <3> QED BY <1>2, <3>1, <3>2 DEF Free
  <2>2. /\ Good(z, t, h, computed[n], nextProposal', nextCheckpoint')
        /\ Holds(y) \subseteq Holds(z)
    BY <1>3, <2>1, GoodOpen
  <2>3. n \in Provers => t \subseteq h \cup Holds(z)
    BY <1>5, <2>2
  <2> HIDE DEF z
  <2> QED BY <1>6, <1>8, <2>2, <2>3, Moves DEF h, y, z
<1> QED BY <1>7, <1>8

\* The next stage of a window.
LEMMA ProperNext ==
  ASSUME NEW t, NEW h, NEW k, NEW np, NEW nc, NEW W, Proper(W, t, h, k, np, nc),
         W.events \in k, W.stage \notin {"none", "open", "proving"},
         NEW rec \in Window, rec.events = W.events, rec.done = W.done,
         rec.stage \notin {"none", "open", "closing"},
         rec.stage = "naming" => np >= 1,
         rec.stage \in {"approving", "polling"} => rec.proposal < np,
         rec.stage = "reading" => nc >= 1,
         rec.stage = "proving" => rec.checkpoint < nc
  PROVE  Proper(rec, t, h, k, np, nc)
<1>1. W.done = 0 /\ Len(W.events) > 0
  <2>1. W.done = 0 /\ W.events # <<>> /\ W.events \in Seq(Deposits)
    BY DEF Proper, Window
  <2> QED BY <2>1
<1> QED BY <1>1 DEF Proper

\* The next deposit of a window that is being proved.
LEMMA ProperRest ==
  ASSUME NEW t, NEW h, NEW k, NEW np, NEW nc, NEW W, Proper(W, t, h, k, np, nc),
         W.stage = "proving", W.events[W.done + 1] \in h,
         NEW rec, rec = IF W.done + 1 = Len(W.events) THEN NoWindow
                        ELSE [W EXCEPT !.done = @ + 1]
  PROVE  /\ Proper(rec, t, h, k, np, nc)
         /\ Elements(W.events) \subseteq Elements(rec.events) \cup h
<1>1. /\ W \in Window /\ W.done \in Nat /\ W.events \in Seq(Deposits)
      /\ W.done < Len(W.events) /\ Len(W.events) \in Nat
      /\ \A i \in 1..Len(W.events) : i <= W.done => W.events[i] \in h
  BY DEF Proper, Window
<1>2. \A i \in 1..Len(W.events) : i <= W.done + 1 => W.events[i] \in h
  <2> SUFFICES ASSUME NEW i \in 1..Len(W.events), i <= W.done + 1
               PROVE  W.events[i] \in h
    OBVIOUS
  <2>1. i <= W.done \/ i = W.done + 1
    BY <1>1
  <2> QED BY <1>1, <2>1
<1>3. CASE W.done + 1 = Len(W.events)
  <2>1. rec = NoWindow
    BY <1>3
  <2>2. Elements(W.events) \subseteq h
    BY <1>1, <1>2, <1>3 DEF Elements
  <2>3. Proper(NoWindow, t, h, k, np, nc)
    BY ProperFresh
  <2> QED BY <2>1, <2>2, <2>3
<1>4. CASE W.done + 1 # Len(W.events)
  <2>1. rec = [W EXCEPT !.done = W.done + 1]
    BY <1>4
  <2>2. /\ rec \in Window /\ rec.stage = W.stage /\ rec.events = W.events
        /\ rec.proposal = W.proposal /\ rec.checkpoint = W.checkpoint
        /\ rec.done = W.done + 1
    BY <1>1, <2>1 DEF Window
  <2>3. rec.done < Len(rec.events)
    BY <1>1, <1>4, <2>2
  <2>4. Proper(rec, t, h, k, np, nc)
    BY <1>2, <2>2, <2>3 DEF Proper
  <2> QED BY <2>2, <2>4
<1> QED BY <1>3, <1>4

----------------------------------------------------------------------------
(* One lemma per action *)

LEMMA ElementsOfWindow ==
  ASSUME NodeTypes, NEW n \in Nodes, NEW w \in Slots
  PROVE  /\ win[n][w] \in Window /\ win[n][w].events \in Seq(Deposits)
         /\ Elements(win[n][w].events) \in SUBSET Deposits
<1>1. win[n][w] \in Window
  BY DEF NodeTypes
<1>2. win[n][w].events \in Seq(Deposits)
  BY <1>1 DEF Window
<1> QED BY <1>1, <1>2, ElementsIn DEF Elements

\* What holds of a window, as it is and after the contract has moved on.
LEMMA WindowNow ==
  ASSUME NodeInv, ContractGrows, NEW n \in Nodes, NEW w \in Slots, NEW ds
  PROVE  /\ Proper(win[n][w], told[n], processed \cup dropped[n], computed[n],
                   nextProposal, nextCheckpoint)
         /\ Proper(win[n][w], told[n], processed' \cup dropped[n] \cup ds, computed[n],
                   nextProposal', nextCheckpoint')
         /\ win[n][w].stage \notin {"none", "open"} => win[n][w].events \in computed[n]
<1>1. Node(n).win[w] = win[n][w]
  BY DEF Node
<1>2. Proper(win[n][w], told[n], processed' \cup dropped[n] \cup ds, computed[n],
             nextProposal', nextCheckpoint')
  BY <1>1, GoodNow DEF Good
<1>3. Proper(win[n][w], told[n], processed \cup dropped[n], computed[n],
             nextProposal, nextCheckpoint)
  BY <1>1 DEF NodeInv, Windows, Good
<1> QED BY <1>2, <1>3 DEF NodeInv, Rooted, Proper

LEMMA LookKeeps ==
  ASSUME Inv, setup' = setup, NEW n \in Nodes, NEW w \in Slots, Look(n, w)
  PROVE  Inv'
<1> DEFINE W == win[n][w]
           R == Recent(n, w)
           p == Min(R)
<1>1. NodeInv /\ ContractInv /\ nextProposal \in Nat /\ nextCheckpoint \in Nat
  BY Bounds DEF Inv, ContractInv
<1>2. /\ W.stage = "closing" /\ phase' = phase /\ told' = told /\ crashes' = crashes
      /\ W \in Window
  BY <1>1, ElementsOfWindow DEF Look, In, NodeInv
<1>3. CASE R # {}
  <2>1. p \in R
    <3>1. R \in SUBSET Nat
      BY <1>1 DEF Recent
    <3> HIDE DEF R
    <3> QED BY <1>3, <3>1, LeastIn
  <2>2. p \in 0..(nextProposal - 1) /\ p \in Nat /\ p < nextProposal
        /\ proposals[p].root = W.events
    BY <1>1, <2>1 DEF Recent
  <2> DEFINE rec == [W EXCEPT !.stage = "approving", !.proposal = p]
  <2>3. V!SendApproval(n, p) /\ Becomes(n, With(n, w, rec), {})
    BY <1>3 DEF Look
  <2> HIDE DEF R, p
  <2>4. /\ rec \in Window /\ rec.stage = "approving" /\ rec.proposal = p
        /\ rec.events = W.events /\ rec.done = W.done
    BY <1>2, <2>2 DEF Window, Stages
  <2> HIDE DEF rec
  <2>5. W.events \in computed[n]
    BY <1>1, <1>2 DEF NodeInv, Rooted
  <2>6. ContractGrows /\ (KnowledgeGrows => ContractInv')
    BY <1>1, <2>2, <2>3, <2>5, ContractSends
  <2>7. Proper(W, told[n], processed' \cup dropped[n] \cup {}, computed[n],
               nextProposal', nextCheckpoint')
    BY <1>1, <2>6, WindowNow
  <2>8. p < nextProposal'
    BY <2>2, <2>6 DEF ContractGrows
  <2>9. Proper(rec, told[n], processed' \cup dropped[n] \cup {}, computed[n],
               nextProposal', nextCheckpoint')
    BY <1>2, <2>4, <2>5, <2>7, <2>8, ProperNext
  <2>10. NodeInv' /\ KnowledgeGrows
    BY <1>1, <1>2, <2>3, <2>4, <2>6, <2>9, Replaces
  <2> QED BY <2>6, <2>10 DEF Inv
<1>4. CASE R = {}
  <2> DEFINE rec == [W EXCEPT !.stage = "proposing"]
  <2>1. UNCHANGED contractVars /\ Becomes(n, With(n, w, rec), {})
    BY <1>4 DEF Look, At
  <2>2. /\ rec \in Window /\ rec.stage = "proposing"
        /\ rec.events = W.events /\ rec.done = W.done
    BY <1>2 DEF Window, Stages
  <2> HIDE DEF rec
  <2>3. ContractGrows /\ (KnowledgeGrows => ContractInv')
    BY <1>1, <2>1, ContractSame
  <2>4. /\ Proper(W, told[n], processed' \cup dropped[n] \cup {}, computed[n],
                  nextProposal', nextCheckpoint')
        /\ W.events \in computed[n]
    BY <1>1, <1>2, <2>3, WindowNow
  <2>5. Proper(rec, told[n], processed' \cup dropped[n] \cup {}, computed[n],
               nextProposal', nextCheckpoint')
    BY <1>2, <2>2, <2>4, ProperNext
  <2>6. NodeInv' /\ KnowledgeGrows
    BY <1>1, <1>2, <2>1, <2>2, <2>3, <2>5, Replaces
  <2> QED BY <2>3, <2>6 DEF Inv
<1> QED BY <1>3, <1>4

LEMMA ProposeKeeps ==
  ASSUME Inv, setup' = setup, NEW n \in Nodes, NEW w \in Slots, Propose(n, w)
  PROVE  Inv'
<1> DEFINE W == win[n][w]
           rec == [W EXCEPT !.stage = "naming"]
<1>1. NodeInv /\ ContractInv
  BY DEF Inv
<1>2. /\ W.stage = "proposing" /\ phase' = phase /\ told' = told /\ crashes' = crashes
      /\ W \in Window /\ W.events \in Seq(Deposits)
      /\ V!ProposeCheckpoint(n, W.events) /\ Becomes(n, With(n, w, rec), {})
  BY <1>1, ElementsOfWindow DEF Propose, In, NodeInv, At
<1>3. W.events \in computed[n]
  BY <1>1, <1>2 DEF NodeInv, Windows, Good, Proper, Node
<1>4. ContractGrows /\ nextProposal' >= 1 /\ (KnowledgeGrows => ContractInv')
  BY <1>1, <1>2, <1>3, ContractProposes
<1>5. /\ rec \in Window /\ rec.stage = "naming"
      /\ rec.events = W.events /\ rec.done = W.done
  BY <1>2 DEF Window, Stages
<1> HIDE DEF rec
<1>6. Proper(W, told[n], processed' \cup dropped[n] \cup {}, computed[n],
             nextProposal', nextCheckpoint')
  BY <1>1, <1>4, WindowNow
<1>7. Proper(rec, told[n], processed' \cup dropped[n] \cup {}, computed[n],
             nextProposal', nextCheckpoint')
  BY <1>2, <1>3, <1>4, <1>5, <1>6, ProperNext
<1>8. NodeInv' /\ KnowledgeGrows
  BY <1>1, <1>2, <1>4, <1>5, <1>7, Replaces
<1> QED BY <1>4, <1>8 DEF Inv

LEMMA ProposeFailsKeeps ==
  ASSUME Inv, setup' = setup, NEW n \in Nodes, NEW w \in Slots, ProposeFails(n, w)
  PROVE  Inv'
<1> DEFINE W == win[n][w]
           ds == Elements(W.events)
<1>1. NodeInv /\ ContractInv
  BY DEF Inv
<1>2. /\ W.stage = "proposing" /\ phase' = phase /\ told' = told /\ crashes' = crashes
      /\ W.events \in Seq(Deposits) /\ ds \in SUBSET Deposits
      /\ V!ProposeCheckpoint(n, W.events) \/ UNCHANGED contractVars
      /\ Free(Node(n)) # {} /\ Becomes(n, Open(With(n, w, NoWindow)), ds)
  BY <1>1, ElementsOfWindow DEF ProposeFails, In, NodeInv
<1>3. W.events \in computed[n]
  BY <1>1, <1>2 DEF NodeInv, Windows, Good, Proper, Node
<1>4. ContractGrows /\ (KnowledgeGrows => ContractInv')
  BY <1>1, <1>2, <1>3, ContractProposes, ContractSame
<1> HIDE DEF ds
<1>5. Proper(NoWindow, told[n], processed' \cup dropped[n] \cup ds, computed[n],
             nextProposal', nextCheckpoint')
  BY ProperFresh
<1>6. NodeInv' /\ KnowledgeGrows
  BY <1>1, <1>2, <1>4, <1>5, Replaces DEF ds
<1> QED BY <1>4, <1>6 DEF Inv

LEMMA NameKeeps ==
  ASSUME Inv, setup' = setup, NEW n \in Nodes, NEW w \in Slots, Name(n, w)
  PROVE  Inv'
<1> DEFINE W == win[n][w]
           rec == [W EXCEPT !.stage = "polling", !.proposal = nextProposal - 1]
<1>1. NodeInv /\ ContractInv /\ nextProposal \in Nat
  BY Bounds DEF Inv, ContractInv
<1>2. /\ W.stage = "naming" /\ phase' = phase /\ told' = told /\ crashes' = crashes
      /\ W \in Window /\ UNCHANGED contractVars /\ Free(Node(n)) # {}
      /\ Becomes(n, Open(With(n, w, rec)), {})
  BY <1>1, ElementsOfWindow DEF Name, In, NodeInv
<1>3. ContractGrows /\ (KnowledgeGrows => ContractInv')
  BY <1>1, <1>2, ContractSame
<1>4. /\ Proper(W, told[n], processed \cup dropped[n], computed[n],
                nextProposal, nextCheckpoint)
      /\ Proper(W, told[n], processed' \cup dropped[n] \cup {}, computed[n],
                nextProposal', nextCheckpoint')
      /\ W.events \in computed[n]
  BY <1>1, <1>2, <1>3, WindowNow
<1>5. nextProposal >= 1
  BY <1>2, <1>4 DEF Proper
<1>6. /\ rec \in Window /\ rec.stage = "polling" /\ rec.proposal = nextProposal - 1
      /\ rec.events = W.events /\ rec.done = W.done
  <2>1. PICK p \in Nat : p = nextProposal - 1
    BY <1>1, <1>5
  <2>2. rec = [W EXCEPT !.stage = "polling", !.proposal = p]
    BY <2>1
  <2>3. /\ rec \in Window /\ rec.stage = "polling" /\ rec.proposal = p
        /\ rec.events = W.events /\ rec.done = W.done
    BY <1>2, <2>2 DEF Window, Stages
  <2> QED BY <2>1, <2>3
<1> HIDE DEF rec
<1>7. rec.proposal < nextProposal'
  BY <1>3, <1>5, <1>6 DEF ContractGrows
<1>8. Proper(rec, told[n], processed' \cup dropped[n] \cup {}, computed[n],
             nextProposal', nextCheckpoint')
  BY <1>2, <1>4, <1>6, <1>7, ProperNext
<1>9. NodeInv' /\ KnowledgeGrows
  BY <1>1, <1>2, <1>3, <1>6, <1>8, Replaces
<1> QED BY <1>3, <1>9 DEF Inv

LEMMA ApprovalSentKeeps ==
  ASSUME Inv, setup' = setup, NEW n \in Nodes, NEW w \in Slots, ApprovalSent(n, w)
  PROVE  Inv'
<1> DEFINE W == win[n][w]
           rec == [W EXCEPT !.stage = "polling"]
<1>1. NodeInv /\ ContractInv
  BY DEF Inv
<1>2. /\ W.stage = "approving" /\ phase' = phase /\ told' = told /\ crashes' = crashes
      /\ W \in Window /\ UNCHANGED contractVars /\ Free(Node(n)) # {}
      /\ Becomes(n, Open(With(n, w, rec)), {})
  BY <1>1, ElementsOfWindow DEF ApprovalSent, At, In, NodeInv
<1>3. ContractGrows /\ (KnowledgeGrows => ContractInv')
  BY <1>1, <1>2, ContractSame
<1>4. /\ Proper(W, told[n], processed' \cup dropped[n] \cup {}, computed[n],
                nextProposal', nextCheckpoint')
      /\ W.events \in computed[n]
  BY <1>1, <1>2, <1>3, WindowNow
<1>5. /\ rec \in Window /\ rec.stage = "polling" /\ rec.proposal = W.proposal
      /\ rec.events = W.events /\ rec.done = W.done
  BY <1>2 DEF Window, Stages
<1> HIDE DEF rec
<1>6. rec.proposal < nextProposal'
  BY <1>2, <1>4, <1>5 DEF Proper
<1>7. Proper(rec, told[n], processed' \cup dropped[n] \cup {}, computed[n],
             nextProposal', nextCheckpoint')
  BY <1>2, <1>4, <1>5, <1>6, ProperNext
<1>8. NodeInv' /\ KnowledgeGrows
  BY <1>1, <1>2, <1>3, <1>5, <1>7, Replaces
<1> QED BY <1>3, <1>8 DEF Inv

\* A node that does not prove is done when it has seen the checkpoint.
LEMMA LeavesOff ==
  ASSUME NodeInv, ContractGrows, setup' = setup, crashes' = crashes, phase' = phase,
         told' = told, NEW n \in Nodes \ Provers, NEW w \in Slots,
         win[n][w].stage # "none", Becomes(n, With(n, w, NoWindow), {})
  PROVE  NodeInv' /\ KnowledgeGrows
<1>1. Proper(NoWindow, told[n], processed' \cup dropped[n] \cup {}, computed[n],
             nextProposal', nextCheckpoint')
  BY ProperFresh
<1> QED BY <1>1, Replaces

LEMMA PollSeesKeeps ==
  ASSUME Inv, setup' = setup, NEW n \in Nodes, NEW w \in Slots, PollSees(n, w)
  PROVE  Inv'
<1> DEFINE W == win[n][w]
           rec == [W EXCEPT !.stage = "reading"]
<1>1. NodeInv /\ ContractInv
  BY DEF Inv
<1>2. /\ W.stage = "polling" /\ phase' = phase /\ told' = told /\ crashes' = crashes
      /\ W \in Window /\ UNCHANGED contractVars /\ proposals[W.proposal].finalized
      /\ n \in Provers => Becomes(n, With(n, w, rec), {})
      /\ n \notin Provers => Becomes(n, With(n, w, NoWindow), {})
  BY <1>1, ElementsOfWindow DEF PollSees, Finalized, At, In, NodeInv
<1>3. ContractGrows /\ (KnowledgeGrows => ContractInv')
  BY <1>1, <1>2, ContractSame
<1>4. CASE n \notin Provers
  <2>1. NodeInv' /\ KnowledgeGrows
    BY <1>1, <1>2, <1>3, <1>4, LeavesOff
  <2> QED BY <1>3, <2>1 DEF Inv
<1>5. CASE n \in Provers
  <2>1. /\ Proper(W, told[n], processed \cup dropped[n], computed[n],
                  nextProposal, nextCheckpoint)
        /\ Proper(W, told[n], processed' \cup dropped[n] \cup {}, computed[n],
                  nextProposal', nextCheckpoint')
        /\ W.events \in computed[n]
    BY <1>1, <1>2, <1>3, WindowNow
  <2>2. W.proposal \in Nat /\ W.proposal < nextProposal
    BY <1>2, <2>1 DEF Proper, Window
  <2>3. W.proposal \in V!Numbers
    <3>1. /\ nextProposal \in Nat /\ V!Numbers = 0..MaxProposals
          /\ nextProposal <= MaxProposals /\ MaxProposals \in Nat
      BY <1>1, Bounds, Constants DEF ContractInv
    <3> QED BY <2>2, <3>1
  <2>4. nextCheckpoint' >= 1
    <3>1. nextCheckpoint >= 1
      BY <1>1, <1>2, <2>3 DEF ContractInv, Attested
    <3> QED BY <1>3, <3>1 DEF ContractGrows
  <2>5. /\ rec \in Window /\ rec.stage = "reading"
        /\ rec.events = W.events /\ rec.done = W.done
    BY <1>2 DEF Window, Stages
  <2> HIDE DEF rec
  <2>6. Proper(rec, told[n], processed' \cup dropped[n] \cup {}, computed[n],
               nextProposal', nextCheckpoint')
    BY <1>2, <2>1, <2>4, <2>5, ProperNext
  <2>7. NodeInv' /\ KnowledgeGrows
    BY <1>1, <1>2, <1>3, <1>5, <2>5, <2>6, Replaces
  <2> QED BY <1>3, <2>7 DEF Inv
<1> QED BY <1>4, <1>5

LEMMA PollFindsKeeps ==
  ASSUME Inv, setup' = setup, NEW n \in Nodes, NEW w \in Slots, PollFinds(n, w)
  PROVE  Inv'
<1> DEFINE W == win[n][w]
           c == Max(Activated(n, w))
           rec == [W EXCEPT !.stage = "proving", !.checkpoint = c]
<1>1. NodeInv /\ ContractInv /\ nextCheckpoint \in Nat
  BY Bounds DEF Inv, ContractInv
<1>2. /\ W.stage = "polling" /\ phase' = phase /\ told' = told /\ crashes' = crashes
      /\ W \in Window /\ UNCHANGED contractVars /\ Activated(n, w) # {}
      /\ n \in Provers => Becomes(n, With(n, w, rec), {})
      /\ n \notin Provers => Becomes(n, With(n, w, NoWindow), {})
  BY <1>1, ElementsOfWindow DEF PollFinds, In, NodeInv
<1>3. ContractGrows /\ (KnowledgeGrows => ContractInv')
  BY <1>1, <1>2, ContractSame
<1>4. CASE n \notin Provers
  <2>1. NodeInv' /\ KnowledgeGrows
    BY <1>1, <1>2, <1>3, <1>4, LeavesOff
  <2> QED BY <1>3, <2>1 DEF Inv
<1>5. CASE n \in Provers
  <2>1. /\ Proper(W, told[n], processed' \cup dropped[n] \cup {}, computed[n],
                  nextProposal', nextCheckpoint')
        /\ W.events \in computed[n]
    BY <1>1, <1>2, <1>3, WindowNow
  <2>2. c \in Nat /\ c < nextCheckpoint
    <3> DEFINE S == Activated(n, w)
    <3>1. S \in SUBSET (0..(nextCheckpoint - 1))
      BY DEF Activated
    <3>2. nextCheckpoint - 1 \in Nat
      <4>1. PICK e \in S : TRUE
        BY <1>2
      <4> QED BY <1>1, <3>1, <4>1
    <3> HIDE DEF S
    <3>3. S # {} => Max(S) \in S
      BY <3>1, <3>2, GreatestIn
    <3> QED BY <1>1, <1>2, <3>1, <3>3 DEF S
  <2> HIDE DEF c
  <2>3. /\ rec \in Window /\ rec.stage = "proving" /\ rec.checkpoint = c
        /\ rec.events = W.events /\ rec.done = W.done
    BY <1>2, <2>2 DEF Window, Stages
  <2> HIDE DEF rec
  <2>4. rec.checkpoint < nextCheckpoint'
    BY <1>3, <2>2, <2>3 DEF ContractGrows
  <2>5. Proper(rec, told[n], processed' \cup dropped[n] \cup {}, computed[n],
               nextProposal', nextCheckpoint')
    BY <1>2, <2>1, <2>3, <2>4, ProperNext
  <2>6. NodeInv' /\ KnowledgeGrows
    BY <1>1, <1>2, <1>3, <1>5, <2>3, <2>5, Replaces DEF c, rec
  <2> QED BY <1>3, <2>6 DEF Inv
<1> QED BY <1>4, <1>5

LEMMA PollGivesUpKeeps ==
  ASSUME Inv, setup' = setup, NEW n \in Nodes, NEW w \in Slots, PollGivesUp(n, w)
  PROVE  Inv'
<1> DEFINE W == win[n][w]
           ds == Elements(W.events)
<1>1. NodeInv /\ ContractInv
  BY DEF Inv
<1>2. /\ W.stage = "polling" /\ phase' = phase /\ told' = told /\ crashes' = crashes
      /\ ds \in SUBSET Deposits /\ UNCHANGED contractVars
      /\ Becomes(n, With(n, w, NoWindow), ds)
  BY <1>1, ElementsOfWindow DEF PollGivesUp, In, NodeInv
<1>3. ContractGrows /\ (KnowledgeGrows => ContractInv')
  BY <1>1, <1>2, ContractSame
<1> HIDE DEF ds
<1>4. Proper(NoWindow, told[n], processed' \cup dropped[n] \cup ds, computed[n],
             nextProposal', nextCheckpoint')
  BY ProperFresh
<1>5. NodeInv' /\ KnowledgeGrows
  BY <1>1, <1>2, <1>3, <1>4, Replaces DEF ds
<1> QED BY <1>3, <1>5 DEF Inv

LEMMA ReadCheckpointKeeps ==
  ASSUME Inv, setup' = setup, NEW n \in Nodes, NEW w \in Slots, ReadCheckpoint(n, w)
  PROVE  Inv'
<1> DEFINE W == win[n][w]
           rec == [W EXCEPT !.stage = "proving", !.checkpoint = nextCheckpoint - 1]
<1>1. NodeInv /\ ContractInv /\ nextCheckpoint \in Nat
  BY Bounds DEF Inv, ContractInv
<1>2. /\ W.stage = "reading" /\ phase' = phase /\ told' = told /\ crashes' = crashes
      /\ W \in Window /\ UNCHANGED contractVars /\ Becomes(n, With(n, w, rec), {})
  BY <1>1, ElementsOfWindow DEF ReadCheckpoint, In, NodeInv
<1>3. ContractGrows /\ (KnowledgeGrows => ContractInv')
  BY <1>1, <1>2, ContractSame
<1>4. /\ Proper(W, told[n], processed \cup dropped[n], computed[n],
                nextProposal, nextCheckpoint)
      /\ Proper(W, told[n], processed' \cup dropped[n] \cup {}, computed[n],
                nextProposal', nextCheckpoint')
      /\ W.events \in computed[n]
  BY <1>1, <1>2, <1>3, WindowNow
<1>5. nextCheckpoint >= 1
  BY <1>2, <1>4 DEF Proper
<1>6. /\ rec \in Window /\ rec.stage = "proving" /\ rec.checkpoint = nextCheckpoint - 1
      /\ rec.events = W.events /\ rec.done = W.done
  <2>1. PICK p \in Nat : p = nextCheckpoint - 1
    BY <1>1, <1>5
  <2>2. rec = [W EXCEPT !.stage = "proving", !.checkpoint = p]
    BY <2>1
  <2>3. /\ rec \in Window /\ rec.stage = "proving" /\ rec.checkpoint = p
        /\ rec.events = W.events /\ rec.done = W.done
    BY <1>2, <2>2 DEF Window, Stages
  <2> QED BY <2>1, <2>3
<1> HIDE DEF rec
<1>7. rec.checkpoint < nextCheckpoint'
  BY <1>3, <1>5, <1>6 DEF ContractGrows
<1>8. Proper(rec, told[n], processed' \cup dropped[n] \cup {}, computed[n],
             nextProposal', nextCheckpoint')
  BY <1>2, <1>4, <1>6, <1>7, ProperNext
<1>9. NodeInv' /\ KnowledgeGrows
  BY <1>1, <1>2, <1>3, <1>6, <1>8, Replaces DEF rec
<1> QED BY <1>3, <1>9 DEF Inv

\* The deposit whose turn it is, in a window that is being proved.
LEMMA Turn ==
  ASSUME NodeInv, ContractGrows, NEW n \in Nodes, NEW w \in Slots,
         NEW d \in Deposits, InTurn(n, w, d), NEW ds
  PROVE  /\ Proper(win[n][w], told[n], processed' \cup dropped[n] \cup ds, computed[n],
                   nextProposal', nextCheckpoint')
         /\ win[n][w].stage = "proving" /\ d = win[n][w].events[win[n][w].done + 1]
         /\ d \in Elements(win[n][w].events)
         /\ win[n][w].checkpoint \in Nat /\ win[n][w].checkpoint < nextCheckpoint
<1> DEFINE W == win[n][w]
<1>1. W.stage = "proving" /\ d = W.events[W.done + 1]
  BY DEF InTurn, In
<1>2. /\ Proper(W, told[n], processed \cup dropped[n], computed[n],
                nextProposal, nextCheckpoint)
      /\ Proper(W, told[n], processed' \cup dropped[n] \cup ds, computed[n],
                nextProposal', nextCheckpoint')
  BY WindowNow
<1>3. /\ W.checkpoint \in Nat /\ W.checkpoint < nextCheckpoint
      /\ W.done \in Nat /\ W.done < Len(W.events) /\ W.events \in Seq(Deposits)
  BY <1>1, <1>2 DEF Proper, Window
<1>4. W.done + 1 \in 1..Len(W.events)
  BY <1>3
<1> QED BY <1>1, <1>2, <1>3, <1>4 DEF Elements

LEMMA Rests ==
  ASSUME NodeInv, ContractGrows, setup' = setup, crashes' = crashes, phase' = phase,
         told' = told, NEW n \in Nodes, NEW w \in Slots, NEW d \in Deposits,
         InTurn(n, w, d), NEW ds \in SUBSET Deposits, d \in processed' \cup ds,
         Becomes(n, Rest(n, w), ds)
  PROVE  NodeInv' /\ KnowledgeGrows
<1> DEFINE W == win[n][w]
           h == processed' \cup dropped[n] \cup ds
           rec == IF W.done + 1 = Len(W.events) THEN NoWindow
                  ELSE [W EXCEPT !.done = @ + 1]
<1>1. /\ Proper(W, told[n], h, computed[n], nextProposal', nextCheckpoint')
      /\ W.stage = "proving" /\ d = W.events[W.done + 1]
  BY Turn
<1>2. Becomes(n, With(n, w, rec), ds)
  BY DEF Rest
<1>3. d \in h
  OBVIOUS
<1> HIDE DEF h
<1>4. /\ Proper(rec, told[n], h, computed[n], nextProposal', nextCheckpoint')
      /\ Elements(W.events) \subseteq Elements(rec.events) \cup h
  BY <1>1, <1>3, ProperRest
<1> HIDE DEF rec
<1> QED BY <1>1, <1>2, <1>4, Replaces DEF h

LEMMA RefusedKeeps ==
  ASSUME Inv, setup' = setup, NEW n \in Nodes, NEW w \in Slots, NEW d \in Deposits,
         Refused(n, w, d)
  PROVE  Inv'
<1>1. NodeInv /\ ContractInv
  BY DEF Inv
<1>2. /\ InTurn(n, w, d) /\ d \in processed /\ Becomes(n, Rest(n, w), {})
      /\ UNCHANGED contractVars /\ phase' = phase /\ told' = told /\ crashes' = crashes
  BY DEF Refused
<1>3. ContractGrows /\ (KnowledgeGrows => ContractInv')
  BY <1>1, <1>2, ContractSame
<1>4. d \in processed' \cup {}
  BY <1>2, <1>3 DEF ContractGrows
<1>5. NodeInv' /\ KnowledgeGrows
  BY <1>1, <1>2, <1>3, <1>4, Rests
<1> QED BY <1>3, <1>5 DEF Inv

LEMMA ProveKeeps ==
  ASSUME Inv, setup' = setup, NEW n \in Nodes, NEW w \in Slots, NEW d \in Deposits,
         Prove(n, w, d)
  PROVE  Inv'
<1> DEFINE W == win[n][w]
           c == W.checkpoint
<1>1. NodeInv /\ ContractInv
  BY DEF Inv
<1>2. /\ InTurn(n, w, d) /\ Becomes(n, Rest(n, w), {}) /\ V!VerifyAndMint(c, d)
      /\ checkpoints[c].root = W.events
      /\ phase' = phase /\ told' = told /\ crashes' = crashes
  BY DEF Prove, Provable
<1>3. c \in V!CheckpointIds /\ c < nextCheckpoint /\ d \in Elements(W.events)
  <2>1. c \in Nat /\ c < nextCheckpoint /\ d \in Elements(W.events)
    <3>1. /\ W.stage = "proving" /\ d = W.events[W.done + 1]
          /\ Proper(W, told[n], processed \cup dropped[n], computed[n],
                    nextProposal, nextCheckpoint)
      BY <1>1, <1>2 DEF InTurn, In, NodeInv, Windows, Good, Node
    <3>2. /\ W.checkpoint \in Nat /\ W.checkpoint < nextCheckpoint
          /\ W.done \in Nat /\ W.done < Len(W.events) /\ W.events \in Seq(Deposits)
      BY <3>1 DEF Proper, Window
    <3>3. W.done + 1 \in 1..Len(W.events)
      BY <3>2
    <3> QED BY <3>1, <3>2, <3>3 DEF Elements
  <2>2. /\ V!CheckpointIds = 0..MaxCheckpoints /\ nextCheckpoint \in 0..MaxCheckpoints
        /\ MaxCheckpoints \in Nat
    BY <1>1, Bounds, Constants DEF ContractInv
  <2> QED BY <2>1, <2>2
<1>4. /\ ContractGrows /\ processed' = processed \cup {d}
      /\ KnowledgeGrows => ContractInv'
  BY <1>1, <1>2, <1>3, ContractMints
<1>5. d \in processed' \cup {}
  BY <1>4
<1>6. NodeInv' /\ KnowledgeGrows
  BY <1>1, <1>2, <1>4, <1>5, Rests
<1> QED BY <1>4, <1>6 DEF Inv

LEMMA ProofFailsKeeps ==
  ASSUME Inv, setup' = setup, NEW n \in Nodes, NEW w \in Slots, NEW d \in Deposits,
         ProofFails(n, w, d)
  PROVE  Inv'
<1>1. NodeInv /\ ContractInv
  BY DEF Inv
<1>2. /\ InTurn(n, w, d) /\ Becomes(n, Rest(n, w), {d})
      /\ UNCHANGED contractVars /\ phase' = phase /\ told' = told /\ crashes' = crashes
  BY DEF ProofFails
<1>3. ContractGrows /\ (KnowledgeGrows => ContractInv')
  BY <1>1, <1>2, ContractSame
<1>4. d \in processed' \cup {d} /\ {d} \in SUBSET Deposits
  OBVIOUS
<1>5. NodeInv' /\ KnowledgeGrows
  BY <1>1, <1>2, <1>3, <1>4, Rests
<1> QED BY <1>3, <1>5 DEF Inv

LEMMA ApprovalKeeps ==
  ASSUME Inv, setup' = setup, NEW a \in mail, Approval(a)
  PROVE  Inv'
<1>1. NodeInv /\ ContractInv
  BY DEF Inv
<1>2. ContractGrows /\ (KnowledgeGrows => ContractInv')
  BY <1>1, ContractApproves, ContractLoses DEF Approval
<1>3. /\ UNCHANGED <<nodeVars, told, histVars>> /\ crashes' \in Nat
      /\ phase' \in [Nodes -> {"down", "starting", "scanning", "running"}]
  BY <1>1 DEF Approval, NodeInv, NodeTypes
<1>4. NodeInv' /\ KnowledgeGrows
  BY <1>1, <1>2, <1>3, Stays
<1> QED BY <1>2, <1>4 DEF Inv

LEMMA RecoverKeeps ==
  ASSUME Inv, setup' = setup, NEW n \in Nodes, NEW c \in V!CheckpointIds, Recover(n, c)
  PROVE  Inv'
<1>1. NodeInv /\ ContractInv
  BY DEF Inv
<1>2. PICK d \in Matching : checkpoints[c].root = <<d>> /\ V!VerifyAndMint(c, d)
  BY DEF Recover
<1>3. d \in Deposits /\ d \in Elements(checkpoints[c].root)
  BY <1>2, ZkPipelineConstants DEF Elements
<1>4. c < nextCheckpoint
  BY <1>1, Bounds DEF Recover, ContractInv
<1>5. ContractGrows /\ (KnowledgeGrows => ContractInv')
  BY <1>1, <1>2, <1>3, <1>4, ContractMints
<1>6. /\ UNCHANGED <<nodeVars, told, histVars>> /\ crashes' \in Nat
      /\ phase' \in [Nodes -> {"down", "starting", "scanning", "running"}]
  BY <1>1 DEF Recover, NodeInv, NodeTypes
<1>7. NodeInv' /\ KnowledgeGrows
  BY <1>1, <1>5, <1>6, Stays
<1> QED BY <1>5, <1>7 DEF Inv

LEMMA StartKeeps ==
  ASSUME Inv, setup' = setup, NEW n \in Nodes, Start(n)
  PROVE  Inv'
<1>1. NodeInv /\ ContractInv
  BY DEF Inv
<1>2. ContractGrows /\ (KnowledgeGrows => ContractInv')
  BY <1>1, ContractSame DEF Start
<1>3. /\ UNCHANGED <<nodeVars, told, histVars>> /\ crashes' \in Nat
      /\ phase' \in [Nodes -> {"down", "starting", "scanning", "running"}]
  BY <1>1 DEF Start, NodeInv, NodeTypes
<1>4. NodeInv' /\ KnowledgeGrows
  BY <1>1, <1>2, <1>3, Stays
<1> QED BY <1>2, <1>4 DEF Inv

LEMMA ScannedKeeps ==
  ASSUME Inv, setup' = setup, NEW n \in Nodes, Scanned(n)
  PROVE  Inv'
<1> DEFINE x == Node(n)
           h == processed' \cup dropped[n] \cup {}
<1>1. NodeInv /\ ContractInv
  BY DEF Inv
<1>2. ContractGrows /\ (KnowledgeGrows => ContractInv')
  BY <1>1, ContractSame DEF Scanned
<1>3. /\ Free(x) # {} /\ Becomes(n, Open(x), {}) /\ crashes' \in Nat
      /\ phase' \in [Nodes -> {"down", "starting", "scanning", "running"}]
      /\ told' = [told EXCEPT ![n] = told[n]] /\ told[n] \in SUBSET Deposits
  BY <1>1 DEF Scanned, NodeInv, NodeTypes
<1>4. /\ Good(x, told[n], h, computed[n], nextProposal', nextCheckpoint')
      /\ n \in Provers => told[n] \subseteq h \cup Holds(x)
  BY <1>1, <1>2, GoodNow
<1> HIDE DEF x, h
<1>5. /\ Good(Open(x), told[n], h, computed[n], nextProposal', nextCheckpoint')
      /\ Holds(x) \subseteq Holds(Open(x))
  BY <1>3, <1>4, GoodOpen
<1>6. n \in Provers => told[n] \subseteq h \cup Holds(Open(x))
  BY <1>4, <1>5
<1>7. NodeInv' /\ KnowledgeGrows
  BY <1>1, <1>2, <1>3, <1>5, <1>6, Moves DEF h
<1> QED BY <1>2, <1>7 DEF Inv

\* Everything in memory is lost, and counted as such.
LEMMA CrashKeeps ==
  ASSUME Inv, setup' = setup, NEW n \in Nodes, Crash(n)
  PROVE  Inv'
<1> DEFINE u == [w \in Slots |-> NoWindow]
           x == [win |-> u, current |-> 0, handle |-> 0, armed |-> {}]
           ds == Held(n)
           h == processed' \cup dropped[n] \cup ds
<1>1. NodeInv /\ ContractInv
  BY DEF Inv
<1>2. ContractGrows /\ (KnowledgeGrows => ContractInv')
  BY <1>1, ContractSame DEF Crash
<1>3. /\ Becomes(n, x, ds) /\ crashes' \in Nat
      /\ phase' \in [Nodes -> {"down", "starting", "scanning", "running"}]
      /\ told' = [told EXCEPT ![n] = told[n]] /\ told[n] \in SUBSET Deposits
  BY <1>1 DEF Crash, NodeInv, NodeTypes
<1>4. ds \in SUBSET Deposits
  BY <1>1, ElementsOfWindow DEF Held, NodeInv
<1>5. u \in [Slots -> Window] /\ \A w \in Slots : u[w] = NoWindow
  BY Windowed
<1> HIDE DEF u
<1>6. x \in NodeState /\ x.win = u
  BY <1>5 DEF NodeState
<1>7. n \in Provers => told[n] \subseteq h
  BY <1>1, <1>2 DEF NodeInv, Accounted, ContractGrows
<1> HIDE DEF x, ds, h
<1>8. Good(x, told[n], h, computed[n], nextProposal', nextCheckpoint')
  <2>1. Proper(NoWindow, told[n], h, computed[n], nextProposal', nextCheckpoint')
    BY ProperFresh
  <2> QED BY <1>5, <1>6, <2>1 DEF Good
<1>9. NodeInv' /\ KnowledgeGrows
  BY <1>1, <1>2, <1>3, <1>4, <1>7, <1>8, Moves DEF h
<1> QED BY <1>2, <1>9 DEF Inv

\* A deposit heard before the service has started counts as given up.
LEMMA UnheardKeeps ==
  ASSUME NodeInv, ContractGrows, setup' = setup, NEW n \in Nodes, NEW d \in Deposits,
         crashes' = crashes, phase' = phase, UNCHANGED <<nodeVars, computed>>,
         told' = [told EXCEPT ![n] = @ \cup {d}],
         dropped' = [dropped EXCEPT ![n] = @ \cup {d}]
  PROVE  NodeInv' /\ KnowledgeGrows
<1>1. /\ win' = win /\ current' = current /\ handle' = handle /\ armed' = armed
      /\ computed' = computed
  BY DEF nodeVars
<1>2. /\ told \in [Nodes -> SUBSET Deposits] /\ dropped \in [Nodes -> SUBSET Deposits]
  BY DEF NodeInv, NodeTypes
<1>3. /\ told'[n] = told[n] \cup {d} /\ dropped'[n] = dropped[n] \cup {d}
      /\ \A m \in Nodes : m # n => told'[m] = told[m] /\ dropped'[m] = dropped[m]
  BY <1>2
<1>4. NodeTypes'
  BY <1>1, <1>2 DEF NodeInv, NodeTypes
<1>5. \A m \in Nodes : told[m] \subseteq told'[m] /\ dropped[m] \subseteq dropped'[m]
  BY <1>3
<1>6. Windows'
  <2> SUFFICES ASSUME NEW m \in Nodes
               PROVE  Good(Node(m)', told'[m], processed' \cup dropped'[m], computed'[m],
                           nextProposal', nextCheckpoint')
    BY DEF Windows
  <2>1. Node(m)' = Node(m)
    BY <1>1 DEF Node
  <2>2. Good(Node(m), told[m], processed \cup dropped[m], computed[m],
             nextProposal, nextCheckpoint)
    BY DEF NodeInv, Windows
  <2>3. processed \cup dropped[m] \subseteq processed' \cup dropped'[m]
    BY <1>5 DEF ContractGrows
  <2>4. Good(Node(m), told'[m], processed' \cup dropped'[m], computed[m],
             nextProposal', nextCheckpoint')
    BY <1>5, <2>2, <2>3, GoodGrows DEF ContractGrows
  <2> QED BY <1>1, <2>1, <2>4
<1>7. Rooted'
  BY <1>1 DEF NodeInv, Rooted
<1>8. Learned'
  BY <1>1, <1>5 DEF NodeInv, Learned
<1>9. Accounted'
  <2>1. Provers' = Provers /\ \A m \in Nodes : Held(m)' = Held(m)
    BY <1>1 DEF Provers, Held
  <2>2. Provers \subseteq Nodes
    BY ZkPipelineConstants DEF NodeInv, NodeTypes, Provers, Setup
  <2> SUFFICES ASSUME NEW m \in Provers
               PROVE  told'[m] \subseteq processed' \cup dropped'[m] \cup Held(m)
    BY <2>1, <2>2 DEF Accounted
  <2>3. told[m] \subseteq processed' \cup dropped[m] \cup Held(m)
    BY DEF NodeInv, Accounted, ContractGrows
  <2> QED BY <1>3, <2>2, <2>3
<1> QED BY <1>1, <1>4, <1>6, <1>7, <1>8, <1>9 DEF NodeInv, KnowledgeGrows

LEMMA AddDepositKeeps ==
  ASSUME Inv, setup' = setup, NEW n \in Nodes, NEW d \in Deposits, AddDeposit(n, d)
  PROVE  Inv'
<1> DEFINE x == Node(n)
           y == IF x.current = 0 \/ Closed(x, x.current) THEN Open(x) ELSE x
           w == y.current
           rec == [y.win[w] EXCEPT !.events = Append(@, d)]
           z == [y EXCEPT !.win[w] = rec]
           e == IF Len(z.win[z.current].events) >= MaxEvents
                THEN Close(z, z.current) ELSE z
           t == told[n] \cup {d}
           h == processed' \cup dropped[n] \cup {}
<1>1. NodeInv /\ ContractInv
  BY DEF Inv
<1>2. ContractGrows /\ (KnowledgeGrows => ContractInv')
  BY <1>1, ContractSame DEF AddDeposit
<1>3. /\ told' = [told EXCEPT ![n] = t] /\ t \in SUBSET Deposits /\ crashes' = crashes
      /\ phase' = phase
  BY <1>1 DEF AddDeposit, NodeInv, NodeTypes
<1>4. CASE phase[n] = "starting"
  <2>1. /\ dropped' = [dropped EXCEPT ![n] = @ \cup {d}]
        /\ UNCHANGED <<nodeVars, computed>>
    BY <1>4 DEF AddDeposit
  <2>2. NodeInv' /\ KnowledgeGrows
    BY <1>1, <1>2, <1>3, <2>1, UnheardKeeps
  <2> QED BY <1>2, <2>2 DEF Inv
<1>5. CASE phase[n] # "starting"
  <2>1. Free(x) # {} /\ Becomes(n, e, {})
    BY <1>5 DEF AddDeposit
  <2>2. /\ Good(x, t, h, computed[n], nextProposal', nextCheckpoint')
        /\ x \in NodeState
        /\ n \in Provers => told[n] \subseteq h \cup Holds(x)
    BY <1>1, <1>2, GoodNow
  <2> HIDE DEF x, h, t
  <2>3. /\ Good(y, t, h, computed[n], nextProposal', nextCheckpoint')
        /\ w \in Slots /\ y.win[w].stage = "open" /\ Holds(x) \subseteq Holds(y)
    <3>1. CASE x.current = 0 \/ Closed(x, x.current)
      BY <2>1, <2>2, <3>1, GoodOpen
    <3>2. CASE ~(x.current = 0 \/ Closed(x, x.current))
      <4>1. x.current \in Slots /\ x.win[x.current].stage = "open"
        BY <2>2, <3>2 DEF NodeState, Closed
      <4> QED BY <2>2, <3>2, <4>1
    <3> QED BY <3>1, <3>2
  <2> HIDE DEF y
  <2>4. /\ Proper(y.win[w], t, h, computed[n], nextProposal', nextCheckpoint')
        /\ y \in NodeState /\ y.win[w] \in Window /\ y.win[w].events \in Seq(Deposits)
    BY <2>3 DEF Good, Proper, Window
  <2> HIDE DEF w
  <2>5. /\ rec \in Window /\ rec.stage = "open" /\ rec.done = y.win[w].done
        /\ rec.events = Append(y.win[w].events, d)
    BY <2>3, <2>4, ElementsAppend DEF Window
  <2> HIDE DEF rec
  <2>6. rec.events # <<>> /\ Elements(rec.events) = Elements(y.win[w].events) \cup {d}
    BY <2>4, <2>5, ElementsAppend
  <2>7. Proper(rec, t, h, computed[n], nextProposal', nextCheckpoint')
    <3>1. y.win[w].done = 0 /\ Elements(y.win[w].events) \subseteq t /\ d \in t
      BY <2>3, <2>4 DEF Proper, t
    <3> QED BY <2>5, <2>6, <3>1 DEF Proper
  <2>8. Good(z, t, h, computed[n], nextProposal', nextCheckpoint')
    BY <2>3, <2>7, GoodWith
  <2>9. z.win[w] = rec /\ z.current = w
    <3>1. w \in Slots
      BY <2>3
    <3>2. z.win[w] = rec
      BY ZenonT(60), <2>4, <2>5, <3>1, With1
    <3>3. z.current = y.current
      BY <2>4, <2>5, <3>1, With1
    <3> QED BY <3>2, <3>3 DEF w
  <2>10. n \in Provers => t \subseteq h \cup Holds(z)
    <3>1. /\ Holds(y) \subseteq Holds(z) \cup Elements(y.win[w].events)
          /\ Elements(rec.events) \subseteq Holds(z)
      BY <2>3, <2>4, <2>5, HoldsWith
    <3> HIDE DEF z
    <3> QED BY <2>2, <2>3, <2>6, <3>1 DEF t
  <2> HIDE DEF z
  <2>11. /\ Good(e, t, h, computed[n], nextProposal', nextCheckpoint')
         /\ n \in Provers => t \subseteq h \cup Holds(e)
    <3>1. CASE Len(z.win[z.current].events) >= MaxEvents
      <4>1. e = Close(z, w)
        BY <2>9, <3>1
      <4> HIDE DEF e
      <4>2. /\ Good(Close(z, w), t, h, computed[n], nextProposal', nextCheckpoint')
            /\ Holds(z) \subseteq Holds(Close(z, w))
        BY <2>3, <2>5, <2>6, <2>8, <2>9, GoodClose
      <4> QED BY <2>10, <4>1, <4>2
    <3>2. CASE ~(Len(z.win[z.current].events) >= MaxEvents)
      <4>1. e = z
        BY <3>2
      <4> QED BY <2>8, <2>10, <4>1
    <3> QED BY <3>1, <3>2
  <2>12. told[n] \subseteq t /\ crashes' \in Nat
         /\ phase' \in [Nodes -> {"down", "starting", "scanning", "running"}]
    BY <1>1, <1>3 DEF t, NodeInv, NodeTypes
  <2>13. Becomes(n, e, {})
    BY <2>1
  <2> HIDE DEF e
  <2>14. NodeInv' /\ KnowledgeGrows
    BY <1>1, <1>2, <1>3, <2>11, <2>12, <2>13, Moves DEF h
  <2> QED BY <1>2, <2>14 DEF Inv
<1> QED BY <1>4, <1>5

LEMMA TimerKeeps ==
  ASSUME Inv, setup' = setup, NEW n \in Nodes, NEW w \in Slots, Timer(n, w)
  PROVE  Inv'
<1> DEFINE x == [Node(n) EXCEPT !.armed = @ \ {w}]
           y == [x EXCEPT !.win[w] = NoWindow]
           t == told[n]
           h == processed' \cup dropped[n] \cup {}
           G(s) == /\ Good(s, t, h, computed[n], nextProposal', nextCheckpoint')
                   /\ n \in Provers => t \subseteq h \cup Holds(s)
<1>1. NodeInv /\ ContractInv
  BY DEF Inv
<1>2. ContractGrows /\ (KnowledgeGrows => ContractInv')
  BY <1>1, ContractSame DEF Timer
<1>3. /\ t \in SUBSET Deposits /\ told' = [told EXCEPT ![n] = t] /\ crashes' \in Nat
      /\ phase' \in [Nodes -> {"down", "starting", "scanning", "running"}]
  BY <1>1 DEF Timer, NodeInv, NodeTypes
<1>4. /\ Good(Node(n), t, h, computed[n], nextProposal', nextCheckpoint')
      /\ Node(n) \in NodeState
      /\ n \in Provers => t \subseteq h \cup Holds(Node(n))
  BY <1>1, <1>2, GoodNow
<1>5. x \in NodeState /\ x.win = Node(n).win
  BY <1>4 DEF NodeState
<1>6. \/ Becomes(n, x, {})
      \/ ~Closed(x, w) /\ x.win[w].events # <<>> /\ Becomes(n, Close(x, w), {})
      \/ ~Closed(x, w) /\ x.win[w].events = <<>> /\ Becomes(n, Open(y), {})
  BY DEF Timer
<1> HIDE DEF x, h
<1>7. G(x)
  BY <1>4, <1>5 DEF Good, Holds
<1>8. ASSUME NEW s, G(s), Becomes(n, s, {}) PROVE Inv'
  <2>1. NodeInv' /\ KnowledgeGrows
    BY <1>1, <1>2, <1>3, <1>8, Moves DEF h
  <2> QED BY <1>2, <2>1 DEF Inv
<1>9. ASSUME ~Closed(x, w), x.win[w].events # <<>> PROVE G(Close(x, w))
  <2>1. x.win[w].stage = "open"
    BY <1>9 DEF Closed
  <2>2. /\ Good(Close(x, w), t, h, computed[n], nextProposal', nextCheckpoint')
        /\ Holds(x) \subseteq Holds(Close(x, w))
    BY <1>7, <1>9, <2>1, GoodClose
  <2> QED BY <1>7, <2>2
<1>10. ASSUME ~Closed(x, w), x.win[w].events = <<>> PROVE G(Open(y))
  <2>1. Proper(NoWindow, t, h, computed[n], nextProposal', nextCheckpoint')
    BY ProperFresh
  <2>2. Good(y, t, h, computed[n], nextProposal', nextCheckpoint')
    BY <1>7, <2>1, GoodWith
  <2>3. Holds(x) \subseteq Holds(y) \cup Elements(x.win[w].events) /\ y.win[w] = NoWindow
    BY <1>5, Windowed, HoldsWith, With1
  <2> HIDE DEF y
  <2>4. Elements(x.win[w].events) = {} /\ Free(y) # {}
    BY <1>10, <2>3, ElementsNone DEF Free, NoWindow
  <2>5. /\ Good(Open(y), t, h, computed[n], nextProposal', nextCheckpoint')
        /\ Holds(y) \subseteq Holds(Open(y))
    BY <2>2, <2>4, GoodOpen
  <2> QED BY <1>7, <2>3, <2>4, <2>5
<1> HIDE DEF y, G
<1> QED BY <1>6, <1>7, <1>8, <1>9, <1>10

----------------------------------------------------------------------------
LEMMA InitInv == Init => Inv
<1> SUFFICES ASSUME Init PROVE Inv
  OBVIOUS
<1> DEFINE f == Min(Slots)
           u == [w \in Slots |-> IF w = f THEN Fresh ELSE NoWindow]
<1>1. f \in Slots
  BY Constants, LeastIn
<1> HIDE DEF f
<1>2. u \in [Slots -> Window] /\ \A w \in Slots : u[w] \in {Fresh, NoWindow}
  BY Windowed
<1>3. /\ win = [n \in Nodes |-> u] /\ current = [n \in Nodes |-> f] /\ handle = current
      /\ armed = [n \in Nodes |-> {f}]
  BY DEF Init, f
<1> HIDE DEF u
<1>4. NodeTypes
  BY <1>1, <1>2, <1>3 DEF Init, NodeTypes
<1>5. Windows
  <2> SUFFICES ASSUME NEW n \in Nodes
               PROVE  Good(Node(n), told[n], processed \cup dropped[n], computed[n],
                           nextProposal, nextCheckpoint)
    BY DEF Windows
  <2>1. Node(n) = [win |-> u, current |-> f, handle |-> f, armed |-> {f}]
    BY <1>3 DEF Node
  <2>2. Node(n) \in NodeState /\ Node(n).win = u
    BY <1>1, <1>2, <2>1 DEF NodeState
  <2> QED BY <1>2, <2>2, ProperFresh DEF Good
<1>6. Rooted
  BY <1>2, <1>3, Windowed DEF Rooted, NoWindow
<1>7. Learned /\ Accounted
  <2>1. Provers \subseteq Nodes
    BY <1>4, ZkPipelineConstants DEF NodeTypes, Provers, Setup
  <2> QED BY <2>1 DEF Init, Learned, Accounted
<1>8. 0 \in V!Numbers /\ 0 \in V!CheckpointIds
  BY Constants DEF V!Numbers, V!CheckpointIds
<1>9. ContractTypes
  <2>1. <<>> \in Seq(Deposits) /\ 0 \in Nat
    OBVIOUS
  <2>2. /\ V!NoProposal \in [root : Seq(Deposits), approvals : Nat, finalized : BOOLEAN]
        /\ V!NoCheckpoint \in [root : Seq(Deposits), height : Nat, active : BOOLEAN]
    BY <2>1 DEF V!NoProposal, V!NoCheckpoint
  <2>3. minted \in Seq([message : Deposits, checkpoint : V!CheckpointIds, height : Nat])
    BY DEF Init
  <2> QED BY <1>8, <2>2, <2>3 DEF Init, ContractTypes
<1>10. Attested
  <2>1. V!NoProposal.finalized = FALSE /\ \A p \in V!Numbers : ~(p < 0)
    BY Constants DEF V!NoProposal, V!Numbers
  <2> QED BY <2>1 DEF Init, Attested
<1>11. Mailed /\ Proven
  BY DEF Init, Mailed, Proven
<1>12. Agreed
  BY Constants DEF Init, Agreed, V!CheckpointIds
<1> QED BY <1>4, <1>5, <1>6, <1>7, <1>9, <1>10, <1>11, <1>12 DEF Inv, NodeInv, ContractInv

LEMMA NextInv == Inv /\ [Next]_vars => Inv'
<1> SUFFICES ASSUME Inv, [Next]_vars PROVE Inv'
  OBVIOUS
<1>1. CASE UNCHANGED vars
  <2>1. NodeInv /\ ContractInv /\ UNCHANGED contractVars /\ setup' = setup
        /\ UNCHANGED <<nodeVars, told, histVars>> /\ crashes' \in Nat
        /\ phase' \in [Nodes -> {"down", "starting", "scanning", "running"}]
    BY <1>1 DEF vars, Inv, NodeInv, NodeTypes
  <2>2. ContractGrows /\ (KnowledgeGrows => ContractInv')
    BY <2>1, ContractSame
  <2>3. NodeInv' /\ KnowledgeGrows
    BY <2>1, <2>2, Stays
  <2> QED BY <2>2, <2>3 DEF Inv
<1>2. ASSUME Progress, setup' = setup PROVE Inv'
  <2>1. ASSUME NEW n \in Nodes, NEW w \in Slots, Step(n, w) PROVE Inv'
    BY <1>2, <2>1, LookKeeps, ProposeKeeps, ProposeFailsKeeps, NameKeeps,
       ApprovalSentKeeps, PollSeesKeeps, PollFindsKeeps, PollGivesUpKeeps,
       ReadCheckpointKeeps, RefusedKeeps, ProveKeeps, ProofFailsKeeps DEF Step
  <2> QED BY <1>2, <2>1, ApprovalKeeps, StartKeeps, ScannedKeeps, TimerKeeps DEF Progress
<1>3. CASE /\ \E n \in Nodes : \/ \E d \in Deposits : AddDeposit(n, d)
                               \/ \E w \in Slots : Timer(n, w)
                               \/ Crash(n)
                               \/ \E c \in V!CheckpointIds : Recover(n, c)
           /\ UNCHANGED setup
  BY <1>3, AddDepositKeeps, TimerKeeps, CrashKeeps, RecoverKeeps
<1> QED BY <1>1, <1>2, <1>3 DEF Next

\* Every state satisfies the inductive invariant.
THEOREM ZkPipelineInvariance == Spec => []Inv
BY InitInv, NextInv, PTL DEF Spec

\* A deposit is minted only after the watchers of a quorum of nodes had reported
\* it, and each of these nodes had itself computed the root it was proved under.
THEOREM ZkPipelineHeard == Spec => []MintedOnlyIfHeard
<1>1. Inv => MintedOnlyIfHeard
  <2> SUFFICES ASSUME Inv, NEW i \in 1..Len(minted)
               PROVE  Cardinality({n \in Nodes : minted[i].message \in told[n] /\
                         checkpoints[minted[i].checkpoint].root \in computed[n]}) >= Threshold
    BY DEF MintedOnlyIfHeard
  <2> DEFINE c == minted[i].checkpoint
             r == checkpoints[c].root
             K == Knowing(r)
             L == {n \in Nodes : minted[i].message \in told[n] /\ r \in computed[n]}
  <2>1. ContractInv /\ NodeInv /\ c \in V!CheckpointIds
    BY MintIn DEF Inv, ContractInv
  <2>2. c < nextCheckpoint /\ minted[i].message \in Elements(r)
    BY <2>1 DEF ContractInv, Proven
  <2>3. Cardinality(K) >= Threshold
    BY <2>1, <2>2 DEF ContractInv, Agreed
  <2>4. K = L
    BY <2>1, <2>2 DEF NodeInv, Learned, Knowing
  <2> HIDE DEF K, L
  <2>5. Cardinality(L) >= Threshold
    BY <2>3, <2>4
  <2> QED BY <2>5 DEF L
<1> QED BY <1>1, ZkPipelineInvariance, PTL

\* No deposit a prover has been told of is lost silently: it is minted, still in a
\* window, or among those given up in a way the model names.
THEOREM ZkPipelineAccounts == Spec => []Accounted
<1>1. Inv => Accounted
  BY DEF Inv, NodeInv
<1> QED BY <1>1, ZkPipelineInvariance, PTL

----------------------------------------------------------------------------
(* The composition with the contract.  What the nodes do to the contract   *)
(* is allowed there, and so what ZkVerifierProofs shows of the contract    *)
(* holds among these nodes.                                                *)

\* A window commits to different deposits, at most MaxEvents of them, and an
\* open one has room for another.
Sized(W) ==
  /\ \A i, j \in 1..Len(W.events) : W.events[i] = W.events[j] => i = j
  /\ Len(W.events) <= MaxEvents
  /\ W.stage = "open" => Len(W.events) < MaxEvents
AllSized(u) == \A w \in Slots : Sized(u[w])
WindowsSized == \A n \in Nodes : AllSized(win[n])

LEMMA SizedFresh == Sized(NoWindow) /\ Sized(Fresh)
<1>1. /\ NoWindow.stage = "none" /\ NoWindow.events = <<>> /\ Fresh.events = <<>>
      /\ Len(<<>>) = 0
  BY Windowed DEF NoWindow
<1> QED BY <1>1, Constants DEF Sized

LEMMA SizedMoved ==
  ASSUME NEW W, Sized(W), NEW U, U.events = W.events, U.stage = "open" => W.stage = "open"
  PROVE  Sized(U)
BY DEF Sized

LEMMA SizedWith ==
  ASSUME NEW u, DOMAIN u = Slots, AllSized(u), NEW w \in Slots, NEW rec, Sized(rec)
  PROVE  AllSized([u EXCEPT ![w] = rec])
BY DEF AllSized

LEMMA SizedOpen ==
  ASSUME NEW x, DOMAIN x.win = Slots, AllSized(x.win), Free(x) # {}
  PROVE  DOMAIN Open(x).win = Slots /\ AllSized(Open(x).win)
<1>1. Min(Free(x)) \in Slots
  BY Constants, LeastIn DEF Free
<1>2. Open(x).win = [x.win EXCEPT ![Min(Free(x))] = Fresh]
  BY DEF Open
<1>3. AllSized([x.win EXCEPT ![Min(Free(x))] = Fresh])
  BY <1>1, SizedFresh, SizedWith
<1> QED BY <1>2, <1>3

LEMMA SizedClose ==
  ASSUME NEW x, x.win \in [Slots -> Window], AllSized(x.win), NEW w \in Slots
  PROVE  DOMAIN Close(x, w).win = Slots /\ AllSized(Close(x, w).win)
<1> DEFINE rec == [x.win[w] EXCEPT !.stage = "closing"]
<1>1. rec.events = x.win[w].events /\ rec.stage # "open" /\ Sized(x.win[w])
  BY DEF Window, AllSized
<1>2. Close(x, w).win = [x.win EXCEPT ![w] = rec]
  BY DEF Close
<1> HIDE DEF rec
<1>3. Sized(rec)
  BY <1>1, SizedMoved
<1>4. AllSized([x.win EXCEPT ![w] = rec])
  BY <1>3, SizedWith
<1> QED BY <1>2, <1>4

LEMMA SizedTidy ==
  ASSUME NEW x, DOMAIN x.win = Slots, AllSized(x.win),
         x = [win |-> x.win, current |-> x.current, handle |-> x.handle, armed |-> x.armed]
  PROVE  AllSized(Tidy(x).win)
<1> DEFINE u == [w \in Slots |-> IF Orphan(x, w) THEN NoWindow ELSE x.win[w]]
<1>1. Tidy(x).win = u
  <2> HIDE DEF u
  <2>1. Tidy(x) = [x EXCEPT !.win = u]
    BY DEF Tidy, u
  <2> QED BY <2>1
<1>2. AllSized(u)
  BY SizedFresh DEF AllSized
<1> QED BY <1>1, <1>2

LEMMA SizedBecomes ==
  ASSUME NodeTypes, WindowsSized, NEW n \in Nodes, NEW x, NEW ds, Becomes(n, x, ds),
         DOMAIN x.win = Slots, AllSized(x.win),
         x = [win |-> x.win, current |-> x.current, handle |-> x.handle, armed |-> x.armed]
  PROVE  WindowsSized'
<1> DEFINE u == Tidy(x).win
<1>1. win' = [win EXCEPT ![n] = u]
  BY Becoming
<1>2. AllSized(u)
  BY SizedTidy
<1> HIDE DEF u
<1>3. \A m \in Nodes : AllSized(win'[m])
  BY <1>1, <1>2 DEF NodeTypes, WindowsSized
<1> QED BY <1>3 DEF WindowsSized, AllSized

\* A window moves on with the deposits it has, or is done with.
LEMMA SizedReplaces ==
  ASSUME NodeTypes, WindowsSized, NEW n \in Nodes, NEW w \in Slots, win[n][w].stage # "none",
         NEW ds, NEW rec, rec = NoWindow \/ (rec.events = win[n][w].events /\ rec.stage # "open"),
         \/ Becomes(n, With(n, w, rec), ds)
         \/ Free(Node(n)) # {} /\ Becomes(n, Open(With(n, w, rec)), ds)
  PROVE  WindowsSized'
<1> DEFINE u == [win[n] EXCEPT ![w] = rec]
           y == [win |-> u, current |-> current[n], handle |-> handle[n],
                 armed |-> armed[n]]
<1>1. With(n, w, rec) = y
  BY DEF With, Node
<1>2. win[n] \in [Slots -> Window] /\ AllSized(win[n]) /\ Sized(win[n][w])
  BY DEF NodeTypes, WindowsSized, AllSized
<1>3. Sized(rec)
  BY <1>2, SizedFresh, SizedMoved
<1>4. DOMAIN u = Slots /\ AllSized(u) /\ \A v \in Slots : v # w => u[v] = win[n][v]
  BY <1>2, <1>3, SizedWith
<1> HIDE DEF u
<1>5. /\ y.win = u /\ y.current = current[n] /\ y.handle = handle[n]
      /\ y.armed = armed[n]
  OBVIOUS
<1>6. y = [win |-> y.win, current |-> y.current, handle |-> y.handle, armed |-> y.armed]
  OBVIOUS
<1> HIDE DEF y
<1>7. CASE Becomes(n, With(n, w, rec), ds)
  BY <1>1, <1>4, <1>5, <1>6, <1>7, SizedBecomes
<1>8. CASE Free(Node(n)) # {} /\ Becomes(n, Open(With(n, w, rec)), ds)
  <2>1. Free(y) # {}
    <3>1. PICK v \in Slots : Node(n).win[v].stage = "none"
      BY <1>8 DEF Free
    <3>2. v # w /\ win[n][v].stage = "none"
      BY <3>1 DEF Node
    <3> QED BY <1>4, <1>5, <3>2 DEF Free
  <2> DEFINE z == Open(y)
  <2>2. DOMAIN z.win = Slots /\ AllSized(z.win)
    BY <1>4, <1>5, <2>1, SizedOpen
  <2>3. z = [win |-> z.win, current |-> z.current, handle |-> z.handle, armed |-> z.armed]
    BY DEF Open
  <2>4. Becomes(n, z, ds)
    BY <1>1, <1>8
  <2> HIDE DEF z
  <2> QED BY <2>2, <2>3, <2>4, SizedBecomes
<1> QED BY <1>7, <1>8

LEMMA SizedAddDeposit ==
  ASSUME Inv, WindowsSized, NEW n \in Nodes, NEW d \in Deposits, AddDeposit(n, d)
  PROVE  WindowsSized'
<1> DEFINE x == Node(n)
           y == IF x.current = 0 \/ Closed(x, x.current) THEN Open(x) ELSE x
           w == y.current
           rec == [y.win[w] EXCEPT !.events = Append(@, d)]
           z == [y EXCEPT !.win[w] = rec]
           e == IF Len(z.win[z.current].events) >= MaxEvents
                THEN Close(z, z.current) ELSE z
           t == told[n]
<1>1. NodeTypes /\ Windows /\ d \notin t
  BY DEF Inv, NodeInv, AddDeposit
<1>2. CASE phase[n] = "starting"
  <2>1. win' = win
    BY <1>2 DEF AddDeposit, nodeVars
  <2> QED BY <2>1 DEF WindowsSized, AllSized
<1>3. CASE phase[n] # "starting"
  <2>1. Free(x) # {} /\ Becomes(n, e, {})
    BY <1>3 DEF AddDeposit
  <2> DEFINE Told(s) == \A v \in Slots : Elements(s.win[v].events) \subseteq t
  <2>2. /\ Good(x, t, processed \cup dropped[n], computed[n], nextProposal, nextCheckpoint)
        /\ x \in NodeState /\ DOMAIN x.win = Slots /\ AllSized(x.win)
    <3>1. Good(x, t, processed \cup dropped[n], computed[n], nextProposal, nextCheckpoint)
      BY <1>1 DEF Windows
    <3>2. AllSized(x.win)
      BY DEF WindowsSized, Node
    <3> QED BY <3>1, <3>2 DEF Good, NodeState
  <2> HIDE DEF x, t
  <2>3. /\ Good(y, t, processed \cup dropped[n], computed[n], nextProposal, nextCheckpoint)
        /\ w \in Slots /\ y.win[w].stage = "open" /\ AllSized(y.win)
    <3>1. CASE x.current = 0 \/ Closed(x, x.current)
      BY <2>1, <2>2, <3>1, GoodOpen, SizedOpen
    <3>2. CASE ~(x.current = 0 \/ Closed(x, x.current))
      <4>1. x.current \in Slots /\ x.win[x.current].stage = "open"
        BY <2>2, <3>2 DEF NodeState, Closed
      <4> QED BY <2>2, <3>2, <4>1
    <3> QED BY <3>1, <3>2
  <2> HIDE DEF y
  <2> DEFINE s == y.win[w].events
  <2>4. /\ y \in NodeState /\ y.win \in [Slots -> Window] /\ y.win[w] \in Window
        /\ s \in Seq(Deposits) /\ Elements(s) \subseteq t /\ Sized(y.win[w])
    <3>1. y \in NodeState /\ y.win \in [Slots -> Window] /\ w \in Slots
      BY <2>3 DEF Good, NodeState
    <3>2. y.win[w] \in Window /\ Elements(s) \subseteq t
      BY <2>3, <3>1 DEF Good, Proper
    <3> QED BY <2>3, <3>1, <3>2 DEF AllSized, Window
  <2> HIDE DEF w
  <2>5. rec \in Window /\ rec.stage = "open" /\ rec.events = Append(s, d)
    BY <2>3, <2>4, ElementsAppend DEF Window
  <2> HIDE DEF rec
  <2>6. /\ \A i, j \in 1..Len(rec.events) : rec.events[i] = rec.events[j] => i = j
        /\ Len(rec.events) <= MaxEvents
    <3>1. /\ Len(s) \in Nat /\ Len(rec.events) = Len(s) + 1
          /\ \A i \in 1..Len(s) : rec.events[i] = s[i]
          /\ rec.events[Len(s) + 1] = d
      BY <2>4, <2>5
    <3>2. \A i \in 1..Len(s) : s[i] \in t
      BY <2>4, ElementsIn
    <3>3. /\ \A i, j \in 1..Len(s) : s[i] = s[j] => i = j
          /\ Len(s) < MaxEvents
      BY <2>3, <2>4 DEF Sized
    <3> HIDE DEF s
    <3>4. \A i \in 1..Len(s) : rec.events[i] # d
      BY <1>1, <3>1, <3>2
    <3>5. ASSUME NEW i \in 1..Len(rec.events), NEW j \in 1..Len(rec.events),
                 rec.events[i] = rec.events[j]
          PROVE  i = j
      <4>1. (i \in 1..Len(s) \/ i = Len(s) + 1) /\ (j \in 1..Len(s) \/ j = Len(s) + 1)
        BY <3>1, <3>5
      <4> QED BY <3>1, <3>3, <3>4, <3>5, <4>1
    <3>6. Len(rec.events) <= MaxEvents
      BY <3>1, <3>3, Constants
    <3> QED BY <3>5, <3>6
  <2>7. /\ z.win = [y.win EXCEPT ![w] = rec] /\ z.current = w
        /\ z = [win |-> z.win, current |-> z.current, handle |-> z.handle, armed |-> z.armed]
    <3>1. z.win = [y.win EXCEPT ![w] = rec] /\ z.current = y.current /\ z \in NodeState
      BY <2>3, <2>4, <2>5, With1
    <3> HIDE DEF z
    <3> QED BY <3>1 DEF w, NodeState
  <2> DEFINE u == [y.win EXCEPT ![w] = rec]
  <2>8. u \in [Slots -> Window] /\ u[w] = rec /\ \A v \in Slots : v # w => u[v] = y.win[v]
    BY <2>3, <2>4, <2>5
  <2> HIDE DEF u, z
  <2>9. CASE Len(rec.events) >= MaxEvents
    <3> DEFINE full == [rec EXCEPT !.stage = "closing"]
               c == [u EXCEPT ![w] = full]
               a == z.armed \ {z.handle}
               k == [win |-> c, current |-> w, handle |-> 0, armed |-> a]
    <3>1. full.events = rec.events /\ full.stage # "open"
      BY <2>5 DEF Window
    <3>2. e = k
      <4>1. z.win[z.current] = rec /\ z.win = u /\ z.current = w
        BY <2>7, <2>8 DEF u
      <4>2. e = Close(z, w)
        BY <2>9, <4>1
      <4>3. Close(z, w) = [win |-> [u EXCEPT ![w].stage = "closing"], current |-> w,
                           handle |-> 0, armed |-> z.armed \ {z.handle}]
        BY <4>1 DEF Close
      <4> QED BY <2>8, <4>2, <4>3
    <3> HIDE DEF full
    <3>3. Sized(full)
      BY <2>6, <3>1 DEF Sized
    <3>4. AllSized(c) /\ DOMAIN c = Slots
      <4>1. c[w] = full /\ \A v \in Slots : v # w => c[v] = y.win[v]
        BY <2>3, <2>8
      <4> QED BY <2>3, <2>8, <3>3, <4>1 DEF AllSized
    <3> HIDE DEF c, a
    <3>5. /\ k.win = c
          /\ k = [win |-> k.win, current |-> k.current, handle |-> k.handle, armed |-> k.armed]
      OBVIOUS
    <3>6. Becomes(n, k, {})
      BY <2>1, <3>2
    <3> HIDE DEF k
    <3> QED BY <1>1, <3>4, <3>5, <3>6, SizedBecomes
  <2>10. CASE ~(Len(rec.events) >= MaxEvents)
    <3>1. z.win[z.current] = rec /\ z.win = u
      BY <2>7, <2>8 DEF u
    <3>2. e = z
      BY <2>10, <3>1
    <3>3. Sized(rec)
      <4>1. Len(rec.events) \in Nat
        BY <2>4, <2>5
      <4> QED BY <2>6, <2>10, <4>1, Constants DEF Sized
    <3>4. AllSized(u) /\ DOMAIN u = Slots
      BY <2>3, <2>8, <3>3 DEF AllSized
    <3>5. Becomes(n, z, {})
      BY <2>1, <3>2
    <3> QED BY <1>1, <2>7, <3>1, <3>4, <3>5, SizedBecomes
  <2> QED BY <2>9, <2>10
<1> QED BY <1>2, <1>3

LEMMA Replaced ==
  ASSUME NEW x, NEW w, NEW r,
         x = [win |-> x.win, current |-> x.current, handle |-> x.handle, armed |-> x.armed]
  PROVE  [x EXCEPT !.win[w] = r] = [win |-> [x.win EXCEPT ![w] = r], current |-> x.current,
                                    handle |-> x.handle, armed |-> x.armed]
OBVIOUS

LEMMA SizedTimer ==
  ASSUME Inv, WindowsSized, NEW n \in Nodes, NEW w \in Slots, Timer(n, w)
  PROVE  WindowsSized'
<1> DEFINE a == armed[n] \ {w}
           x == [win |-> win[n], current |-> current[n], handle |-> handle[n], armed |-> a]
           u == [win[n] EXCEPT ![w] = NoWindow]
           y == [win |-> u, current |-> current[n], handle |-> handle[n], armed |-> a]
<1>1. NodeTypes /\ win[n] \in [Slots -> Window] /\ AllSized(win[n])
  BY DEF Inv, NodeInv, NodeTypes, WindowsSized
<1>2. [Node(n) EXCEPT !.armed = @ \ {w}] = x
  BY DEF Node
<1>3. \/ Becomes(n, x, {})
      \/ Becomes(n, Close(x, w), {})
      \/ Becomes(n, Open([x EXCEPT !.win[w] = NoWindow]), {})
  BY <1>2 DEF Timer
<1>4. [x EXCEPT !.win[w] = NoWindow] = y
  <2> HIDE DEF a
  <2>1. /\ x.win = win[n] /\ x.current = current[n] /\ x.handle = handle[n] /\ x.armed = a
        /\ x = [win |-> x.win, current |-> x.current, handle |-> x.handle, armed |-> x.armed]
    OBVIOUS
  <2> HIDE DEF x
  <2> QED BY <2>1, Replaced
<1>5. u \in [Slots -> Window] /\ AllSized(u) /\ u[w] = NoWindow
  BY <1>1, SizedFresh, SizedWith, Windowed
<1> HIDE DEF a, u
<1>6. /\ x.win = win[n] /\ y.win = u
      /\ x = [win |-> x.win, current |-> x.current, handle |-> x.handle, armed |-> x.armed]
  OBVIOUS
<1> HIDE DEF x, y
<1>7. CASE Becomes(n, x, {})
  BY <1>1, <1>6, <1>7, SizedBecomes
<1>8. CASE Becomes(n, Close(x, w), {})
  <2> DEFINE z == Close(x, w)
  <2>1. DOMAIN z.win = Slots /\ AllSized(z.win)
    BY <1>1, <1>6, SizedClose
  <2>2. z = [win |-> z.win, current |-> z.current, handle |-> z.handle, armed |-> z.armed]
    BY DEF Close
  <2>3. Becomes(n, z, {})
    BY <1>8
  <2> HIDE DEF z
  <2> QED BY <1>1, <2>1, <2>2, <2>3, SizedBecomes
<1>9. CASE Becomes(n, Open([x EXCEPT !.win[w] = NoWindow]), {})
  <2> DEFINE z == Open(y)
  <2>0. Free(y) # {}
    BY <1>5, <1>6 DEF Free, NoWindow
  <2>1. DOMAIN z.win = Slots /\ AllSized(z.win)
    BY <1>5, <1>6, <2>0, SizedOpen
  <2>2. z = [win |-> z.win, current |-> z.current, handle |-> z.handle, armed |-> z.armed]
    BY DEF Open
  <2>3. Becomes(n, z, {})
    BY <1>4, <1>9
  <2> HIDE DEF z
  <2> QED BY <1>1, <2>1, <2>2, <2>3, SizedBecomes
<1> QED BY <1>3, <1>7, <1>8, <1>9

LEMMA SizedSteps ==
  ASSUME NodeInv, WindowsSized, NEW n \in Nodes, NEW w \in Slots, Step(n, w)
  PROVE  WindowsSized'
<1> DEFINE W == win[n][w]
<1>1. NodeTypes /\ W \in Window
  BY ElementsOfWindow DEF NodeInv
<1>2. \A st \in Stages : /\ [W EXCEPT !.stage = st].events = W.events
                         /\ [W EXCEPT !.stage = st].stage = st
  BY <1>1 DEF Window
<1>3. CASE Look(n, w)
  <2> DEFINE p == Min(Recent(n, w))
  <2>1. /\ [W EXCEPT !.stage = "approving", !.proposal = p].events = W.events
        /\ [W EXCEPT !.stage = "approving", !.proposal = p].stage = "approving"
    BY <1>1 DEF Window
  <2>2. [W EXCEPT !.stage = "proposing"].events = W.events /\ [W EXCEPT !.stage = "proposing"].stage = "proposing"
    BY <1>2 DEF Stages
  <2>3. /\ W.stage = "closing"
        /\ \/ Becomes(n, With(n, w, [W EXCEPT !.stage = "approving", !.proposal = p]), {})
           \/ Becomes(n, With(n, w, [W EXCEPT !.stage = "proposing"]), {})
    BY <1>3 DEF Look, In, At
  <2> QED BY <1>1, <2>1, <2>2, <2>3, SizedReplaces
<1>4. CASE Propose(n, w)
  <2>1. W.stage = "proposing" /\ Becomes(n, With(n, w, [W EXCEPT !.stage = "naming"]), {})
    BY <1>4 DEF Propose, In, At
  <2> QED BY <1>1, <1>2, <2>1, SizedReplaces DEF Stages
<1>5. CASE ProposeFails(n, w)
  <2>1. /\ W.stage = "proposing" /\ Free(Node(n)) # {}
        /\ Becomes(n, Open(With(n, w, NoWindow)), Elements(W.events))
    BY <1>5 DEF ProposeFails, In
  <2> QED BY <1>1, <2>1, SizedReplaces
<1>6. CASE Name(n, w)
  <2> DEFINE rec == [W EXCEPT !.stage = "polling", !.proposal = nextProposal - 1]
  <2>1. rec.events = W.events /\ rec.stage = "polling"
    BY <1>1 DEF Window
  <2>2. W.stage = "naming" /\ Free(Node(n)) # {} /\ Becomes(n, Open(With(n, w, rec)), {})
    BY <1>6 DEF Name, In
  <2> HIDE DEF rec
  <2> QED BY <1>1, <2>1, <2>2, SizedReplaces
<1>7. CASE ApprovalSent(n, w)
  <2>1. W.stage = "approving" /\ Free(Node(n)) # {}
        /\ Becomes(n, Open(With(n, w, [W EXCEPT !.stage = "polling"])), {})
    BY <1>7 DEF ApprovalSent, In, At
  <2> QED BY <1>1, <1>2, <2>1, SizedReplaces DEF Stages
<1>8. CASE PollSees(n, w)
  <2>1. /\ W.stage = "polling"
        /\ \/ Becomes(n, With(n, w, [W EXCEPT !.stage = "reading"]), {})
           \/ Becomes(n, With(n, w, NoWindow), {})
    BY <1>8 DEF PollSees, In, At
  <2> QED BY <1>1, <1>2, <2>1, SizedReplaces DEF Stages
<1>9. CASE PollFinds(n, w)
  <2> DEFINE rec == [W EXCEPT !.stage = "proving", !.checkpoint = Max(Activated(n, w))]
  <2>1. rec.events = W.events /\ rec.stage = "proving"
    BY <1>1 DEF Window
  <2>2. /\ W.stage = "polling"
        /\ \/ Becomes(n, With(n, w, rec), {})
           \/ Becomes(n, With(n, w, NoWindow), {})
    BY <1>9 DEF PollFinds, In
  <2> QED BY <1>1, <2>1, <2>2, SizedReplaces
<1>10. CASE PollGivesUp(n, w)
  <2>1. W.stage = "polling" /\ Becomes(n, With(n, w, NoWindow), Elements(W.events))
    BY <1>10 DEF PollGivesUp, In
  <2> QED BY <1>1, <2>1, SizedReplaces
<1>11. CASE ReadCheckpoint(n, w)
  <2> DEFINE rec == [W EXCEPT !.stage = "proving", !.checkpoint = nextCheckpoint - 1]
  <2>1. rec.events = W.events /\ rec.stage = "proving"
    BY <1>1 DEF Window
  <2>2. W.stage = "reading" /\ Becomes(n, With(n, w, rec), {})
    BY <1>11 DEF ReadCheckpoint, In
  <2> HIDE DEF rec
  <2> QED BY <1>1, <2>1, <2>2, SizedReplaces
<1>12. ASSUME NEW d \in Deposits, Refused(n, w, d) \/ Prove(n, w, d) \/ ProofFails(n, w, d)
       PROVE  WindowsSized'
  <2> DEFINE rec == IF W.done + 1 = Len(W.events) THEN NoWindow
                    ELSE [W EXCEPT !.done = @ + 1]
  <2>1. rec = NoWindow \/ (rec.events = W.events /\ rec.stage = W.stage)
    <3>1. /\ [W EXCEPT !.done = @ + 1].events = W.events
          /\ [W EXCEPT !.done = @ + 1].stage = W.stage
      BY <1>1 DEF Window
    <3> QED BY <3>1
  <2>2. W.stage = "proving" /\ \E ds \in SUBSET Deposits : Becomes(n, With(n, w, rec), ds)
    BY <1>12 DEF Refused, Prove, ProofFails, InTurn, In, Rest
  <2> HIDE DEF rec
  <2> QED BY <1>1, <2>1, <2>2, SizedReplaces
<1> QED BY <1>3, <1>4, <1>5, <1>6, <1>7, <1>8, <1>9, <1>10, <1>11, <1>12 DEF Step

LEMMA SizedStep ==
  ASSUME Inv, WindowsSized, [Next]_vars
  PROVE  WindowsSized'
<1>1. NodeInv /\ NodeTypes
  BY DEF Inv, NodeInv
<1>2. ASSUME win' = win PROVE WindowsSized'
  BY <1>2 DEF WindowsSized, AllSized
<1>3. ASSUME NEW n \in Nodes, Scanned(n) PROVE WindowsSized'
  <2> DEFINE x == Node(n)
             z == Open(x)
  <2>1. DOMAIN x.win = Slots /\ AllSized(x.win) /\ Free(x) # {}
    BY <1>1, <1>3 DEF NodeTypes, WindowsSized, Node, Scanned
  <2> HIDE DEF x
  <2>2. DOMAIN z.win = Slots /\ AllSized(z.win)
    BY <2>1, SizedOpen
  <2>3. z = [win |-> z.win, current |-> z.current, handle |-> z.handle, armed |-> z.armed]
    BY DEF Open
  <2>4. Becomes(n, z, {})
    BY <1>3 DEF Scanned, x
  <2> HIDE DEF z
  <2> QED BY <1>1, <2>2, <2>3, <2>4, SizedBecomes
<1>4. ASSUME NEW n \in Nodes, Crash(n) PROVE WindowsSized'
  <2> DEFINE u == [w \in Slots |-> NoWindow]
             x == [win |-> u, current |-> 0, handle |-> 0, armed |-> {}]
  <2>1. DOMAIN u = Slots /\ AllSized(u)
    BY SizedFresh DEF AllSized
  <2>2. Becomes(n, x, Held(n))
    BY <1>4 DEF Crash
  <2> HIDE DEF u
  <2>3. x.win = u
        /\ x = [win |-> x.win, current |-> x.current, handle |-> x.handle, armed |-> x.armed]
    OBVIOUS
  <2> HIDE DEF x
  <2> QED BY <1>1, <2>1, <2>2, <2>3, SizedBecomes
<1>5. ASSUME NEW n \in Nodes, Start(n) \/ \E c \in V!CheckpointIds : Recover(n, c)
      PROVE  WindowsSized'
  BY <1>2, <1>5 DEF Start, Recover, nodeVars
<1>6. ASSUME NEW a \in mail, Approval(a) PROVE WindowsSized'
  BY <1>2, <1>6 DEF Approval, nodeVars
<1>7. CASE UNCHANGED vars
  BY <1>2, <1>7 DEF vars, nodeVars
<1>8. CASE Progress
  BY <1>1, <1>3, <1>5, <1>6, <1>8, SizedSteps, SizedTimer DEF Progress
<1> QED BY <1>4, <1>5, <1>7, <1>8, SizedAddDeposit, SizedTimer DEF Next

\* The events of a closed window are a root that the contract may be given.
LEMMA RootOf ==
  ASSUME NEW W \in Window, Sized(W), W.events # <<>>
  PROVE  W.events \in Roots
<1> DEFINE r == W.events
           k == Len(r)
<1>1. r \in Seq(Deposits) /\ k \in Nat /\ k # 0 /\ k \in 1..MaxEvents
  <2>1. r \in Seq(Deposits)
    BY DEF Window
  <2>2. k \in Nat /\ k # 0
    BY <2>1
  <2>3. k <= MaxEvents
    BY DEF Sized
  <2> QED BY <2>1, <2>2, <2>3, Constants
<1>2. r \in [1..k -> Deposits]
  BY <1>1
<1>3. Cardinality(Elements(r)) = k
  <2>1. r \in Bijection(1..k, Elements(r))
    <3>1. r \in [1..k -> Elements(r)]
      BY <1>2 DEF Elements
    <3>2. \A i, j \in 1..k : r[i] = r[j] => i = j
      BY DEF Sized
    <3>3. \A d \in Elements(r) : \E i \in 1..k : r[i] = d
      BY DEF Elements
    <3> HIDE DEF r, k
    <3> QED BY <3>1, <3>2, <3>3 DEF Bijection, Injection, IsInjective, Surjection
  <2> HIDE DEF r, k
  <2> QED BY <1>1, <2>1, FS_CountingElements DEF ExistsBijection
<1> QED BY <1>1, <1>2, <1>3 DEF Roots

LEMMA RootOfWindow ==
  ASSUME NodeInv, WindowsSized, NEW n \in Nodes, NEW w \in Slots,
         win[n][w].stage \notin {"none", "open"}
  PROVE  win[n][w].events \in Roots
<1>1. win[n][w] \in Window /\ Sized(win[n][w])
  BY ElementsOfWindow DEF NodeInv, WindowsSized, AllSized
<1>2. win[n][w].events # <<>>
  <2>1. Node(n).win[w] = win[n][w]
    BY DEF Node
  <2> QED BY <2>1 DEF NodeInv, Windows, Good, Proper
<1> QED BY <1>1, <1>2, RootOf

ContractStep == [V!Next]_(V!vars)

LEMMA ContractRests ==
  ASSUME UNCHANGED contractVars
  PROVE  ContractStep
BY DEF ContractStep, contractVars, V!vars, V!adminVars, V!pauseVars, V!committeeVars,
   V!proposalVars, V!checkpointVars, V!mintVars

LEMMA ContractIsGiven ==
  ASSUME NEW n \in Nodes, NEW r \in Roots, V!ProposeCheckpoint(n, r)
  PROVE  ContractStep
BY DEF ContractStep, V!Next

LEMMA ContractIsSent ==
  ASSUME NEW n \in Nodes, NEW p \in V!Numbers, V!SendApproval(n, p)
  PROVE  ContractStep
BY DEF ContractStep, V!Next

LEMMA ContractIsApproved ==
  ASSUME NEW a \in mail, V!LoseApproval(a) \/ V!ApproveCheckpoint(a)
  PROVE  ContractStep
BY DEF ContractStep, V!Next

LEMMA ContractIsShown ==
  ASSUME NEW c \in V!CheckpointIds, NEW d \in Deposits, V!VerifyAndMint(c, d)
  PROVE  ContractStep
BY DEF ContractStep, V!Next

LEMMA StepAllowed ==
  ASSUME Inv, WindowsSized, NEW n \in Nodes, NEW w \in Slots, Step(n, w)
  PROVE  ContractStep
<1>1. NodeInv /\ ContractTypes
  BY DEF Inv, ContractInv
<1>2. CASE Look(n, w)
  <2>1. CASE Recent(n, w) # {}
    <3>1. Recent(n, w) \in SUBSET Nat /\ Recent(n, w) \subseteq V!Numbers
      BY <1>1, Bounds, Constants DEF Recent
    <3>2. Min(Recent(n, w)) \in V!Numbers
      BY <2>1, <3>1, LeastIn
    <3>3. V!SendApproval(n, Min(Recent(n, w)))
      BY <1>2, <2>1 DEF Look
    <3> QED BY <3>2, <3>3, ContractIsSent
  <2>2. CASE Recent(n, w) = {}
    BY <1>2, <2>2, ContractRests DEF Look
  <2> QED BY <2>1, <2>2
<1>3. CASE Propose(n, w) \/ ProposeFails(n, w)
  <2>1. /\ win[n][w].stage = "proposing"
        /\ V!ProposeCheckpoint(n, win[n][w].events) \/ UNCHANGED contractVars
    BY <1>3 DEF Propose, ProposeFails, In
  <2>2. win[n][w].events \in Roots
    BY <1>1, <2>1, RootOfWindow
  <2> QED BY <2>1, <2>2, ContractIsGiven, ContractRests
<1>4. ASSUME NEW d \in Deposits, Prove(n, w, d) PROVE ContractStep
  <2> DEFINE c == win[n][w].checkpoint
  <2>1. win[n][w].stage = "proving" /\ V!VerifyAndMint(c, d)
    BY <1>4 DEF Prove, InTurn, In
  <2>2. c \in Nat /\ c < nextCheckpoint
    <3>1. Node(n).win[w] = win[n][w]
      BY DEF Node
    <3> QED BY <1>1, <2>1, <3>1 DEF NodeInv, Windows, Good, Proper, Window
  <2>3. c \in V!CheckpointIds
    BY <1>1, <2>2, Bounds, Constants
  <2> HIDE DEF c
  <2> QED BY <2>1, <2>3, ContractIsShown
<1>5. ASSUME UNCHANGED contractVars PROVE ContractStep
  BY <1>5, ContractRests
<1>6. CASE \/ Name(n, w) \/ ApprovalSent(n, w) \/ PollSees(n, w) \/ PollFinds(n, w)
           \/ PollGivesUp(n, w) \/ ReadCheckpoint(n, w)
           \/ \E d \in Deposits : Refused(n, w, d) \/ ProofFails(n, w, d)
  BY <1>5, <1>6 DEF Name, ApprovalSent, PollSees, PollFinds, PollGivesUp, ReadCheckpoint,
     Refused, ProofFails
<1> QED BY <1>2, <1>3, <1>4, <1>6 DEF Step

LEMMA NextAllowed ==
  ASSUME Inv, WindowsSized, [Next]_vars
  PROVE  ContractStep
<1>1. ASSUME UNCHANGED contractVars PROVE ContractStep
  BY <1>1, ContractRests
<1>2. ASSUME NEW n \in Nodes, NEW c \in V!CheckpointIds, Recover(n, c) PROVE ContractStep
  <2>1. PICK d \in Matching : V!VerifyAndMint(c, d)
    BY <1>2 DEF Recover
  <2>2. d \in Deposits
    BY ZkPipelineConstants
  <2> QED BY <2>1, <2>2, ContractIsShown
<1>3. ASSUME NEW n \in Nodes, NEW w \in Slots, Timer(n, w) PROVE ContractStep
  BY <1>1, <1>3 DEF Timer
<1>4. CASE Progress
  <2>1. ASSUME NEW a \in mail, Approval(a) PROVE ContractStep
    BY <2>1, ContractIsApproved DEF Approval
  <2>2. ASSUME NEW n \in Nodes, Start(n) \/ Scanned(n) PROVE ContractStep
    BY <1>1, <2>2 DEF Start, Scanned
  <2> QED BY <1>3, <1>4, <2>1, <2>2, StepAllowed DEF Progress
<1>5. CASE /\ \E n \in Nodes : \/ \E d \in Deposits : AddDeposit(n, d)
                               \/ \E w \in Slots : Timer(n, w)
                               \/ Crash(n)
                               \/ \E c \in V!CheckpointIds : Recover(n, c)
           /\ UNCHANGED setup
  <2>1. ASSUME NEW n \in Nodes, NEW d \in Deposits, AddDeposit(n, d) PROVE ContractStep
    BY <1>1, <2>1 DEF AddDeposit
  <2>2. ASSUME NEW n \in Nodes, Crash(n) PROVE ContractStep
    BY <1>1, <2>2 DEF Crash
  <2> QED BY <1>2, <1>3, <1>5, <2>1, <2>2
<1>6. CASE UNCHANGED vars
  BY <1>1, <1>6 DEF vars
<1> QED BY <1>4, <1>5, <1>6 DEF Next

LEMMA SizedInit == Init => WindowsSized
<1> SUFFICES ASSUME Init, NEW n \in Nodes PROVE AllSized(win[n])
  BY DEF WindowsSized
<1>1. \A w \in Slots : win[n][w] = Fresh \/ win[n][w] = NoWindow
  BY DEF Init
<1> QED BY <1>1, SizedFresh DEF AllSized

\* The nodes do to the contract what it lets them do: every step of the pipeline
\* is one of ZkVerifier with these nodes as its committee, or none of it.
THEOREM ZkPipelineImplements == Spec => [][V!Next]_(V!vars)
<1>1. Inv /\ WindowsSized /\ [Next]_vars => WindowsSized'
  BY SizedStep
<1>2. Inv /\ WindowsSized /\ [Next]_vars => [V!Next]_(V!vars)
  BY NextAllowed DEF ContractStep
<1> QED BY <1>1, <1>2, SizedInit, ZkPipelineInvariance, PTL DEF Spec

\* The contract among the nodes, with what is proved of it for any environment.
C == INSTANCE ZkVerifierProofs WITH
       Keys <- Nodes, Committees <- {}, Principals <- {"admin"}, NoOne <- "nobody",
       NoRoot <- <<>>, Messages <- Deposits,
       Lookback <- 5, MaxAge <- 0, Expiry <- 1, UnpauseDelay <- 0, AdminDelay <- 0,
       MaxInFlight <- Cardinality(Nodes), MaxHeight <- 1,
       admin <- "admin", pendingAdmin <- "nobody", transferHeight <- 0,
       paused <- ~TRUE, unpauseAt <- 0, vkSet <- ~FALSE, haltedAt <- 0,
       reused <- {}, height <- 1

LEMMA SameSets ==
  /\ \A S : V!Cardinality(S) = Cardinality(S)
  /\ \A S : C!Cardinality(S) = Cardinality(S)
  /\ \A S : C!IsFiniteSet(S) <=> IsFiniteSet(S)
BY DEF C!IsFiniteSet, IsFiniteSet, V!Cardinality, C!Cardinality, Cardinality

LEMMA ContractConstants == C!ZkVerifierConstants
<1>1. IsFiniteSet(Nodes) /\ Cardinality(Nodes) \in Nat
  BY Constants, FS_CardinalityType
<1>2. <<>> \notin Roots
  <2> SUFFICES ASSUME <<>> \in Roots PROVE FALSE
    OBVIOUS
  <2>1. PICK k \in 1..MaxEvents : <<>> \in [1..k -> Deposits]
    BY DEF Roots
  <2>2. 1 \in DOMAIN <<>>
    BY <2>1, Constants
  <2> QED BY <2>2
<1>3. Leaves \in [Roots -> SUBSET Deposits]
  <2>1. ASSUME NEW r \in Roots PROVE Elements(r) \in SUBSET Deposits
    <3>1. PICK k \in 1..MaxEvents : r \in [1..k -> Deposits]
      BY DEF Roots
    <3>2. Len(r) = k
      BY <3>1, Constants
    <3> QED BY <3>1, <3>2 DEF Elements
  <2> QED BY <2>1 DEF Leaves
<1>4. "nobody" \notin {"admin"}
  OBVIOUS
<1> QED BY <1>1, <1>2, <1>3, <1>4, SameSets, Constants DEF C!ZkVerifierConstants

LEMMA SameContract == ContractStep <=> [C!Next]_(C!vars)
BY SameSets DEF ContractStep, V!Next, V!ProposeCheckpoint, V!SendApproval, V!LoseApproval,
   V!ApproveCheckpoint, V!MayApprove, V!Activated, V!DeactivateCheckpoint, V!VerifyAndMint,
   V!InitializeCommittee, V!SetVerifyingKey, V!EmergencyPause, V!RequestUnpause,
   V!ExecuteUnpause, V!ProposeAdmin, V!AcceptAdmin, V!NewBlock, V!Numbers, V!CheckpointIds,
   V!vars, V!adminVars, V!pauseVars, V!committeeVars, V!proposalVars, V!checkpointVars,
   V!mintVars, V!otherVars,
   C!Next, C!ProposeCheckpoint, C!SendApproval, C!LoseApproval,
   C!ApproveCheckpoint, C!MayApprove, C!Activated, C!DeactivateCheckpoint, C!VerifyAndMint,
   C!InitializeCommittee, C!SetVerifyingKey, C!EmergencyPause, C!RequestUnpause,
   C!ExecuteUnpause, C!ProposeAdmin, C!AcceptAdmin, C!NewBlock, C!Numbers, C!CheckpointIds,
   C!vars, C!adminVars, C!pauseVars, C!committeeVars, C!proposalVars, C!checkpointVars,
   C!mintVars, C!otherVars

LEMMA ContractInit == Init => C!VerifierInv /\ C!MintInv
<1> SUFFICES ASSUME Init PROVE C!VerifierInv /\ C!MintInv
  OBVIOUS
<1>1. 0 \in C!Numbers /\ 0 \in C!CheckpointIds
  BY Constants DEF C!Numbers, C!CheckpointIds
<1>2. C!TypeOK
  <2>1. /\ "admin" \in {"admin"} /\ "nobody" \in {"admin"} \cup {"nobody"}
        /\ {0, 0, threshold, 1} \subseteq Nat /\ {~TRUE, ~FALSE} \subseteq BOOLEAN
        /\ 0 \in Int /\ committee \subseteq Nodes
    BY Constants DEF Init
  <2>2. nextProposal \in C!Numbers /\ nextCheckpoint \in C!CheckpointIds
    BY <1>1 DEF Init
  <2>3. proposals \in [C!Numbers -> C!Proposals]
    BY DEF Init, C!Numbers, V!Numbers, C!Proposals, V!NoProposal
  <2>4. /\ approved \in [C!Numbers -> SUBSET Nodes] /\ votes \in [C!Numbers -> C!Votes]
        /\ {} \subseteq C!Numbers
    BY DEF Init, C!Numbers, V!Numbers, C!Votes
  <2>5. /\ checkpoints \in [C!CheckpointIds -> C!Checkpoints]
        /\ \A c \in C!CheckpointIds : ~checkpoints[c].active
    BY DEF Init, C!CheckpointIds, V!CheckpointIds, C!Checkpoints, V!NoCheckpoint
  <2>6. decided \in [C!CheckpointIds -> C!Decisions]
    BY DEF Init, C!CheckpointIds, V!CheckpointIds, C!Decisions, C!Votes, V!Undecided
  <2>7. /\ processed \subseteq Deposits /\ minted \in Seq(C!Mints)
        /\ mail \subseteq [by : Nodes, proposal : C!Numbers, root : Roots]
    BY DEF Init
  <2> QED BY <2>1, <2>2, <2>3, <2>4, <2>5, <2>6, <2>7 DEF C!TypeOK
<1>3. C!Voters({}) = {} /\ Cardinality({}) = 0
  BY FS_EmptySet DEF C!Voters
<1>4. C!CountInv
  BY <1>3, SameSets DEF Init, C!CountInv, C!NoProposal, V!NoProposal, C!Numbers, V!Numbers
<1>5. C!RootInv
  BY DEF Init, C!RootInv, C!NoProposal, V!NoProposal, C!Numbers, V!Numbers
<1>6. C!ThresholdInv
  BY Constants DEF Init, C!ThresholdInv
<1>7. C!DecidedInv
  BY Constants DEF Init, C!DecidedInv, V!NoCheckpoint, C!CheckpointIds, V!CheckpointIds
<1>8. C!MintInv
  BY DEF Init, C!MintInv
<1> QED BY <1>2, <1>4, <1>5, <1>6, <1>7, <1>8 DEF C!VerifierInv

LEMMA ContractKeeps ==
  ASSUME C!VerifierInv, C!MintInv, [C!Next]_(C!vars)
  PROVE  C!VerifierInv' /\ C!MintInv'
<1>1. C!TypeOK /\ C!CountInv /\ C!RootInv /\ C!ThresholdInv /\ C!DecidedInv
  BY DEF C!VerifierInv
<1>2. C!TypeOK'
  BY <1>1, ContractConstants, C!TypeStep
<1>3. C!CountInv' /\ C!RootInv' /\ C!ThresholdInv'
  BY <1>1, ContractConstants, C!CountStep
<1>4. C!DecidedInv'
  BY <1>1, ContractConstants, C!DecidedStep
<1>5. C!MintInv'
  BY ContractConstants, C!MintStep
<1> QED BY <1>2, <1>3, <1>4, <1>5 DEF C!VerifierInv

\* No number is put back in use among these nodes, the exception ZkVerifier makes.
NoneReused == \A c \in V!CheckpointIds : ~decided[c].reused

LEMMA ReusedInit == Init => NoneReused
BY DEF Init, NoneReused, V!Undecided

LEMMA ReusedStep ==
  ASSUME C!TypeOK, NoneReused, [C!Next]_(C!vars)
  PROVE  NoneReused'
<1>1. /\ decided \in [C!CheckpointIds -> C!Decisions]
      /\ C!CheckpointIds = V!CheckpointIds
  BY DEF C!TypeOK, C!CheckpointIds, V!CheckpointIds
<1>2. ASSUME decided' = decided PROVE NoneReused'
  BY <1>2 DEF NoneReused, V!CheckpointIds
<1>3. ASSUME NEW a \in mail, NEW vs, C!Activated(a.proposal, vs) PROVE NoneReused'
  <2> DEFINE d == [votes |-> vs, threshold |-> threshold, reused |-> a.proposal \in {}]
  <2>1. decided' = [decided EXCEPT ![nextCheckpoint] = d] /\ ~d.reused
    BY <1>3 DEF C!Activated
  <2> HIDE DEF d
  <2>2. \A c \in V!CheckpointIds : ~decided'[c].reused
    BY <1>1, <2>1 DEF NoneReused
  <2> QED BY <2>2 DEF NoneReused, V!CheckpointIds
<1>4. ASSUME NEW p \in {"admin"}, NEW c \in C!CheckpointIds, C!DeactivateCheckpoint(p, c)
      PROVE  NoneReused'
  BY <1>2, <1>4 DEF C!DeactivateCheckpoint
<1>5. CASE C!CheckpointsKept
  BY <1>2, <1>5 DEF C!CheckpointsKept, C!checkpointVars
<1> QED BY <1>3, <1>4, <1>5, ContractConstants, C!CheckpointSteps

\* Whatever the nodes do, and however windows, approvals, proofs and crashes
\* interleave, a message is authorized once, under a checkpoint that a quorum of
\* nodes approved, each having computed a root with the message below it.
THEOREM ZkPipelineQuorum == Spec => [](V!QuorumBehindMint /\ NoneReused)
<1>1. ContractStep => [C!Next]_(C!vars)
  BY SameContract
<1>2. C!VerifierInv /\ C!MintInv /\ NoneReused /\ ContractStep
        => C!VerifierInv' /\ C!MintInv' /\ NoneReused'
  BY <1>1, ContractKeeps, ReusedStep DEF C!VerifierInv
<1>3. C!VerifierInv /\ C!MintInv => V!QuorumBehindMint
  <2>1. C!VerifierInv /\ C!MintInv => C!QuorumBehindMint
    BY ContractConstants, C!QuorumHolds
  <2> QED BY <2>1, SameSets DEF C!QuorumBehindMint, V!QuorumBehindMint
<1>4. Inv /\ WindowsSized /\ [Next]_vars => WindowsSized' /\ ContractStep
  BY SizedStep, NextAllowed
<1> QED BY <1>2, <1>3, <1>4, ContractInit, ReusedInit, SizedInit, ZkPipelineInvariance, PTL
     DEF Spec

=============================================================================
