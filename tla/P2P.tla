-------------------------------- MODULE P2P --------------------------------
(***************************************************************************)
(* validator/src/p2p/transport.ts: the connections between validators.     *)
(*                                                                         *)
(* A connection has an end at each node.  An end is filed in the node's    *)
(* `peers` under a temporary key, and under the peer's id once a message   *)
(* has told it; a broadcast goes to the ends that are filed.  Two nodes    *)
(* often have several connections, each of which takes the entry over from *)
(* the one before.  The two ends of a broken connection notice it one      *)
(* after the other.  Who sent what is modelled in Consensus; this module   *)
(* asks whether there is a way to send at all.                             *)
(***************************************************************************)
EXTENDS Integers, FiniteSets, FiniteSetsExt

CONSTANTS
  Nodes,        \* a node stands for its address as well
  Boot,         \* Boot[n]: bootstrapPeers
  Conns,        \* bound of the model: connections open at a time
  MaxDials,     \* bound of the model: dials to one address under way at a time
  MaxGossip,    \* bound of the model: dials of addresses that a peer told
  MaxBreaks     \* bound of the model: connections that break, nodes that stop

VARIABLES
  conn,         \* connections, each with the ends that have not been closed
  peers,        \* the entries of each node: the end of which connection, and its key
  dials,        \* dials under way or scheduled: how many, by node and address
  late,         \* history: an end was closed so late that it took another's entry
  gossip, breaks

vars == <<conn, peers, dials, late, gossip, breaks>>

None == [from |-> 0, to |-> 0, ends |-> {}, named |-> {}, whole |-> FALSE]
NodeAt(c, e) == IF e = "out" THEN conn[c].from ELSE conn[c].to
Other(e) == IF e = "out" THEN "in" ELSE "out"

\* Temporary keys; those of outgoing connections name the address.
TempKey(c, e, x) == IF e = "out" THEN <<"outbound", x>> ELSE <<"inbound", c>>

\* peer.nodeId: the key an end was filed under, whoever is filed there now.
KeyOf(c, e) == IF e \in conn[c].named THEN <<"node", NodeAt(c, Other(e))>>
               ELSE TempKey(c, e, conn[c].to)

Delete(P, k) == {y \in P : y.key # k}
Put(P, k, c, e) == Delete(P, k) \cup {[key |-> k, conn |-> c, end |-> e]}
Files(n, c, e) == \E y \in peers[n] : y.conn = c /\ y.end = e
Dials(n, x, k) == [dials EXCEPT ![n][x] = Min({@ + k, MaxDials})]

Init ==
  /\ conn = [c \in Conns |-> None]
  /\ peers = [n \in Nodes |-> {}]
  /\ dials = [n \in Nodes |-> [m \in Nodes |-> IF m \in Boot[n] THEN 1 ELSE 0]]
  /\ late = FALSE /\ gossip = 0 /\ breaks = 0

\* connectToPeer and handleInboundConnection, once the connection is open at
\* both ends; before, a failure only schedules the next dial.
Connect(n, m) ==
  LET c == Min({d \in Conns : conn[d] = None}) IN
  /\ dials[n][m] > 0 /\ \E d \in Conns : conn[d] = None
  /\ dials' = [dials EXCEPT ![n][m] = @ - 1]
  /\ conn' = [conn EXCEPT ![c] = [from |-> n, to |-> m, ends |-> {"out", "in"},
                                  named |-> {}, whole |-> TRUE]]
  /\ LET P == [peers EXCEPT ![n] = Put(@, TempKey(c, "out", m), c, "out")]
     IN  peers' = [P EXCEPT ![m] = Put(@, TempKey(c, "in", m), c, "in")]
  /\ UNCHANGED <<late, gossip, breaks>>

\* The first message: the caller says hello, the other end sends heartbeats to
\* the ends it has filed.
Hear(c, e) ==
  LET n == NodeAt(c, e) IN
  /\ conn[c].whole /\ e \notin conn[c].named
  /\ e = "in" \/ Files(NodeAt(c, "in"), c, "in")
  /\ peers' = [peers EXCEPT ![n] = Put(Delete(@, KeyOf(c, e)),
                                       <<"node", NodeAt(c, Other(e))>>, c, e)]
  /\ conn' = [conn EXCEPT ![c].named = @ \cup {e}]
  /\ UNCHANGED <<dials, late, gossip, breaks>>

\* sendHeartbeats, handleMessage: a node tells the addresses it has dialled, and
\* who hears of one that it has not filed as such dials it, its own included.
Gossip(c, e, x) ==
  LET n == NodeAt(c, e)
      m == NodeAt(c, Other(e))
  IN
  /\ conn[c].whole /\ Files(m, c, Other(e))
  /\ \E y \in peers[m] : y.end = "out" /\ conn[y.conn].to = x
  /\ \E y \in peers[n] : y.key = <<"node", m>>
  /\ ~ \E y \in peers[n] : y.end = "out" /\ conn[y.conn].to = x
  /\ gossip < MaxGossip /\ gossip' = gossip + 1
  /\ dials' = Dials(n, x, 1)
  /\ UNCHANGED <<conn, peers, late, breaks>>

NoticeForGood(c, e) ==       \* mutation: the caller does not reconnect
  /\ e \in conn[c].ends /\ ~conn[c].whole
  /\ conn' = [conn EXCEPT ![c] = IF @.ends = {e} THEN None ELSE [@ EXCEPT !.ends = @ \ {e}]]
  /\ peers' = [peers EXCEPT ![NodeAt(c, e)] = Delete(@, KeyOf(c, e))]
  /\ UNCHANGED <<dials, late, gossip, breaks>>

\* The close event: whatever is filed under the key of this end is removed, and
\* the caller schedules a dial, or two when an error event came first.
Notice(c, e) ==
  LET n == NodeAt(c, e) IN
  /\ e \in conn[c].ends /\ ~conn[c].whole
  /\ conn' = [conn EXCEPT ![c] = IF @.ends = {e} THEN None ELSE [@ EXCEPT !.ends = @ \ {e}]]
  /\ peers' = [peers EXCEPT ![n] = Delete(@, KeyOf(c, e))]
  /\ IF e = "out" THEN \E k \in 1..2 : dials' = Dials(n, conn[c].to, k)
     ELSE UNCHANGED dials
  /\ late' = (late \/ /\ conn[c].ends = {"in"}
                      /\ \E y \in peers[n] : y.key = KeyOf(c, e) /\ y.conn # c)
  /\ UNCHANGED <<gossip, breaks>>

Break(c) ==
  /\ conn[c].whole /\ breaks < MaxBreaks
  /\ conn' = [conn EXCEPT ![c].whole = FALSE]
  /\ breaks' = breaks + 1
  /\ UNCHANGED <<peers, dials, late, gossip>>

\* stop, or a crash, and start: the ends of the node are gone.
Restart(n) ==
  /\ breaks < MaxBreaks /\ breaks' = breaks + 1
  /\ conn' = [c \in Conns |->
       LET left == {e \in conn[c].ends : NodeAt(c, e) # n} IN
       IF left = {} THEN None
       ELSE [conn[c] EXCEPT !.ends = left, !.whole = @ /\ left = conn[c].ends]]
  /\ peers' = [peers EXCEPT ![n] = {}]
  /\ dials' = [dials EXCEPT ![n] = [m \in Nodes |-> IF m \in Boot[n] THEN 1 ELSE 0]]
  /\ UNCHANGED <<late, gossip>>

Transport ==
  \/ \E n, m \in Nodes : Connect(n, m)
  \/ \E c \in Conns, e \in {"in", "out"} :
        Hear(c, e) \/ Notice(c, e) \/ \E x \in Nodes : Gossip(c, e, x)

Faulty == (\E c \in Conns : Break(c)) \/ \E n \in Nodes : Restart(n)

Next == Transport \/ Faulty

Spec == Init /\ [][Next]_vars

\* Timers fire, connections are refused only for a while, heartbeats go on.
FairSpec ==
  /\ Spec
  /\ \A n, m \in Nodes : WF_vars(Connect(n, m))
  /\ \A c \in Conns, e \in {"in", "out"} : WF_vars(Hear(c, e) \/ Notice(c, e))

-----------------------------------------------------------------------------
\* n sends what it broadcasts to m.
Reaches(n, m) ==
  \E y \in peers[n] : conn[y.conn].whole /\ NodeAt(y.conn, Other(y.end)) = m

\* Two nodes one of which has the other as a bootstrap peer reach each other,
\* or an end was closed after the node's entry had passed to the connection
\* that replaced it.
AllReach ==
  \/ \A n \in Nodes, m \in Nodes : m \in Boot[n] => Reaches(n, m) /\ Reaches(m, n)
  \/ late

\* "Auto-reconnect to bootstrap peers": once nothing breaks any more, they all
\* reach each other for good, although several connections between them take
\* entries from each other and from earlier ones as they close.
PeersReachable == <>[]AllReach
=============================================================================
