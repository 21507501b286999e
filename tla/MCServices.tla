---------------------------- MODULE MCServices ----------------------------
(* Instances for TLC of the services and tools around the contracts and   *)
(* the validators: Reconciliation and Monitor, the transport P2P, the page *)
(* with the API (Tracking) and the recovery tools.  They share no state    *)
(* here, so a behaviour picks one of them, part, and the others stay where *)
(* they begin.                                                             *)
EXTENDS Reconciliation

VARIABLES
  part,
  conn, peers, dials, late, gossip, breaks,
  balance, supply, paused, node, asleep, reading, previous, peak, height,
  polled, sending, turns, orders,
  active, stream, asks, rows, mail, confirming, validators, sends, faults,
  records, roots, processed, run, saved, settled, lapses

P == INSTANCE P2P WITH
  Nodes <- {1, 2}, Boot <- <<{2}, {1}>>, Conns <- 1..4, MaxDials <- 1,
  MaxGossip <- 1, MaxBreaks <- 1
M == INSTANCE Monitor WITH
  Validators <- {1, 2}, MinActive <- 2, Unit <- 2, MaxMinted <- 2, MaxTurns <- 2,
  MaxOrders <- 1
T == INSTANCE Tracking WITH
  Sol <- {"a"}, Token <- {"b"}, Blind <- {}, Slots <- {1}, MaxEvents <- 2
S == INSTANCE Recovery WITH
  Native <- {1, 2, 3}, Stable <- {4}, Large <- {2, 3}, Refused <- {1}, Listed <- {4},
  Limit <- 1, Recent <- 2, Tools <- {"settle", "recover", "host", "stuck", "dusd"},
  MaxCheckpoints <- 1, MaxFailures <- 1, seen <- records, failures <- lapses

pVars == <<conn, peers, dials, late, gossip, breaks>>
mVars == <<balance, supply, paused, node, asleep, reading, previous, peak,
           height, polled, sending, turns, orders>>
tVars == <<active, stream, asks, rows, mail, confirming, validators, sends, faults>>
sVars == <<records, roots, processed, run, saved, settled, lapses>>
all == <<part, vars, pVars, mVars, tVars, sVars>>

Beginning ==
  /\ part \in {"reconciliation", "peers", "monitor", "page", "recovery"}
  /\ Init /\ P!Init /\ M!Init /\ T!Init /\ S!Init

Reconciling(A) ==
  /\ part = "reconciliation" /\ A
  /\ UNCHANGED <<part, pVars, mVars, tVars, sVars>>
Peering(A) ==
  /\ part = "peers" /\ A
  /\ UNCHANGED <<part, vars, mVars, tVars, sVars>>
Monitoring(A) ==
  /\ part = "monitor" /\ A
  /\ UNCHANGED <<part, vars, pVars, tVars, sVars>>
Recovering(A) ==
  /\ part = "recovery" /\ A
  /\ UNCHANGED <<part, vars, pVars, mVars, tVars>>
Showing(A) ==
  /\ part = "page" /\ A
  /\ UNCHANGED <<part, vars, pVars, mVars, sVars>>

Step ==
  \/ Reconciling(Next)
  \/ Peering(P!Next)
  \/ Monitoring(M!Next)
  \/ Showing(T!Next)
  \/ Recovering(S!Next)

\* The fairness of each part's own specification.  Only one part runs in a
\* behaviour, so that fairness to a disjunction of two parts' actions is
\* fairness to the action of the one that runs.
Serving ==
  /\ Beginning /\ [][Step]_all
  /\ WF_all(\/ Reconciling(Cycle) \/ Monitoring(M!Supplies)
            \/ Showing(T!Follow) \/ Recovering(S!Goes))
  /\ SF_all(Recovering(S!Settle))
  /\ WF_all(Monitoring(M!PauseLands))
  /\ \A n, m \in {1, 2} : WF_all(Peering(P!Connect(n, m)))
  /\ \A c \in 1..4, e \in {"in", "out"} :
       WF_all(Peering(P!Hear(c, e) \/ P!Notice(c, e)))

\* The properties of the parts; InsolvencyReported is that of Reconciliation.
\* A supply that stays above the vault's balance pauses the bridge again and
\* again (monitoring/src/main.ts).
InsolvencyPauses == M!InsolvencyPauses
\* A transfer that is completed is shown as completed in the end, while the page
\* follows it (useTransferPolling.ts, routes/transfer.ts).
CompletedShown == T!ShownInTheEnd
\* The settling tool gets every deposit that can be minted minted in the end.
StuckSettled == S!StuckSettled
\* Peers reach each other in the end (transport.ts); where P2P is not the part
\* that runs, nobody dials.
PeersReachable == <>[](part = "peers" => P!AllReach)
=============================================================================
