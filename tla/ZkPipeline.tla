----------------------------- MODULE ZkPipeline -----------------------------
(***************************************************************************)
(* validator/src/zk/zk-bridge-service.ts on several validators, over the   *)
(* contract ZkVerifier: deposits above the ZK threshold are gathered in    *)
(* windows; the messages of a closed window make a Merkle root; the        *)
(* validators propose the root or approve a proposal of it, wait until it  *)
(* is an active checkpoint, and have each deposit of the window minted     *)
(* with a proof.  All of it is in memory.                                  *)
(*                                                                         *)
(* An action is what runs between two awaits.  A root is the sequence of   *)
(* deposits it commits to.  Windows, stagger and polls are not timed: a    *)
(* timer may fire at any moment after it is armed.  The contract is not    *)
(* paused and its committee is set up.                                     *)
(***************************************************************************)
EXTENDS Integers, Sequences, FiniteSets, FiniteSetsExt

CONSTANTS
  Nodes,          \* validators, all of them members of the committee
  Deposits,
  Setups,         \* how the validators are set up: see Setup
  Threshold,      \* approvals a checkpoint needs
  MaxEvents,      \* maxEventsPerCheckpoint: 100
  Matching,       \* deposits whose event index happens to be the number of their
                  \* slot: the recovery scan compares these two
  Slots,          \* bound of the model: windows a node keeps at a time
  MaxCrashes, MaxProposals, MaxCheckpoints     \* bounds of the model

\* "broadcast": a transaction fails, or seems to fail although it is included.
Faulty == {"broadcast", "crash"}

\* The deposits the watcher of each node reports; the nodes that have
\* ZK_PROOF_GENERATION_ENABLED; what may go wrong.
Setup == [hears : [Nodes -> SUBSET Deposits], provers : SUBSET Nodes,
          faults : SUBSET Faulty]

ASSUME ZkPipelineConstants ==
  /\ IsFiniteSet(Nodes) /\ IsFiniteSet(Deposits) /\ Setups \subseteq Setup
  /\ Threshold \in 2..3 /\ MaxEvents \in Nat \ {0} /\ Matching \subseteq Deposits
  /\ IsFiniteSet(Slots) /\ Slots # {} /\ Slots \subseteq Nat \ {0}
  /\ {MaxCrashes, MaxProposals, MaxCheckpoints} \subseteq Nat

VARIABLES
  nextProposal, proposals, approved, votes,            \* of the contract, as in
  nextCheckpoint, checkpoints, decided,                \* ZkVerifier
  processed, minted, mail, committee, threshold,
  setup,
  phase,        \* of each node: "down", "starting", "scanning", "running"
  win,          \* checkpointWindows of each node
  current,      \* currentWindow; 0: null
  handle,       \* the window whose timer windowTimer refers to; 0: null
  armed,        \* windows whose timer is armed
  told,         \* deposits the watcher of the node has reported
  computed,     \* history: roots the node has computed for its closed windows
  dropped,      \* history: deposits each node has given up or forgotten
  crashes

contractVars == <<nextProposal, proposals, approved, votes, nextCheckpoint,
                  checkpoints, decided, processed, minted, mail, committee,
                  threshold>>
nodeVars == <<win, current, handle, armed>>
histVars == <<computed, dropped>>
vars == <<setup, contractVars, phase, nodeVars, told, histVars, crashes>>

Provers == setup.provers
Faults == setup.faults

Elements(s) == {s[i] : i \in 1..Len(s)}
Roots == {r \in UNION {[1..k -> Deposits] : k \in 1..MaxEvents} :
            Cardinality(Elements(r)) = Len(r)}
Leaves == [r \in Roots |-> Elements(r)]

V == INSTANCE ZkVerifier WITH
       Keys <- Nodes, Committees <- {}, Principals <- {"admin"}, NoOne <- "nobody",
       NoRoot <- <<>>, Messages <- Deposits,
       Lookback <- 5, MaxAge <- 0, Expiry <- 1, UnpauseDelay <- 0, AdminDelay <- 0,
       MaxInFlight <- Cardinality(Nodes), MaxHeight <- 1,
       admin <- "admin", pendingAdmin <- "nobody", transferHeight <- 0,
       paused <- ~TRUE, unpauseAt <- 0, vkSet <- ~FALSE, haltedAt <- 0,
       reused <- {}, height <- 1

(***************************************************************************)
(* The windows of a node                                                   *)
(***************************************************************************)
NoWindow == [stage |-> "none", events |-> <<>>, proposal |-> 0, checkpoint |-> 0,
             done |-> 0]
Fresh == [NoWindow EXCEPT !.stage = "open"]

Node(n) == [win |-> win[n], current |-> current[n], handle |-> handle[n],
            armed |-> armed[n]]
Closed(x, w) == x.win[w].stage # "open"
Free(x) == {w \in Slots : x.win[w].stage = "none"}

\* A window that is neither current nor armed will not be closed any more.
Orphan(x, w) == ~Closed(x, w) /\ w # x.current /\ w \notin x.armed
Orphaned(x) == UNION {Elements(x.win[w].events) : w \in {v \in Slots : Orphan(x, v)}}
Tidy(x) == [x EXCEPT !.win = [w \in Slots |-> IF Orphan(x, w) THEN NoWindow
                                              ELSE x.win[w]]]

\* openNewWindow
Open(x) ==
  LET w == Min(Free(x)) IN
  [win |-> [x.win EXCEPT ![w] = Fresh], current |-> w, handle |-> w,
   armed |-> x.armed \cup {w}]

\* closeWindow, up to its first await: it clears whichever timer was set last.
Close(x, w) ==
  [win |-> [x.win EXCEPT ![w].stage = "closing"], current |-> x.current,
   handle |-> 0, armed |-> x.armed \ {x.handle}]

\* The state of node n becomes x, and some deposits are given up.
Becomes(n, x, ds) ==
  \E z \in {x} : \E y \in {Tidy(z)} :
    /\ win' = [win EXCEPT ![n] = y.win]
    /\ current' = [current EXCEPT ![n] = y.current]
    /\ handle' = [handle EXCEPT ![n] = y.handle]
    /\ armed' = [armed EXCEPT ![n] = y.armed]
    /\ dropped' = [dropped EXCEPT ![n] = @ \cup ds \cup Orphaned(z)]
    /\ computed' = [computed EXCEPT ![n] = @ \cup
          {y.win[w].events : w \in {v \in Slots : y.win[v].stage = "closing"}}]

\* addDeposit: not heard while the service does not run.
AddDeposit(n, d) ==
  LET x == Node(n)
      y == IF x.current = 0 \/ Closed(x, x.current) THEN Open(x) ELSE x
      z == [y EXCEPT !.win[y.current].events = Append(@, d)]
  IN
  /\ d \in setup.hears[n] \ told[n] /\ phase[n] # "down"
  /\ told' = [told EXCEPT ![n] = @ \cup {d}]
  /\ IF phase[n] = "starting"
     THEN dropped' = [dropped EXCEPT ![n] = @ \cup {d}] /\ UNCHANGED <<nodeVars, computed>>
     ELSE /\ Free(x) # {}
          /\ Becomes(n, IF Len(z.win[z.current].events) >= MaxEvents
                        THEN Close(z, z.current) ELSE z, {})
  /\ UNCHANGED <<contractVars, phase, crashes>>

\* The timeout of a window: an empty window is replaced by a new one, which
\* makes a difference only if it is not the current one; a closed one stays.
Timer(n, w) ==
  LET x == [Node(n) EXCEPT !.armed = @ \ {w}] IN
  /\ w \in armed[n]
  /\ IF Closed(x, w) THEN Becomes(n, x, {})
     ELSE IF x.win[w].events # <<>> THEN Becomes(n, Close(x, w), {})
     ELSE w # x.current /\ Becomes(n, Open([x EXCEPT !.win[w] = NoWindow]), {})
  /\ UNCHANGED <<contractVars, phase, told, crashes>>

(***************************************************************************)
(* findOrCreateCheckpointProposal, approveCheckpoint; the window that      *)
(* closeWindow then opens                                                  *)
(***************************************************************************)
In(n, w, stage) == phase[n] = "running" /\ win[n][w].stage = stage
With(n, w, rec) == [Node(n) EXCEPT !.win[w] = rec]
At(n, w, stage) == With(n, w, [win[n][w] EXCEPT !.stage = stage])

Recent(n, w) ==
  {p \in 0..(nextProposal - 1) : /\ p >= nextProposal - 5
                                 /\ proposals[p].root = win[n][w].events
                                 /\ ~proposals[p].finalized}

LookAnyRoot(n, w) ==                  \* mutation: the roots are not compared
  LET open == {p \in 0..(nextProposal - 1) : ~proposals[p].finalized} IN
  /\ In(n, w, "closing")
  /\ IF open # {}
     THEN /\ V!SendApproval(n, Min(open))
          /\ Becomes(n, With(n, w, [win[n][w] EXCEPT !.stage = "approving",
                                                     !.proposal = Min(open)]), {})
     ELSE /\ Becomes(n, At(n, w, "proposing"), {})
          /\ UNCHANGED contractVars
  /\ UNCHANGED <<phase, told, crashes>>

Look(n, w) ==
  /\ In(n, w, "closing")
  /\ IF Recent(n, w) # {}
     THEN LET p == Min(Recent(n, w)) IN
          /\ V!SendApproval(n, p)
          /\ Becomes(n, With(n, w, [win[n][w] EXCEPT !.stage = "approving",
                                                     !.proposal = p]), {})
     ELSE /\ Becomes(n, At(n, w, "proposing"), {})
          /\ UNCHANGED contractVars
  /\ UNCHANGED <<phase, told, crashes>>

Propose(n, w) ==
  /\ In(n, w, "proposing")
  /\ V!ProposeCheckpoint(n, win[n][w].events)
  /\ Becomes(n, At(n, w, "naming"), {})
  /\ UNCHANGED <<phase, told, crashes>>

\* The broadcast fails three times: it never was included, or the wait for it
\* took too long.  At the bound of the model it always fails.
ProposeFails(n, w) ==
  /\ "broadcast" \in Faults \/ nextProposal = MaxProposals
  /\ In(n, w, "proposing") /\ Free(Node(n)) # {}
  /\ V!ProposeCheckpoint(n, win[n][w].events) \/ UNCHANGED contractVars
  /\ Becomes(n, Open(With(n, w, NoWindow)), Elements(win[n][w].events))
  /\ UNCHANGED <<phase, told, crashes>>

\* The last number given out is taken for the number of the own proposal.
Name(n, w) ==
  /\ In(n, w, "naming") /\ Free(Node(n)) # {}
  /\ Becomes(n, Open(With(n, w, [win[n][w] EXCEPT !.stage = "polling",
                                                  !.proposal = nextProposal - 1])), {})
  /\ UNCHANGED <<contractVars, phase, told, crashes>>

\* The approval was included or refused: an error is logged and no more.
ApprovalSent(n, w) ==
  /\ In(n, w, "approving") /\ Free(Node(n)) # {}
  /\ "broadcast" \in Faults \/ \A a \in mail : a.by # n
  /\ Becomes(n, Open(At(n, w, "polling")), {})
  /\ UNCHANGED <<contractVars, phase, told, crashes>>

Approval(a) ==
  /\ \/ V!ApproveCheckpoint(a)
     \/ V!LoseApproval(a) /\ ("broadcast" \in Faults \/ ~V!MayApprove(a.by, a.proposal))
  /\ UNCHANGED <<phase, nodeVars, told, histVars, crashes>>

(***************************************************************************)
(* pollCheckpointActivation                                                *)
(***************************************************************************)
Finalized(n, w) == proposals[win[n][w].proposal].finalized
Activated(n, w) ==
  {c \in 0..(nextCheckpoint - 1) : c >= nextCheckpoint - 4 /\
                                   checkpoints[c].root = win[n][w].events}

PollSees(n, w) ==
  /\ In(n, w, "polling")
  /\ Finalized(n, w)
  /\ Becomes(n, IF n \in Provers THEN At(n, w, "reading") ELSE With(n, w, NoWindow), {})
  /\ UNCHANGED <<contractVars, phase, told, crashes>>

\* Another proposal of the same root may have been activated.
PollFinds(n, w) ==
  /\ In(n, w, "polling")
  /\ ~Finalized(n, w) /\ Activated(n, w) # {}
  /\ Becomes(n, IF n \in Provers
                THEN With(n, w, [win[n][w] EXCEPT !.stage = "proving",
                                                  !.checkpoint = Max(Activated(n, w))])
                ELSE With(n, w, NoWindow), {})
  /\ UNCHANGED <<contractVars, phase, told, crashes>>

\* After 30 polls.
PollGivesUp(n, w) ==
  /\ In(n, w, "polling")
  /\ ~Finalized(n, w) /\ Activated(n, w) = {}
  /\ Becomes(n, With(n, w, NoWindow), Elements(win[n][w].events))
  /\ UNCHANGED <<contractVars, phase, told, crashes>>

\* The last checkpoint is taken for the one of the proposal.
ReadCheckpoint(n, w) ==
  /\ In(n, w, "reading")
  /\ Becomes(n, With(n, w, [win[n][w] EXCEPT !.stage = "proving",
                                             !.checkpoint = nextCheckpoint - 1]), {})
  /\ UNCHANGED <<contractVars, phase, told, crashes>>

(***************************************************************************)
(* generateAndSubmitProofs: one deposit after the other, where it is       *)
(* enabled                                                                 *)
(***************************************************************************)
InTurn(n, w, d) == In(n, w, "proving") /\ d = win[n][w].events[win[n][w].done + 1]
RestNothing(n, w) ==                  \* mutation: one deposit ends the window
  With(n, w, NoWindow)

Rest(n, w) ==
  LET W == win[n][w] IN
  With(n, w, IF W.done + 1 = Len(W.events) THEN NoWindow
             ELSE [W EXCEPT !.done = @ + 1])

\* The check that comes first asks for the message id in hexadecimal, while the
\* contract's key has it in base 58: it never sees the mint, and the contract
\* refuses what is submitted.
Refused(n, w, d) ==
  /\ InTurn(n, w, d) /\ d \in processed
  /\ Becomes(n, Rest(n, w), {})
  /\ UNCHANGED <<contractVars, phase, told, crashes>>

\* The proof is for the root of the window.
Provable(n, w) == checkpoints[win[n][w].checkpoint].root = win[n][w].events

Prove(n, w, d) ==
  /\ InTurn(n, w, d)
  /\ Provable(n, w) /\ V!VerifyAndMint(win[n][w].checkpoint, d)
  /\ Becomes(n, Rest(n, w), {})
  /\ UNCHANGED <<phase, told, crashes>>

\* An error is logged, and the deposit is not tried again.
ProofFails(n, w, d) ==
  /\ InTurn(n, w, d) /\ d \notin processed
  /\ ~Provable(n, w) \/ "broadcast" \in Faults
  /\ Becomes(n, Rest(n, w), {d})
  /\ UNCHANGED <<contractVars, phase, told, crashes>>

(***************************************************************************)
(* The process stops; start, runStartupRecoveryScan                        *)
(***************************************************************************)
Held(n) == UNION {Elements(win[n][w].events) : w \in Slots}

Crash(n) ==
  /\ "crash" \in Faults /\ phase[n] # "down" /\ crashes < MaxCrashes
  /\ crashes' = crashes + 1
  /\ phase' = [phase EXCEPT ![n] = "down"]
  /\ Becomes(n, [win |-> [w \in Slots |-> NoWindow], current |-> 0, handle |-> 0,
                 armed |-> {}], Held(n))
  /\ UNCHANGED <<contractVars, told>>

Start(n) ==
  /\ phase[n] \in {"down", "starting"}
  /\ phase' = [phase EXCEPT ![n] = IF @ = "down" THEN "starting" ELSE "scanning"]
  /\ UNCHANGED <<contractVars, nodeVars, told, histVars, crashes>>

\* Only windows of one deposit are rebuilt.
Recover(n, c) ==
  /\ n \in Provers /\ phase[n] = "scanning"
  /\ c \in 0..(nextCheckpoint - 1) /\ c >= nextCheckpoint - 11
  /\ \E d \in Matching : checkpoints[c].root = <<d>> /\ V!VerifyAndMint(c, d)
  /\ UNCHANGED <<phase, nodeVars, told, histVars, crashes>>

Scanned(n) ==
  /\ phase[n] = "scanning" /\ Free(Node(n)) # {}
  /\ phase' = [phase EXCEPT ![n] = "running"]
  /\ Becomes(n, Open(Node(n)), {})
  /\ UNCHANGED <<contractVars, told, crashes>>

Init ==
  /\ setup \in Setups
  /\ nextProposal = 0 /\ nextCheckpoint = 0
  /\ proposals = [p \in V!Numbers |-> V!NoProposal]
  /\ approved = [p \in V!Numbers |-> {}] /\ votes = [p \in V!Numbers |-> {}]
  /\ checkpoints = [c \in V!CheckpointIds |-> V!NoCheckpoint]
  /\ decided = [c \in V!CheckpointIds |-> V!Undecided]
  /\ processed = {} /\ minted = <<>> /\ mail = {}
  /\ committee = Nodes /\ threshold = Threshold
  /\ phase = [n \in Nodes |-> "running"]
  /\ win = [n \in Nodes |-> [w \in Slots |-> IF w = Min(Slots) THEN Fresh ELSE NoWindow]]
  /\ current = [n \in Nodes |-> Min(Slots)] /\ handle = current
  /\ armed = [n \in Nodes |-> {Min(Slots)}]
  /\ told = [n \in Nodes |-> {}] /\ computed = [n \in Nodes |-> {}]
  /\ dropped = [n \in Nodes |-> {}] /\ crashes = 0

Step(n, w) ==
  \/ Look(n, w) \/ Propose(n, w) \/ ProposeFails(n, w) \/ Name(n, w)
  \/ ApprovalSent(n, w)
  \/ PollSees(n, w) \/ PollFinds(n, w) \/ PollGivesUp(n, w) \/ ReadCheckpoint(n, w)
  \/ \E d \in Deposits : Refused(n, w, d) \/ Prove(n, w, d) \/ ProofFails(n, w, d)

\* What goes on by itself: awaited requests are answered, polls go on, the timers
\* of windows fire, a node that stopped is started again.
Progress ==
  \/ \E a \in mail : Approval(a)
  \/ \E n \in Nodes :
        \/ Start(n) \/ Scanned(n)
        \/ \E w \in Slots : \/ Step(n, w)
                            \/ win[n][w].events # <<>> /\ Timer(n, w)

Next ==
  \/ Progress /\ UNCHANGED setup
  \/ /\ \E n \in Nodes : \/ \E d \in Deposits : AddDeposit(n, d)
                         \/ \E w \in Slots : Timer(n, w)
                         \/ Crash(n)
                         \/ \E c \in V!CheckpointIds : Recover(n, c)
     /\ UNCHANGED setup

Spec == Init /\ [][Next]_vars

----------------------------------------------------------------------------
\* Whatever numbers the nodes took for their own proposals and checkpoints, and
\* whichever transactions failed: a message that was minted had been reported by
\* the watchers of a quorum of nodes, and each of these had computed the very
\* root below which it was proved.
MintedOnlyIfHeard ==
  \A i \in 1..Len(minted) :
     LET d == minted[i].message
         r == checkpoints[minted[i].checkpoint].root
     IN Cardinality({n \in Nodes : d \in told[n] /\ r \in computed[n]}) >= Threshold

\* Nothing is lost silently: a deposit reported to a prover is minted, or in one
\* of its windows with something still to come for that window, or it was given
\* up in one of the ways the model names: no checkpoint came, or the one taken
\* for its own had another root; a broadcast failed; the service was not running;
\* or its window was left without a timer.
Accounted ==
  \A n \in Provers : told[n] \subseteq processed \cup dropped[n] \cup Held(n)

=============================================================================
