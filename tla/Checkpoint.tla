----------------------------- MODULE Checkpoint -----------------------------
(***************************************************************************)
(* The Solana program programs/checkpoint_registry: a t-of-n committee     *)
(* posts Merkle roots of deposit events; each root waits out a timelock    *)
(* before it becomes active and expires some slots after its submission.   *)
(*                                                                         *)
(* One action per instruction.  There are two clocks: timestamps drive the *)
(* timelocks, slots drive finality and expiry, and neither determines the  *)
(* other.  The authority and the guardian are fixed at initialization.     *)
(***************************************************************************)
EXTENDS Integers, FiniteSets, Sequences

CONSTANTS
  Members,             \* keys the authority may register
  Principals,          \* keys that may call the administrative instructions
  Authority, Guardian,
  Slots,               \* slots the committee may sign a root for
  Roots, ZeroRoot,     \* commitment roots; ZeroRoot is [0u8; 32]
  InitParams,          \* parameter sets `initialize` may be called with
  ResumeTimelock,      \* RESUME_TIMELOCK_SECONDS: 300 in the code
  MaxTime, MaxSlot     \* bounds of the model: the clocks stop here

ParamNames == {"minSignatures", "maxMembers", "safetyMargin", "timelock",
               "ttlSlots", "maxPending"}

Params == [ParamNames -> Nat]

ASSUME CheckpointConstants ==
  /\ IsFiniteSet(Members)
  /\ Slots \subseteq Nat
  /\ InitParams \subseteq Params
  /\ {ResumeTimelock, MaxTime, MaxSlot} \subseteq Nat

VARIABLES
  cfg,                \* the parameters, never changed after `initialize`
  paused,
  resumeRequestedAt,  \* 0: no pending resume request
  lastSlot,           \* last_checkpoint_slot
  pendingCount,
  members,            \* CommitteeMember accounts that are active
  memberCount,
  checkpoints,        \* CheckpointEntry accounts; position i is id i - 1, so
                      \* next_checkpoint_id is the length
  now, slot,          \* Clock::unix_timestamp, Clock::slot
  haltedAt            \* history: time of the latest emergency_pause

pauseVars  == <<paused, resumeRequestedAt, haltedAt>>
memberVars == <<members, memberCount>>
entryVars  == <<lastSlot, pendingCount, checkpoints>>
clockVars  == <<now, slot>>
vars == <<cfg, pauseVars, memberVars, entryVars, clockVars>>

Genesis == 1          \* time of `initialize`; any positive timestamp would do

ValidParams(c) ==
  /\ c.minSignatures >= 1
  /\ c.maxMembers >= c.minSignatures
  /\ c.ttlSlots > 0

Init ==
  /\ cfg \in {c \in InitParams : ValidParams(c)}
  /\ paused = FALSE /\ resumeRequestedAt = 0
  /\ lastSlot = 0 /\ pendingCount = 0
  /\ members = {} /\ memberCount = 0
  /\ checkpoints = <<>>
  /\ now = Genesis /\ slot = 0
  /\ haltedAt = Genesis - ResumeTimelock

(***************************************************************************)
(* submit_checkpoint                                                       *)
(***************************************************************************)
\* Distinct active members signed (next id, slot, root); one attestation by
\* anybody else makes the instruction fail.
Attested(signers) ==
  /\ signers \subseteq members
  /\ Cardinality(signers) >= cfg.minSignatures

Entry(s, root) ==
  [slot |-> s, root |-> root, submittedAt |-> now,
   activatesAt |-> now + cfg.timelock,
   expiresAtSlot |-> slot + cfg.ttlSlots, status |-> "Pending"]

\* Mutation: the slot is compared with the current slot only.
SubmitAnySlot(s, root, signers) ==
  /\ ~paused
  /\ pendingCount < cfg.maxPending
  /\ root # ZeroRoot
  /\ slot >= s + cfg.safetyMargin
  /\ Attested(signers)
  /\ checkpoints' = Append(checkpoints, Entry(s, root))
  /\ lastSlot' = s
  /\ pendingCount' = pendingCount + 1
  /\ UNCHANGED <<cfg, pauseVars, memberVars, clockVars>>

SubmitCheckpoint(s, root, signers) ==
  /\ ~paused
  /\ pendingCount < cfg.maxPending
  /\ s > lastSlot
  /\ root # ZeroRoot
  /\ slot >= s + cfg.safetyMargin
  /\ Attested(signers)
  /\ checkpoints' = Append(checkpoints, Entry(s, root))
  /\ lastSlot' = s
  /\ pendingCount' = pendingCount + 1
  /\ UNCHANGED <<cfg, pauseVars, memberVars, clockVars>>

(***************************************************************************)
(* activate_checkpoint, expire_checkpoint: anybody may call them, and the  *)
(* pause does not stop them.                                               *)
(***************************************************************************)
\* pending_count.saturating_sub(1)
OneLessPending == IF pendingCount > 0 THEN pendingCount - 1 ELSE 0

ActivateEarly(i) ==                   \* mutation: the timelock is not checked
  /\ checkpoints[i].status = "Pending"
  /\ slot < checkpoints[i].expiresAtSlot
  /\ checkpoints' = [checkpoints EXCEPT ![i].status = "Active"]
  /\ pendingCount' = OneLessPending
  /\ UNCHANGED <<cfg, pauseVars, memberVars, clockVars, lastSlot>>

ActivateCheckpoint(i) ==
  /\ checkpoints[i].status = "Pending"
  /\ now >= checkpoints[i].activatesAt
  /\ slot < checkpoints[i].expiresAtSlot
  /\ checkpoints' = [checkpoints EXCEPT ![i].status = "Active"]
  /\ pendingCount' = OneLessPending
  /\ UNCHANGED <<cfg, pauseVars, memberVars, clockVars, lastSlot>>

ExpireUncounted(i) ==                 \* mutation: pending entries leak a slot
  /\ checkpoints[i].status \in {"Active", "Pending"}
  /\ slot >= checkpoints[i].expiresAtSlot
  /\ checkpoints' = [checkpoints EXCEPT ![i].status = "Expired"]
  /\ UNCHANGED <<cfg, pauseVars, memberVars, clockVars, lastSlot, pendingCount>>

ExpireCheckpoint(i) ==
  /\ checkpoints[i].status \in {"Active", "Pending"}
  /\ slot >= checkpoints[i].expiresAtSlot
  /\ checkpoints' = [checkpoints EXCEPT ![i].status = "Expired"]
  /\ pendingCount' = IF checkpoints[i].status = "Pending" THEN OneLessPending
                                                          ELSE pendingCount
  /\ UNCHANGED <<cfg, pauseVars, memberVars, clockVars, lastSlot>>

(***************************************************************************)
(* register_member, remove_member.  A removed member's account stays, with *)
(* `active` cleared, and may be registered again (MED-3).                  *)
(***************************************************************************)
RegisterMember(p, m) ==
  /\ p = Authority
  /\ memberCount < cfg.maxMembers
  /\ m \notin members
  /\ members' = members \cup {m}
  /\ memberCount' = memberCount + 1
  /\ UNCHANGED <<cfg, pauseVars, entryVars, clockVars>>

RemoveAny(p, m) ==                    \* mutation: the minimum is not checked
  /\ p = Authority
  /\ m \in members
  /\ members' = members \ {m}
  /\ memberCount' = memberCount - 1
  /\ UNCHANGED <<cfg, pauseVars, entryVars, clockVars>>

RemoveMember(p, m) ==
  /\ p = Authority
  /\ memberCount > cfg.minSignatures
  /\ m \in members
  /\ members' = members \ {m}
  /\ memberCount' = memberCount - 1
  /\ UNCHANGED <<cfg, pauseVars, entryVars, clockVars>>

(***************************************************************************)
(* emergency_pause, request_resume, emergency_resume (MED-2)               *)
(***************************************************************************)
PauseKeepingRequest(p) ==             \* mutation: the request survives
  /\ p \in {Authority, Guardian}
  /\ paused' = TRUE /\ haltedAt' = now
  /\ UNCHANGED <<cfg, memberVars, entryVars, clockVars, resumeRequestedAt>>

EmergencyPause(p) ==
  /\ p \in {Authority, Guardian}
  /\ paused' = TRUE /\ haltedAt' = now
  /\ resumeRequestedAt' = 0
  /\ UNCHANGED <<cfg, memberVars, entryVars, clockVars>>

\* A second request restarts the timelock.
RequestResume(p) ==
  /\ p = Authority
  /\ paused
  /\ resumeRequestedAt' = now
  /\ UNCHANGED <<cfg, memberVars, entryVars, clockVars, paused, haltedAt>>

EmergencyResume(p) ==
  /\ p = Authority
  /\ paused
  /\ resumeRequestedAt > 0
  /\ now >= resumeRequestedAt + ResumeTimelock
  /\ paused' = FALSE
  /\ resumeRequestedAt' = 0
  /\ UNCHANGED <<cfg, memberVars, entryVars, clockVars, haltedAt>>

\* The environment: time passes, with or without new slots.
Tick ==
  /\ now < MaxTime
  /\ now' = now + 1
  /\ slot' \in {s \in {slot, slot + 1} : s <= MaxSlot}
  /\ UNCHANGED <<cfg, pauseVars, memberVars, entryVars>>

Next ==
  \/ \E s \in Slots, r \in Roots, g \in SUBSET Members : SubmitCheckpoint(s, r, g)
  \/ \E i \in 1..Len(checkpoints) : ActivateCheckpoint(i) \/ ExpireCheckpoint(i)
  \/ \E p \in Principals :
        \/ EmergencyPause(p) \/ RequestResume(p) \/ EmergencyResume(p)
        \/ \E m \in Members : RegisterMember(p, m) \/ RemoveMember(p, m)
  \/ Tick

Spec == Init /\ [][Next]_vars

----------------------------------------------------------------------------
Entries == [slot : Nat, root : Roots, submittedAt : Nat, activatesAt : Nat,
            expiresAtSlot : Nat, status : {"Pending", "Active", "Expired"}]

\* Every variable stays in its type, and the committee within max_members.
TypeOK ==
  /\ cfg \in Params
  /\ paused \in BOOLEAN /\ resumeRequestedAt \in Nat /\ haltedAt \in Int
  /\ lastSlot \in Nat /\ pendingCount \in Nat
  /\ members \subseteq Members
  /\ memberCount = Cardinality(members) /\ memberCount <= cfg.maxMembers
  /\ checkpoints \in Seq(Entries)
  /\ now \in Nat /\ slot \in Nat

Pending == {i \in 1..Len(checkpoints) : checkpoints[i].status = "Pending"}

\* pending_count, which throttles submissions, is the number of entries that
\* are Pending: whether they are activated or expire first, in any order, no
\* slot of max_pending leaks and none is given twice.
PendingCounted ==
  /\ pendingCount = Cardinality(Pending)
  /\ pendingCount <= cfg.maxPending

\* Checkpoints follow one another: a later id is for a later slot, expires no
\* earlier, and names a slot that was final by the safety margin when it was
\* submitted (lib.rs: "slot must be > last checkpoint's slot").
CheckpointsOrdered ==
  \A i \in 1..Len(checkpoints) :
     /\ checkpoints[i].slot + cfg.safetyMargin + cfg.ttlSlots
          <= checkpoints[i].expiresAtSlot
     /\ \A j \in 1..(i - 1) :
           /\ checkpoints[j].slot < checkpoints[i].slot
           /\ checkpoints[j].expiresAtSlot <= checkpoints[i].expiresAtSlot

\* An active root has been public for at least the timelock.
TimelockHeld ==
  \A i \in 1..Len(checkpoints) :
     checkpoints[i].status = "Active"
       => now - checkpoints[i].submittedAt >= cfg.timelock

\* MED-2: after a pause nothing is submitted for at least the resume timelock,
\* whatever was requested before the pause.
SubmissionsHeld ==
  [][Len(checkpoints') > Len(checkpoints)
       => now - haltedAt >= ResumeTimelock]_vars

\* Once the committee can form a quorum, removals never take that away.
CommitteeKeepsQuorum ==
  [][Cardinality(members) >= cfg.minSignatures
       => Cardinality(members') >= cfg.minSignatures]_vars
=============================================================================
