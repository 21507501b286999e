-------------------------- MODULE CheckpointProofs --------------------------
(***************************************************************************)
(* Theorems about Checkpoint for every value of its constants: any members,*)
(* any parameters, any timelocks.                                          *)
(***************************************************************************)
EXTENDS Checkpoint, TLAPS, FiniteSetTheorems, SequenceTheorems

----------------------------------------------------------------------------
(* Type correctness *)

LEMMA ParamTypes ==
  ASSUME NEW c \in Params
  PROVE  /\ c.minSignatures \in Nat /\ c.maxMembers \in Nat
         /\ c.safetyMargin \in Nat /\ c.timelock \in Nat
         /\ c.ttlSlots \in Nat /\ c.maxPending \in Nat
  BY DEF Params, ParamNames

LEMMA ResumeType == ResumeTimelock \in Nat
  BY CheckpointConstants

LEMMA EntryType ==
  ASSUME cfg \in Params, now \in Nat, slot \in Nat,
         NEW s \in Slots, NEW r \in Roots
  PROVE  Entry(s, r) \in Entries
<1>1. s \in Nat
  BY CheckpointConstants
<1>2. now + cfg.timelock \in Nat /\ slot + cfg.ttlSlots \in Nat
  BY ParamTypes
<1>3. QED
  BY <1>1, <1>2 DEF Entry, Entries

\* Changing the status of an entry changes nothing else of the sequence.
LEMMA StatusChange ==
  ASSUME checkpoints \in Seq(Entries), NEW i \in 1..Len(checkpoints),
         NEW st \in {"Pending", "Active", "Expired"},
         checkpoints' = [checkpoints EXCEPT ![i].status = st]
  PROVE  /\ checkpoints' \in Seq(Entries)
         /\ Len(checkpoints') = Len(checkpoints)
         /\ checkpoints'[i] = [checkpoints[i] EXCEPT !.status = st]
         /\ \A j \in 1..Len(checkpoints) :
               j # i => checkpoints'[j] = checkpoints[j]
<1> DEFINE e == [checkpoints[i] EXCEPT !.status = st]
<1>1. checkpoints' = [checkpoints EXCEPT ![i] = e]
  OBVIOUS
<1>2. checkpoints[i] \in Entries
  BY ElementOfSeq
<1>3. e \in Entries
  BY <1>2 DEF Entries
<1> HIDE DEF e
<1>4. QED
  BY <1>1, <1>3, ExceptSeq DEF e

LEMMA CountAdded ==
  ASSUME NEW S, NEW m, IsFiniteSet(S), m \notin S
  PROVE  Cardinality(S \cup {m}) = Cardinality(S) + 1
  BY FS_AddElement

LEMMA CountRemoved ==
  ASSUME NEW S, NEW m, IsFiniteSet(S), m \in S
  PROVE  Cardinality(S \ {m}) = Cardinality(S) - 1
  BY FS_RemoveElement

LEMMA CommitteeFinite ==
  ASSUME members \subseteq Members
  PROVE  IsFiniteSet(members) /\ Cardinality(members) \in Nat
<1>1. IsFiniteSet(Members)
  BY CheckpointConstants
<1>2. IsFiniteSet(members)
  BY <1>1, FS_Subset
<1>3. QED
  BY <1>2, FS_CardinalityType

LEMMA InitTypeOK == Init => TypeOK
<1> SUFFICES ASSUME Init PROVE TypeOK
  OBVIOUS
<1>1. /\ cfg \in InitParams
      /\ paused = FALSE /\ resumeRequestedAt = 0
      /\ lastSlot = 0 /\ pendingCount = 0
      /\ members = {} /\ memberCount = 0
      /\ checkpoints = <<>> /\ now = 1 /\ slot = 0
      /\ haltedAt = 1 - ResumeTimelock
  BY Zenon DEF Init, Genesis
<1>2. cfg \in Params
  BY <1>1, CheckpointConstants
<1>3. checkpoints \in Seq(Entries)
  BY <1>1
<1>4. memberCount = Cardinality(members)
  BY <1>1, FS_EmptySet
<1>5. memberCount <= cfg.maxMembers
  BY <1>1, <1>2, ParamTypes
<1>6. haltedAt \in Int
  BY <1>1, ResumeType
<1>7. members \subseteq Members
  BY <1>1
<1>8. QED
  BY <1>1, <1>2, <1>3, <1>4, <1>5, <1>6, <1>7 DEF TypeOK

LEMMA NextTypeOK == TypeOK /\ [Next]_vars => TypeOK'
<1> SUFFICES ASSUME TypeOK, [Next]_vars PROVE TypeOK'
  OBVIOUS
<1>1. ASSUME NEW s \in Slots, NEW r \in Roots, NEW g \in SUBSET Members,
             SubmitCheckpoint(s, r, g)
      PROVE  TypeOK'
  <2>1. Entry(s, r) \in Entries
    BY EntryType DEF TypeOK
  <2>2. checkpoints' \in Seq(Entries)
    BY <1>1, <2>1, AppendProperties DEF SubmitCheckpoint, TypeOK
  <2>3. s \in Nat
    BY CheckpointConstants
  <2>4. QED
    BY <1>1, <2>2, <2>3 DEF SubmitCheckpoint, TypeOK, pauseVars, memberVars, clockVars
<1>2. ASSUME NEW i \in 1..Len(checkpoints), ActivateCheckpoint(i)
      PROVE  TypeOK'
  <2>1. checkpoints' \in Seq(Entries)
    BY <1>2, StatusChange DEF ActivateCheckpoint, TypeOK
  <2>2. OneLessPending \in Nat
    BY DEF OneLessPending, TypeOK
  <2>3. QED
    BY <1>2, <2>1, <2>2 DEF ActivateCheckpoint, TypeOK, pauseVars, memberVars, clockVars
<1>3. ASSUME NEW i \in 1..Len(checkpoints), ExpireCheckpoint(i)
      PROVE  TypeOK'
  <2>1. checkpoints' \in Seq(Entries)
    BY <1>3, StatusChange DEF ExpireCheckpoint, TypeOK
  <2>2. OneLessPending \in Nat
    BY DEF OneLessPending, TypeOK
  <2>3. QED
    BY <1>3, <2>1, <2>2 DEF ExpireCheckpoint, TypeOK, pauseVars, memberVars, clockVars
<1>4. ASSUME NEW p, NEW m \in Members, RegisterMember(p, m)
      PROVE  TypeOK'
  <2>1. IsFiniteSet(members) /\ Cardinality(members) \in Nat
    BY CommitteeFinite DEF TypeOK
  <2>2. memberCount' = Cardinality(members')
    BY <1>4, <2>1, CountAdded DEF RegisterMember, TypeOK
  <2>3. memberCount' <= cfg'.maxMembers
    BY <1>4, <2>1, ParamTypes DEF RegisterMember, TypeOK
  <2>4. members' \subseteq Members
    BY <1>4 DEF RegisterMember, TypeOK
  <2>5. QED
    BY <1>4, <2>2, <2>3, <2>4 DEF RegisterMember, TypeOK, pauseVars, entryVars, clockVars
<1>5. ASSUME NEW p, NEW m \in Members, RemoveMember(p, m)
      PROVE  TypeOK'
  <2>1. IsFiniteSet(members) /\ Cardinality(members) \in Nat
    BY CommitteeFinite DEF TypeOK
  <2>2. memberCount' = Cardinality(members')
    BY <1>5, <2>1, CountRemoved DEF RemoveMember, TypeOK
  <2>3. memberCount' <= cfg'.maxMembers
    BY <1>5, <2>1, ParamTypes DEF RemoveMember, TypeOK
  <2>4. members' \subseteq Members
    BY <1>5 DEF RemoveMember, TypeOK
  <2>5. QED
    BY <1>5, <2>2, <2>3, <2>4 DEF RemoveMember, TypeOK, pauseVars, entryVars, clockVars
<1>6. ASSUME NEW p, EmergencyPause(p) \/ RequestResume(p) \/ EmergencyResume(p)
      PROVE  TypeOK'
  <2>1. /\ paused' \in BOOLEAN /\ resumeRequestedAt' \in Nat /\ haltedAt' \in Int
    <3>1. /\ now \in Nat /\ now \in Int /\ paused \in BOOLEAN
          /\ resumeRequestedAt \in Nat /\ haltedAt \in Int
      BY DEF TypeOK
    <3>2. CASE EmergencyPause(p)
      BY <3>1, <3>2 DEF EmergencyPause
    <3>3. CASE RequestResume(p)
      BY Zenon, <3>1, <3>3 DEF RequestResume
    <3>4. CASE EmergencyResume(p)
      BY <3>1, <3>4 DEF EmergencyResume
    <3>5. QED
      BY <1>6, <3>2, <3>3, <3>4
  <2>2. UNCHANGED <<cfg, memberVars, entryVars, clockVars>>
    BY <1>6 DEF EmergencyPause, RequestResume, EmergencyResume
  <2>3. QED
    BY <2>1, <2>2 DEF TypeOK, memberVars, entryVars, clockVars
<1>7. CASE Tick
  BY <1>7 DEF Tick, TypeOK, pauseVars, memberVars, entryVars
<1>8. CASE UNCHANGED vars
  BY <1>8 DEF vars, TypeOK, pauseVars, memberVars, entryVars, clockVars
<1>9. QED
  BY <1>1, <1>2, <1>3, <1>4, <1>5, <1>6, <1>7, <1>8 DEF Next

\* Every variable of the registry stays in its type under every instruction, the
\* member count is the number of members, and stays within max_members.
THEOREM CheckpointTypeOK == Spec => []TypeOK
<1>1. QED
  BY InitTypeOK, NextTypeOK, PTL DEF Spec

----------------------------------------------------------------------------
(* What the instructions do to the entries: each step appends one entry,    *)
(* changes the status of one, or leaves all alone.                          *)

Submitted == \E s \in Slots, r \in Roots, g \in SUBSET Members :
                SubmitCheckpoint(s, r, g)
Settled == \E i \in 1..Len(checkpoints) :
              ActivateCheckpoint(i) \/ ExpireCheckpoint(i)
Untouched == UNCHANGED <<checkpoints, lastSlot, pendingCount>>

LEMMA EntrySteps ==
  ASSUME TypeOK, [Next]_vars
  PROVE  Submitted \/ Settled \/ Untouched
<1>1. ASSUME NEW p, NEW m \in Members, RegisterMember(p, m) \/ RemoveMember(p, m)
      PROVE  Untouched
  BY <1>1 DEF RegisterMember, RemoveMember, Untouched, entryVars
<1>2. ASSUME NEW p, EmergencyPause(p) \/ RequestResume(p) \/ EmergencyResume(p)
      PROVE  Untouched
  BY <1>2 DEF EmergencyPause, RequestResume, EmergencyResume, Untouched, entryVars
<1>3. CASE Tick
  BY <1>3 DEF Tick, Untouched, entryVars
<1>4. CASE UNCHANGED vars
  BY <1>4 DEF vars, Untouched, entryVars
<1>5. QED
  BY <1>1, <1>2, <1>3, <1>4 DEF Next, Submitted, Settled

\* The parameters never change, and both clocks only go forward.
LEMMA ClockSteps ==
  ASSUME TypeOK, [Next]_vars
  PROVE  cfg' = cfg /\ now' >= now /\ slot' >= slot
<1> USE DEF TypeOK
<1>1. CASE Submitted
  BY <1>1 DEF Submitted, SubmitCheckpoint, clockVars
<1>2. CASE Settled
  BY <1>2 DEF Settled, ActivateCheckpoint, ExpireCheckpoint, clockVars
<1>3. ASSUME NEW p, NEW m \in Members, RegisterMember(p, m) \/ RemoveMember(p, m)
      PROVE  cfg' = cfg /\ now' >= now /\ slot' >= slot
  BY <1>3 DEF RegisterMember, RemoveMember, clockVars
<1>4. ASSUME NEW p, EmergencyPause(p) \/ RequestResume(p) \/ EmergencyResume(p)
      PROVE  cfg' = cfg /\ now' >= now /\ slot' >= slot
  BY <1>4 DEF EmergencyPause, RequestResume, EmergencyResume, clockVars
<1>5. CASE Tick
  BY <1>5 DEF Tick
<1>6. CASE UNCHANGED vars
  BY <1>6 DEF vars, clockVars
<1>7. QED
  BY <1>1, <1>2, <1>3, <1>4, <1>5, <1>6 DEF Next, Submitted, Settled

\* What appending an entry does to the sequence.
LEMMA EntryAdded ==
  ASSUME TypeOK, NEW s \in Slots, NEW r \in Roots, NEW g \in SUBSET Members,
         SubmitCheckpoint(s, r, g)
  PROVE  /\ Len(checkpoints') = Len(checkpoints) + 1
         /\ checkpoints'[Len(checkpoints) + 1] = Entry(s, r)
         /\ \A j \in 1..Len(checkpoints) : checkpoints'[j] = checkpoints[j]
<1>1. checkpoints \in Seq(Entries) /\ Entry(s, r) \in Entries
  BY EntryType DEF TypeOK
<1>2. checkpoints' = Append(checkpoints, Entry(s, r))
  BY DEF SubmitCheckpoint
<1>3. QED
  BY <1>1, <1>2, AppendProperties

----------------------------------------------------------------------------
(* pending_count *)

LEMMA PendingFinite == 
  ASSUME TypeOK
  PROVE  IsFiniteSet(Pending) /\ Cardinality(Pending) \in Nat
<1>1. Len(checkpoints) \in Nat
  BY LenProperties DEF TypeOK
<1>2. IsFiniteSet(1..Len(checkpoints))
  BY <1>1, FS_Interval
<1>3. IsFiniteSet(Pending)
  BY <1>2, FS_Subset DEF Pending
<1>4. QED
  BY <1>3, FS_CardinalityType

LEMMA SubmitCounted ==
  ASSUME TypeOK, PendingCounted, Submitted
  PROVE  PendingCounted'
<1> PICK s \in Slots, r \in Roots, g \in SUBSET Members : SubmitCheckpoint(s, r, g)
  BY DEF Submitted
<1> DEFINE n == Len(checkpoints)
<1>1. n \in Nat
  BY LenProperties DEF TypeOK
<1>2. /\ Len(checkpoints') = n + 1
      /\ checkpoints'[n + 1].status = "Pending"
      /\ \A j \in 1..n : checkpoints'[j] = checkpoints[j]
  <2>1. Entry(s, r).status = "Pending"
    BY DEF Entry
  <2>2. QED
    BY <2>1, EntryAdded
<1>3. Pending' = Pending \cup {n + 1}
  BY <1>1, <1>2 DEF Pending
<1>4. n + 1 \notin Pending
  BY <1>1 DEF Pending
<1>5. Cardinality(Pending') = Cardinality(Pending) + 1
  BY <1>3, <1>4, PendingFinite, CountAdded
<1>6. pendingCount' = pendingCount + 1 /\ pendingCount < cfg.maxPending /\ cfg' = cfg
  BY DEF SubmitCheckpoint
<1>7. pendingCount \in Nat /\ cfg.maxPending \in Nat
  BY ParamTypes DEF TypeOK
<1>8. QED
  BY <1>5, <1>6, <1>7 DEF PendingCounted

LEMMA SettleCounted ==
  ASSUME TypeOK, PendingCounted, Settled
  PROVE  PendingCounted'
<1> PICK i \in 1..Len(checkpoints) : ActivateCheckpoint(i) \/ ExpireCheckpoint(i)
  BY DEF Settled
<1> PICK st \in {"Active", "Expired"} :
           checkpoints' = [checkpoints EXCEPT ![i].status = st]
  BY DEF ActivateCheckpoint, ExpireCheckpoint
<1>1. checkpoints \in Seq(Entries) /\ pendingCount \in Nat /\ cfg.maxPending \in Nat
  BY ParamTypes DEF TypeOK
<1>2. /\ Len(checkpoints') = Len(checkpoints)
      /\ checkpoints'[i] = [checkpoints[i] EXCEPT !.status = st]
      /\ \A j \in 1..Len(checkpoints) : j # i => checkpoints'[j] = checkpoints[j]
  BY <1>1, StatusChange
<1>3. checkpoints[i] \in Entries
  BY <1>1, ElementOfSeq
<1>4. checkpoints'[i].status = st
  BY <1>2, <1>3 DEF Entries
<1>5. Pending' = Pending \ {i}
  BY <1>2, <1>4 DEF Pending
<1>6. cfg' = cfg
  BY DEF ActivateCheckpoint, ExpireCheckpoint
<1>7. CASE checkpoints[i].status = "Pending"
  <2>1. i \in Pending
    BY <1>7 DEF Pending
  <2>2. Cardinality(Pending') = Cardinality(Pending) - 1
    BY <1>5, <2>1, PendingFinite, CountRemoved
  <2>3. pendingCount' = OneLessPending
    BY <1>7 DEF ActivateCheckpoint, ExpireCheckpoint
  <2>4. Cardinality(Pending') \in Nat
    <3>1. IsFiniteSet(Pending')
      BY <1>5, PendingFinite, FS_Subset, Pending' \subseteq Pending
    <3>2. QED
      BY <3>1, FS_CardinalityType
  <2>5. pendingCount > 0
    BY <1>1, <2>2, <2>4, PendingFinite DEF PendingCounted
  <2>6. QED
    BY <1>1, <1>6, <2>2, <2>3, <2>5 DEF PendingCounted, OneLessPending
<1>8. CASE checkpoints[i].status # "Pending"
  <2>1. Pending' = Pending
    BY <1>5, <1>8 DEF Pending
  <2>2. pendingCount' = pendingCount
    BY <1>8 DEF ActivateCheckpoint, ExpireCheckpoint
  <2>3. QED
    BY <1>1, <1>6, <2>1, <2>2 DEF PendingCounted
<1>9. QED
  BY <1>7, <1>8

\* pending_count is the number of pending entries and stays within max_pending,
\* however activations and expiries interleave.
THEOREM CheckpointPending == Spec => []PendingCounted
<1>1. Init => PendingCounted
  <2> SUFFICES ASSUME Init PROVE PendingCounted
    OBVIOUS
  <2>1. checkpoints = <<>> /\ pendingCount = 0
    BY Zenon DEF Init
  <2>2. Pending = {}
    BY <2>1 DEF Pending
  <2>3. cfg.maxPending \in Nat
    BY InitTypeOK, ParamTypes DEF TypeOK
  <2>4. QED
    BY <2>1, <2>2, <2>3, FS_EmptySet DEF PendingCounted
<1>2. TypeOK /\ PendingCounted /\ [Next]_vars => PendingCounted'
  <2> SUFFICES ASSUME TypeOK, PendingCounted, [Next]_vars PROVE PendingCounted'
    OBVIOUS
  <2>1. CASE Untouched
    <3>1. Pending' = Pending
      BY <2>1 DEF Untouched, Pending
    <3>2. cfg' = cfg
      BY ClockSteps
    <3>3. QED
      BY <2>1, <3>1, <3>2 DEF Untouched, PendingCounted
  <2>2. QED
    BY <2>1, SubmitCounted, SettleCounted, EntrySteps
<1>3. QED
  BY <1>1, <1>2, CheckpointTypeOK, PTL DEF Spec

----------------------------------------------------------------------------
(* Order of the checkpoints, and the timelock.  Both follow from what is     *)
(* kept of the instant an entry was appended; only the status of an entry    *)
(* changes later, so each part is shown for the appended entry and carried   *)
(* over for the others.                                                      *)

\* Entry i as it was written, seen from the present.
EntryInv(i) ==
  /\ checkpoints[i].slot <= lastSlot
  /\ checkpoints[i].expiresAtSlot <= slot + cfg.ttlSlots
  /\ checkpoints[i].activatesAt = checkpoints[i].submittedAt + cfg.timelock

OrderInv ==
  /\ CheckpointsOrdered
  /\ \A i \in 1..Len(checkpoints) : EntryInv(i)

\* The fields that settling an entry leaves alone.
LEMMA SettleKeeps ==
  ASSUME TypeOK, Settled
  PROVE  /\ Len(checkpoints') = Len(checkpoints)
         /\ cfg' = cfg /\ slot' = slot /\ lastSlot' = lastSlot /\ now' = now
         /\ \A j \in 1..Len(checkpoints) :
               /\ checkpoints'[j].slot = checkpoints[j].slot
               /\ checkpoints'[j].submittedAt = checkpoints[j].submittedAt
               /\ checkpoints'[j].activatesAt = checkpoints[j].activatesAt
               /\ checkpoints'[j].expiresAtSlot = checkpoints[j].expiresAtSlot
<1> PICK i \in 1..Len(checkpoints) : ActivateCheckpoint(i) \/ ExpireCheckpoint(i)
  BY DEF Settled
<1> PICK st \in {"Active", "Expired"} :
           checkpoints' = [checkpoints EXCEPT ![i].status = st]
  BY DEF ActivateCheckpoint, ExpireCheckpoint
<1>1. checkpoints \in Seq(Entries)
  BY DEF TypeOK
<1>2. /\ Len(checkpoints') = Len(checkpoints)
      /\ checkpoints'[i] = [checkpoints[i] EXCEPT !.status = st]
      /\ \A j \in 1..Len(checkpoints) : j # i => checkpoints'[j] = checkpoints[j]
  BY <1>1, StatusChange
<1>3. checkpoints[i] \in Entries
  BY <1>1, ElementOfSeq
<1>4. /\ checkpoints'[i].slot = checkpoints[i].slot
      /\ checkpoints'[i].submittedAt = checkpoints[i].submittedAt
      /\ checkpoints'[i].activatesAt = checkpoints[i].activatesAt
      /\ checkpoints'[i].expiresAtSlot = checkpoints[i].expiresAtSlot
  BY <1>2, <1>3 DEF Entries
<1>5. cfg' = cfg /\ slot' = slot /\ lastSlot' = lastSlot /\ now' = now
  BY DEF ActivateCheckpoint, ExpireCheckpoint, clockVars
<1>6. QED
  BY <1>2, <1>4, <1>5

\* The fields of the entries are natural numbers.
LEMMA EntryFields ==
  ASSUME TypeOK, NEW i \in 1..Len(checkpoints)
  PROVE  /\ checkpoints[i].slot \in Nat /\ checkpoints[i].submittedAt \in Nat
         /\ checkpoints[i].activatesAt \in Nat
         /\ checkpoints[i].expiresAtSlot \in Nat
<1>1. checkpoints[i] \in Entries
  BY ElementOfSeq DEF TypeOK
<1>2. QED
  BY <1>1 DEF Entries

LEMMA SubmitOrdered ==
  ASSUME TypeOK, OrderInv, Submitted
  PROVE  OrderInv'
<1> PICK s \in Slots, r \in Roots, g \in SUBSET Members : SubmitCheckpoint(s, r, g)
  BY DEF Submitted
<1> DEFINE n == Len(checkpoints)
<1>1. n \in Nat /\ s \in Nat /\ lastSlot \in Nat /\ slot \in Nat /\ now \in Nat
  BY LenProperties, CheckpointConstants DEF TypeOK
<1>2. /\ cfg.safetyMargin \in Nat /\ cfg.ttlSlots \in Nat /\ cfg.timelock \in Nat
  BY ParamTypes DEF TypeOK
<1>3. /\ Len(checkpoints') = n + 1
      /\ checkpoints'[n + 1] = Entry(s, r)
      /\ \A j \in 1..n : checkpoints'[j] = checkpoints[j]
  BY EntryAdded
<1>4. /\ s > lastSlot /\ slot >= s + cfg.safetyMargin
      /\ lastSlot' = s /\ cfg' = cfg /\ slot' = slot
  BY DEF SubmitCheckpoint, clockVars
<1>5. /\ checkpoints'[n + 1].slot = s
      /\ checkpoints'[n + 1].submittedAt = now
      /\ checkpoints'[n + 1].activatesAt = now + cfg.timelock
      /\ checkpoints'[n + 1].expiresAtSlot = slot + cfg.ttlSlots
  BY <1>3 DEF Entry
<1>6. \A j \in 1..n : EntryInv(j)
  BY DEF OrderInv
<1>7. \A j \in 1..n : EntryInv(j)'
  BY <1>1, <1>3, <1>4, <1>6, EntryFields DEF EntryInv
<1>8. ASSUME NEW i, i = n + 1
      PROVE  EntryInv(i)'
  BY <1>1, <1>2, <1>4, <1>5, <1>8 DEF EntryInv
<1>9. ASSUME NEW i \in 1..Len(checkpoints')
      PROVE  /\ checkpoints'[i].slot + cfg.safetyMargin + cfg.ttlSlots
                  <= checkpoints'[i].expiresAtSlot
             /\ \A j \in 1..(i - 1) :
                   /\ checkpoints'[j].slot < checkpoints'[i].slot
                   /\ checkpoints'[j].expiresAtSlot <= checkpoints'[i].expiresAtSlot
  <2>1. CASE i = n + 1
    <3>1. \A j \in 1..n : /\ checkpoints[j].slot < s
                          /\ checkpoints[j].expiresAtSlot <= slot + cfg.ttlSlots
      BY <1>1, <1>4, <1>6, EntryFields DEF EntryInv
    <3>2. s + cfg.safetyMargin + cfg.ttlSlots <= slot + cfg.ttlSlots
      BY <1>1, <1>2, <1>4
    <3>3. i - 1 = n
      BY <1>1, <2>1
    <3>4. QED
      BY <1>3, <1>5, <2>1, <3>1, <3>2, <3>3
  <2>2. CASE i # n + 1
    <3>1. i \in 1..n /\ \A j \in 1..(i - 1) : j \in 1..n
      BY <1>1, <1>3, <2>2
    <3>2. QED
      BY <1>3, <3>1 DEF OrderInv, CheckpointsOrdered
  <2>3. QED
    BY <2>1, <2>2
<1>10. CheckpointsOrdered'
  BY <1>4, <1>9 DEF CheckpointsOrdered
<1>11. \A i \in 1..Len(checkpoints') : EntryInv(i)'
  BY <1>1, <1>3, <1>7, <1>8
<1>12. QED
  BY <1>10, <1>11 DEF OrderInv

LEMMA OrderStep == TypeOK /\ OrderInv /\ [Next]_vars => OrderInv'
<1> SUFFICES ASSUME TypeOK, OrderInv, [Next]_vars PROVE OrderInv'
  OBVIOUS
<1>1. CASE Settled
  <2>1. Len(checkpoints) \in Nat
    BY LenProperties DEF TypeOK
  <2>2. CheckpointsOrdered'
    BY <1>1, <2>1, SettleKeeps DEF OrderInv, CheckpointsOrdered
  <2>3. \A i \in 1..Len(checkpoints') : EntryInv(i)'
    BY <1>1, SettleKeeps DEF OrderInv, EntryInv
  <2>4. QED
    BY <2>2, <2>3 DEF OrderInv
<1>2. CASE Untouched
  <2>1. checkpoints' = checkpoints /\ lastSlot' = lastSlot
    BY <1>2 DEF Untouched
  <2>2. cfg' = cfg /\ slot' >= slot /\ slot \in Nat
    BY ClockSteps DEF TypeOK
  <2>3. slot' \in Nat /\ cfg.ttlSlots \in Nat
    BY NextTypeOK, ParamTypes DEF TypeOK
  <2>4. CheckpointsOrdered'
    BY <2>1, <2>2 DEF OrderInv, CheckpointsOrdered
  <2>5. \A i \in 1..Len(checkpoints') : EntryInv(i)'
    BY <2>1, <2>2, <2>3, EntryFields DEF OrderInv, EntryInv
  <2>6. QED
    BY <2>4, <2>5 DEF OrderInv
<1>3. QED
  BY <1>1, <1>2, SubmitOrdered, EntrySteps

LEMMA OrderInit == Init => OrderInv
<1> SUFFICES ASSUME Init PROVE OrderInv
  OBVIOUS
<1>1. checkpoints = <<>>
  BY Zenon DEF Init
<1>2. Len(checkpoints) = 0
  BY <1>1
<1>3. QED
  BY <1>2 DEF OrderInv, CheckpointsOrdered

\* Later checkpoints are for later slots, expire no earlier, and every one names
\* a slot that was final by the safety margin when it was submitted.
THEOREM CheckpointOrder == Spec => []CheckpointsOrdered
<1>1. OrderInv => CheckpointsOrdered
  BY DEF OrderInv
<1>2. QED
  BY <1>1, OrderInit, OrderStep, CheckpointTypeOK, PTL DEF Spec

LEMMA TimelockStep ==
  TypeOK /\ OrderInv /\ TimelockHeld /\ [Next]_vars => TimelockHeld'
<1> SUFFICES ASSUME TypeOK, OrderInv, TimelockHeld, [Next]_vars,
                    NEW k \in 1..Len(checkpoints'),
                    checkpoints'[k].status = "Active"
             PROVE  now' - checkpoints'[k].submittedAt >= cfg'.timelock
  BY DEF TimelockHeld
<1>1. cfg' = cfg /\ now' >= now
  BY ClockSteps
<1>2. now \in Nat /\ now' \in Nat /\ cfg.timelock \in Nat /\ checkpoints \in Seq(Entries)
  BY NextTypeOK, ParamTypes DEF TypeOK
<1>3. ASSUME k \in 1..Len(checkpoints), checkpoints[k].status = "Active",
             checkpoints'[k].submittedAt = checkpoints[k].submittedAt
      PROVE  now' - checkpoints'[k].submittedAt >= cfg'.timelock
  BY <1>1, <1>2, <1>3, EntryFields DEF TimelockHeld
<1>4. CASE Untouched
  BY <1>3, <1>4 DEF Untouched
<1>5. CASE Submitted
  <2>1. PICK s \in Slots, r \in Roots, g \in SUBSET Members : SubmitCheckpoint(s, r, g)
    BY <1>5 DEF Submitted
  <2>2. Entry(s, r).status = "Pending"
    BY DEF Entry
  <2>3. k # Len(checkpoints) + 1
    BY <2>1, <2>2, EntryAdded
  <2>4. k \in 1..Len(checkpoints) /\ checkpoints'[k] = checkpoints[k]
    BY <1>2, <2>1, <2>3, EntryAdded, LenProperties
  <2>5. QED
    BY <1>3, <2>4
<1>6. CASE Settled
  <2>1. PICK i \in 1..Len(checkpoints) : ActivateCheckpoint(i) \/ ExpireCheckpoint(i)
    BY <1>6 DEF Settled
  <2>2. /\ k \in 1..Len(checkpoints)
        /\ checkpoints'[k].submittedAt = checkpoints[k].submittedAt
    BY <1>6, SettleKeeps
  <2>3. CASE k # i
    <3>1. PICK st \in {"Active", "Expired"} :
             checkpoints' = [checkpoints EXCEPT ![i].status = st]
      BY <2>1 DEF ActivateCheckpoint, ExpireCheckpoint
    <3>2. checkpoints'[k] = checkpoints[k]
      BY <1>2, <2>2, <2>3, <3>1, StatusChange
    <3>3. QED
      BY <1>3, <2>2, <3>2
  <2>4. CASE k = i /\ ActivateCheckpoint(i)
    <3>1. now >= checkpoints[k].activatesAt
      BY <2>4 DEF ActivateCheckpoint
    <3>2. checkpoints[k].activatesAt = checkpoints[k].submittedAt + cfg.timelock
      BY <2>2 DEF OrderInv, EntryInv
    <3>3. QED
      BY <1>1, <1>2, <2>2, <3>1, <3>2, EntryFields
  <2>5. CASE k = i /\ ExpireCheckpoint(i)
    <3>1. checkpoints' = [checkpoints EXCEPT ![i].status = "Expired"]
      BY <2>5 DEF ExpireCheckpoint
    <3>2. checkpoints'[i] = [checkpoints[i] EXCEPT !.status = "Expired"]
      BY <1>2, <3>1, StatusChange
    <3>3. checkpoints[i] \in Entries
      BY <1>2, ElementOfSeq
    <3>4. checkpoints'[i].status = "Expired"
      BY <3>2, <3>3 DEF Entries
    <3>5. QED
      BY <2>5, <3>4
  <2>6. QED
    BY <2>1, <2>3, <2>4, <2>5
<1>7. QED
  BY <1>4, <1>5, <1>6, EntrySteps

\* Whatever the clocks do, a root is active only after it was public for the
\* timelock.
THEOREM CheckpointTimelock == Spec => []TimelockHeld
<1>1. Init => TimelockHeld
  <2> SUFFICES ASSUME Init PROVE TimelockHeld
    OBVIOUS
  <2>1. checkpoints = <<>>
    BY Zenon DEF Init
  <2>2. Len(checkpoints) = 0
    BY <2>1
  <2>3. QED
    BY <2>2 DEF TimelockHeld
<1>2. QED
  BY <1>1, OrderInit, OrderStep, TimelockStep, CheckpointTypeOK, PTL DEF Spec

----------------------------------------------------------------------------
(* The pause *)

\* A request can only be younger than the pause it is to end, and the registry
\* runs only when the last pause is at least the timelock away.
PauseInv ==
  /\ haltedAt <= now
  /\ resumeRequestedAt # 0 => paused /\ haltedAt <= resumeRequestedAt
  /\ ~paused => now - haltedAt >= ResumeTimelock

\* The instructions that leave the pause alone.
PauseUntouched == UNCHANGED <<paused, resumeRequestedAt, haltedAt>>

LEMMA PauseSteps ==
  ASSUME TypeOK, [Next]_vars
  PROVE  \/ PauseUntouched
         \/ \E p \in Principals :
               EmergencyPause(p) \/ RequestResume(p) \/ EmergencyResume(p)
<1>1. CASE Submitted
  BY <1>1 DEF Submitted, SubmitCheckpoint, PauseUntouched, pauseVars
<1>2. CASE Settled
  BY <1>2 DEF Settled, ActivateCheckpoint, ExpireCheckpoint, PauseUntouched, pauseVars
<1>3. ASSUME NEW p, NEW m \in Members, RegisterMember(p, m) \/ RemoveMember(p, m)
      PROVE  PauseUntouched
  BY <1>3 DEF RegisterMember, RemoveMember, PauseUntouched, pauseVars
<1>4. CASE Tick
  BY <1>4 DEF Tick, PauseUntouched, pauseVars
<1>5. CASE UNCHANGED vars
  BY <1>5 DEF vars, PauseUntouched, pauseVars
<1>6. QED
  BY <1>1, <1>2, <1>3, <1>4, <1>5 DEF Next, Submitted, Settled

\* What was far enough away stays so.
LEMMA Later ==
  ASSUME NEW a \in Nat, NEW b \in Nat, NEW h \in Int, NEW d \in Nat,
         b >= a, a - h >= d
  PROVE  b - h >= d
  OBVIOUS

LEMMA PauseStep == TypeOK /\ PauseInv /\ [Next]_vars => PauseInv'
<1> SUFFICES ASSUME TypeOK, PauseInv, [Next]_vars PROVE PauseInv'
  OBVIOUS
<1>1. /\ now \in Nat /\ now' \in Nat /\ haltedAt \in Int
      /\ resumeRequestedAt \in Nat /\ ResumeTimelock \in Nat
  BY NextTypeOK, ResumeType DEF TypeOK
<1>2. now' >= now
  BY ClockSteps
<1>3. CASE PauseUntouched
  <2>1. /\ paused' = paused /\ resumeRequestedAt' = resumeRequestedAt
        /\ haltedAt' = haltedAt
    BY <1>3 DEF PauseUntouched
  <2>2. haltedAt' <= now'
    BY <1>1, <1>2, <2>1 DEF PauseInv
  <2>3. now - haltedAt >= ResumeTimelock => now' - haltedAt' >= ResumeTimelock
    BY <1>1, <1>2, <2>1, Later
  <2>4. QED
    BY Zenon, <2>1, <2>2, <2>3 DEF PauseInv
<1>4. ASSUME NEW p, EmergencyPause(p)
      PROVE  PauseInv'
  <2>1. paused' /\ haltedAt' = now /\ resumeRequestedAt' = 0
    BY Zenon, <1>4 DEF EmergencyPause
  <2>2. haltedAt' <= now'
    BY <1>1, <1>2, <2>1
  <2>3. QED
    BY Zenon, <2>1, <2>2 DEF PauseInv
<1>5. ASSUME NEW p, RequestResume(p)
      PROVE  PauseInv'
  <2>1. /\ paused /\ paused' = paused /\ haltedAt' = haltedAt
        /\ resumeRequestedAt' = now
    BY <1>5 DEF RequestResume
  <2>2. haltedAt' <= resumeRequestedAt' /\ haltedAt' <= now'
    BY <1>1, <1>2, <2>1 DEF PauseInv
  <2>3. QED
    BY Zenon, <2>1, <2>2 DEF PauseInv
<1>6. ASSUME NEW p, EmergencyResume(p)
      PROVE  PauseInv'
  <2>1. /\ resumeRequestedAt > 0 /\ now >= resumeRequestedAt + ResumeTimelock
        /\ resumeRequestedAt' = 0 /\ haltedAt' = haltedAt
    BY <1>6 DEF EmergencyResume
  <2>2. haltedAt <= resumeRequestedAt
    BY <1>1, <2>1 DEF PauseInv
  <2>3. now - haltedAt >= ResumeTimelock
    BY <1>1, <2>1, <2>2
  <2>4. now' - haltedAt >= ResumeTimelock
    BY <1>1, <1>2, <2>3, Later
  <2>5. haltedAt <= now'
    BY <1>1, <1>2 DEF PauseInv
  <2>6. QED
    BY Zenon, <2>1, <2>4, <2>5 DEF PauseInv
<1>7. QED
  BY <1>3, <1>4, <1>5, <1>6, PauseSteps

LEMMA PauseInit == Init => PauseInv
<1> SUFFICES ASSUME Init PROVE PauseInv
  OBVIOUS
<1>1. paused = FALSE /\ resumeRequestedAt = 0 /\ now = 1 /\ haltedAt = 1 - ResumeTimelock
  BY Zenon DEF Init, Genesis
<1>2. QED
  BY <1>1, ResumeType DEF PauseInv

\* Submissions stop for at least the resume timelock after a pause, whoever had
\* asked for a resume before it.
THEOREM CheckpointPauseHolds == Spec => SubmissionsHeld
<1>1. TypeOK /\ PauseInv /\ [Next]_vars
        => [Len(checkpoints') > Len(checkpoints)
              => now - haltedAt >= ResumeTimelock]_vars
  <2> SUFFICES ASSUME TypeOK, PauseInv, [Next]_vars,
                      Len(checkpoints') > Len(checkpoints)
               PROVE  now - haltedAt >= ResumeTimelock
    OBVIOUS
  <2>1. Len(checkpoints) \in Nat
    BY LenProperties DEF TypeOK
  <2>2. ~Untouched
    BY <2>1 DEF Untouched
  <2>3. ~Settled
    BY <2>1, SettleKeeps
  <2>4. Submitted
    BY <2>2, <2>3, EntrySteps
  <2>5. ~paused
    BY <2>4 DEF Submitted, SubmitCheckpoint
  <2>6. QED
    BY <2>5 DEF PauseInv
<1>2. QED
  BY <1>1, PauseInit, PauseStep, CheckpointTypeOK, PTL DEF Spec, SubmissionsHeld

----------------------------------------------------------------------------
(* The committee *)

LEMMA CommitteeSteps ==
  ASSUME TypeOK, [Next]_vars
  PROVE  \/ UNCHANGED members
         \/ \E p \in Principals, m \in Members :
               RegisterMember(p, m) \/ RemoveMember(p, m)
<1>1. CASE Submitted
  BY <1>1 DEF Submitted, SubmitCheckpoint, memberVars
<1>2. CASE Settled
  BY <1>2 DEF Settled, ActivateCheckpoint, ExpireCheckpoint, memberVars
<1>3. ASSUME NEW p, EmergencyPause(p) \/ RequestResume(p) \/ EmergencyResume(p)
      PROVE  UNCHANGED members
  BY <1>3 DEF EmergencyPause, RequestResume, EmergencyResume, memberVars
<1>4. CASE Tick
  BY <1>4 DEF Tick, memberVars
<1>5. CASE UNCHANGED vars
  BY <1>5 DEF vars, memberVars
<1>6. QED
  BY <1>1, <1>2, <1>3, <1>4, <1>5 DEF Next, Submitted, Settled

\* A committee that can form a quorum keeps that ability for ever: the guard on
\* memberCount protects the members themselves.
THEOREM CheckpointQuorumKept == Spec => CommitteeKeepsQuorum
<1>1. TypeOK /\ [Next]_vars
        => [Cardinality(members) >= cfg.minSignatures
              => Cardinality(members') >= cfg.minSignatures]_vars
  <2> SUFFICES ASSUME TypeOK, [Next]_vars,
                      Cardinality(members) >= cfg.minSignatures
               PROVE  Cardinality(members') >= cfg.minSignatures
    OBVIOUS
  <2>1. /\ IsFiniteSet(members) /\ Cardinality(members) \in Nat
        /\ cfg.minSignatures \in Nat /\ memberCount = Cardinality(members)
    BY CommitteeFinite, ParamTypes DEF TypeOK
  <2>2. ASSUME NEW p, NEW m \in Members, RegisterMember(p, m)
        PROVE  Cardinality(members') >= cfg.minSignatures
    BY <2>1, <2>2, CountAdded DEF RegisterMember
  <2>3. ASSUME NEW p, NEW m \in Members, RemoveMember(p, m)
        PROVE  Cardinality(members') >= cfg.minSignatures
    BY <2>1, <2>3, CountRemoved DEF RemoveMember
  <2>4. QED
    BY <2>2, <2>3, CommitteeSteps
<1>2. QED
  BY <1>1, CheckpointTypeOK, PTL DEF Spec, CommitteeKeepsQuorum
=============================================================================
