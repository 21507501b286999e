---------------------------- MODULE VaultProofs ----------------------------
(***************************************************************************)
(* Theorems about Vault for every value of its constants: any number of    *)
(* users, burns and validators, any amounts, limits, delays and day        *)
(* length.  First its types, its books and its registry; then what leaves  *)
(* it: a burn is paid once, a day's payouts respect the daily limit, and a *)
(* pause lasts.                                                            *)
(***************************************************************************)
EXTENDS Vault, TLAPS, FiniteSetTheorems, SequenceTheorems

----------------------------------------------------------------------------
(* Type correctness *)

\* The plain typing facts among the assumptions on the constants.
LEMMA ConstantTypes ==
  /\ \A a \in Amounts : a \in Nat
  /\ DaySeconds \in Nat /\ DaySeconds > 0 /\ MinDelay \in Nat
  /\ \A u \in ConfigUpdates : /\ u.newAuthority \in Principals \cup {NoOne}
                              /\ u.newGuardian \in Principals \cup {NoOne}
<1>1. \A a \in Amounts : a \in Nat
  BY VaultConstants
<1>2. DaySeconds \in Nat /\ DaySeconds > 0
  BY VaultConstants
<1>3. MinDelay \in Nat
  BY VaultConstants
<1>4. \A u \in ConfigUpdates : /\ u.newAuthority \in Principals \cup {NoOne}
                               /\ u.newGuardian \in Principals \cup {NoOne}
  BY VaultConstants
<1>5. QED
  BY <1>1, <1>2, <1>3, <1>4

\* The fields of a configuration are natural numbers.
LEMMA ParamTypes ==
  ASSUME NEW c \in Params
  PROVE  /\ c.minDeposit \in Nat /\ c.maxDeposit \in Nat
         /\ c.maxDailyOutflow \in Nat /\ c.maxUnlock \in Nat
         /\ c.largeDelay \in Nat /\ c.largeThreshold \in Nat
         /\ c.minValidators \in Nat /\ c.maxValidators \in Nat
         /\ c.resumeDelay \in Nat
  BY DEF Params, ParamNames

\* A configuration stays a configuration when update_config accepts the change.
LEMMA UpdatedType ==
  ASSUME NEW u \in ConfigUpdates, cfg \in Params
  PROVE  Updated(u) \in Params
<1>1. \A f \in DOMAIN u.params : u.params[f] \in Nat
  BY VaultConstants
<1>2. QED
  BY <1>1 DEF Updated, Params

\* What the CPI out of the vault does to the types.
LEMMA PayType ==
  ASSUME TypeOK, NEW id \in BurnIds, NEW a \in Nat, Pay(id, a)
  PROVE  /\ vault' \in Nat /\ totalUnlocked' \in Nat /\ totalLocked' \in Nat
         /\ payouts' \in Seq(Payouts)
<1>1. PaidToday \in Nat
  <2>1. CASE payouts = <<>>
    BY <2>1 DEF PaidToday
  <2>2. CASE payouts # <<>>
    <3>1. Len(payouts) \in 1..Len(payouts)
      BY <2>2, EmptySeq, LenProperties DEF TypeOK
    <3>2. payouts[Len(payouts)] \in Payouts
      BY <3>1, ElementOfSeq DEF TypeOK
    <3>3. QED
      BY <2>2, <3>2 DEF PaidToday, Payouts
  <2>3. QED
    BY <2>1, <2>2
<1>2. cfg.maxDailyOutflow \in Nat
  BY DEF TypeOK, Params, ParamNames
<1>3. [id |-> id, amount |-> a, time |-> now, limit |-> cfg.maxDailyOutflow,
       paidToday |-> PaidToday + a] \in Payouts
  BY <1>1, <1>2 DEF Payouts, TypeOK
<1>4. payouts' \in Seq(Payouts)
  BY <1>3, AppendProperties DEF Pay, TypeOK
<1>5. QED
  BY <1>4 DEF Pay, Freed, TypeOK

\* The circuit breaker moves the outflow and the reset time within Nat.
LEMMA ChargeType ==
  ASSUME TypeOK, NEW a \in Nat, Charge(a)
  PROVE  outflow' \in Nat /\ lastReset' \in Nat
<1>1. now \in Nat /\ lastReset \in Nat /\ outflow \in Nat /\ DaySeconds \in Nat \ {0}
  BY VaultConstants DEF TypeOK
<1>2. CASE DayOver
  <2> DEFINE w == (now - lastReset) \div DaySeconds
  <2>1. now - lastReset \in Nat
    BY <1>1, <1>2 DEF DayOver
  <2>2. w \in Nat
    BY <1>1, <2>1
  <2>3. w * DaySeconds \in Nat
    BY <1>1, <2>2
  <2>4. lastReset' = lastReset + w * DaySeconds
    BY <1>2 DEF Charge
  <2>5. outflow' = 0 + a
    BY <1>2 DEF Charge
  <2> HIDE DEF w
  <2>6. QED
    BY <1>1, <2>3, <2>4, <2>5
<1>3. CASE ~DayOver
  BY <1>1, <1>3 DEF Charge
<1>4. QED
  BY <1>2, <1>3

LEMMA InitTypeOK == Init => TypeOK
<1> SUFFICES ASSUME Init PROVE TypeOK
  OBVIOUS
<1>1. /\ cfg \in InitParams
      /\ authority \in Principals /\ guardian \in Principals
      /\ pendingAuthority = NoOne /\ transferRequestedAt = 0
      /\ paused = FALSE /\ resumeRequestedAt = 0 /\ haltedAt = 1 - MinDelay
      /\ globalNonce = 0 /\ totalLocked = 0 /\ totalUnlocked = 0
      /\ outflow = 0 /\ lastReset = 1
      /\ validators = {} /\ validatorCount = 0
      /\ deposits = {} /\ nextNonce = [u \in Users |-> 0]
      /\ unlocks = [b \in BurnIds |-> NoUnlock] /\ vault = 0 /\ now = 1
      /\ gifts = 0 /\ payouts = <<>>
  BY Zenon DEF Init, Genesis
<1>2. cfg \in Params
  BY <1>1, VaultConstants
<1>3. payouts \in Seq(Payouts)
  BY <1>1
<1>4. unlocks \in [BurnIds -> Unlocks]
  BY <1>1 DEF NoUnlock, Unlocks
<1>5. haltedAt \in Int
  <2>1. MinDelay \in Int
    BY VaultConstants
  <2>2. QED
    BY <1>1, <2>1
<1>6. QED
  BY <1>1, <1>2, <1>3, <1>4, <1>5 DEF TypeOK

LEMMA NextTypeOK == TypeOK /\ [Next]_vars => TypeOK'
<1> SUFFICES ASSUME TypeOK, [Next]_vars PROVE TypeOK'
  OBVIOUS
<1> USE DEF TypeOK, vars, govVars, pauseVars, bookVars, setVars, inVars, outVars
<1>1. ASSUME NEW u \in Users, NEW a \in Amounts, Deposit(u, a) \/ DepositSpl(u, a)
      PROVE  TypeOK'
  <2>1. a \in Nat
    BY ConstantTypes
  <2>2. nextNonce' \in [Users -> Nat]
    BY SMTT(30), <1>1 DEF Deposit, DepositSpl, Record
  <2>3. [sender |-> u, nonce |-> nextNonce[u], amount |-> a,
         eventIndex |-> globalNonce + 1, asset |-> "SOL"]
          \in [sender : Users, nonce : Nat, amount : Nat,
               eventIndex : Nat, asset : {"SOL", "SPL"}]
    BY <2>1
  <2>4. [sender |-> u, nonce |-> nextNonce[u], amount |-> a,
         eventIndex |-> globalNonce, asset |-> "SPL"]
          \in [sender : Users, nonce : Nat, amount : Nat,
               eventIndex : Nat, asset : {"SOL", "SPL"}]
    BY <2>1
  <2>5. CASE Deposit(u, a)
    BY <2>1, <2>2, <2>3, <2>5 DEF Deposit, Record
  <2>6. CASE DepositSpl(u, a)
    BY <2>1, <2>2, <2>4, <2>6 DEF DepositSpl, Record
  <2>7. QED
    BY <1>1, <2>5, <2>6
<1>2. ASSUME NEW id \in BurnIds, ExecuteScheduledUnlock(id)
      PROVE  TypeOK'
  <2>1. unlocks[id] \in Unlocks
    OBVIOUS
  <2>2. unlocks[id].amount \in Nat
    BY <2>1 DEF Unlocks
  <2>3. unlocks' \in [BurnIds -> Unlocks]
    BY <1>2, <2>1 DEF ExecuteScheduledUnlock, MarkExecuted, Unlocks
  <2>4. outflow' \in Nat /\ lastReset' \in Nat
    BY <1>2, <2>2, ChargeType DEF ExecuteScheduledUnlock
  <2>5. /\ vault' \in Nat /\ totalUnlocked' \in Nat /\ totalLocked' \in Nat
        /\ payouts' \in Seq(Payouts)
    BY <1>2, <2>2, PayType DEF ExecuteScheduledUnlock
  <2>6. QED
    BY <1>2, <2>3, <2>4, <2>5 DEF ExecuteScheduledUnlock
<1>3. ASSUME NEW id \in BurnIds, NEW a \in Amounts, NEW s \in SUBSET Validators,
             NEW e \in Expirations, Unlock(id, a, s, e)
      PROVE  TypeOK'
  <2>1. a \in Nat /\ cfg.largeDelay \in Nat
    BY ConstantTypes, ParamTypes
  <2>2. unlocks' \in [BurnIds -> Unlocks]
    <3>1. [status |-> "scheduled", amount |-> a, timestamp |-> now,
           dueAt |-> now + cfg.largeDelay] \in Unlocks
      BY <2>1 DEF Unlocks
    <3>2. [status |-> "executed", amount |-> a, timestamp |-> now,
           dueAt |-> 0] \in Unlocks
      BY <2>1 DEF Unlocks
    <3>3. QED
      BY <1>3, <3>1, <3>2 DEF Unlock
  <2>3. outflow' \in Nat /\ lastReset' \in Nat
    BY <1>3, <2>1, ChargeType DEF Unlock
  <2>4. /\ vault' \in Nat /\ totalUnlocked' \in Nat /\ totalLocked' \in Nat
        /\ payouts' \in Seq(Payouts)
    <3>1. CASE Pay(id, a)
      BY <2>1, <3>1, PayType
    <3>2. CASE UNCHANGED <<vault, totalUnlocked, totalLocked, payouts>>
      BY <3>2
    <3>3. QED
      BY <1>3, <3>1, <3>2 DEF Unlock
  <2>5. QED
    BY <1>3, <2>2, <2>3, <2>4 DEF Unlock
<1>4. ASSUME NEW p \in Principals,
             \/ EmergencyPause(p) \/ RequestResume(p) \/ EmergencyResume(p)
             \/ CancelResumeRequest(p) \/ AcceptAuthority(p)
      PROVE  TypeOK'
  <2>1. CASE EmergencyPause(p)
    BY <2>1 DEF EmergencyPause
  <2>2. CASE RequestResume(p)
    BY <2>2 DEF RequestResume
  <2>3. CASE EmergencyResume(p)
    BY <2>3 DEF EmergencyResume
  <2>4. CASE CancelResumeRequest(p)
    BY <2>4 DEF CancelResumeRequest
  <2>5. CASE AcceptAuthority(p)
    BY <2>5 DEF AcceptAuthority
  <2>6. QED
    BY <1>4, <2>1, <2>2, <2>3, <2>4, <2>5
<1>5. ASSUME NEW p \in Principals, NEW u \in ConfigUpdates, UpdateConfig(p, u)
      PROVE  TypeOK'
  <2>1. cfg' \in Params
    BY <1>5, UpdatedType DEF UpdateConfig
  <2>2. u.newAuthority \in Principals \cup {NoOne} /\ u.newGuardian \in Principals \cup {NoOne}
    BY ConstantTypes
  <2>3. QED
    BY <1>5, <2>1, <2>2 DEF UpdateConfig
<1>6. ASSUME NEW p \in Principals, NEW v \in Validators,
             RegisterValidator(p, v) \/ RemoveValidator(p, v)
      PROVE  TypeOK'
  <2>1. cfg.minValidators \in Nat
    BY DEF Params, ParamNames
  <2>2. QED
    <3>1. CASE RegisterValidator(p, v)
      BY <3>1 DEF RegisterValidator
    <3>2. CASE RemoveValidator(p, v)
      BY <2>1, <3>2 DEF RemoveValidator
    <3>3. QED
      BY <1>6, <3>1, <3>2
<1>7. ASSUME NEW a \in Amounts, Gift(a)
      PROVE  TypeOK'
  <2>1. a \in Nat
    BY ConstantTypes
  <2>2. QED
    BY <1>7, <2>1 DEF Gift
<1>8. CASE Tick
  BY <1>8 DEF Tick
<1>9. CASE UNCHANGED vars
  BY <1>9
<1>10. QED
  BY <1>1, <1>2, <1>3, <1>4, <1>5, <1>6, <1>7, <1>8, <1>9 DEF Next

\* Every reachable state of the vault program is well typed.
THEOREM VaultTypeOK == Spec => []TypeOK
  BY InitTypeOK, NextTypeOK, PTL DEF Spec

----------------------------------------------------------------------------
(* The vault covers what is locked *)

LEMMA BackedStep ==
  TypeOK /\ VaultBacksLocked /\ [Next]_vars => VaultBacksLocked'
<1> SUFFICES ASSUME TypeOK, VaultBacksLocked, [Next]_vars
             PROVE  VaultBacksLocked'
  OBVIOUS
<1> USE DEF VaultBacksLocked
<1>0. vault \in Nat /\ totalLocked \in Nat
  BY DEF TypeOK
<1>1. ASSUME NEW u \in Users, NEW a \in Amounts, Deposit(u, a) \/ DepositSpl(u, a)
      PROVE  VaultBacksLocked'
  <2>1. a \in Nat
    BY ConstantTypes
  <2>2. QED
    BY <1>0, <1>1, <2>1 DEF Deposit, DepositSpl, bookVars
\* Whatever total_locked saturates to, it loses no less than the vault does.
<1>2. ASSUME NEW id \in BurnIds, NEW a \in Nat, Pay(id, a)
      PROVE  VaultBacksLocked'
  BY <1>0, <1>2 DEF Pay, Freed
<1>3. ASSUME NEW id \in BurnIds, ExecuteScheduledUnlock(id)
      PROVE  VaultBacksLocked'
  <2>1. unlocks[id].amount \in Nat
    BY DEF TypeOK, Unlocks
  <2>2. QED
    BY <1>2, <1>3, <2>1 DEF ExecuteScheduledUnlock
<1>4. ASSUME NEW id \in BurnIds, NEW a \in Amounts, NEW s \in SUBSET Validators,
             NEW e \in Expirations, Unlock(id, a, s, e)
      PROVE  VaultBacksLocked'
  <2>1. a \in Nat
    BY ConstantTypes
  <2>2. CASE Pay(id, a)
    BY <1>2, <2>1, <2>2
  <2>3. CASE UNCHANGED <<vault, totalLocked>>
    BY <2>3
  <2>4. QED
    BY <1>4, <2>2, <2>3 DEF Unlock
<1>5. ASSUME NEW a \in Amounts, Gift(a)
      PROVE  VaultBacksLocked'
  <2>1. a \in Nat
    BY ConstantTypes
  <2>2. QED
    BY <1>0, <1>5, <2>1 DEF Gift, bookVars
<1>6. ASSUME UNCHANGED <<vault, totalLocked>>
      PROVE  VaultBacksLocked'
  BY <1>6
<1>7. ASSUME NEW p \in Principals,
             \/ EmergencyPause(p) \/ RequestResume(p) \/ EmergencyResume(p)
             \/ CancelResumeRequest(p) \/ AcceptAuthority(p)
      PROVE  VaultBacksLocked'
  BY <1>6, <1>7 DEF EmergencyPause, RequestResume, EmergencyResume,
                    CancelResumeRequest, AcceptAuthority, bookVars
<1>8. ASSUME NEW p \in Principals, NEW u \in ConfigUpdates, UpdateConfig(p, u)
      PROVE  VaultBacksLocked'
  BY <1>6, <1>8 DEF UpdateConfig, bookVars
<1>9. ASSUME NEW p \in Principals, NEW v \in Validators,
             RegisterValidator(p, v) \/ RemoveValidator(p, v)
      PROVE  VaultBacksLocked'
  BY <1>6, <1>9 DEF RegisterValidator, RemoveValidator, bookVars
<1>10. CASE Tick
  BY <1>6, <1>10 DEF Tick, bookVars
<1>11. CASE UNCHANGED vars
  BY <1>6, <1>11 DEF vars, bookVars
<1>12. QED
  BY <1>1, <1>3, <1>4, <1>5, <1>7, <1>8, <1>9, <1>10, <1>11 DEF Next

\* In every reachable state the lamports in the vault cover total_locked.
THEOREM VaultBacked == Spec => []VaultBacksLocked
<1>1. Init => VaultBacksLocked
  BY DEF Init, VaultBacksLocked
<1>2. QED
  BY <1>1, BackedStep, VaultTypeOK, PTL DEF Spec

----------------------------------------------------------------------------
(* The validator registry *)

LEMMA RegistryStep ==
  TypeOK /\ RegistryConsistent /\ [Next]_vars => RegistryConsistent'
<1> SUFFICES ASSUME TypeOK, RegistryConsistent, [Next]_vars
             PROVE  RegistryConsistent'
  OBVIOUS
<1>0. /\ IsFiniteSet(validators)
      /\ validatorCount \in Nat
      /\ cfg \in Params
      /\ validatorCount = Cardinality(validators)
      /\ validatorCount <= cfg.maxValidators
  <2>1. IsFiniteSet(Validators)
    BY VaultConstants
  <2>2. QED
    BY <2>1, FS_Subset DEF TypeOK, RegistryConsistent
<1>1. ASSUME UNCHANGED <<validators, validatorCount>>,
             cfg'.maxValidators = cfg.maxValidators
      PROVE  RegistryConsistent'
  BY <1>0, <1>1 DEF RegistryConsistent
<1>2. ASSUME NEW p \in Principals, NEW v \in Validators, RegisterValidator(p, v)
      PROVE  RegistryConsistent'
  <2>1. Cardinality(validators \cup {v}) = Cardinality(validators) + 1
    BY <1>0, <1>2, FS_AddElement DEF RegisterValidator
  <2>2. cfg.maxValidators \in Nat
    BY <1>0, ParamTypes
  <2>3. QED
    BY <1>0, <1>2, <2>1, <2>2 DEF RegisterValidator, RegistryConsistent
<1>3. ASSUME NEW p \in Principals, NEW v \in Validators, RemoveValidator(p, v)
      PROVE  RegistryConsistent'
  <2>1. Cardinality(validators \ {v}) = Cardinality(validators) - 1
    BY <1>0, <1>3, FS_RemoveElement DEF RemoveValidator
  <2>2. cfg.maxValidators \in Nat
    BY <1>0, ParamTypes
  <2>3. QED
    BY <1>0, <1>3, <2>1, <2>2 DEF RemoveValidator, RegistryConsistent
\* max_validators is not a field of UpdateConfigParams.
<1>4. ASSUME NEW p \in Principals, NEW u \in ConfigUpdates, UpdateConfig(p, u)
      PROVE  RegistryConsistent'
  <2>1. DOMAIN u.params \subseteq ParamNames \ {"maxValidators"}
    BY VaultConstants
  <2>2. Updated(u).maxValidators = cfg.maxValidators
    BY <2>1 DEF Updated, ParamNames
  <2>3. QED
    BY <1>1, <1>4, <2>2 DEF UpdateConfig, setVars
<1>5. ASSUME NEW u \in Users, NEW a \in Amounts, Deposit(u, a) \/ DepositSpl(u, a)
      PROVE  RegistryConsistent'
  BY <1>1, <1>5 DEF Deposit, DepositSpl, setVars
<1>6. ASSUME NEW id \in BurnIds, ExecuteScheduledUnlock(id)
      PROVE  RegistryConsistent'
  BY <1>1, <1>6 DEF ExecuteScheduledUnlock, setVars
<1>7. ASSUME NEW id \in BurnIds, NEW a \in Amounts, NEW s \in SUBSET Validators,
             NEW e \in Expirations, Unlock(id, a, s, e)
      PROVE  RegistryConsistent'
  BY <1>1, <1>7 DEF Unlock, setVars
<1>8. ASSUME NEW p \in Principals,
             \/ EmergencyPause(p) \/ RequestResume(p) \/ EmergencyResume(p)
             \/ CancelResumeRequest(p) \/ AcceptAuthority(p)
      PROVE  RegistryConsistent'
  BY <1>1, <1>8 DEF EmergencyPause, RequestResume, EmergencyResume,
                    CancelResumeRequest, AcceptAuthority, setVars
<1>9. ASSUME NEW a \in Amounts, Gift(a)
      PROVE  RegistryConsistent'
  BY <1>1, <1>9 DEF Gift, setVars
<1>10. CASE Tick
  BY <1>1, <1>10 DEF Tick, setVars
<1>11. CASE UNCHANGED vars
  BY <1>1, <1>11 DEF vars, setVars
<1>12. QED
  BY <1>2, <1>3, <1>4, <1>5, <1>6, <1>7, <1>8, <1>9, <1>10, <1>11 DEF Next

\* validator_count is the number of validator accounts, within max_validators.
THEOREM VaultRegistry == Spec => []RegistryConsistent
<1>1. Init => RegistryConsistent
  <2>1. SUFFICES ASSUME Init PROVE RegistryConsistent
    OBVIOUS
  <2>2. cfg \in Params
    BY <2>1, InitTypeOK DEF TypeOK
  <2>3. QED
    BY <2>1, <2>2, ParamTypes, FS_EmptySet DEF Init, RegistryConsistent
<1>2. QED
  BY <1>1, RegistryStep, VaultTypeOK, PTL DEF Spec

----------------------------------------------------------------------------
(* Paid once *)

LEMMA PayoutFields ==
  ASSUME TypeOK, NEW i \in 1..Len(payouts)
  PROVE  /\ payouts[i].id \in BurnIds /\ payouts[i].amount \in Nat
         /\ payouts[i].time \in Nat /\ payouts[i].limit \in Nat
         /\ payouts[i].paidToday \in Nat
<1>1. payouts[i] \in Payouts
  BY ElementOfSeq DEF TypeOK
<1>2. QED
  BY <1>1 DEF Payouts

\* A transfer out of the vault for a burn that was not paid before and that is
\* marked as paid, with its amount, in the same step.
LEMMA PaySafe ==
  ASSUME TypeOK, PaidOnce, NEW id \in BurnIds, NEW a \in Nat, Pay(id, a),
         unlocks[id].status # "executed",
         unlocks'[id].status = "executed", unlocks'[id].amount = a,
         \A j \in BurnIds : j # id => unlocks'[j] = unlocks[j]
  PROVE  PaidOnce'
<1> DEFINE n == Len(payouts)
<1>1. payouts' \in Seq(Payouts)
  BY PayType
<1>2. payouts \in Seq(Payouts) /\ n \in Nat
  BY LenProperties DEF TypeOK
<1>3. PICK e : payouts' = Append(payouts, e) /\ e.id = id /\ e.amount = a
  BY DEF Pay
<1>4. /\ Len(payouts') = n + 1
      /\ payouts'[n + 1] = e
      /\ \A i \in 1..n : payouts'[i] = payouts[i]
  BY <1>2, <1>3
<1>5. \A i \in 1..n : payouts[i].id \in BurnIds
  BY PayoutFields
<1>6. \A i \in 1..n : payouts[i].id # id
  BY <1>2 DEF PaidOnce
<1>7. ASSUME NEW i \in 1..Len(payouts'), NEW j \in 1..Len(payouts'),
             payouts'[i].id = payouts'[j].id
      PROVE  i = j
  <2>1. /\ i \in 1..n \/ i = n + 1
        /\ j \in 1..n \/ j = n + 1
    BY <1>2, <1>4
  <2>2. CASE i \in 1..n /\ j \in 1..n
    BY <1>4, <1>7, <2>2 DEF PaidOnce
  <2>3. CASE i = n + 1 /\ j \in 1..n
    BY <1>3, <1>4, <1>6, <1>7, <2>3
  <2>4. CASE i \in 1..n /\ j = n + 1
    BY <1>3, <1>4, <1>6, <1>7, <2>4
  <2>5. QED
    BY <2>1, <2>2, <2>3, <2>4
<1>8. ASSUME NEW i \in 1..Len(payouts')
      PROVE  /\ unlocks'[payouts'[i].id].status = "executed"
             /\ unlocks'[payouts'[i].id].amount = payouts'[i].amount
  <2>1. CASE i \in 1..n
    BY <1>4, <1>5, <1>6, <2>1 DEF PaidOnce
  <2>2. CASE i = n + 1
    BY <1>3, <1>4, <2>2
  <2>3. QED
    BY <1>2, <1>4, <2>1, <2>2
<1>9. QED
  BY <1>7, <1>8 DEF PaidOnce

\* The instructions that pay nothing and touch no unlock record.
Unpaid == UNCHANGED outVars

LEMMA OutSteps ==
  ASSUME [Next]_vars
  PROVE  \/ Unpaid
         \/ \E id \in BurnIds : ExecuteScheduledUnlock(id)
         \/ \E id \in BurnIds, a \in Amounts, s \in SUBSET Validators,
               e \in Expirations : Unlock(id, a, s, e)
<1>1. ASSUME NEW u \in Users, NEW a \in Amounts, Deposit(u, a) \/ DepositSpl(u, a)
      PROVE  Unpaid
  BY <1>1 DEF Deposit, DepositSpl, Unpaid
<1>2. ASSUME NEW p \in Principals,
             \/ EmergencyPause(p) \/ RequestResume(p) \/ EmergencyResume(p)
             \/ CancelResumeRequest(p) \/ AcceptAuthority(p)
      PROVE  Unpaid
  BY <1>2 DEF EmergencyPause, RequestResume, EmergencyResume,
              CancelResumeRequest, AcceptAuthority, Unpaid
<1>3. ASSUME NEW p \in Principals, NEW u \in ConfigUpdates, UpdateConfig(p, u)
      PROVE  Unpaid
  BY <1>3 DEF UpdateConfig, Unpaid
<1>4. ASSUME NEW p \in Principals, NEW v \in Validators,
             RegisterValidator(p, v) \/ RemoveValidator(p, v)
      PROVE  Unpaid
  BY <1>4 DEF RegisterValidator, RemoveValidator, Unpaid
<1>5. ASSUME NEW a \in Amounts, Gift(a)
      PROVE  Unpaid
  BY <1>5 DEF Gift, Unpaid
<1>6. CASE Tick
  BY <1>6 DEF Tick, Unpaid
<1>7. CASE UNCHANGED vars
  BY <1>7 DEF vars, Unpaid
<1>8. QED
  BY <1>1, <1>2, <1>3, <1>4, <1>5, <1>6, <1>7 DEF Next

LEMMA PaidStep == TypeOK /\ PaidOnce /\ [Next]_vars => PaidOnce'
<1> SUFFICES ASSUME TypeOK, PaidOnce, [Next]_vars PROVE PaidOnce'
  OBVIOUS
<1>1. unlocks \in [BurnIds -> Unlocks]
  BY DEF TypeOK
<1>2. CASE Unpaid
  BY <1>2 DEF Unpaid, outVars, PaidOnce
<1>3. ASSUME NEW id \in BurnIds, ExecuteScheduledUnlock(id)
      PROVE  PaidOnce'
  <2>1. unlocks[id] \in Unlocks
    BY <1>1
  <2>2. unlocks[id].amount \in Nat /\ unlocks[id].status = "scheduled"
    BY <1>3, <2>1 DEF ExecuteScheduledUnlock, Unlocks
  <2>3. unlocks' = [unlocks EXCEPT ![id].status = "executed"]
    BY <1>3 DEF ExecuteScheduledUnlock, MarkExecuted
  <2>4. unlocks'[id] = [unlocks[id] EXCEPT !.status = "executed"]
    BY <1>1, <2>3
  <2>5. unlocks'[id].status = "executed" /\ unlocks'[id].amount = unlocks[id].amount
    BY <2>1, <2>4 DEF Unlocks
  <2>6. \A j \in BurnIds : j # id => unlocks'[j] = unlocks[j]
    BY <1>1, <2>3
  <2>7. Pay(id, unlocks[id].amount)
    BY <1>3 DEF ExecuteScheduledUnlock
  <2>8. unlocks[id].status # "executed"
    BY <2>2
  <2>9. QED
    BY <2>2, <2>5, <2>6, <2>7, <2>8, PaySafe
<1>4. ASSUME NEW id \in BurnIds, NEW a \in Amounts, NEW s \in SUBSET Validators,
             NEW e \in Expirations, Unlock(id, a, s, e)
      PROVE  PaidOnce'
  <2>1. unlocks[id].status = "none" /\ a \in Nat
    BY <1>4, ConstantTypes DEF Unlock
  <2>2. CASE /\ Pay(id, a)
             /\ unlocks' = [unlocks EXCEPT ![id] =
                   [status |-> "executed", amount |-> a, timestamp |-> now,
                    dueAt |-> 0]]
    <3>1. /\ unlocks'[id].status = "executed" /\ unlocks'[id].amount = a
          /\ \A j \in BurnIds : j # id => unlocks'[j] = unlocks[j]
      BY <1>1, <2>2
    <3>2. unlocks[id].status # "executed"
      BY <2>1
    <3>3. QED
      BY <2>1, <2>2, <3>1, <3>2, PaySafe
  <2>3. CASE /\ UNCHANGED payouts
             /\ unlocks' = [unlocks EXCEPT ![id] =
                   [status |-> "scheduled", amount |-> a, timestamp |-> now,
                    dueAt |-> now + cfg.largeDelay]]
    <3>1. \A j \in BurnIds : j # id => unlocks'[j] = unlocks[j]
      BY <1>1, <2>3
    <3>2. \A i \in 1..Len(payouts) : payouts[i].id \in BurnIds
      BY PayoutFields
    <3>3. \A i \in 1..Len(payouts) : payouts[i].id # id
      BY <2>1 DEF PaidOnce
    <3>4. QED
      BY <2>3, <3>1, <3>2, <3>3 DEF PaidOnce
  <2>4. QED
    BY <1>4, <2>2, <2>3 DEF Unlock
<1>5. QED
  BY <1>2, <1>3, <1>4, OutSteps

\* Across the immediate and the delayed path and any number of resubmissions a
\* burn is paid once, for the amount that was attested.
THEOREM VaultPaidOnce == Spec => []PaidOnce
<1>1. Init => PaidOnce
  <2> SUFFICES ASSUME Init PROVE PaidOnce
    OBVIOUS
  <2>1. payouts = <<>>
    BY Zenon DEF Init
  <2>2. Len(payouts) = 0
    BY <2>1
  <2>3. QED
    BY <2>2 DEF PaidOnce
<1>2. QED
  BY <1>1, PaidStep, VaultTypeOK, PTL DEF Spec

----------------------------------------------------------------------------
(* The daily limit.  The days counted from Genesis are the windows of the    *)
(* circuit breaker as long as last_daily_reset stays at a day's beginning.   *)

LEMMA DivBounds ==
  ASSUME NEW d \in Nat, d > 0, NEW x \in Nat
  PROVE  /\ x \div d \in Nat
         /\ d * (x \div d) <= x
         /\ x < d * (x \div d) + d
  OBVIOUS

LEMMA DivUnique ==
  ASSUME NEW d \in Nat, d > 0, NEW x \in Nat, NEW q \in Nat,
         d * q <= x, x < d * q + d
  PROVE  x \div d = q
<1> DEFINE r == x \div d
<1>1. r \in Nat /\ d * r <= x /\ x < d * r + d
  BY DivBounds
<1> HIDE DEF r
<1>2. CASE r < q
  <2>1. r + 1 <= q
    BY <1>1, <1>2
  <2>2. d * (r + 1) <= d * q
    BY <1>1, <2>1
  <2>3. d * (r + 1) = d * r + d
    BY <1>1
  <2>4. QED
    BY <1>1, <2>2, <2>3
<1>3. CASE q < r
  <2>1. q + 1 <= r
    BY <1>1, <1>3
  <2>2. d * (q + 1) <= d * r
    BY <1>1, <2>1
  <2>3. d * (q + 1) = d * q + d
    BY <1>1
  <2>4. QED
    BY <1>1, <2>2, <2>3
<1>4. QED
  BY <1>1, <1>2, <1>3 DEF r

\* last_daily_reset is the beginning of a day that is not in the future.
Aligned ==
  /\ lastReset <= now
  /\ \E k \in Nat : lastReset = Genesis + DaySeconds * k

\* What the reset of the circuit breaker means in days.
LEMMA ChargeDays ==
  ASSUME TypeOK, Aligned, NEW a \in Nat, Charge(a)
  PROVE  /\ DayOf(now) \in Nat /\ DayOf(lastReset) \in Nat
         /\ DayOver => DayOf(lastReset) < DayOf(now)
         /\ ~DayOver => DayOf(lastReset) = DayOf(now) /\ lastReset' = lastReset
         /\ lastReset' <= now
         /\ \E k \in Nat : lastReset' = Genesis + DaySeconds * k
         /\ (lastReset' - Genesis) \div DaySeconds = DayOf(now)
<1> DEFINE d == DaySeconds
           x == now - lastReset
           w == x \div d
<1>1. /\ d \in Nat /\ d > 0 /\ now \in Nat /\ lastReset \in Nat
  BY ConstantTypes DEF TypeOK
<1>2. PICK k \in Nat : lastReset = 1 + d * k
  BY DEF Aligned, Genesis
<1>3. x \in Nat
  BY <1>1 DEF Aligned
<1>4. DayOver <=> x >= d
  BY DEF DayOver
<1>5. lastReset' = IF DayOver THEN lastReset + w * d ELSE lastReset
  BY DEF Charge
<1>6. now = lastReset + x
  BY <1>1
<1>7. DayOf(lastReset) = (lastReset - 1) \div d /\ DayOf(now) = (now - 1) \div d
  BY DEF DayOf, Genesis
<1> HIDE DEF d, x
<1>8. w \in Nat /\ d * w <= x /\ x < d * w + d
  BY <1>1, <1>3, DivBounds
<1> HIDE DEF w
<1>9. d * k \in Nat /\ d * w \in Nat /\ d * (k + w) = d * k + d * w
  BY <1>1, <1>2, <1>8
<1>10. DayOf(lastReset) = k
  <2>1. lastReset - 1 = d * k
    BY <1>2, <1>9
  <2>2. (d * k) \div d = k
    BY <1>1, <1>2, <1>9, DivUnique
  <2>3. QED
    BY <1>7, <2>1, <2>2
<1>11. DayOf(now) = k + w
  <2>1. now - 1 = d * k + x
    BY <1>2, <1>3, <1>6, <1>9
  <2>2. /\ d * k + x \in Nat /\ k + w \in Nat
        /\ d * (k + w) <= d * k + x /\ d * k + x < d * (k + w) + d
    BY <1>1, <1>2, <1>3, <1>8, <1>9
  <2>3. (d * k + x) \div d = k + w
    BY <1>1, <2>2, DivUnique
  <2>4. QED
    BY <1>7, <2>1, <2>3
<1>12. CASE DayOver
  <2>1. w # 0
    BY <1>1, <1>3, <1>4, <1>8, <1>12
  <2>2. lastReset' = 1 + d * (k + w)
    BY <1>1, <1>2, <1>5, <1>8, <1>9, <1>12
  <2>3. lastReset' - 1 = d * (k + w) /\ lastReset' <= now
    BY <1>1, <1>2, <1>3, <1>6, <1>8, <1>9, <2>2
  <2>4. (d * (k + w)) \div d = k + w
    BY <1>1, <1>2, <1>8, <1>9, DivUnique
  <2>5. k + w \in Nat /\ k < k + w
    BY <1>2, <1>8, <2>1
  <2>6. QED
    BY <1>2, <1>10, <1>11, <1>12, <2>2, <2>3, <2>4, <2>5 DEF d, Genesis
<1>13. CASE ~DayOver
  <2>1. w = 0
    <3>1. CASE w >= 1
      <4>1. d * w >= d
        BY <1>1, <1>8, <3>1
      <4>2. QED
        BY <1>1, <1>3, <1>4, <1>8, <1>13, <4>1
    <3>2. QED
      BY <1>8, <3>1
  <2>2. lastReset' = lastReset
    BY <1>5, <1>13
  <2>3. DayOf(now) = k
    BY <1>2, <1>11, <2>1
  <2>4. (lastReset' - Genesis) \div DaySeconds = k
    BY <1>10, <2>2 DEF DayOf
  <2>5. QED
    BY <1>2, <1>10, <1>13, <2>2, <2>3, <2>4 DEF d, Genesis, Aligned
<1>14. QED
  BY <1>12, <1>13

LastPaid == payouts[Len(payouts)]

\* The last payout was in the day of last_daily_reset or before; if it was in
\* that day, the circuit breaker has counted at least what it saw paid.
LastCounted ==
  payouts # <<>> =>
     /\ DayOf(LastPaid.time) \in Nat
     /\ DayOf(LastPaid.time) <= DayOf(lastReset)
     /\ DayOf(LastPaid.time) = DayOf(lastReset) => LastPaid.paidToday <= outflow

DayInv == Aligned /\ LastCounted /\ DailyOutflowCapped

Spent == IF DayOver THEN 0 ELSE outflow

LEMMA LastPaidType ==
  ASSUME TypeOK, payouts # <<>>
  PROVE  /\ Len(payouts) \in 1..Len(payouts)
         /\ LastPaid.paidToday \in Nat
<1>1. Len(payouts) \in 1..Len(payouts)
  BY EmptySeq, LenProperties DEF TypeOK
<1>2. QED
  BY <1>1, PayoutFields DEF LastPaid

\* What was paid today is no more than what the circuit breaker counts.
LEMMA PaidCounted ==
  ASSUME TypeOK, Aligned, LastCounted, NEW a \in Nat, Charge(a)
  PROVE  /\ PaidToday \in Nat /\ PaidToday <= Spent
         /\ Spent \in Nat /\ Spent + a <= cfg.maxDailyOutflow /\ outflow' = Spent + a
<1>1. Spent \in Nat /\ outflow \in Nat
  BY DEF Spent, TypeOK
<1>2. Spent + a <= cfg.maxDailyOutflow /\ outflow' = Spent + a
  BY DEF Charge, Spent
<1>3. CASE payouts = <<>>
  <2>1. PaidToday = 0
    BY <1>3 DEF PaidToday
  <2>2. QED
    BY <1>1, <1>2, <2>1
<1>4. CASE payouts # <<>> /\ DayOf(LastPaid.time) = DayOf(now)
  <2>1. PaidToday = LastPaid.paidToday
    BY <1>4 DEF PaidToday, LastPaid
  <2>2. /\ DayOf(LastPaid.time) \in Nat
        /\ DayOf(LastPaid.time) <= DayOf(lastReset)
        /\ DayOf(LastPaid.time) = DayOf(lastReset) => LastPaid.paidToday <= outflow
    BY <1>4 DEF LastCounted
  <2>3. /\ DayOf(now) \in Nat /\ DayOf(lastReset) \in Nat
        /\ DayOver => DayOf(lastReset) < DayOf(now)
        /\ ~DayOver => DayOf(lastReset) = DayOf(now)
    BY ChargeDays
  <2> HIDE DEF DayOf, DayOver, LastPaid
  <2>4. ~DayOver
    BY <1>4, <2>2, <2>3
  <2>5. LastPaid.paidToday <= outflow
    BY <1>4, <2>2, <2>3, <2>4
  <2>6. Spent = outflow
    BY <2>4 DEF Spent
  <2>7. QED
    BY <1>1, <1>2, <1>4, <2>1, <2>5, <2>6, LastPaidType
<1>5. CASE payouts # <<>> /\ DayOf(LastPaid.time) # DayOf(now)
  <2>1. PaidToday = 0
    BY <1>5 DEF PaidToday, LastPaid
  <2>2. QED
    BY <1>1, <1>2, <2>1
<1>6. QED
  BY <1>3, <1>4, <1>5

LEMMA ChargeAligned ==
  ASSUME TypeOK, Aligned, NEW a \in Nat, Charge(a), UNCHANGED now
  PROVE  Aligned'
<1>1. lastReset' <= now /\ \E k \in Nat : lastReset' = Genesis + DaySeconds * k
  BY ChargeDays
<1>2. QED
  BY <1>1 DEF Aligned, Genesis

\* A withdrawal that is only scheduled.
LEMMA ScheduleCapped ==
  ASSUME TypeOK, DayInv, NEW a \in Nat, Charge(a), UNCHANGED <<payouts, now>>
  PROVE  DayInv'
<1>1. Aligned /\ LastCounted /\ DailyOutflowCapped
  BY DEF DayInv
<1>2. Aligned'
  BY <1>1, ChargeAligned
<1>3. DailyOutflowCapped'
  BY <1>1 DEF DailyOutflowCapped
<1>4. /\ DayOf(now) \in Nat /\ DayOf(lastReset) \in Nat
      /\ DayOver => DayOf(lastReset) < DayOf(now)
      /\ ~DayOver => DayOf(lastReset) = DayOf(now)
      /\ DayOf(lastReset)' = DayOf(now)
  BY <1>1, ChargeDays DEF DayOf, Genesis
<1>5. outflow' = Spent + a /\ outflow \in Nat
  BY <1>1, PaidCounted DEF TypeOK
<1>6. LastPaid' = LastPaid /\ DayOf(LastPaid.time)' = DayOf(LastPaid.time)
  BY DEF LastPaid, DayOf, Genesis
<1>7. ASSUME payouts # <<>>
      PROVE  /\ DayOf(LastPaid.time) \in Nat
             /\ DayOf(LastPaid.time) <= DayOf(now)
             /\ DayOf(LastPaid.time) = DayOf(now) => LastPaid.paidToday <= outflow'
  <2>1. /\ DayOf(LastPaid.time) \in Nat
        /\ DayOf(LastPaid.time) <= DayOf(lastReset)
        /\ DayOf(LastPaid.time) = DayOf(lastReset) => LastPaid.paidToday <= outflow
    BY <1>1, <1>7 DEF LastCounted
  <2>2. LastPaid.paidToday \in Nat
    BY <1>7, LastPaidType
  <2>3. CASE DayOver
    BY <1>4, <2>1, <2>3
  <2>4. CASE ~DayOver
    <3>1. outflow' = outflow + a
      BY <1>5, <2>4 DEF Spent
    <3>2. QED
      BY <1>4, <1>5, <2>1, <2>2, <2>4, <3>1
  <2>5. QED
    BY <2>3, <2>4
<1>8. LastCounted'
  BY <1>4, <1>6, <1>7 DEF LastCounted
<1>9. QED
  BY <1>2, <1>3, <1>8 DEF DayInv

\* A transfer out of the vault that was charged in the same step.
LEMMA PayCapped ==
  ASSUME TypeOK, DayInv, NEW id \in BurnIds, NEW a \in Nat, Charge(a), Pay(id, a),
         UNCHANGED now
  PROVE  DayInv'
<1> DEFINE n == Len(payouts)
           e == [id |-> id, amount |-> a, time |-> now,
                 limit |-> cfg.maxDailyOutflow, paidToday |-> PaidToday + a]
<1>1. Aligned /\ LastCounted /\ DailyOutflowCapped
  BY DEF DayInv
<1>2. Aligned'
  BY <1>1, ChargeAligned
<1>3. payouts' = Append(payouts, e)
  BY DEF Pay
<1>4. /\ e.time = now /\ e.limit = cfg.maxDailyOutflow
      /\ e.paidToday = PaidToday + a
  OBVIOUS
<1> HIDE DEF e
<1>5. payouts \in Seq(Payouts) /\ n \in Nat
  BY LenProperties DEF TypeOK
<1>6. /\ Len(payouts') = n + 1
      /\ payouts'[n + 1] = e
      /\ \A i \in 1..n : payouts'[i] = payouts[i]
  BY <1>3, <1>5
<1>7. /\ PaidToday \in Nat /\ PaidToday <= Spent /\ Spent \in Nat
      /\ Spent + a <= cfg.maxDailyOutflow /\ outflow' = Spent + a
      /\ cfg.maxDailyOutflow \in Nat
  BY <1>1, PaidCounted, ParamTypes DEF TypeOK
<1>8. e.paidToday <= e.limit /\ e.paidToday <= outflow'
  BY <1>4, <1>7
<1>9. DailyOutflowCapped'
  <2>1. ASSUME NEW i \in 1..Len(payouts')
        PROVE  payouts'[i].paidToday <= payouts'[i].limit
    <3>1. CASE i \in 1..n
      BY <1>1, <1>6, <3>1 DEF DailyOutflowCapped
    <3>2. CASE i = n + 1
      BY <1>6, <1>8, <3>2
    <3>3. QED
      BY <1>5, <1>6, <3>1, <3>2
  <2>2. QED
    BY <2>1 DEF DailyOutflowCapped
<1>10. /\ DayOf(now) \in Nat /\ (lastReset' - Genesis) \div DaySeconds = DayOf(now)
  BY <1>1, ChargeDays
<1>11. LastPaid' = e
  BY <1>5, <1>6 DEF LastPaid
<1>12. DayOf(LastPaid.time)' = DayOf(now) /\ DayOf(lastReset)' = DayOf(now)
  BY <1>4, <1>10, <1>11 DEF DayOf, Genesis
<1>13. LastCounted'
  BY <1>8, <1>10, <1>11, <1>12 DEF LastCounted
<1>14. QED
  BY <1>2, <1>9, <1>13 DEF DayInv

LEMMA DayStep == TypeOK /\ DayInv /\ [Next]_vars => DayInv'
<1> SUFFICES ASSUME TypeOK, DayInv, [Next]_vars PROVE DayInv'
  OBVIOUS
<1>1. ASSUME UNCHANGED <<payouts, lastReset, outflow>>, now' >= now
      PROVE  DayInv'
  <2>1. now \in Nat /\ lastReset \in Nat /\ now' \in Nat
    BY NextTypeOK DEF TypeOK
  <2>2. Aligned'
    <3>1. lastReset' <= now'
      BY <1>1, <2>1 DEF DayInv, Aligned
    <3>2. QED
      BY <1>1, <3>1 DEF DayInv, Aligned, Genesis
  <2>3. LastCounted' /\ DailyOutflowCapped'
    BY <1>1 DEF DayInv, LastCounted, LastPaid, DayOf, Genesis, DailyOutflowCapped
  <2>4. QED
    BY <2>2, <2>3 DEF DayInv
<1>2. ASSUME UNCHANGED <<payouts, lastReset, outflow, now>>
      PROVE  DayInv'
  <2>1. now' >= now
    BY <1>2 DEF TypeOK
  <2>2. QED
    BY <1>1, <1>2, <2>1
<1>3. ASSUME NEW id \in BurnIds, ExecuteScheduledUnlock(id)
      PROVE  DayInv'
  <2>1. unlocks[id].amount \in Nat
    BY DEF TypeOK, Unlocks
  <2>2. /\ Charge(unlocks[id].amount) /\ Pay(id, unlocks[id].amount)
        /\ UNCHANGED now
    BY <1>3 DEF ExecuteScheduledUnlock
  <2>3. QED
    BY <2>1, <2>2, PayCapped
<1>4. ASSUME NEW id \in BurnIds, NEW a \in Amounts, NEW s \in SUBSET Validators,
             NEW e \in Expirations, Unlock(id, a, s, e)
      PROVE  DayInv'
  <2>1. a \in Nat
    BY ConstantTypes
  <2>2. Charge(a) /\ UNCHANGED now /\ (Pay(id, a) \/ UNCHANGED payouts)
    BY <1>4 DEF Unlock
  <2>3. QED
    BY <2>1, <2>2, PayCapped, ScheduleCapped
<1>5. ASSUME NEW u \in Users, NEW a \in Amounts, Deposit(u, a) \/ DepositSpl(u, a)
      PROVE  DayInv'
  BY <1>2, <1>5 DEF Deposit, DepositSpl, outVars, bookVars
<1>6. ASSUME NEW p \in Principals,
             \/ EmergencyPause(p) \/ RequestResume(p) \/ EmergencyResume(p)
             \/ CancelResumeRequest(p) \/ AcceptAuthority(p)
      PROVE  DayInv'
  BY <1>2, <1>6 DEF EmergencyPause, RequestResume, EmergencyResume,
                    CancelResumeRequest, AcceptAuthority, outVars, bookVars
<1>7. ASSUME NEW p \in Principals, NEW u \in ConfigUpdates, UpdateConfig(p, u)
      PROVE  DayInv'
  BY <1>2, <1>7 DEF UpdateConfig, outVars, bookVars
<1>8. ASSUME NEW p \in Principals, NEW v \in Validators,
             RegisterValidator(p, v) \/ RemoveValidator(p, v)
      PROVE  DayInv'
  BY <1>2, <1>8 DEF RegisterValidator, RemoveValidator, outVars, bookVars
<1>9. ASSUME NEW a \in Amounts, Gift(a)
      PROVE  DayInv'
  BY <1>2, <1>9 DEF Gift, outVars, bookVars
<1>10. CASE Tick
  <2>1. now' >= now
    BY <1>10 DEF Tick, TypeOK
  <2>2. QED
    BY <1>1, <1>10, <2>1 DEF Tick, outVars, bookVars
<1>11. CASE UNCHANGED vars
  BY <1>2, <1>11 DEF vars, outVars, bookVars
<1>12. QED
  BY <1>3, <1>4, <1>5, <1>6, <1>7, <1>8, <1>9, <1>10, <1>11 DEF Next

LEMMA DayInit == Init => DayInv
<1> SUFFICES ASSUME Init PROVE DayInv
  OBVIOUS
<1>1. payouts = <<>> /\ now = 1 /\ lastReset = 1
  BY Zenon DEF Init, Genesis
<1>2. lastReset = 1 + DaySeconds * 0
  BY <1>1, ConstantTypes
<1>3. Aligned
  BY <1>1, <1>2 DEF Aligned, Genesis
<1>4. Len(payouts) = 0
  BY <1>1
<1>5. QED
  BY <1>1, <1>3, <1>4 DEF DayInv, LastCounted, DailyOutflowCapped

\* What leaves the vault in a day never exceeds the daily limit in force at the
\* day's last transfer, whatever was scheduled, executed or retuned before.
THEOREM VaultDayCapped == Spec => []DailyOutflowCapped
<1>1. DayInv => DailyOutflowCapped
  BY DEF DayInv
<1>2. QED
  BY <1>1, DayInit, DayStep, VaultTypeOK, PTL DEF Spec

----------------------------------------------------------------------------
(* The pause *)

\* A resume request is younger than the pause it is to end, the delay it has to
\* wait is never tuned below the minimum, and the vault runs only when the last
\* pause is at least that far away.
PauseInv ==
  /\ haltedAt <= now
  /\ cfg.resumeDelay >= MinDelay
  /\ resumeRequestedAt # 0 => paused /\ haltedAt <= resumeRequestedAt
  /\ ~paused => now - haltedAt >= MinDelay

\* What was far enough away stays so.
LEMMA Later ==
  ASSUME NEW a \in Nat, NEW b \in Nat, NEW h \in Int, NEW d \in Nat,
         b >= a, a - h >= d
  PROVE  b - h >= d
  OBVIOUS

\* An update cannot tune the resume delay below the minimum.
LEMMA DelayKept ==
  ASSUME NEW u \in ConfigUpdates, cfg \in Params, cfg.resumeDelay >= MinDelay,
         AcceptableUpdate(u)
  PROVE  Updated(u).resumeDelay >= MinDelay
<1>1. CASE "resumeDelay" \in DOMAIN u.params
  BY <1>1 DEF AcceptableUpdate
<1>2. CASE "resumeDelay" \notin DOMAIN u.params
  <2>1. Updated(u).resumeDelay = cfg.resumeDelay
    BY <1>2 DEF Updated, ParamNames
  <2>2. QED
    BY <2>1
<1>3. QED
  BY <1>1, <1>2

LEMMA PauseStep == TypeOK /\ PauseInv /\ [Next]_vars => PauseInv'
<1> SUFFICES ASSUME TypeOK, PauseInv, [Next]_vars PROVE PauseInv'
  OBVIOUS
<1>0. /\ now \in Nat /\ now' \in Nat /\ haltedAt \in Int /\ cfg \in Params
      /\ resumeRequestedAt \in Nat /\ MinDelay \in Nat /\ cfg.resumeDelay \in Nat
      /\ haltedAt <= now /\ cfg.resumeDelay >= MinDelay
  BY NextTypeOK, ConstantTypes, ParamTypes DEF TypeOK, PauseInv
<1>1. ASSUME UNCHANGED <<paused, resumeRequestedAt, haltedAt>>,
             cfg'.resumeDelay >= MinDelay, now' >= now
      PROVE  PauseInv'
  <2>1. /\ paused' = paused /\ resumeRequestedAt' = resumeRequestedAt
        /\ haltedAt' = haltedAt
    BY <1>1
  <2>2. haltedAt <= now' /\ cfg'.resumeDelay >= MinDelay
    BY <1>0, <1>1
  <2>3. now - haltedAt >= MinDelay => now' - haltedAt >= MinDelay
    BY <1>0, <1>1, Later
  <2>4. haltedAt' <= now'
    BY <2>1, <2>2
  <2>5. now - haltedAt >= MinDelay => now' - haltedAt' >= MinDelay
    BY <2>1, <2>3
  <2>6. QED
    BY Zenon, <2>1, <2>2, <2>4, <2>5 DEF PauseInv
<1>2. ASSUME UNCHANGED <<paused, resumeRequestedAt, haltedAt, cfg, now>>
      PROVE  PauseInv'
  <2>1. cfg'.resumeDelay >= MinDelay /\ now' >= now
    BY <1>0, <1>2
  <2>2. QED
    BY <1>1, <1>2, <2>1
<1>3. ASSUME NEW p, EmergencyPause(p)
      PROVE  PauseInv'
  <2>1. /\ paused' /\ haltedAt' = now /\ resumeRequestedAt' = 0
        /\ now' = now /\ cfg' = cfg
    BY Zenon, <1>3 DEF EmergencyPause
  <2>2. haltedAt' <= now' /\ cfg'.resumeDelay >= MinDelay
    BY <1>0, <2>1
  <2>3. QED
    BY Zenon, <2>1, <2>2 DEF PauseInv
<1>4. ASSUME NEW p, RequestResume(p)
      PROVE  PauseInv'
  <2>1. /\ paused /\ paused' = paused /\ haltedAt' = haltedAt
        /\ resumeRequestedAt' = now /\ now' = now /\ cfg' = cfg
    BY Zenon, <1>4 DEF RequestResume
  <2>2. /\ haltedAt' <= now' /\ haltedAt' <= resumeRequestedAt'
        /\ cfg'.resumeDelay >= MinDelay
    BY <1>0, <2>1
  <2>3. QED
    BY Zenon, <2>1, <2>2 DEF PauseInv
<1>5. ASSUME NEW p, EmergencyResume(p)
      PROVE  PauseInv'
  <2>1. /\ resumeRequestedAt # 0 /\ now >= resumeRequestedAt + cfg.resumeDelay
        /\ resumeRequestedAt' = 0 /\ haltedAt' = haltedAt
        /\ now' = now /\ cfg' = cfg
    BY <1>5 DEF EmergencyResume
  <2>2. haltedAt <= resumeRequestedAt
    BY <2>1 DEF PauseInv
  <2>3. now - haltedAt >= MinDelay
    BY <1>0, <2>1, <2>2
  <2>4. /\ now' - haltedAt' >= MinDelay /\ haltedAt' <= now'
        /\ cfg'.resumeDelay >= MinDelay
    BY <1>0, <2>1, <2>3
  <2>5. QED
    BY Zenon, <2>1, <2>4 DEF PauseInv
<1>6. ASSUME NEW p, CancelResumeRequest(p)
      PROVE  PauseInv'
  <2>1. /\ resumeRequestedAt # 0 /\ paused' = paused /\ haltedAt' = now
        /\ resumeRequestedAt' = 0 /\ now' = now /\ cfg' = cfg
    BY Zenon, <1>6 DEF CancelResumeRequest
  <2>2. paused
    BY Zenon, <2>1 DEF PauseInv
  <2>3. haltedAt' <= now' /\ cfg'.resumeDelay >= MinDelay
    BY <1>0, <2>1
  <2>4. QED
    BY Zenon, <2>1, <2>2, <2>3 DEF PauseInv
<1>7. ASSUME NEW p \in Principals, NEW u \in ConfigUpdates, UpdateConfig(p, u)
      PROVE  PauseInv'
  <2>1. cfg'.resumeDelay >= MinDelay
    BY <1>0, <1>7, DelayKept DEF UpdateConfig
  <2>2. now' >= now
    BY <1>0, <1>7 DEF UpdateConfig
  <2>3. QED
    BY <1>1, <1>7, <2>1, <2>2 DEF UpdateConfig, pauseVars
<1>8. CASE Tick
  <2>1. cfg'.resumeDelay >= MinDelay /\ now' >= now
    BY <1>0, <1>8 DEF Tick
  <2>2. QED
    BY <1>1, <1>8, <2>1 DEF Tick, pauseVars
<1>9. ASSUME NEW p \in Principals, AcceptAuthority(p)
      PROVE  PauseInv'
  BY <1>2, <1>9 DEF AcceptAuthority, pauseVars
<1>10. ASSUME NEW p \in Principals, NEW v \in Validators,
              RegisterValidator(p, v) \/ RemoveValidator(p, v)
       PROVE  PauseInv'
  BY <1>2, <1>10 DEF RegisterValidator, RemoveValidator, pauseVars
<1>11. ASSUME NEW u \in Users, NEW a \in Amounts, Deposit(u, a) \/ DepositSpl(u, a)
       PROVE  PauseInv'
  BY <1>2, <1>11 DEF Deposit, DepositSpl, pauseVars
<1>12. ASSUME NEW id \in BurnIds, ExecuteScheduledUnlock(id)
       PROVE  PauseInv'
  BY <1>2, <1>12 DEF ExecuteScheduledUnlock, pauseVars
<1>13. ASSUME NEW id \in BurnIds, NEW a \in Amounts, NEW s \in SUBSET Validators,
              NEW e \in Expirations, Unlock(id, a, s, e)
       PROVE  PauseInv'
  BY <1>2, <1>13 DEF Unlock, pauseVars
<1>14. ASSUME NEW a \in Amounts, Gift(a)
       PROVE  PauseInv'
  BY <1>2, <1>14 DEF Gift, pauseVars
<1>15. CASE UNCHANGED vars
  BY <1>2, <1>15 DEF vars, pauseVars
<1>16. QED
  BY <1>3, <1>4, <1>5, <1>6, <1>7, <1>8, <1>9, <1>10, <1>11, <1>12, <1>13,
     <1>14, <1>15 DEF Next

LEMMA PauseInit == Init => PauseInv
<1> SUFFICES ASSUME Init PROVE PauseInv
  OBVIOUS
<1>1. /\ paused = FALSE /\ resumeRequestedAt = 0 /\ now = 1
      /\ haltedAt = 1 - MinDelay /\ cfg.resumeDelay >= MinDelay
  BY Zenon DEF Init, Genesis, ValidParams
<1>2. MinDelay \in Nat
  BY ConstantTypes
<1>3. haltedAt <= now /\ now - haltedAt >= MinDelay
  BY <1>1, <1>2
<1>4. QED
  BY Zenon, <1>1, <1>3 DEF PauseInv

\* Nothing moves in or out only while the vault is not paused.
LEMMA MovesUnpaused ==
  ASSUME [Next]_vars,
         payouts' # payouts \/ unlocks' # unlocks \/ deposits' # deposits
  PROVE  ~paused
<1>1. CASE ~Unpaid
  BY <1>1, OutSteps DEF ExecuteScheduledUnlock, Unlock
<1>2. CASE Unpaid
  <2>1. deposits' # deposits
    BY <1>2 DEF Unpaid, outVars
  <2>2. ASSUME NEW u \in Users, NEW a \in Amounts, Deposit(u, a) \/ DepositSpl(u, a)
        PROVE  ~paused
    BY <2>2 DEF Deposit, DepositSpl, DepositAccepted
  <2>3. ASSUME NEW p \in Principals,
               \/ EmergencyPause(p) \/ RequestResume(p) \/ EmergencyResume(p)
               \/ CancelResumeRequest(p) \/ AcceptAuthority(p)
        PROVE  FALSE
    BY <2>1, <2>3 DEF EmergencyPause, RequestResume, EmergencyResume,
                      CancelResumeRequest, AcceptAuthority, inVars
  <2>4. ASSUME NEW p \in Principals, NEW u \in ConfigUpdates, UpdateConfig(p, u)
        PROVE  FALSE
    BY <2>1, <2>4 DEF UpdateConfig, inVars
  <2>5. ASSUME NEW p \in Principals, NEW v \in Validators,
               RegisterValidator(p, v) \/ RemoveValidator(p, v)
        PROVE  FALSE
    BY <2>1, <2>5 DEF RegisterValidator, RemoveValidator, inVars
  <2>6. ASSUME NEW a \in Amounts, Gift(a)
        PROVE  FALSE
    BY <2>1, <2>6 DEF Gift, inVars
  <2>7. CASE Tick
    BY <2>1, <2>7 DEF Tick, inVars
  <2>8. CASE UNCHANGED vars
    BY <2>1, <2>8 DEF vars, inVars
  <2>9. ASSUME NEW id \in BurnIds, ExecuteScheduledUnlock(id)
        PROVE  ~paused
    BY <2>9 DEF ExecuteScheduledUnlock
  <2>10. ASSUME NEW id \in BurnIds, NEW a \in Amounts, NEW s \in SUBSET Validators,
                NEW e \in Expirations, Unlock(id, a, s, e)
         PROVE  ~paused
    BY <2>10 DEF Unlock
  <2>11. QED
    BY <2>2, <2>3, <2>4, <2>5, <2>6, <2>7, <2>8, <2>9, <2>10 DEF Next
<1>3. QED
  BY <1>1, <1>2

\* After a pause, or a resume request called off, nothing enters or leaves for
\* the minimum delay: no sequence of pauses, requests, cancellations, retuned
\* delays and changes of authority shortens it.
THEOREM VaultPauseHolds == Spec => PauseHolds
<1>1. PauseInv /\ [Next]_vars
        => [(payouts' # payouts \/ unlocks' # unlocks \/ deposits' # deposits)
              => now - haltedAt >= MinDelay]_vars
  BY MovesUnpaused DEF PauseInv
<1>2. QED
  BY <1>1, PauseInit, PauseStep, VaultTypeOK, PTL DEF Spec, PauseHolds
=============================================================================
