------------------------------- MODULE Vault -------------------------------
(***************************************************************************)
(* The Solana program programs/sol-bridge-lock: the vault that takes SOL   *)
(* (and SPL tokens) in, and pays SOL out against validator attestations.   *)
(*                                                                         *)
(* One action per instruction of lib.rs.  A Solana instruction is atomic:  *)
(* any failed `require!` rolls it back, so each guard is a conjunct.       *)
(* Signatures, PDA derivations and account discriminators are abstracted   *)
(* to what they establish: WHO signed, and WHICH record exists.            *)
(***************************************************************************)
EXTENDS Integers, FiniteSets, Sequences

CONSTANTS
  Users,          \* depositors
  BurnIds,        \* transfer ids of DCC burns (seed of the unlock PDA)
  Validators,     \* keys the authority may register
  Principals,     \* keys that may hold the authority or guardian role
  NoOne,          \* Pubkey::default(), and an absent Option<Pubkey>
  Amounts,        \* lamport amounts the callers may ask for
  Expirations,    \* expiration timestamps the validators may sign
  InitParams,     \* configurations `initialize` may be called with
  ConfigUpdates,  \* parameter sets `update_config` may be called with
  DaySeconds,     \* 86400 in the code
  MinDelay,       \* 300 seconds in the code
  MinQuorumFloor, \* 3: the least min_validators update_config accepts
  ValidatorCap,   \* 20: the most max_validators initialize accepts
  MaxU32,         \* 2^32 - 1
  MaxU64,         \* 2^64 - 1
  MaxTime,        \* bound of the model: the clock stops here
  MaxGift         \* bound of the model: lamports sent to the vault directly

ParamNames == {"minDeposit", "maxDeposit", "maxDailyOutflow", "maxUnlock",
               "largeDelay", "largeThreshold", "minValidators",
               "maxValidators", "resumeDelay"}

Params == [ParamNames -> Nat]

ASSUME VaultConstants ==
  /\ NoOne \notin Principals
  /\ IsFiniteSet(Validators)
  /\ Amounts \subseteq Nat
  /\ Expirations \subseteq Nat
  /\ InitParams \subseteq Params
  /\ DaySeconds \in Nat \ {0}
  /\ MinDelay \in Nat
  /\ {MinQuorumFloor, ValidatorCap, MaxU32, MaxU64, MaxTime, MaxGift} \subseteq Nat
  /\ \A u \in ConfigUpdates :
        /\ u.newAuthority \in Principals \cup {NoOne}
        /\ u.newGuardian \in Principals \cup {NoOne}
        /\ DOMAIN u.params \subseteq ParamNames \ {"maxValidators"}
        /\ \A f \in DOMAIN u.params : u.params[f] \in Nat

VARIABLES
  cfg,                 \* the tunable fields of BridgeConfig
  authority, guardian,
  pendingAuthority,    \* two-step hand-over of the authority
  transferRequestedAt,
  paused,
  resumeRequestedAt,   \* 0: no pending resume request
  globalNonce,
  totalLocked,
  totalUnlocked,
  outflow,             \* current_daily_outflow
  lastReset,           \* last_daily_reset
  validators,          \* ValidatorEntry accounts that exist
  validatorCount,
  deposits,            \* DepositRecord accounts
  nextNonce,           \* UserState.next_nonce
  unlocks,             \* UnlockRecord accounts, by transfer id
  vault,               \* lamports held by the vault PDA
  now,                 \* Clock::unix_timestamp
  gifts,               \* lamports that reached the vault outside `deposit`
  payouts,             \* history: every transfer out of the vault
  haltedAt             \* history: time of the latest emergency_pause

govVars   == <<authority, guardian, pendingAuthority, transferRequestedAt>>
pauseVars == <<paused, resumeRequestedAt, haltedAt>>
bookVars  == <<totalLocked, totalUnlocked, outflow, lastReset>>
setVars   == <<validators, validatorCount>>
inVars    == <<globalNonce, deposits, nextNonce>>
outVars   == <<unlocks, payouts>>
vars == <<cfg, govVars, pauseVars, bookVars, setVars, inVars, outVars,
          vault, now, gifts>>

\* An UnlockRecord; status "none" says that the PDA does not exist yet.
NoUnlock == [status |-> "none", amount |-> 0, timestamp |-> 0, dueAt |-> 0]

Genesis == 1    \* time of `initialize`; any positive timestamp would do

(***************************************************************************)
(* initialize                                                              *)
(***************************************************************************)
ValidParams(c) ==
  /\ c.minValidators >= 1
  /\ c.minValidators <= c.maxValidators
  /\ c.maxValidators <= ValidatorCap
  /\ c.minDeposit > 0
  /\ c.maxDeposit > c.minDeposit
  /\ c.maxDailyOutflow > 0
  /\ c.resumeDelay >= MinDelay

Init ==
  /\ cfg \in {c \in InitParams : ValidParams(c)}
  /\ authority \in Principals
  /\ guardian \in Principals
  /\ pendingAuthority = NoOne /\ transferRequestedAt = 0
  /\ paused = FALSE /\ resumeRequestedAt = 0
  /\ globalNonce = 0
  /\ totalLocked = 0 /\ totalUnlocked = 0
  /\ outflow = 0 /\ lastReset = Genesis
  /\ validators = {} /\ validatorCount = 0
  /\ deposits = {} /\ nextNonce = [u \in Users |-> 0]
  /\ unlocks = [b \in BurnIds |-> NoUnlock] /\ vault = 0 /\ now = Genesis
  /\ gifts = 0 /\ payouts = <<>> /\ haltedAt = Genesis - MinDelay

(***************************************************************************)
(* deposit, deposit_spl.  The transfer id is a hash of (sender, nonce), so *)
(* the pair stands for it.  UserState.total_deposited is the sum of the    *)
(* user's records and is never read.                                       *)
(***************************************************************************)
DepositAccepted(u, a) ==
  /\ ~paused
  /\ a >= cfg.minDeposit
  /\ a <= cfg.maxDeposit
  /\ \A d \in deposits : ~(d.sender = u /\ d.nonce = nextNonce[u])
  /\ globalNonce + 1 <= MaxU64
  /\ nextNonce[u] + 1 <= MaxU64

Record(u, a, index, asset) ==
  /\ index <= MaxU32
  /\ deposits' = deposits \cup {[sender |-> u, nonce |-> nextNonce[u],
                                 amount |-> a, eventIndex |-> index,
                                 asset |-> asset]}
  /\ nextNonce' = [nextNonce EXCEPT ![u] = @ + 1]
  /\ globalNonce' = globalNonce + 1

\* The event index is the global nonce AFTER the increment.
Deposit(u, a) ==
  /\ DepositAccepted(u, a)
  /\ totalLocked + a <= MaxU64
  /\ vault' = vault + a
  /\ totalLocked' = totalLocked + a
  /\ Record(u, a, globalNonce + 1, "SOL")
  /\ UNCHANGED <<cfg, govVars, pauseVars, totalUnlocked, outflow, lastReset,
                 setVars, outVars, now, gifts>>

\* The event index is the global nonce BEFORE the increment, and neither the
\* vault's lamports nor total_locked move.
DepositSpl(u, a) ==
  /\ DepositAccepted(u, a)
  /\ Record(u, a, globalNonce, "SPL")
  /\ UNCHANGED <<cfg, govVars, pauseVars, bookVars, setVars, outVars, vault,
                 now, gifts>>

(***************************************************************************)
(* unlock, execute_scheduled_unlock                                        *)
(***************************************************************************)
\* The daily circuit breaker, with the day-aligned reset (LOW-3).
DayOver == now - lastReset >= DaySeconds

Charge(a) ==
  LET spent == IF DayOver THEN 0 ELSE outflow
  IN  /\ spent + a <= cfg.maxDailyOutflow
      /\ outflow' = spent + a
      /\ lastReset' = IF DayOver
                      THEN lastReset + ((now - lastReset) \div DaySeconds) * DaySeconds
                      ELSE lastReset

FreedUnchanged(a) == totalLocked      \* mutation: the code before LOW-2

\* total_locked.saturating_sub(amount)
Freed(a) == IF a <= totalLocked THEN totalLocked - a ELSE 0

\* History: the day, counted from Genesis, in which t falls, and what the
\* payouts of the day of the present instant add up to.
DayOf(t) == (t - Genesis) \div DaySeconds

PaidToday ==
  IF payouts # <<>> /\ DayOf(payouts[Len(payouts)].time) = DayOf(now)
  THEN payouts[Len(payouts)].paidToday
  ELSE 0

\* The CPI transfer out of the vault and the totals it moves.
Pay(id, a) ==
  /\ a <= vault
  /\ vault' = vault - a
  /\ totalUnlocked + a <= MaxU64
  /\ totalUnlocked' = totalUnlocked + a
  /\ totalLocked' = Freed(a)
  /\ payouts' = Append(payouts, [id |-> id, amount |-> a, time |-> now,
                                 limit |-> cfg.maxDailyOutflow,
                                 paidToday |-> PaidToday + a])

\* A quorum of registered validators attested (id, a, expiration).
Attested(signers, expiration) ==
  /\ expiration > now
  /\ signers \subseteq validators
  /\ Cardinality(signers) >= cfg.minValidators

Unlock(id, a, signers, expiration) ==
  /\ ~paused
  /\ unlocks[id].status = "none"
  /\ Attested(signers, expiration)
  /\ a <= cfg.maxUnlock
  /\ Charge(a)
  /\ \/ /\ a >= cfg.largeThreshold
        /\ unlocks' = [unlocks EXCEPT ![id] =
              [status |-> "scheduled", amount |-> a, timestamp |-> now,
               dueAt |-> now + cfg.largeDelay]]
        /\ UNCHANGED <<vault, totalUnlocked, totalLocked, payouts>>
     \/ /\ a < cfg.largeThreshold
        /\ Pay(id, a)
        /\ unlocks' = [unlocks EXCEPT ![id] =
              [status |-> "executed", amount |-> a, timestamp |-> now,
               dueAt |-> 0]]
  /\ UNCHANGED <<cfg, govVars, pauseVars, setVars, inVars, now, gifts>>

MarkNothing(id) == unlocks            \* mutation: `executed` never set

MarkExecuted(id) == [unlocks EXCEPT ![id].status = "executed"]

\* Mutation: the code before HIGH-2, with no circuit breaker on this path.
ExecuteUncharged(id) ==
  /\ ~paused
  /\ unlocks[id].status = "scheduled"
  /\ now >= unlocks[id].dueAt
  /\ Pay(id, unlocks[id].amount)
  /\ unlocks' = MarkExecuted(id)
  /\ UNCHANGED <<cfg, govVars, pauseVars, setVars, inVars, now, gifts,
                 outflow, lastReset>>

\* Permissionless; the amount is charged to the circuit breaker again.
ExecuteScheduledUnlock(id) ==
  /\ ~paused
  /\ unlocks[id].status = "scheduled"
  /\ now >= unlocks[id].dueAt
  /\ Charge(unlocks[id].amount)
  /\ Pay(id, unlocks[id].amount)
  /\ unlocks' = MarkExecuted(id)
  /\ UNCHANGED <<cfg, govVars, pauseVars, setVars, inVars, now, gifts>>

(***************************************************************************)
(* emergency_pause and the two-step resume                                 *)
(***************************************************************************)
MayPause(p) == p \in {authority, guardian}

PauseKeepingRequest(p) ==             \* mutation: the request survives
  /\ MayPause(p)
  /\ paused' = TRUE /\ haltedAt' = now
  /\ UNCHANGED <<cfg, govVars, bookVars, setVars, inVars, outVars, vault, now,
                 gifts, resumeRequestedAt>>

EmergencyPause(p) ==
  /\ MayPause(p)
  /\ paused' = TRUE /\ haltedAt' = now
  /\ resumeRequestedAt' = 0
  /\ UNCHANGED <<cfg, govVars, bookVars, setVars, inVars, outVars, vault, now,
                 gifts>>

RequestResume(p) ==
  /\ p = authority
  /\ paused
  /\ resumeRequestedAt = 0
  /\ resumeRequestedAt' = now
  /\ UNCHANGED <<cfg, govVars, bookVars, setVars, inVars, outVars, vault, now,
                 gifts, paused, haltedAt>>

\* The delay is the one in force now, not the one in force at the request.
EmergencyResume(p) ==
  /\ p = authority
  /\ paused
  /\ resumeRequestedAt # 0
  /\ now >= resumeRequestedAt + cfg.resumeDelay
  /\ paused' = FALSE
  /\ resumeRequestedAt' = 0
  /\ UNCHANGED <<cfg, govVars, bookVars, setVars, inVars, outVars, vault, now,
                 gifts, haltedAt>>

CancelResumeRequest(p) ==
  /\ MayPause(p)
  /\ resumeRequestedAt # 0
  /\ resumeRequestedAt' = 0
  /\ haltedAt' = now
  /\ UNCHANGED <<cfg, govVars, bookVars, setVars, inVars, outVars, vault, now,
                 gifts, paused>>

(***************************************************************************)
(* update_config, accept_authority, register_validator, remove_validator   *)
(***************************************************************************)
Updated(u) ==
  [f \in ParamNames |-> IF f \in DOMAIN u.params THEN u.params[f] ELSE cfg[f]]

\* What update_config requires of the fields it is given.  min_deposit is not
\* compared with max_deposit, nor min_validators with the validators there are.
AcceptableUpdate(u) ==
  LET given(f) == f \in DOMAIN u.params
      new == Updated(u)
  IN  /\ given("minDeposit") => new.minDeposit > 0
      /\ given("maxDeposit") => new.maxDeposit > new.minDeposit
      /\ given("maxDailyOutflow") => new.maxDailyOutflow > 0
      /\ given("maxUnlock") => new.maxUnlock > 0
      /\ given("largeDelay") => new.largeDelay >= MinDelay
      /\ given("minValidators") => /\ new.minValidators >= MinQuorumFloor
                                   /\ new.minValidators <= cfg.maxValidators
      /\ given("resumeDelay") => new.resumeDelay >= MinDelay

UpdateConfig(p, u) ==
  /\ p = authority
  /\ AcceptableUpdate(u)
  /\ cfg' = Updated(u)
  /\ IF u.newAuthority # NoOne
     THEN pendingAuthority' = u.newAuthority /\ transferRequestedAt' = now
     ELSE UNCHANGED <<pendingAuthority, transferRequestedAt>>
  /\ guardian' = IF u.newGuardian # NoOne THEN u.newGuardian ELSE guardian
  /\ UNCHANGED <<authority, pauseVars, bookVars, setVars, inVars, outVars,
                 vault, now, gifts>>

AcceptAuthority(p) ==
  /\ p = pendingAuthority
  /\ transferRequestedAt > 0
  /\ now - transferRequestedAt >= DaySeconds
  /\ authority' = pendingAuthority
  /\ pendingAuthority' = NoOne
  /\ transferRequestedAt' = 0
  /\ UNCHANGED <<cfg, guardian, pauseVars, bookVars, setVars, inVars, outVars,
                 vault, now, gifts>>

RegisterValidator(p, v) ==
  /\ p = authority
  /\ v \notin validators
  /\ validatorCount < cfg.maxValidators
  /\ validators' = validators \cup {v}
  /\ validatorCount' = validatorCount + 1
  /\ UNCHANGED <<cfg, govVars, pauseVars, bookVars, inVars, outVars, vault,
                 now, gifts>>

RemoveValidator(p, v) ==
  /\ p = authority
  /\ v \in validators
  /\ validatorCount > cfg.minValidators
  /\ validators' = validators \ {v}
  /\ validatorCount' = validatorCount - 1
  /\ UNCHANGED <<cfg, govVars, pauseVars, bookVars, inVars, outVars, vault,
                 now, gifts>>

(***************************************************************************)
(* The environment: anybody may send lamports to the vault's address, and  *)
(* time passes.                                                            *)
(***************************************************************************)
Gift(a) ==
  /\ gifts + a <= MaxGift
  /\ gifts' = gifts + a
  /\ vault' = vault + a
  /\ UNCHANGED <<cfg, govVars, pauseVars, bookVars, setVars, inVars, outVars,
                 now>>

Tick ==
  /\ now < MaxTime
  /\ now' = now + 1
  /\ UNCHANGED <<cfg, govVars, pauseVars, bookVars, setVars, inVars, outVars,
                 vault, gifts>>

Next ==
  \/ \E u \in Users, a \in Amounts : Deposit(u, a) \/ DepositSpl(u, a)
  \/ \E id \in BurnIds :
        \/ ExecuteScheduledUnlock(id)
        \/ \E a \in Amounts, s \in SUBSET Validators, e \in Expirations :
              Unlock(id, a, s, e)
  \/ \E p \in Principals :
        \/ EmergencyPause(p) \/ RequestResume(p) \/ EmergencyResume(p)
        \/ CancelResumeRequest(p) \/ AcceptAuthority(p)
        \/ \E u \in ConfigUpdates : UpdateConfig(p, u)
        \/ \E v \in Validators : RegisterValidator(p, v) \/ RemoveValidator(p, v)
  \/ \E a \in Amounts : Gift(a)
  \/ Tick

Spec == Init /\ [][Next]_vars

----------------------------------------------------------------------------
Unlocks == [status : {"none", "scheduled", "executed"}, amount : Nat,
            timestamp : Nat, dueAt : Nat]

Payouts == [id : BurnIds, amount : Nat, time : Nat, limit : Nat,
            paidToday : Nat]

\* Every variable stays in its type; the two u64 totals never go negative.
TypeOK ==
  /\ cfg \in Params
  /\ authority \in Principals /\ guardian \in Principals
  /\ pendingAuthority \in Principals \cup {NoOne}
  /\ transferRequestedAt \in Nat
  /\ paused \in BOOLEAN /\ resumeRequestedAt \in Nat /\ haltedAt \in Int
  /\ globalNonce \in Nat
  /\ totalLocked \in Nat /\ totalUnlocked \in Nat
  /\ outflow \in Nat /\ lastReset \in Nat
  /\ validators \in SUBSET Validators /\ validatorCount \in Nat
  /\ deposits \subseteq [sender : Users, nonce : Nat, amount : Nat,
                         eventIndex : Nat, asset : {"SOL", "SPL"}]
  /\ nextNonce \in [Users -> Nat]
  /\ unlocks \in [BurnIds -> Unlocks]
  /\ vault \in Nat /\ now \in Nat /\ gifts \in Nat
  /\ payouts \in Seq(Payouts)

\* The lamports in the vault cover what the books say is locked, whatever mix
\* of deposits, immediate and delayed unlocks and gifts came before
\* (LOW-2: total_locked tracks the vault's obligations).
VaultBacksLocked == totalLocked <= vault

\* No burn is paid twice, and what is paid is what the validators attested,
\* across the immediate path, the delayed path and any number of resubmissions.
PaidOnce ==
  /\ \A i, j \in 1..Len(payouts) : payouts[i].id = payouts[j].id => i = j
  /\ \A i \in 1..Len(payouts) :
        /\ unlocks[payouts[i].id].status = "executed"
        /\ unlocks[payouts[i].id].amount = payouts[i].amount

\* HIGH-1, HIGH-2, LOW-3: the SOL that leaves the vault within one day-aligned
\* window never exceeds the daily limit in force at the last transfer, even
\* when delayed withdrawals fall due together and the limit is retuned.
DailyOutflowCapped ==
  \A i \in 1..Len(payouts) : payouts[i].paidToday <= payouts[i].limit

\* After an emergency pause, or after the guardian cancels a resume request, no
\* SOL enters or leaves and no unlock is scheduled for at least the minimum
\* resume delay: repeated pauses, requests made earlier, a new authority or a
\* shorter delay cannot cut it.
PauseHolds ==
  [][(payouts' # payouts \/ unlocks' # unlocks \/ deposits' # deposits)
       => now - haltedAt >= MinDelay]_vars

\* The count that guards registration and removal is the number of validator
\* accounts there are, and it respects the configured maximum.
RegistryConsistent ==
  /\ validatorCount = Cardinality(validators)
  /\ validatorCount <= cfg.maxValidators
=============================================================================
