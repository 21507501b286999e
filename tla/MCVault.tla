------------------------------ MODULE MCVault ------------------------------
(* A small instance of Vault for TLC.                                       *)
(* A day lasts two units of time.                                           *)
EXTENDS Vault, TLC

CONSTANTS p1, p2

mcFunds == {[minDeposit |-> 1, maxDeposit |-> 2, maxDailyOutflow |-> 3,
             maxUnlock |-> 2, largeDelay |-> 1, largeThreshold |-> 2,
             minValidators |-> 1, maxValidators |-> 2, resumeDelay |-> 3]}

mcRetune == {[params |-> [maxDailyOutflow |-> 2, resumeDelay |-> 2],
              newAuthority |-> p2, newGuardian |-> NoOne]}

mcSymmetry == Permutations(Validators) \cup Permutations(BurnIds)
=============================================================================
