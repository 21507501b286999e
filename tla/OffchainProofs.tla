--------------------------- MODULE OffchainProofs ---------------------------
(***************************************************************************)
(* Theorems about the programs of Offchain, for every value of their       *)
(* constants: the burn watcher, the deposit watcher, the handling of keys, *)
(* the Telegram bot, the deployment scripts, the Merkle trees and the      *)
(* encodings of a deposit, one after the other.                            *)
(***************************************************************************)
EXTENDS Offchain, TLAPS, SequenceTheorems, FiniteSetTheorems, WellFoundedInduction

----------------------------------------------------------------------------
(* The burn watcher: any set of burns, any number of confirmations, any    *)
(* faults.  Type correctness first.                                        *)

LEMMA ConstantTypes ==
  /\ Required \in Nat /\ Required > 0 /\ Lag \in Nat /\ Lag > 0
  /\ MaxCrashes \in Nat /\ MaxHeight \in Nat /\ MaxHeight > 0 /\ NoBurn \notin Burns
  BY BurnWatcherConstants

\* The poll loop is inside a block below the tip, and stops with the process.
ScanInv ==
  /\ scanning => cursor + 1 <= tip
  /\ ~up => ~scanning

TypeInv == TypeOK /\ ScanInv

chainTypes == /\ tip \in 1..MaxHeight /\ at \in [Burns -> 0..MaxHeight]
              /\ gone \subseteq Burns
setTypes == /\ {seen, pending, todo, sweep, reported, lost} \subseteq SUBSET Burns
            /\ {locating, checking} \subseteq Burns \cup {NoBurn}
loopTypes == /\ up \in BOOLEAN /\ scanning \in BOOLEAN
             /\ cursor \in 1..tip /\ crashes \in 0..MaxCrashes /\ ScanInv

LEMMA TypeParts == TypeInv <=> chainTypes /\ setTypes /\ loopTypes
  BY DEF TypeInv, TypeOK, chainTypes, setTypes, loopTypes

LEMMA InitType == Init => TypeInv
<1> SUFFICES ASSUME Init PROVE TypeInv
  OBVIOUS
<1>1. chainTypes
  BY ConstantTypes DEF Init, chainTypes
<1>2. setTypes
  BY DEF Init, setTypes
<1>3. loopTypes
  <2>1. /\ up = TRUE /\ scanning = FALSE /\ cursor = 1 /\ tip = 1 /\ crashes = 0
    BY Zenon DEF Init
  <2>2. cursor \in 1..tip /\ crashes \in 0..MaxCrashes
    BY <2>1, ConstantTypes
  <2>3. QED
    BY <2>1, <2>2 DEF loopTypes, ScanInv
<1>4. QED
  BY <1>1, <1>2, <1>3, TypeParts

\* Only the chain's own actions change the chain.
LEMMA ChainStep ==
  ASSUME chainTypes, [Next]_vars
  PROVE  chainTypes'
<1> USE DEF chainTypes
<1>1. ASSUME UNCHANGED chainVars PROVE chainTypes'
  BY <1>1 DEF chainVars
<1>2. CASE Poll
  BY <1>1, <1>2 DEF Poll, ScanBlock, ScanTx, ScanDone
<1>3. CASE Sweep
  BY <1>1, <1>3 DEF Sweep, Reconcile, Locate, Located, NotLocated
<1>4. CASE Finality
  BY <1>1, <1>4 DEF Finality, Check, Report, Invalidate
<1>5. CASE Crash \/ Restart
  BY <1>1, <1>5 DEF Crash, Restart
<1>6. CASE NewBlock
  <2>1. tip' = tip + 1 /\ tip < MaxHeight /\ UNCHANGED <<at, gone>>
    BY <1>6 DEF NewBlock
  <2>2. QED
    BY <2>1, ConstantTypes
<1>7. ASSUME NEW b \in Burns, BurnOnChain(b) PROVE chainTypes'
  <2>1. PICK h \in {tip, tip - 1} : at' = [at EXCEPT ![b] = h] /\ (h = tip \/ tip > 1)
    BY <1>7 DEF BurnOnChain
  <2>2. h \in 0..MaxHeight
    BY <2>1, ConstantTypes
  <2>3. QED
    BY <1>7, <2>1, <2>2 DEF BurnOnChain
<1>8. ASSUME NEW b \in Burns, Rollback(b) PROVE chainTypes'
  BY <1>8 DEF Rollback
<1>9. CASE UNCHANGED vars
  BY <1>1, <1>9 DEF vars
<1>10. QED
  BY <1>2, <1>3, <1>4, <1>5, <1>6, <1>7, <1>8, <1>9 DEF Next

LEMMA SetStep ==
  ASSUME setTypes, [Next]_vars
  PROVE  setTypes'
<1> USE DEF setTypes
<1>1. ASSUME UNCHANGED <<sharedVars, sweepVars, todo, checking, reported, lost>>
      PROVE  setTypes'
  BY <1>1 DEF sharedVars, sweepVars
<1>2. CASE ScanBlock \/ ScanDone
  BY <1>2 DEF ScanBlock, ScanDone, sharedVars, sweepVars, histVars
<1>3. ASSUME NEW b \in Burns, ScanTx(b) PROVE setTypes'
  BY <1>3 DEF ScanTx, Noted, sharedVars, sweepVars, histVars
<1>4. CASE Reconcile
  BY <1>4 DEF Reconcile, Handled, pollVars, sharedVars, histVars
<1>5. ASSUME NEW b \in Burns, Locate(b) \/ Located(b) \/ NotLocated(b)
      PROVE  setTypes'
  BY <1>5 DEF Locate, Located, NotLocated, Noted, pollVars, sharedVars, histVars
<1>6. ASSUME NEW b \in Burns, Check(b) \/ Report(b) \/ Invalidate(b)
      PROVE  setTypes'
  BY <1>6 DEF Check, Report, Invalidate, pollVars, sweepVars, sharedVars, histVars
<1>7. CASE Crash
  BY <1>7 DEF Crash
<1>8. CASE Restart
  BY <1>8 DEF Restart, sharedVars, sweepVars, histVars
<1>9. CASE NewBlock \/ \E b \in Burns : BurnOnChain(b) \/ Rollback(b)
  BY <1>1, <1>9 DEF NewBlock, BurnOnChain, Rollback, nodeVars, pollVars, histVars
<1>10. CASE UNCHANGED vars
  BY <1>1, <1>10 DEF vars, pollVars, histVars
<1>11. QED
  BY <1>2, <1>3, <1>4, <1>5, <1>6, <1>7, <1>8, <1>9, <1>10
     DEF Next, Poll, Sweep, Finality

\* The cursor advances by one scanned block, or jumps to the tip on a restart.
LEMMA LoopStep ==
  ASSUME chainTypes, loopTypes, [Next]_vars
  PROVE  loopTypes'
<1>0. /\ tip \in Nat /\ cursor \in Nat /\ cursor >= 1 /\ cursor <= tip
      /\ crashes \in 0..MaxCrashes /\ up \in BOOLEAN /\ scanning \in BOOLEAN
      /\ (scanning => cursor + 1 <= tip) /\ (~up => ~scanning)
  BY DEF chainTypes, loopTypes, ScanInv
<1>1. ASSUME UNCHANGED <<up, scanning, cursor, crashes>>, tip' \in Nat, tip' >= tip
      PROVE  loopTypes'
  <2>1. up' = up /\ scanning' = scanning /\ cursor' = cursor /\ crashes' = crashes
    BY <1>1
  <2>2. cursor' \in 1..tip'
    BY <1>0, <1>1, <2>1
  <2>3. cursor + 1 <= tip => cursor' + 1 <= tip'
    BY <1>0, <1>1, <2>1
  <2>4. (scanning' => cursor' + 1 <= tip') /\ (~up' => ~scanning')
    BY Zenon, <1>0, <2>1, <2>3
  <2>5. QED
    BY Zenon, <1>0, <2>1, <2>2, <2>4 DEF loopTypes, ScanInv
<1>2. ASSUME UNCHANGED <<up, scanning, cursor, crashes, tip>> PROVE loopTypes'
  BY <1>0, <1>1, <1>2
<1>3. CASE ScanBlock
  <2>1. /\ up /\ up' = up /\ scanning' = TRUE /\ cursor' = cursor /\ crashes' = crashes
        /\ tip' = tip /\ cursor + 1 <= tip - Lag
    BY <1>3 DEF ScanBlock, chainVars, histVars
  <2>2. cursor' \in 1..tip' /\ cursor' + 1 <= tip'
    BY <1>0, <2>1, ConstantTypes
  <2>3. QED
    BY <1>0, <2>1, <2>2 DEF loopTypes, ScanInv
<1>4. ASSUME NEW b \in Burns, ScanTx(b) PROVE loopTypes'
  BY <1>2, <1>4 DEF ScanTx, chainVars, histVars
<1>5. CASE ScanDone
  <2>1. /\ scanning /\ up /\ up' = up /\ scanning' = FALSE /\ cursor' = cursor + 1
        /\ crashes' = crashes /\ tip' = tip
    BY <1>5 DEF ScanDone, chainVars, histVars
  <2>2. cursor' \in 1..tip'
    BY <1>0, <2>1
  <2>3. QED
    BY <1>0, <2>1, <2>2 DEF loopTypes, ScanInv
<1>6. CASE Sweep
  BY <1>2, <1>6 DEF Sweep, Reconcile, Locate, Located, NotLocated, chainVars,
                    pollVars, histVars
<1>7. CASE Finality
  BY <1>2, <1>7 DEF Finality, Check, Report, Invalidate, chainVars, pollVars, histVars
<1>8. CASE Crash
  <2>1. /\ up' = FALSE /\ scanning' = FALSE /\ crashes' = crashes + 1
        /\ crashes < MaxCrashes /\ cursor' = cursor /\ tip' = tip
    BY <1>8 DEF Crash, chainVars
  <2>2. cursor' \in 1..tip' /\ crashes' \in 0..MaxCrashes
    BY <1>0, <2>1, ConstantTypes
  <2>3. QED
    BY <2>1, <2>2 DEF loopTypes, ScanInv
<1>9. CASE Restart
  <2>1. /\ ~up /\ up' = TRUE /\ scanning' = scanning /\ crashes' = crashes
        /\ tip' = tip /\ (cursor' = cursor \/ cursor' = tip)
    BY <1>9 DEF Restart, chainVars, histVars
  <2>2. cursor' \in 1..tip' /\ ~scanning'
    BY <1>0, <2>1
  <2>3. QED
    BY <1>0, <2>1, <2>2 DEF loopTypes, ScanInv
<1>10. CASE NewBlock
  BY <1>0, <1>1, <1>10 DEF NewBlock, nodeVars, pollVars, histVars
<1>11. ASSUME NEW b \in Burns, BurnOnChain(b) \/ Rollback(b) PROVE loopTypes'
  BY <1>2, <1>11 DEF BurnOnChain, Rollback, nodeVars, pollVars, histVars
<1>12. CASE UNCHANGED vars
  BY <1>2, <1>12 DEF vars, chainVars, pollVars, histVars
<1>13. QED
  BY <1>3, <1>4, <1>5, <1>6, <1>7, <1>8, <1>9, <1>10, <1>11, <1>12 DEF Next, Poll

LEMMA NextType == TypeInv /\ [Next]_vars => TypeInv'
<1> SUFFICES ASSUME TypeInv, [Next]_vars PROVE TypeInv'
  OBVIOUS
<1>1. chainTypes /\ setTypes /\ loopTypes
  BY TypeParts
<1>2. chainTypes' /\ setTypes' /\ loopTypes'
  BY <1>1, ChainStep, SetStep, LoopStep
<1>3. QED
  BY <1>2 DEF TypeInv, TypeOK, chainTypes, setTypes, loopTypes

LEMMA AlwaysTyped == Spec => []TypeInv
  BY InitType, NextType, PTL DEF Spec

\* Every variable stays in its type; the cursor never passes the tip, for any
\* scan lag and any gap after which a restart jumps.
THEOREM BurnWatcherTypeOK == Spec => []TypeOK
<1>1. TypeInv => TypeOK
  BY DEF TypeInv
<1>2. QED
  BY <1>1, AlwaysTyped, PTL

----------------------------------------------------------------------------
(* What is reported is final.  Only burns that are on some block are pending, *)
(* and the one being verified was deep enough when the loop picked it.  What  *)
(* is that deep can be refuted later, but it cannot be rolled back.           *)

PendingInv ==
  /\ \A b \in pending : at[b] # 0
  /\ checking # NoBurn => at[checking] # 0 /\ tip - at[checking] >= Required

FinalInv == PendingInv /\ ReportedFinal

LEMMA HeightTypes ==
  ASSUME TypeOK
  PROVE  /\ tip \in Nat /\ pending \subseteq Burns /\ reported \subseteq Burns
         /\ \A b \in Burns : at[b] \in Nat
         /\ checking \in Burns \cup {NoBurn}
  BY ConstantTypes DEF TypeOK

\* A step of the loops that reports nothing.
LEMMA QuietStep ==
  ASSUME FinalInv, tip' = tip, at' = at, gone' = gone, UNCHANGED reported,
         checking' \in {checking, NoBurn},
         \A b \in pending' : b \in pending \/ at[b] # 0
  PROVE  FinalInv'
<1>1. PendingInv'
  BY DEF FinalInv, PendingInv
<1>2. ReportedFinal'
  BY DEF FinalInv, ReportedFinal, Final, OnChain
<1>3. QED
  BY <1>1, <1>2 DEF FinalInv

LEMMA FinalStep == TypeOK /\ FinalInv /\ [Next]_vars => FinalInv'
<1> SUFFICES ASSUME TypeOK, FinalInv, [Next]_vars PROVE FinalInv'
  OBVIOUS
<1>1. CASE ScanBlock \/ ScanDone
  BY <1>1, QuietStep DEF ScanBlock, ScanDone, chainVars, sharedVars, histVars
<1>2. ASSUME NEW b \in Burns, ScanTx(b) PROVE FinalInv'
  <2>1. tip' = tip /\ at' = at /\ gone' = gone /\ UNCHANGED <<reported, checking>>
    BY <1>2 DEF ScanTx, chainVars, histVars
  <2>2. \A c \in pending' : c \in pending \/ at[c] # 0
    BY <1>2 DEF ScanTx, Noted, OnChain, sharedVars
  <2>3. QED
    BY <2>1, <2>2, QuietStep
<1>3. CASE Reconcile
  BY <1>3, QuietStep DEF Reconcile, chainVars, sharedVars, histVars
<1>4. ASSUME NEW b \in Burns, Locate(b) \/ Located(b) \/ NotLocated(b)
      PROVE  FinalInv'
  <2>1. tip' = tip /\ at' = at /\ gone' = gone /\ UNCHANGED <<reported, checking>>
    BY <1>4 DEF Locate, Located, NotLocated, chainVars, histVars
  <2>2. \A c \in pending' : c \in pending \/ at[c] # 0
    BY <1>4 DEF Locate, Located, NotLocated, Noted, OnChain, sharedVars
  <2>3. QED
    BY <2>1, <2>2, QuietStep
<1>5. ASSUME NEW b \in Burns, Check(b) PROVE FinalInv'
  <2>1. /\ tip' = tip /\ at' = at /\ gone' = gone /\ pending' = pending
        /\ reported' = reported /\ checking' = b
        /\ b \in pending /\ tip - at[b] >= Required
    BY <1>5 DEF Check, chainVars, sharedVars, histVars
  <2>2. PendingInv'
    BY <2>1 DEF FinalInv, PendingInv
  <2>3. ReportedFinal'
    BY <2>1 DEF FinalInv, ReportedFinal, Final, OnChain
  <2>4. QED
    BY <2>2, <2>3 DEF FinalInv
<1>6. ASSUME NEW b \in Burns, Report(b) PROVE FinalInv'
  <2>1. /\ tip' = tip /\ at' = at /\ gone' = gone /\ pending' \subseteq pending
        /\ reported' = reported \cup {b} /\ checking' = NoBurn
        /\ checking = b /\ OnChain(b)
    BY <1>6 DEF Report, chainVars
  <2>2. checking # NoBurn
    BY <2>1, ConstantTypes
  <2>3. Final(b)
    BY <2>1, <2>2 DEF FinalInv, PendingInv, Final
  <2>4. ReportedFinal'
    BY <2>1, <2>3 DEF FinalInv, ReportedFinal, Final, OnChain
  <2>5. PendingInv'
    BY <2>1 DEF FinalInv, PendingInv
  <2>6. QED
    BY <2>4, <2>5 DEF FinalInv
<1>7. ASSUME NEW b \in Burns, Invalidate(b) PROVE FinalInv'
  BY <1>7, QuietStep DEF Invalidate, chainVars
<1>8. CASE Crash
  BY <1>8, QuietStep DEF Crash, chainVars
<1>9. CASE Restart
  BY <1>9, QuietStep DEF Restart, chainVars, sharedVars, histVars
<1>10. CASE NewBlock
  <2>1. /\ tip' = tip + 1 /\ at' = at /\ gone' = gone /\ pending' = pending
        /\ reported' = reported /\ checking' = checking
    BY <1>10 DEF NewBlock, nodeVars, sharedVars, histVars
  <2>2. Required \in Nat
    BY ConstantTypes
  <2>3. PendingInv'
    <3>1. ASSUME checking # NoBurn
          PROVE  at[checking] # 0 /\ tip' - at[checking] >= Required
      <4>1. /\ at[checking] # 0 /\ tip - at[checking] >= Required
            /\ checking \in Burns
        BY <3>1, HeightTypes DEF FinalInv, PendingInv
      <4>2. at[checking] \in Nat /\ tip \in Nat
        BY <4>1, HeightTypes
      <4>3. QED
        BY <2>1, <2>2, <4>1, <4>2
    <3>2. QED
      BY <2>1, <3>1 DEF FinalInv, PendingInv
  <2>4. ReportedFinal'
    <3>1. ASSUME NEW b \in reported
          PROVE  at[b] # 0 /\ b \notin gone /\ tip' - at[b] >= Required
      <4>1. Final(b) /\ b \in Burns /\ at[b] \in Nat /\ tip \in Nat
        BY HeightTypes DEF FinalInv, ReportedFinal
      <4>2. at[b] # 0 /\ b \notin gone /\ tip - at[b] >= Required
        BY <4>1 DEF Final, OnChain
      <4>3. QED
        BY <2>1, <2>2, <4>1, <4>2
    <3>2. QED
      BY <2>1, <3>1 DEF ReportedFinal, Final, OnChain
  <2>5. QED
    BY <2>3, <2>4 DEF FinalInv
\* A burn that enters the chain was in no block, so it is neither pending, nor
\* being verified, nor reported.
<1>11. ASSUME NEW b \in Burns, BurnOnChain(b) PROVE FinalInv'
  <2>1. /\ at[b] = 0 /\ tip' = tip /\ gone' = gone /\ pending' = pending
        /\ reported' = reported /\ checking' = checking
        /\ \E h : at' = [at EXCEPT ![b] = h]
    BY <1>11 DEF BurnOnChain, nodeVars, sharedVars, histVars
  <2>2. at \in [Burns -> 0..MaxHeight] /\ \A c \in Burns : c # b => at'[c] = at[c]
    BY <2>1 DEF TypeOK
  <2>3. PendingInv'
    BY <2>1, <2>2, HeightTypes DEF FinalInv, PendingInv
  <2>4. ReportedFinal'
    <3>1. ASSUME NEW c \in reported
          PROVE  c \in Burns /\ c # b /\ Final(c)
      BY <2>1, HeightTypes DEF FinalInv, ReportedFinal, Final, OnChain
    <3>2. QED
      BY <2>1, <2>2, <3>1 DEF ReportedFinal, Final, OnChain
  <2>5. QED
    BY <2>3, <2>4 DEF FinalInv
<1>12. ASSUME NEW b \in Burns, Rollback(b) PROVE FinalInv'
  <2>1. /\ ~Final(b) /\ tip' = tip /\ at' = at /\ gone' = gone \cup {b}
        /\ pending' = pending /\ reported' = reported /\ checking' = checking
    BY <1>12 DEF Rollback, nodeVars, sharedVars, histVars
  <2>2. PendingInv'
    BY <2>1 DEF FinalInv, PendingInv
  <2>3. ReportedFinal'
    BY <2>1 DEF FinalInv, ReportedFinal, Final, OnChain
  <2>4. QED
    BY <2>2, <2>3 DEF FinalInv
<1>13. CASE UNCHANGED vars
  BY <1>13, QuietStep DEF vars, chainVars, sharedVars, histVars
<1>14. QED
  BY <1>1, <1>2, <1>3, <1>4, <1>5, <1>6, <1>7, <1>8, <1>9, <1>10, <1>11, <1>12,
     <1>13 DEF Next, Poll, Sweep, Finality

\* A validator reports only burns under the required number of blocks, however
\* the three loops interleave with each other, with failures and with the chain.
THEOREM BurnWatcherReportsFinal == Spec => []ReportedFinal
<1>1. Init => FinalInv
  BY DEF Init, FinalInv, PendingInv, ReportedFinal
<1>2. FinalInv => ReportedFinal
  BY DEF FinalInv
<1>3. QED
  BY <1>1, <1>2, FinalStep, BurnWatcherTypeOK, PTL DEF Spec

\* A burn on disk as seen is not looked at again by the reconcile loop: it is
\* pending, reported, rolled back, or lost in one of the named ways.
SeenAccounted == seen \subseteq pending \cup reported \cup lost \cup gone

LEMMA AccountedStep ==
  ASSUME TypeOK, FinalInv, SeenAccounted, [Next]_vars
  PROVE  SeenAccounted'
<1>1. ASSUME NEW b \in Burns, ScanTx(b) \/ Locate(b) \/ Located(b) \/ NotLocated(b)
      PROVE  SeenAccounted'
  BY <1>1 DEF ScanTx, Locate, Located, NotLocated, Noted, SeenAccounted, chainVars,
     sharedVars, histVars
<1>2. ASSUME NEW b \in Burns, Check(b) \/ Report(b) PROVE SeenAccounted'
  BY <1>2 DEF Check, Report, SeenAccounted, chainVars, sharedVars, histVars
<1>3. ASSUME NEW b \in Burns, Invalidate(b) PROVE SeenAccounted'
  <2>1. /\ checking = b /\ pending' = pending \ {b} /\ seen' = seen
        /\ reported' = reported /\ gone' = gone /\ lost \subseteq lost'
        /\ OnChain(b) => b \in lost'
    BY <1>3 DEF Invalidate, chainVars
  <2>2. at[b] # 0
    BY <2>1, ConstantTypes DEF FinalInv, PendingInv
  <2> QED BY <2>1, <2>2 DEF SeenAccounted, OnChain
<1>4. CASE Crash
  <2>1. /\ pending' = {} /\ seen' = seen /\ reported' = reported /\ gone' = gone
        /\ lost' = lost \cup {b \in pending : OnChain(b)}
    BY <1>4 DEF Crash, chainVars
  <2>2. \A b \in pending : b \in lost' \/ b \in gone
    BY <2>1 DEF FinalInv, PendingInv, OnChain
  <2> QED BY <2>1, <2>2 DEF SeenAccounted
<1>5. CASE ScanBlock \/ ScanDone \/ Reconcile \/ Restart
  BY <1>5 DEF ScanBlock, ScanDone, Reconcile, Restart, SeenAccounted, chainVars, sharedVars,
     histVars
<1>6. CASE NewBlock \/ \E b \in Burns : BurnOnChain(b) \/ Rollback(b)
  BY <1>6 DEF NewBlock, BurnOnChain, Rollback, SeenAccounted, nodeVars, sharedVars, histVars
<1>7. CASE UNCHANGED vars
  BY <1>7 DEF vars, chainVars, sharedVars, histVars, SeenAccounted
<1> QED BY <1>1, <1>2, <1>3, <1>4, <1>5, <1>6, <1>7 DEF Next, Poll, Sweep, Finality

\* What ReportedOrLost rests on: the ids that dcc-watcher.ts keeps on disk, and
\* which its reconcile loop passes over, hide no burn, however scans, sweeps, failed
\* verifications and crashes interleave.
THEOREM BurnWatcherHidesNothing == Spec => []SeenAccounted
<1>1. Init => FinalInv /\ SeenAccounted
  BY DEF Init, FinalInv, PendingInv, ReportedFinal, SeenAccounted
<1> QED BY <1>1, FinalStep, AccountedStep, BurnWatcherTypeOK, PTL DEF Spec

----------------------------------------------------------------------------
(* The deposit watcher.  What a state still owes a transaction is how many *)
(* more times the watcher may note it of its own accord: as long as no     *)
(* fork, failed seed request or injection adds to it, that only falls.     *)

On(c, t) == \E i \in 1..Len(c) : c[i] = t
Bef(c, t, u) == \E i, j \in 1..Len(c) : i < j /\ c[i] = t /\ c[j] = u
Distinct(c) == \A i, j \in 1..Len(c) : c[i] = c[j] => i = j
In(b, t) == \E i \in 1..Len(b) : b[i].tx = t
Apart(b) == \A i, j \in 1..Len(b) : b[i].tx = b[j].tx => i = j

\* The batch is still what the chain holds, in the order of the chain.
Orderly(c, b) ==
  \A i \in 1..Len(b) :
     On(c, b[i].tx) /\ \A j \in 1..Len(b) : i < j => Bef(c, b[i].tx, b[j].tx)
Behind(c, p, t) == ~On(c, p) \/ Bef(c, p, t)
Due(c, b, l, t) ==
  \/ ~On(c, t) \/ In(b, t) \/ Behind(c, l, t)
  \/ \E i \in 1..Len(b) : Bef(c, b[i].tx, t)
Count(P) == IF P THEN 1 ELSE 0

\* What is owed while the watcher polls, before it has found its place, and when
\* it is subscribed.
Pulled(c, b, l, t) == IF Orderly(c, b) THEN Count(Due(c, b, l, t)) ELSE 1 + Count(In(b, t))
Resumed(c, p, t) == Count(~On(c, t) \/ (p # NoTx /\ Behind(c, p, t)))
Told(c, f, t) == Count(t \in f) + Count(~On(c, t))

Entries == [tx : Txs, slot : Nat]
DepositTypes ==
  /\ slot \in Nat /\ chain \in Seq(Txs) /\ slotOf \in [Txs -> Nat]
  /\ phase \in {"down", "seeding", "running"} /\ mode \in {"poll", "socket"}
  /\ signature \in Txs \cup {NoTx} /\ last \in Txs \cup {NoTx}
  /\ batch \in Seq(Entries) /\ feed \subseteq Txs
  /\ deposits \in [Txs -> Nat] /\ verifying \in Txs \cup {NoTx}
  /\ reports \subseteq Txs \X Nat /\ times \in [Txs -> Nat] /\ missed \subseteq VaultDeposits
  /\ injections \in [Txs -> Nat] /\ stops \in Nat /\ forks \in Nat /\ misses \in Nat

\* What the loops know about where they are.
Places ==
  /\ Distinct(chain) /\ Apart(batch)
  /\ mode = "socket" => batch = <<>> /\ last = NoTx /\ signature = NoTx
  /\ mode = "poll" => feed = {}
  /\ phase # "running" => batch = <<>> /\ last = NoTx
  /\ phase = "running" => last \in {signature, NoTx}

\* What is being verified has been deep enough since it was noted.
Verified ==
  verifying # NoTx => /\ deposits[verifying] # 0
                      /\ slot - Depth - deposits[verifying] >= Confirmations
Reported == \A r \in reports : D!Final(r[1]) /\ slotOf[r[1]] = r[2]

Owes(t) ==
  IF mode = "socket" THEN Told(chain, feed, t)
  ELSE IF phase = "running" THEN Pulled(chain, batch, last, t)
  ELSE Resumed(chain, signature, t)
Spent(t) == times[t] + Count(deposits[t] # 0) + Owes(t)
Allowed(t) == 1 + injections[t] + misses + forks
Budget == \A t \in Txs : Spent(t) <= Allowed(t)

DepositInv == DepositTypes /\ Places /\ Verified /\ Reported /\ Budget

----------------------------------------------------------------------------
LEMMA DepositConstants ==
  /\ VaultDeposits \subseteq Txs /\ NoTx \notin Txs
  /\ Limit \in Nat /\ Limit > 0 /\ Depth \in Nat /\ Confirmations \in Nat
  /\ Modes \subseteq {"poll", "socket"}
BY DepositWatcherConstants

LEMMA Counts ==
  ASSUME NEW P \in BOOLEAN
  PROVE  Count(P) \in 0..1 /\ (P => Count(P) = 1) /\ (~P => Count(P) = 0)
BY DEF Count

LEMMA PulledType ==
  ASSUME NEW c, NEW b, NEW l, NEW t
  PROVE  Pulled(c, b, l, t) \in 0..2
<1>1. Count(Due(c, b, l, t)) \in 0..1 /\ Count(In(b, t)) \in 0..1
  BY DEF Count
<1> QED BY <1>1 DEF Pulled

LEMMA OwesType ==
  ASSUME NEW t PROVE Owes(t) \in 0..2 /\ Owes(t)' \in 0..2
<1>1. \A c, b, l : Pulled(c, b, l, t) \in 0..2
  BY PulledType
<1>2. \A c, p : Resumed(c, p, t) \in 0..1
  BY DEF Resumed, Count
<1>3. \A c, f : Told(c, f, t) \in 0..2
  BY DEF Told, Count
<1> QED BY <1>1, <1>2, <1>3 DEF Owes

LEMMA OnSame == ASSUME NEW t PROVE D!OnChain(t) <=> On(chain, t)
BY DEF D!OnChain, On

LEMMA NowhereNoTx == ASSUME NEW c \in Seq(Txs) PROVE ~On(c, NoTx)
BY DepositConstants DEF On

LEMMA BefOn ==
  ASSUME NEW c, NEW t, NEW u, Bef(c, t, u) PROVE On(c, t) /\ On(c, u)
BY DEF Bef, On

LEMMA BefTransitive ==
  ASSUME NEW c \in Seq(Txs), Distinct(c), NEW t, NEW u, NEW v,
         Bef(c, t, u), Bef(c, u, v)
  PROVE  Bef(c, t, v)
<1>1. PICK i, j \in 1..Len(c) : i < j /\ c[i] = t /\ c[j] = u
  BY DEF Bef
<1>2. PICK k, m \in 1..Len(c) : k < m /\ c[k] = u /\ c[m] = v
  BY DEF Bef
<1>3. j = k
  BY <1>1, <1>2 DEF Distinct
<1> QED BY <1>1, <1>2, <1>3 DEF Bef

LEMMA NotBeforeItself ==
  ASSUME NEW c \in Seq(Txs), Distinct(c), NEW t PROVE ~Bef(c, t, t)
BY DEF Bef, Distinct

\* A transaction that lands comes last.
LEMMA Landing ==
  ASSUME NEW c \in Seq(Txs), Distinct(c), NEW u \in Txs, ~On(c, u)
  PROVE  /\ Append(c, u) \in Seq(Txs) /\ Distinct(Append(c, u))
         /\ \A t : On(Append(c, u), t) <=> On(c, t) \/ t = u
         /\ \A t, v : Bef(c, t, v) => Bef(Append(c, u), t, v)
         /\ \A t, v : Bef(Append(c, u), t, v) => Bef(c, t, v) \/ v = u
<1> DEFINE d == Append(c, u)
           n == Len(c)
<1>1. /\ n \in Nat /\ d \in Seq(Txs) /\ Len(d) = n + 1 /\ d[n + 1] = u
      /\ \A i \in 1..n : d[i] = c[i]
  OBVIOUS
<1>2. 1..n \subseteq 1..(n + 1) /\ n + 1 \in 1..(n + 1)
      /\ \A i \in 1..(n + 1) : i \in 1..n \/ i = n + 1
  BY <1>1
<1> HIDE DEF d
<1>3. \A t : On(d, t) <=> On(c, t) \/ t = u
  BY <1>1, <1>2 DEF On
<1>4. Distinct(d)
  <2> SUFFICES ASSUME NEW i \in 1..Len(d), NEW j \in 1..Len(d), d[i] = d[j] PROVE i = j
    BY DEF Distinct
  <2>1. \A k \in 1..n : c[k] # u
    BY DEF On
  <2> QED BY <1>1, <1>2, <2>1 DEF Distinct
<1>5. \A t, v : Bef(c, t, v) => Bef(d, t, v)
  <2> SUFFICES ASSUME NEW t, NEW v, Bef(c, t, v) PROVE Bef(d, t, v)
    OBVIOUS
  <2>1. PICK i, j \in 1..n : i < j /\ c[i] = t /\ c[j] = v
    BY DEF Bef
  <2>2. i \in 1..Len(d) /\ j \in 1..Len(d) /\ d[i] = t /\ d[j] = v
    BY <1>1, <1>2, <2>1
  <2> QED BY <2>1, <2>2 DEF Bef
<1>6. \A t, v : Bef(d, t, v) => Bef(c, t, v) \/ v = u
  <2> SUFFICES ASSUME NEW t, NEW v, Bef(d, t, v), v # u PROVE Bef(c, t, v)
    OBVIOUS
  <2>1. PICK i, j \in 1..(n + 1) : i < j /\ d[i] = t /\ d[j] = v
    BY <1>1 DEF Bef
  <2>2. j # n + 1 /\ i \in 1..n /\ j \in 1..n
    BY <1>1, <2>1
  <2> QED BY <1>1, <2>1, <2>2 DEF Bef
<1> QED BY <1>1, <1>3, <1>4, <1>5, <1>6 DEF d

LEMMA Shortened ==
  ASSUME NEW c \in Seq(Txs), Distinct(c), NEW k \in 0..Len(c)
  PROVE  /\ SubSeq(c, 1, k) \in Seq(Txs) /\ Distinct(SubSeq(c, 1, k))
         /\ \A i \in 1..k : On(SubSeq(c, 1, k), c[i])
<1> DEFINE d == SubSeq(c, 1, k)
<1>1. /\ d \in Seq(Txs) /\ Len(d) = k /\ k \in Nat /\ k <= Len(c)
      /\ \A i \in 1..k : d[i] = c[i]
  OBVIOUS
<1> HIDE DEF d
<1>2. Distinct(d)
  BY <1>1 DEF Distinct
<1>3. \A i \in 1..k : On(d, c[i])
  BY <1>1 DEF On
<1> QED BY <1>1, <1>2, <1>3 DEF d

LEMMA Shifted ==
  ASSUME NEW b \in Seq(Entries), b # <<>>
  PROVE  /\ Tail(b) \in Seq(Entries) /\ Head(b) \in Entries /\ Head(b) = b[1]
         /\ Len(b) \in Nat /\ Len(b) >= 1 /\ Len(Tail(b)) = Len(b) - 1
         /\ \A i \in 1..(Len(b) - 1) : Tail(b)[i] = b[i + 1]
OBVIOUS

LEMMA TailIn ==
  ASSUME NEW b \in Seq(Entries), b # <<>>, Apart(b)
  PROVE  /\ Apart(Tail(b)) /\ \A t : In(Tail(b), t) => In(b, t)
         /\ In(b, Head(b).tx) /\ ~In(Tail(b), Head(b).tx)
<1>1. /\ Head(b) = b[1] /\ Len(b) \in Nat /\ Len(b) >= 1 /\ Len(Tail(b)) = Len(b) - 1
      /\ \A i \in 1..(Len(b) - 1) : Tail(b)[i] = b[i + 1]
  BY Shifted
<1>2. \A i \in 1..(Len(b) - 1) : i + 1 \in 1..Len(b) /\ i + 1 # 1
  BY <1>1
<1>3. 1 \in 1..Len(b)
  BY <1>1
<1>4. Apart(Tail(b))
  <2> SUFFICES ASSUME NEW i \in 1..Len(Tail(b)), NEW j \in 1..Len(Tail(b)),
                      Tail(b)[i].tx = Tail(b)[j].tx
               PROVE  i = j
    BY DEF Apart
  <2>1. b[i + 1].tx = b[j + 1].tx /\ i + 1 \in 1..Len(b) /\ j + 1 \in 1..Len(b)
    BY <1>1, <1>2
  <2>2. i + 1 = j + 1
    BY <2>1 DEF Apart
  <2> QED BY <1>1, <2>2
<1>5. \A t : In(Tail(b), t) => In(b, t)
  BY <1>1, <1>2 DEF In
<1>6. In(b, Head(b).tx) /\ ~In(Tail(b), Head(b).tx)
  BY <1>1, <1>2, <1>3 DEF In, Apart
<1> QED BY <1>4, <1>5, <1>6


LEMMA PulledRange ==
  ASSUME NEW c, NEW b, NEW l, NEW t
  PROVE  /\ Count(In(b, t)) \in 0..1 /\ Pulled(c, b, l, t) \in 0..2
         /\ Count(In(b, t)) <= Pulled(c, b, l, t)
         /\ Pulled(c, b, l, t) <= 1 + Count(In(b, t))
<1>1. Count(Due(c, b, l, t)) \in 0..1 /\ Count(In(b, t)) \in 0..1
  BY DEF Count
<1>2. In(b, t) => Due(c, b, l, t)
  BY DEF Due
<1>3. Count(In(b, t)) <= Count(Due(c, b, l, t))
  BY <1>2 DEF Count
<1> QED BY <1>1, <1>3 DEF Pulled

\* With nothing fetched, only the place and the chain count.
LEMMA PulledIdle ==
  ASSUME NEW c, NEW l, NEW t
  PROVE  Pulled(c, <<>>, l, t) = Count(~On(c, t) \/ Behind(c, l, t))
<1>1. Orderly(c, <<>>)
  BY DEF Orderly
<1>2. Due(c, <<>>, l, t) <=> ~On(c, t) \/ Behind(c, l, t)
  BY DEF Due, In
<1>3. CASE Due(c, <<>>, l, t)
  BY <1>1, <1>2, <1>3 DEF Pulled, Count
<1>4. CASE ~Due(c, <<>>, l, t)
  BY <1>1, <1>2, <1>4 DEF Pulled, Count
<1> QED BY <1>3, <1>4

\* Landing adds nothing to what is owed.
LEMMA PulledLands ==
  ASSUME NEW c \in Seq(Txs), Distinct(c), NEW u \in Txs, ~On(c, u),
         NEW b \in Seq(Entries), NEW l, NEW t
  PROVE  Pulled(Append(c, u), b, l, t) <= Pulled(c, b, l, t)
<1> DEFINE d == Append(c, u)
<1>1. /\ \A v : On(d, v) <=> On(c, v) \/ v = u
      /\ \A v, w : Bef(c, v, w) => Bef(d, v, w)
      /\ \A v, w : Bef(d, v, w) => Bef(c, v, w) \/ w = u
  BY Landing
<1> HIDE DEF d
<1>2. Orderly(c, b) => Orderly(d, b)
  BY <1>1 DEF Orderly
<1>3. Due(d, b, l, t) => Due(c, b, l, t)
  BY <1>1 DEF Due, Behind
<1>4. Count(Due(d, b, l, t)) <= Count(Due(c, b, l, t))
      /\ Count(Due(d, b, l, t)) \in 0..1 /\ Count(Due(c, b, l, t)) \in 0..1
      /\ Count(In(b, t)) \in 0..1
  BY <1>3 DEF Count
<1>5. Pulled(d, b, l, t) <= Pulled(c, b, l, t)
  BY <1>2, <1>4 DEF Pulled
<1> QED BY <1>5 DEF d

LEMMA ResumedLands ==
  ASSUME NEW c \in Seq(Txs), Distinct(c), NEW u \in Txs, ~On(c, u), NEW p, NEW t
  PROVE  Resumed(Append(c, u), p, t) <= Resumed(c, p, t)
<1> DEFINE d == Append(c, u)
<1>1. /\ \A v : On(d, v) <=> On(c, v) \/ v = u
      /\ \A v, w : Bef(d, v, w) => Bef(c, v, w) \/ w = u
  BY Landing
<1> HIDE DEF d
<1>2. ~On(d, t) \/ (p # NoTx /\ Behind(d, p, t)) => ~On(c, t) \/ (p # NoTx /\ Behind(c, p, t))
  BY <1>1 DEF Behind
<1>3. Resumed(d, p, t) <= Resumed(c, p, t)
  BY <1>2 DEF Resumed, Count
<1> QED BY <1>3 DEF d

LEMMA ToldLands ==
  ASSUME NEW c \in Seq(Txs), Distinct(c), NEW u \in Txs, ~On(c, u),
         NEW f, NEW g \in {f, f \cup {u}}, NEW t
  PROVE  Told(Append(c, u), g, t) <= Told(c, f, t)
<1> DEFINE d == Append(c, u)
<1>1. \A v : On(d, v) <=> On(c, v) \/ v = u
  BY Landing
<1> HIDE DEF d
<1>2. CASE t = u
  <2>1. On(d, t) /\ ~On(c, t)
    BY <1>1, <1>2
  <2> QED BY <2>1 DEF Told, Count, d
<1>3. CASE t # u
  <2>1. (On(d, t) <=> On(c, t)) /\ (t \in g <=> t \in f)
    BY <1>1, <1>3
  <2> QED BY <2>1 DEF Told, Count, d
<1> QED BY <1>2, <1>3

\* Going past the head of the batch settles what was owed to it.
LEMMA PulledPasses ==
  ASSUME NEW c \in Seq(Txs), Distinct(c), NEW b \in Seq(Entries), b # <<>>, Apart(b),
         NEW l, NEW t
  PROVE  Pulled(c, Tail(b), Head(b).tx, t) + Count(t = Head(b).tx) <= Pulled(c, b, l, t)
<1> DEFINE r == Tail(b)
           h == Head(b).tx
<1>1. /\ r \in Seq(Entries) /\ h = b[1].tx /\ Len(b) \in Nat /\ Len(b) >= 1
      /\ Len(r) = Len(b) - 1 /\ \A i \in 1..(Len(b) - 1) : r[i] = b[i + 1]
  BY Shifted
<1>2. Apart(r) /\ (\A v : In(r, v) => In(b, v)) /\ In(b, h) /\ ~In(r, h)
  BY TailIn
<1> HIDE DEF r, h
<1>3. 1 \in 1..Len(b) /\ Len(r) \in Nat
      /\ \A i \in 1..Len(r) : i + 1 \in 1..Len(b) /\ i + 1 > 1 /\ r[i] = b[i + 1]
  BY <1>1
<1>4. /\ Count(In(r, t)) <= Count(In(b, t)) /\ Count(In(r, t)) \in 0..1
      /\ Count(In(b, t)) \in 0..1 /\ Count(Due(c, b, l, t)) \in 0..1
      /\ Count(Due(c, r, h, t)) \in 0..1 /\ Count(t = h) \in 0..1
  BY <1>2 DEF Count
<1>5. Pulled(c, r, h, t) \in 0..2 /\ Pulled(c, r, h, t) <= 1 + Count(In(r, t))
  BY PulledRange
<1>6. CASE ~Orderly(c, b)
  <2>1. Pulled(c, b, l, t) = 1 + Count(In(b, t))
    BY <1>6 DEF Pulled
  <2>2. CASE t = h
    <3>1. Count(In(b, t)) = 1 /\ Count(In(r, t)) = 0 /\ Count(t = h) = 1
      BY <1>2, <2>2 DEF Count
    <3> QED BY <1>5, <2>1, <3>1 DEF r, h
  <2>3. CASE t # h
    <3>1. Count(t = h) = 0
      BY <2>3 DEF Count
    <3> QED BY <1>4, <1>5, <2>1, <3>1 DEF r, h
  <2> QED BY <2>2, <2>3
<1>7. CASE Orderly(c, b)
  <2>1. On(c, h) /\ \A i \in 1..Len(r) : Bef(c, h, r[i].tx)
    BY <1>1, <1>3, <1>7 DEF Orderly
  <2>2. Orderly(c, r)
    <3>1. \A i \in 1..Len(r) : On(c, r[i].tx)
      BY <1>3, <1>7 DEF Orderly
    <3>2. ASSUME NEW i \in 1..Len(r), NEW j \in 1..Len(r), i < j
          PROVE  Bef(c, r[i].tx, r[j].tx)
      <4>1. i + 1 \in 1..Len(b) /\ j + 1 \in 1..Len(b) /\ i + 1 < j + 1
            /\ r[i] = b[i + 1] /\ r[j] = b[j + 1]
        BY <1>3, <3>2
      <4>2. Bef(c, b[i + 1].tx, b[j + 1].tx)
        BY <1>7, <4>1 DEF Orderly
      <4> QED BY <4>1, <4>2
    <3> QED BY <3>1, <3>2 DEF Orderly
  <2>3. Pulled(c, b, l, t) = Count(Due(c, b, l, t)) /\ Pulled(c, r, h, t) = Count(Due(c, r, h, t))
    BY <1>7, <2>2 DEF Pulled
  <2>4. CASE t = h
    <3>1. ~Bef(c, h, h)
      BY NotBeforeItself
    <3>2. \A i \in 1..Len(r) : ~Bef(c, r[i].tx, h)
      BY <2>1, <3>1, BefTransitive
    <3>3. ~Due(c, r, h, h)
      BY <1>2, <2>1, <3>1, <3>2 DEF Due, Behind
    <3>4. Due(c, b, l, h)
      BY <1>2 DEF Due
    <3>5. Count(Due(c, b, l, t)) = 1 /\ Count(Due(c, r, h, t)) = 0 /\ Count(t = h) = 1
      BY <2>4, <3>3, <3>4 DEF Count
    <3> QED BY <2>3, <3>5 DEF r, h
  <2>5. CASE t # h
    <3>1. Due(c, r, h, t) => Due(c, b, l, t)
      <4>1. (\E i \in 1..Len(r) : Bef(c, r[i].tx, t)) => \E i \in 1..Len(b) : Bef(c, b[i].tx, t)
        BY <1>3
      <4>2. Behind(c, h, t) => \E i \in 1..Len(b) : Bef(c, b[i].tx, t)
        BY <1>1, <1>3, <2>1 DEF Behind
      <4> QED BY <1>2, <4>1, <4>2 DEF Due
    <3>2. Count(Due(c, r, h, t)) <= Count(Due(c, b, l, t)) /\ Count(t = h) = 0
      BY <2>5, <3>1 DEF Count
    <3> QED BY <1>4, <2>3, <3>2 DEF r, h
  <2> QED BY <2>4, <2>5
<1> QED BY <1>6, <1>7

LEMMA PulledHolds ==
  ASSUME NEW c, NEW b, NEW l, NEW t
  PROVE  Pulled(c, <<>>, l, t) <= Pulled(c, b, l, t)
<1>1. Pulled(c, <<>>, l, t) = Count(~On(c, t) \/ Behind(c, l, t))
  BY PulledIdle
<1>2. ~On(c, t) \/ Behind(c, l, t) => Due(c, b, l, t)
  BY DEF Due
<1>3. Count(~On(c, t) \/ Behind(c, l, t)) <= Count(Due(c, b, l, t))
      /\ Count(~On(c, t) \/ Behind(c, l, t)) <= 1 /\ Count(In(b, t)) \in 0..1
      /\ Count(~On(c, t) \/ Behind(c, l, t)) \in 0..1
  BY <1>2 DEF Count
<1> QED BY <1>1, <1>3 DEF Pulled


\* What is owed once the place is found is not more than before.
LEMMA PulledResumes ==
  ASSUME NEW c \in Seq(Txs), Distinct(c), NEW p, NEW t, NEW l,
         l = IF p = NoTx /\ c # <<>> THEN c[Len(c)] ELSE p
  PROVE  Pulled(c, <<>>, l, t) <= Resumed(c, p, t)
<1>1. Pulled(c, <<>>, l, t) = Count(~On(c, t) \/ Behind(c, l, t))
  BY PulledIdle
<1>2. ~On(c, t) \/ Behind(c, l, t) => ~On(c, t) \/ (p # NoTx /\ Behind(c, p, t))
  <2>1. CASE p # NoTx
    BY <2>1
  <2>2. CASE c = <<>>
    BY <2>2 DEF On
  <2>3. CASE p = NoTx /\ c # <<>>
    <3>1. l = c[Len(c)] /\ Len(c) \in 1..Len(c) /\ Len(c) \in Nat
      BY <2>3
    <3>2. On(c, l)
      BY <3>1 DEF On
    <3>3. ~Bef(c, l, t)
      BY <3>1 DEF Bef, Distinct
    <3> QED BY <3>2, <3>3 DEF Behind
  <2> QED BY <2>1, <2>2, <2>3
<1> QED BY <1>1, <1>2 DEF Resumed, Count

LEMMA PulledStops ==
  ASSUME NEW c \in Seq(Txs), NEW b, NEW p, NEW l \in {p, NoTx}, NEW t
  PROVE  Resumed(c, p, t) <= Pulled(c, b, l, t)
<1>1. ~On(c, t) \/ (p # NoTx /\ Behind(c, p, t)) => ~On(c, t) \/ Behind(c, l, t)
  BY NowhereNoTx DEF Behind
<1>2. Pulled(c, <<>>, l, t) = Count(~On(c, t) \/ Behind(c, l, t))
  BY PulledIdle
<1>3. Resumed(c, p, t) <= Pulled(c, <<>>, l, t)
  BY <1>1, <1>2 DEF Resumed, Count
<1>4. Resumed(c, p, t) \in 0..1
  BY DEF Resumed, Count
<1> QED BY <1>3, <1>4, PulledHolds, PulledRange

\* What the node returns is the end of the chain, from after the place on.
LEMMA Fetched ==
  ASSUME NEW c \in Seq(Txs), Distinct(c), NEW l, NEW b \in Seq(Entries),
         NEW off \in Nat, Len(b) + off = Len(c),
         \A i \in 1..Len(b) : b[i].tx = c[off + i],
         On(c, l) => \E i \in 1..off : i <= Len(c) /\ c[i] = l
  PROVE  /\ Apart(b)
         /\ \A t : Pulled(c, b, l, t) <= Pulled(c, <<>>, l, t)
<1>1. Len(b) \in Nat /\ Len(c) \in Nat
  OBVIOUS
<1>2. \A i \in 1..Len(b) : off + i \in 1..Len(c) /\ off + i > off
  BY <1>1
<1>3. Apart(b)
  <2> SUFFICES ASSUME NEW i \in 1..Len(b), NEW j \in 1..Len(b), b[i].tx = b[j].tx
               PROVE  i = j
    BY DEF Apart
  <2>1. off + i = off + j
    BY <1>2 DEF Distinct
  <2> QED BY <2>1, <1>1
<1>4. Orderly(c, b)
  <2>1. \A i \in 1..Len(b) : On(c, b[i].tx)
    BY <1>2 DEF On
  <2>2. ASSUME NEW i \in 1..Len(b), NEW j \in 1..Len(b), i < j
        PROVE  Bef(c, b[i].tx, b[j].tx)
    <3>1. off + i < off + j
      BY <1>1, <2>2
    <3> QED BY <1>2, <3>1 DEF Bef
  <2> QED BY <2>1, <2>2 DEF Orderly
<1>5. ASSUME NEW i \in 1..Len(b), On(c, l) PROVE Bef(c, l, b[i].tx)
  <2>1. PICK k \in 1..off : k <= Len(c) /\ c[k] = l
    BY <1>5
  <2>2. k \in 1..Len(c) /\ k < off + i
    BY <1>1, <2>1
  <2> QED BY <1>2, <2>1, <2>2 DEF Bef
<1>6. ASSUME NEW t PROVE Pulled(c, b, l, t) <= Pulled(c, <<>>, l, t)
  <2>1. Pulled(c, <<>>, l, t) = Count(~On(c, t) \/ Behind(c, l, t))
    BY PulledIdle
  <2>2. Pulled(c, b, l, t) = Count(Due(c, b, l, t))
    BY <1>4 DEF Pulled
  <2>3. In(b, t) => Behind(c, l, t)
    BY <1>5 DEF In, Behind
  <2>4. ASSUME NEW i \in 1..Len(b), Bef(c, b[i].tx, t) PROVE Behind(c, l, t)
    BY <1>5, <2>4, BefTransitive DEF Behind
  <2>5. Due(c, b, l, t) => ~On(c, t) \/ Behind(c, l, t)
    BY <2>3, <2>4 DEF Due
  <2> QED BY <2>1, <2>2, <2>5 DEF Count
<1> QED BY <1>3, <1>6


----------------------------------------------------------------------------
LEMMA SpentParts ==
  ASSUME NEW t
  PROVE  /\ Spent(t) = times[t] + Count(deposits[t] # 0) + Owes(t)
         /\ Spent(t)' = times'[t] + Count(deposits'[t] # 0) + Owes(t)'
         /\ Allowed(t) = 1 + injections[t] + misses + forks
         /\ Allowed(t)' = 1 + injections'[t] + misses' + forks'
         /\ Count(deposits[t] # 0) \in 0..1 /\ Count(deposits'[t] # 0) \in 0..1
         /\ Owes(t) \in 0..2 /\ Owes(t)' \in 0..2
BY OwesType DEF Spent, Allowed, Count

LEMMA OwesParts ==
  ASSUME NEW t
  PROVE  /\ mode = "socket" => Owes(t) = Told(chain, feed, t)
         /\ mode # "socket" /\ phase = "running" => Owes(t) = Pulled(chain, batch, last, t)
         /\ mode # "socket" /\ phase # "running" => Owes(t) = Resumed(chain, signature, t)
         /\ mode' = "socket" => Owes(t)' = Told(chain', feed', t)
         /\ mode' # "socket" /\ phase' = "running" => Owes(t)' = Pulled(chain', batch', last', t)
         /\ mode' # "socket" /\ phase' # "running" => Owes(t)' = Resumed(chain', signature', t)
BY DEF Owes

\* A step that reports nothing keeps the budget if it owes no more, and not
\* even as much to what it notes.
LEMMA BudgetQuiet ==
  ASSUME DepositTypes, DepositTypes', Budget,
         UNCHANGED <<times, injections, forks>>, misses' >= misses,
         \A t \in Txs : Count(deposits'[t] # 0) + Owes(t)' <=
                          Count(deposits[t] # 0) + Owes(t) + (misses' - misses)
  PROVE  Budget'
<1> SUFFICES ASSUME NEW t \in Txs PROVE (Spent(t) <= Allowed(t))'
  BY DEF Budget
<1>1. /\ times[t] \in Nat /\ injections[t] \in Nat /\ forks \in Nat
      /\ misses \in Nat /\ misses' \in Nat
  BY DEF DepositTypes
<1>2. Spent(t) <= Allowed(t)
  BY DEF Budget
<1> QED BY <1>1, <1>2, SpentParts

LEMMA BudgetStill ==
  ASSUME DepositTypes, DepositTypes', Budget,
         UNCHANGED <<times, injections, forks, misses>>,
         \A t \in Txs : Count(deposits'[t] # 0) + Owes(t)' <=
                          Count(deposits[t] # 0) + Owes(t)
  PROVE  Budget'
<1>1. misses \in Nat
  BY DEF DepositTypes
<1>2. misses' >= misses /\ misses' - misses = 0
  BY <1>1
<1>3. \A t \in Txs : Count(deposits'[t] # 0) + Owes(t)' <=
                       Count(deposits[t] # 0) + Owes(t) + (misses' - misses)
  BY <1>2, SpentParts
<1> QED BY <1>2, <1>3, BudgetQuiet

LEMMA BudgetForks ==
  ASSUME DepositTypes, Budget, forks' = forks + 1,
         UNCHANGED <<times, injections, misses, deposits>>,
         \A t \in Txs : Owes(t)' <= Owes(t) + 1
  PROVE  Budget'
<1> SUFFICES ASSUME NEW t \in Txs PROVE (Spent(t) <= Allowed(t))'
  BY DEF Budget
<1>1. times[t] \in Nat /\ injections[t] \in Nat /\ forks \in Nat /\ misses \in Nat
  BY DEF DepositTypes
<1>2. Spent(t) <= Allowed(t)
  BY DEF Budget
<1>3. times'[t] = times[t] /\ injections'[t] = injections[t]
      /\ Count(deposits'[t] # 0) = Count(deposits[t] # 0)
  OBVIOUS
<1> QED BY <1>1, <1>2, <1>3, SpentParts

LEMMA ReportedKept ==
  ASSUME Reported, UNCHANGED <<slot, chain, slotOf, reports>>
  PROVE  Reported'
BY DEF Reported, D!Final, D!OnChain

LEMMA VerifiedKept ==
  ASSUME Verified, UNCHANGED <<slot, deposits, verifying>>
  PROVE  Verified'
BY DEF Verified

LEMMA DepositInit == D!Init => DepositInv
<1> SUFFICES ASSUME D!Init PROVE DepositInv
  OBVIOUS
<1> USE DepositConstants DEF D!Init
<1>1. DepositTypes
  BY DEF DepositTypes
<1>2. Places
  BY DEF Places, Distinct, Apart
<1>3. Verified /\ Reported
  BY DEF Verified, Reported
<1>4. Budget
  <2> SUFFICES ASSUME NEW t \in Txs PROVE Spent(t) <= Allowed(t)
    BY DEF Budget
  <2>1. Owes(t) <= 1
    BY DEF Owes, Told, Resumed, Count
  <2>2. times[t] = 0 /\ injections[t] = 0 /\ Count(deposits[t] # 0) = 0
        /\ misses = 0 /\ forks = 0
    BY DEF Count
  <2> QED BY <2>1, <2>2, SpentParts
<1> QED BY <1>1, <1>2, <1>3, <1>4 DEF DepositInv

----------------------------------------------------------------------------
LEMMA SeedKeeps == DepositInv /\ D!Seed => DepositInv'
<1> SUFFICES ASSUME DepositInv, D!Seed PROVE DepositInv'
  OBVIOUS
<1> USE DEF DepositInv
<1>1. /\ phase = "seeding" /\ mode = "poll" /\ phase' = "running"
      /\ last' = IF signature = NoTx /\ chain # <<>> THEN chain[Len(chain)] ELSE signature
      /\ signature' = last' /\ missed' \in SUBSET VaultDeposits
      /\ UNCHANGED <<slot, chain, slotOf, mode, batch, feed, deposits, verifying, reports,
                     times, injections, stops, forks, misses>>
  BY DEF D!Seed, D!Lose, D!chainVars, D!faultVars, DepositTypes
<1>2. last' \in Txs \cup {NoTx}
  BY <1>1 DEF DepositTypes
<1>3. DepositTypes'
  BY <1>1, <1>2 DEF DepositTypes
<1>4. batch = <<>> /\ Distinct(chain)
  BY <1>1 DEF Places
<1>5. Places'
  BY <1>1, <1>4 DEF Places
<1>6. Budget'
  <2> SUFFICES ASSUME NEW t \in Txs PROVE Owes(t)' <= Owes(t)
    <3>1. \A t \in Txs : Count(deposits'[t] # 0) + Owes(t)' <=
                           Count(deposits[t] # 0) + Owes(t)
      BY <1>1, SpentParts
    <3> QED BY <1>1, <1>3, <3>1, BudgetStill
  <2>1. Pulled(chain, <<>>, last', t) <= Resumed(chain, signature, t)
    BY <1>1, <1>4, PulledResumes DEF DepositTypes
  <2>2. Owes(t)' = Pulled(chain, <<>>, last', t)
    BY <1>1, <1>4, OwesParts
  <2>3. Owes(t) = Resumed(chain, signature, t)
    BY <1>1, OwesParts
  <2> QED BY <2>1, <2>2, <2>3
<1> QED BY <1>1, <1>3, <1>5, <1>6, ReportedKept, VerifiedKept

LEMMA SeedFailsKeeps == DepositInv /\ D!SeedFails => DepositInv'
<1> SUFFICES ASSUME DepositInv, D!SeedFails PROVE DepositInv'
  OBVIOUS
<1> USE DEF DepositInv
<1>1. /\ phase = "seeding" /\ mode = "poll" /\ phase' = "running"
      /\ misses' = misses + 1
      /\ UNCHANGED <<slot, chain, slotOf, mode, signature, last, batch, feed, deposits,
                     verifying, reports, times, missed, injections, stops, forks>>
  BY DEF D!SeedFails, D!pollVars, D!chainVars, D!histVars
<1>2. DepositTypes'
  BY SMTT(30), <1>1 DEF DepositTypes
<1>3. batch = <<>> /\ last = NoTx
  BY <1>1 DEF Places
<1>4. Places'
  BY <1>1, <1>3 DEF Places
<1>5. Budget'
  <2> SUFFICES ASSUME NEW t \in Txs PROVE Owes(t)' <= Owes(t) + 1
    <3>1. misses \in Nat
      BY DEF DepositTypes
    <3>2. misses' >= misses /\ misses' - misses = 1
      BY <1>1, <3>1
    <3>3. \A t \in Txs : Count(deposits'[t] # 0) + Owes(t)' <=
                           Count(deposits[t] # 0) + Owes(t) + (misses' - misses)
      BY <1>1, <3>2, SpentParts
    <3> QED BY <1>1, <1>2, <3>2, <3>3, BudgetQuiet
  <2>1. Pulled(chain, <<>>, last, t) <= 1
    BY PulledIdle DEF Count
  <2>2. Owes(t)' = Pulled(chain, <<>>, last, t)
    BY <1>1, <1>3, OwesParts
  <2> QED BY <2>1, <2>2, SpentParts
<1> QED BY <1>1, <1>2, <1>4, <1>5, ReportedKept, VerifiedKept

LEMMA SubscribeKeeps == DepositInv /\ D!Subscribe => DepositInv'
<1> SUFFICES ASSUME DepositInv, D!Subscribe PROVE DepositInv'
  OBVIOUS
<1> USE DEF DepositInv
<1>1. /\ phase = "seeding" /\ mode = "socket" /\ phase' = "running"
      /\ UNCHANGED <<slot, chain, slotOf, mode, signature, last, batch, feed, deposits,
                     verifying, reports, times, missed, injections, stops, forks, misses>>
  BY DEF D!Subscribe, D!pollVars, D!chainVars, D!histVars, D!faultVars
<1>2. DepositTypes'
  BY <1>1 DEF DepositTypes
<1>3. Places'
  BY <1>1 DEF Places
<1>4. Budget'
  <2> SUFFICES ASSUME NEW t \in Txs PROVE Owes(t)' <= Owes(t)
    <3>1. \A t \in Txs : Count(deposits'[t] # 0) + Owes(t)' <=
                           Count(deposits[t] # 0) + Owes(t)
      BY <1>1, SpentParts
    <3> QED BY <1>1, <1>2, <3>1, BudgetStill
  <2> QED BY <1>1, OwesParts, SpentParts
<1> QED BY <1>1, <1>2, <1>3, <1>4, ReportedKept, VerifiedKept


\* What noting a transaction does to what is pending.
LEMMA Noting ==
  ASSUME DepositTypes, NEW u \in Txs, D!Noted(u)
  PROVE  /\ deposits' \in [Txs -> Nat]
         /\ \A t \in Txs : deposits[t] # 0 => deposits'[t] = deposits[t]
         /\ \A t \in Txs : Count(deposits'[t] # 0) <= Count(deposits[t] # 0) + Count(t = u)
         /\ Verified /\ UNCHANGED <<slot, verifying>> => Verified'
<1>1. deposits \in [Txs -> Nat] /\ slotOf[u] \in Nat /\ verifying \in Txs \cup {NoTx}
  BY DEF DepositTypes
<1>2. deposits' = IF u \in VaultDeposits /\ deposits[u] = 0
                  THEN [deposits EXCEPT ![u] = slotOf[u]] ELSE deposits
  BY DEF D!Noted
<1>3. deposits' \in [Txs -> Nat]
  BY <1>1, <1>2
<1>4. \A t \in Txs : (t # u \/ deposits[t] # 0) => deposits'[t] = deposits[t]
  BY <1>1, <1>2
<1>5. \A t \in Txs : Count(deposits'[t] # 0) <= Count(deposits[t] # 0) + Count(t = u)
  BY <1>4 DEF Count
<1>6. Verified /\ UNCHANGED <<slot, verifying>> => Verified'
  BY <1>1, <1>4 DEF Verified
<1> QED BY <1>3, <1>4, <1>5, <1>6

LEMMA PlaceFound ==
  ASSUME DepositTypes
  PROVE  /\ D!Place \in 0..Len(chain)
         /\ On(chain, last) => D!Place \in 1..Len(chain) /\ chain[D!Place] = last
<1>1. CASE D!OnChain(last)
  <2>1. \E i \in 1..Len(chain) : chain[i] = last
    BY <1>1 DEF D!OnChain
  <2>2. D!Place \in 1..Len(chain) /\ chain[D!Place] = last
    BY <1>1, <2>1 DEF D!Place
  <2> QED BY <2>2 DEF DepositTypes
<1>2. CASE ~D!OnChain(last)
  BY <1>2, OnSame DEF D!Place, DepositTypes
<1> QED BY <1>1, <1>2

LEMMA SuffixOf ==
  ASSUME NEW s \in Seq(Txs), NEW k \in 0..Len(s)
  PROVE  /\ SubSeq(s, k + 1, Len(s)) \in Seq(Txs)
         /\ Len(SubSeq(s, k + 1, Len(s))) = Len(s) - k
         /\ \A i \in 1..(Len(s) - k) : SubSeq(s, k + 1, Len(s))[i] = s[k + i]
OBVIOUS

LEMMA SuffixTwice ==
  ASSUME NEW c \in Seq(Txs), NEW q \in 0..Len(c), NEW k \in 0..(Len(c) - q)
  PROVE  LET w == SubSeq(c, q + 1, Len(c))
             f == SubSeq(w, k + 1, Len(w))
         IN /\ f \in Seq(Txs) /\ Len(f) + (q + k) = Len(c)
            /\ \A i \in 1..Len(f) : f[i] = c[(q + k) + i]
<1> DEFINE w == SubSeq(c, q + 1, Len(c))
           f == SubSeq(w, k + 1, Len(w))
<1>1. Len(c) \in Nat /\ q \in Nat /\ k \in Nat
  OBVIOUS
<1>2. w \in Seq(Txs) /\ Len(w) = Len(c) - q /\ \A i \in 1..(Len(c) - q) : w[i] = c[q + i]
  BY SuffixOf
<1> HIDE DEF w
<1>3. k \in 0..Len(w)
  BY <1>2
<1>4. f \in Seq(Txs) /\ Len(f) = Len(w) - k /\ \A i \in 1..(Len(w) - k) : f[i] = w[k + i]
  BY <1>2, <1>3, SuffixOf
<1> HIDE DEF f
<1>5. Len(f) + (q + k) = Len(c)
  BY <1>1, <1>2, <1>4
<1>6. \A i \in 1..Len(f) : k + i \in 1..(Len(c) - q) /\ q + (k + i) = (q + k) + i
  BY <1>1, <1>2, <1>4
<1>7. \A i \in 1..Len(f) : f[i] = c[(q + k) + i]
  BY <1>2, <1>4, <1>6
<1>8. f \in Seq(Txs) /\ Len(f) + (q + k) = Len(c) /\ \A i \in 1..Len(f) : f[i] = c[(q + k) + i]
  BY <1>4, <1>5, <1>7
<1> QED BY <1>8 DEF w, f

LEMMA FoundSuffix ==
  ASSUME DepositTypes
  PROVE  LET found == IF Len(D!Newer) > Limit THEN D!Newest(D!Newer) ELSE D!Newer
         IN /\ found \in Seq(Txs)
            /\ \E off \in Nat : /\ off >= D!Place /\ Len(found) + off = Len(chain)
                                /\ \A i \in 1..Len(found) : found[i] = chain[off + i]
<1> DEFINE found == IF Len(D!Newer) > Limit THEN D!Newest(D!Newer) ELSE D!Newer
<1>1. PICK c \in Seq(Txs) : c = chain
  BY DEF DepositTypes
<1>2. PICK q \in 0..Len(c) : q = D!Place
  BY <1>1, PlaceFound
<1> DEFINE w == SubSeq(c, q + 1, Len(c))
           k == IF Len(w) > Limit THEN Len(w) - Limit ELSE 0
<1>3. D!Newer = w
  BY <1>1, <1>2 DEF D!Newer
<1>4. w \in Seq(Txs) /\ Len(w) = Len(c) - q /\ Len(w) \in Nat /\ Len(c) \in Nat /\ q \in Nat
  BY SuffixOf
<1>5. found = SubSeq(w, k + 1, Len(w))
  <2> HIDE DEF w
  <2>1. CASE Len(w) > Limit
    BY <1>3, <2>1 DEF D!Newest
  <2>2. CASE ~(Len(w) > Limit)
    <3>1. found = w /\ k = 0
      BY <1>3, <2>2
    <3>2. SubSeq(w, 1, Len(w)) = w
      BY <1>4
    <3> QED BY <3>1, <3>2
  <2> QED BY <2>1, <2>2
<1>6. k \in 0..(Len(c) - q)
  <2> HIDE DEF w
  <2> QED BY <1>4, DepositConstants
<1> HIDE DEF found, k
<1>7. /\ found \in Seq(Txs) /\ Len(found) + (q + k) = Len(c)
      /\ \A i \in 1..Len(found) : found[i] = c[(q + k) + i]
  BY <1>5, <1>6, SuffixTwice
<1>8. q + k \in Nat /\ q + k >= q
  BY <1>4, <1>6
<1>9. \E off \in Nat : /\ off >= q /\ Len(found) + off = Len(c)
                       /\ \A i \in 1..Len(found) : found[i] = c[off + i]
  BY <1>7, <1>8
<1> QED BY <1>1, <1>2, <1>7, <1>9 DEF found

LEMMA FetchKeeps == DepositInv /\ D!Fetch => DepositInv'
<1> SUFFICES ASSUME DepositInv, D!Fetch PROVE DepositInv'
  OBVIOUS
<1> USE DEF DepositInv
<1> DEFINE found == IF Len(D!Newer) > Limit THEN D!Newest(D!Newer) ELSE D!Newer
<1>1. /\ phase = "running" /\ mode = "poll" /\ batch = <<>>
      /\ batch' = [i \in 1..Len(found) |-> [tx |-> found[i], slot |-> slotOf[found[i]]]]
      /\ missed' \in SUBSET VaultDeposits
      /\ UNCHANGED <<slot, chain, slotOf, phase, mode, signature, last, feed, deposits,
                     verifying, reports, times, injections, stops, forks, misses>>
  BY DEF D!Fetch, D!Lose, D!Up, D!chainVars, D!faultVars, DepositTypes
<1>2. found \in Seq(Txs)
  BY FoundSuffix
<1>3. PICK off \in Nat : /\ off >= D!Place /\ Len(found) + off = Len(chain)
                         /\ \A i \in 1..Len(found) : found[i] = chain[off + i]
  BY FoundSuffix
<1> HIDE DEF found
<1>4. slotOf \in [Txs -> Nat] /\ Len(found) \in Nat /\ chain \in Seq(Txs) /\ Distinct(chain)
  BY <1>2 DEF DepositTypes, Places
<1>5. /\ batch' \in Seq(Entries) /\ Len(batch') = Len(found)
      /\ \A i \in 1..Len(batch') : batch'[i].tx = found[i]
  <2>1. \A i \in 1..Len(found) : found[i] \in Txs
    BY <1>2
  <2>2. \A i \in 1..Len(found) : [tx |-> found[i], slot |-> slotOf[found[i]]] \in Entries
    BY <1>4, <2>1 DEF Entries
  <2>3. Len(batch') = Len(found)
        /\ \A i \in 1..Len(found) : batch'[i] = [tx |-> found[i], slot |-> slotOf[found[i]]]
    BY <1>1, <1>4
  <2>4. batch' \in [1..Len(found) -> Entries]
    BY <1>1, <2>2
  <2>5. batch' \in Seq(Entries)
    <3>1. PICK n \in Nat : n = Len(found)
      BY <1>4
    <3> QED BY <2>4, <3>1
  <2>6. ASSUME NEW i \in 1..Len(batch') PROVE batch'[i].tx = found[i]
    <3>1. batch'[i] = [tx |-> found[i], slot |-> slotOf[found[i]]]
      BY <2>3
    <3> QED BY <3>1
  <2> QED BY <2>3, <2>5, <2>6
<1>6. On(chain, last) => \E i \in 1..off : i <= Len(chain) /\ chain[i] = last
  BY <1>3, <1>4, PlaceFound
<1>7. Len(batch') + off = Len(chain)
      /\ \A i \in 1..Len(batch') : batch'[i].tx = chain[off + i]
  BY <1>3, <1>5
<1>8. /\ Apart(batch')
      /\ \A t : Pulled(chain, batch', last, t) <= Pulled(chain, <<>>, last, t)
  <2>1. PICK b \in Seq(Entries) : b = batch'
    BY <1>5
  <2>2. Len(b) + off = Len(chain) /\ \A i \in 1..Len(b) : b[i].tx = chain[off + i]
    BY <1>7, <2>1
  <2>3. Apart(b) /\ \A t : Pulled(chain, b, last, t) <= Pulled(chain, <<>>, last, t)
    BY <1>4, <1>6, <2>2, Fetched
  <2> QED BY <2>1, <2>3
<1>9. DepositTypes'
  BY <1>1, <1>5 DEF DepositTypes
<1>10. Places'
  BY <1>1, <1>8 DEF Places
<1>11. Budget'
  <2> SUFFICES ASSUME NEW t \in Txs PROVE Owes(t)' <= Owes(t)
    <3>1. \A t \in Txs : Count(deposits'[t] # 0) + Owes(t)' <=
                           Count(deposits[t] # 0) + Owes(t)
      BY <1>1, SpentParts
    <3> QED BY <1>1, <1>9, <3>1, BudgetStill
  <2> QED BY <1>1, <1>8, OwesParts
<1> QED BY <1>1, <1>9, <1>10, <1>11, ReportedKept, VerifiedKept


\* The poll loop goes past the head of the batch, which it may note.
LEMMA PassKeeps ==
  ASSUME DepositInv, NEW t \in Txs,
         phase = "running", batch # <<>>, t = Head(batch).tx,
         last' = t, signature' = t, batch' = Tail(batch), missed' \in SUBSET VaultDeposits,
         D!Noted(t) \/ UNCHANGED deposits,
         UNCHANGED <<slot, chain, slotOf, phase, mode, feed, verifying, reports, times,
                     injections, stops, forks, misses>>
  PROVE  DepositInv'
<1> USE DEF DepositInv
<1>1. /\ deposits' \in [Txs -> Nat] /\ Verified'
      /\ \A v \in Txs : Count(deposits'[v] # 0) <= Count(deposits[v] # 0) + Count(v = t)
  <2>1. CASE D!Noted(t)
    BY <2>1, Noting
  <2>2. CASE UNCHANGED deposits
    <3>1. deposits' \in [Txs -> Nat]
      BY <2>2 DEF DepositTypes
    <3> QED BY <2>2, <3>1, VerifiedKept DEF Count
  <2> QED BY <2>1, <2>2
<1>2. batch \in Seq(Entries) /\ chain \in Seq(Txs) /\ Distinct(chain) /\ Apart(batch)
  BY DEF DepositTypes, Places
<1>3. mode = "poll"
  BY DEF DepositTypes, Places
<1>4. batch' \in Seq(Entries)
  BY <1>2, Shifted
<1>5. DepositTypes'
  BY <1>1, <1>4 DEF DepositTypes
<1>6. Apart(Tail(batch))
  BY <1>2, TailIn
<1>7. Places'
  BY <1>3, <1>6 DEF Places
<1>8. Budget'
  <2> SUFFICES ASSUME NEW v \in Txs
               PROVE  Count(deposits'[v] # 0) + Owes(v)' <= Count(deposits[v] # 0) + Owes(v)
    BY <1>5, BudgetStill
  <2>1. Owes(v) = Pulled(chain, batch, last, v)
    BY <1>3, OwesParts
  <2>2. Owes(v)' = Pulled(chain, Tail(batch), Head(batch).tx, v)
    BY <1>3, OwesParts
  <2>3. Pulled(chain, Tail(batch), Head(batch).tx, v) + Count(v = Head(batch).tx)
          <= Pulled(chain, batch, last, v)
    BY <1>2, PulledPasses
  <2>4. Count(v = t) \in 0..1
    BY DEF Count
  <2> QED BY <1>1, <2>1, <2>2, <2>3, <2>4, SpentParts
<1> QED BY <1>1, <1>5, <1>7, <1>8, ReportedKept

LEMMA HandleKeeps ==
  ASSUME DepositInv, NEW t \in Txs, D!Handle(t) \/ D!HandleNothing(t) PROVE DepositInv'
<1>1. /\ phase = "running" /\ batch # <<>> /\ t = Head(batch).tx
      /\ last' = t /\ signature' = t /\ batch' = Tail(batch)
      /\ D!Noted(t) \/ UNCHANGED deposits
      /\ UNCHANGED <<slot, chain, slotOf, phase, mode, feed, verifying, reports, times,
                     injections, stops, forks, misses>>
  BY DEF D!Handle, D!HandleNothing, D!Up, D!AdvanceCursor, D!chainVars, D!faultVars
<1>2. missed' \in SUBSET VaultDeposits
  BY DEF D!Handle, D!HandleNothing, D!Lose, DepositInv, DepositTypes
<1> QED BY <1>1, <1>2, PassKeeps

LEMMA FetchFailsKeeps ==
  ASSUME DepositInv, NEW t \in Txs, D!FetchFails(t) PROVE DepositInv'
<1> USE DEF DepositInv
<1>1. /\ phase = "running" /\ batch # <<>> /\ batch' = <<>>
      /\ UNCHANGED <<slot, chain, slotOf, phase, mode, signature, last, feed, deposits,
                     verifying, reports, times, missed, injections, stops, forks, misses>>
  BY DEF D!FetchFails, D!Up, D!chainVars, D!histVars, D!faultVars
<1>2. DepositTypes'
  <2>1. batch' \in Seq(Entries)
    BY <1>1
  <2> QED BY <1>1, <2>1 DEF DepositTypes
<1>3. mode # "socket"
  BY <1>1 DEF Places
<1>4. Places'
  BY <1>1, <1>3 DEF Places, Apart
<1>5. Budget'
  <2> SUFFICES ASSUME NEW v \in Txs
               PROVE  Count(deposits'[v] # 0) + Owes(v)' <= Count(deposits[v] # 0) + Owes(v)
    BY <1>1, <1>2, BudgetStill
  <2>1. Owes(v) = Pulled(chain, batch, last, v) /\ Owes(v)' = Pulled(chain, <<>>, last, v)
    BY <1>1, <1>3, OwesParts
  <2> QED BY <1>1, <2>1, PulledHolds, SpentParts
<1> QED BY <1>1, <1>2, <1>4, <1>5, ReportedKept, VerifiedKept

LEMMA LoggedKeeps ==
  ASSUME DepositInv, NEW t \in Txs, D!Logged(t) PROVE DepositInv'
<1> USE DEF DepositInv
<1>1. /\ phase = "running" /\ t \in feed /\ feed' = feed \ {t} /\ D!Noted(t)
      /\ UNCHANGED <<slot, chain, slotOf, phase, mode, signature, last, batch,
                     verifying, reports, times, missed, injections, stops, forks, misses>>
  BY DEF D!Logged, D!Noted, D!Up, D!chainVars, D!pollVars, D!histVars, D!faultVars
<1>2. /\ deposits' \in [Txs -> Nat] /\ Verified'
      /\ \A v \in Txs : Count(deposits'[v] # 0) <= Count(deposits[v] # 0) + Count(v = t)
  BY <1>1, Noting
<1>3. DepositTypes'
  BY <1>1, <1>2 DEF DepositTypes
<1>4. mode = "socket"
  BY <1>1 DEF Places, DepositTypes
<1>5. Places'
  BY <1>1, <1>4 DEF Places
<1>6. Budget'
  <2> SUFFICES ASSUME NEW v \in Txs
               PROVE  Count(deposits'[v] # 0) + Owes(v)' <= Count(deposits[v] # 0) + Owes(v)
    BY <1>1, <1>3, BudgetStill
  <2>1. Owes(v) = Told(chain, feed, v) /\ Owes(v)' = Told(chain, feed', v)
    BY <1>1, <1>4, OwesParts
  <2>2. Count(v = t) + Count(v \in feed') = Count(v \in feed)
    BY <1>1 DEF Count
  <2>3. Count(~On(chain, v)) \in 0..1 /\ Count(v = t) \in 0..1 /\ Count(v \in feed) \in 0..1
        /\ Count(v \in feed') \in 0..1
    BY DEF Count
  <2>4. Count(v = t) + Owes(v)' = Owes(v)
    BY <2>1, <2>2, <2>3 DEF Told
  <2> QED BY <1>2, <2>3, <2>4, SpentParts
<1> QED BY <1>1, <1>2, <1>3, <1>5, <1>6, ReportedKept

LEMMA InjectKeeps ==
  ASSUME DepositInv, NEW t \in Txs, D!Inject(t) PROVE DepositInv'
<1> USE DEF DepositInv
<1>1. /\ injections' = [injections EXCEPT ![t] = @ + 1] /\ D!Noted(t)
      /\ UNCHANGED <<slot, chain, slotOf, phase, mode, signature, last, batch, feed,
                     verifying, reports, times, missed, stops, forks, misses>>
  BY DEF D!Inject, D!chainVars, D!pollVars, D!histVars
<1>2. /\ deposits' \in [Txs -> Nat] /\ Verified'
      /\ \A v \in Txs : Count(deposits'[v] # 0) <= Count(deposits[v] # 0) + Count(v = t)
  BY <1>1, Noting
<1>3. injections \in [Txs -> Nat]
  BY DEF DepositTypes
<1>4. injections' \in [Txs -> Nat] /\ \A v \in Txs : injections'[v] = injections[v] + Count(v = t)
  BY <1>1, <1>3 DEF Count
<1>5. DepositTypes'
  BY <1>1, <1>2, <1>4 DEF DepositTypes
<1>6. Places'
  BY <1>1 DEF Places
<1>7. Budget'
  <2> SUFFICES ASSUME NEW v \in Txs PROVE (Spent(v) <= Allowed(v))'
    BY DEF Budget
  <2>1. Spent(v) <= Allowed(v)
    BY DEF Budget
  <2>2. Owes(v)' = Owes(v)
    BY <1>1 DEF Owes
  <2>3. times[v] \in Nat /\ injections[v] \in Nat /\ forks \in Nat /\ misses \in Nat
        /\ Count(v = t) \in 0..1
    BY DEF DepositTypes, Count
  <2> QED BY <1>1, <1>2, <1>4, <2>1, <2>2, <2>3, SpentParts
<1> QED BY <1>1, <1>2, <1>5, <1>6, <1>7, ReportedKept

LEMMA CheckKeeps ==
  ASSUME DepositInv, NEW t \in Txs, D!Check(t) PROVE DepositInv'
<1> USE DEF DepositInv
<1>1. /\ deposits[t] # 0 /\ slot - Depth - deposits[t] >= Confirmations /\ verifying' = t
      /\ UNCHANGED <<slot, chain, slotOf, phase, mode, signature, last, batch, feed, deposits,
                     reports, times, missed, injections, stops, forks, misses>>
  BY DEF D!Check, D!chainVars, D!pollVars, D!histVars, D!faultVars
<1>2. DepositTypes'
  BY <1>1 DEF DepositTypes
<1>3. Places' /\ Verified'
  BY <1>1 DEF Places, Verified
<1>4. Budget'
  <2>1. \A v \in Txs : Owes(v)' = Owes(v)
    BY <1>1 DEF Owes
  <2> QED BY <1>1, <1>2, <2>1, BudgetStill, SpentParts
<1> QED BY <1>1, <1>2, <1>3, <1>4, ReportedKept


\* What is reported has just been deep enough in the slot it is in.
LEMMA ReportKeeps ==
  ASSUME DepositInv, NEW t \in Txs, D!Report(t) PROVE DepositInv'
<1> USE DEF DepositInv
<1>1. /\ verifying = t /\ D!OnChain(t) /\ slotOf[t] = deposits[t]
      /\ deposits' = [deposits EXCEPT ![t] = 0] /\ verifying' = NoTx
      /\ reports' = reports \cup {<<t, deposits[t]>>} /\ times' = [times EXCEPT ![t] = @ + 1]
      /\ UNCHANGED <<slot, chain, slotOf, phase, mode, signature, last, batch, feed,
                     missed, injections, stops, forks, misses>>
  BY DEF D!Report, D!Done, D!chainVars, D!pollVars, D!faultVars
<1>2. deposits \in [Txs -> Nat] /\ times \in [Txs -> Nat] /\ t # NoTx
  BY DepositConstants DEF DepositTypes
<1>3. deposits[t] # 0 /\ slot - Depth - deposits[t] >= Confirmations
  BY <1>1, <1>2 DEF Verified
<1>4. deposits' \in [Txs -> Nat] /\ times' \in [Txs -> Nat] /\ deposits[t] \in Nat
  BY <1>1, <1>2
<1>5. DepositTypes'
  <2>1. reports' \subseteq Txs \X Nat
    <3>1. reports \subseteq Txs \X Nat
      BY DEF DepositTypes
    <3> QED BY <1>1, <1>4, <3>1
  <2>2. verifying' \in Txs \cup {NoTx}
    BY <1>1
  <2> QED BY <1>1, <1>4, <2>1, <2>2 DEF DepositTypes
<1>6. Places' /\ Verified'
  BY <1>1 DEF Places, Verified
<1>7. Reported'
  <2>1. D!Final(t)
    BY <1>1, <1>3 DEF D!Final
  <2>2. \A r \in reports' : D!Final(r[1]) /\ slotOf[r[1]] = r[2]
    BY <1>1, <2>1 DEF Reported
  <2> QED BY <1>1, <2>2 DEF Reported, D!Final, D!OnChain
<1>8. Budget'
  <2> SUFFICES ASSUME NEW v \in Txs PROVE (Spent(v) <= Allowed(v))'
    BY DEF Budget
  <2>1. Spent(v) <= Allowed(v)
    BY DEF Budget
  <2>2. Owes(v)' = Owes(v)
    BY <1>1 DEF Owes
  <2>3. times'[v] + Count(deposits'[v] # 0) = times[v] + Count(deposits[v] # 0)
    <3>1. CASE v = t
      <4>1. times'[v] = times[v] + 1 /\ deposits'[v] = 0 /\ deposits[v] # 0
        BY <1>1, <1>2, <1>3, <3>1
      <4>2. Count(deposits'[v] # 0) = 0 /\ Count(deposits[v] # 0) = 1 /\ times[v] \in Nat
        BY <1>2, <4>1 DEF Count
      <4> QED BY <4>1, <4>2
    <3>2. CASE v # t
      BY <1>1, <1>2, <3>2
    <3> QED BY <3>1, <3>2
  <2>4. injections[v] \in Nat /\ forks \in Nat /\ misses \in Nat /\ times[v] \in Nat
        /\ times'[v] \in Nat
    BY <1>2, <1>4 DEF DepositTypes
  <2> QED BY <1>1, <2>1, <2>2, <2>3, <2>4, SpentParts
<1> QED BY <1>5, <1>6, <1>7, <1>8

LEMMA InvalidateKeeps ==
  ASSUME DepositInv, NEW t \in Txs, D!Invalidate(t) PROVE DepositInv'
<1> USE DEF DepositInv
<1>1. /\ deposits' = [deposits EXCEPT ![t] = 0] /\ verifying' = NoTx
      /\ UNCHANGED <<slot, chain, slotOf, phase, mode, signature, last, batch, feed,
                     reports, times, injections, stops, forks, misses>>
  BY DEF D!Invalidate, D!Done, D!chainVars, D!pollVars, D!faultVars
<1>2. missed' \in SUBSET VaultDeposits
  BY DEF D!Invalidate, D!Lose, DepositTypes
<1>3. deposits \in [Txs -> Nat]
  BY DEF DepositTypes
<1>4. deposits' \in [Txs -> Nat]
      /\ \A v \in Txs : Count(deposits'[v] # 0) <= Count(deposits[v] # 0)
  BY <1>1, <1>3 DEF Count
<1>5. DepositTypes'
  BY <1>1, <1>2, <1>4 DEF DepositTypes
<1>6. Places' /\ Verified'
  BY <1>1 DEF Places, Verified
<1>7. Budget'
  <2>1. \A v \in Txs : Owes(v)' = Owes(v)
    BY <1>1 DEF Owes
  <2>2. \A v \in Txs : Count(deposits'[v] # 0) + Owes(v)' <= Count(deposits[v] # 0) + Owes(v)
    BY <1>4, <2>1, SpentParts
  <2> QED BY <1>1, <1>5, <2>2, BudgetStill
<1> QED BY <1>1, <1>5, <1>6, <1>7, ReportedKept

LEMMA CrashKeeps == DepositInv /\ D!Crash => DepositInv'
<1> SUFFICES ASSUME DepositInv, D!Crash PROVE DepositInv'
  OBVIOUS
<1> USE DEF DepositInv
<1>1. /\ phase # "down" /\ stops' = stops + 1 /\ phase' = "down"
      /\ deposits' = [t \in Txs |-> 0] /\ verifying' = NoTx
      /\ batch' = <<>> /\ last' = NoTx /\ feed' = {}
      /\ UNCHANGED <<slot, chain, slotOf, mode, signature, reports, times, injections,
                     forks, misses>>
  BY DEF D!Crash, D!chainVars
<1>2. missed' \in SUBSET VaultDeposits
  BY DEF D!Crash, D!Lose, DepositTypes
<1>3. DepositTypes'
  BY <1>1, <1>2 DEF DepositTypes
<1>4. Places'
  BY <1>1 DEF Places, Apart
<1>5. Verified'
  BY <1>1 DEF Verified
<1>6. Budget'
  <2> SUFFICES ASSUME NEW v \in Txs
               PROVE  Count(deposits'[v] # 0) + Owes(v)' <= Count(deposits[v] # 0) + Owes(v)
    BY <1>1, <1>3, BudgetStill
  <2>1. Count(deposits'[v] # 0) = 0
    BY <1>1 DEF Count
  <2>2. Owes(v)' <= Owes(v)
    <3>1. CASE mode = "socket"
      <4>1. Owes(v) = Told(chain, feed, v) /\ Owes(v)' = Told(chain, {}, v)
        BY <1>1, <3>1, OwesParts
      <4> QED BY <4>1 DEF Told, Count
    <3>2. CASE mode # "socket" /\ phase # "running"
      <4>1. Owes(v) = Resumed(chain, signature, v) /\ Owes(v)' = Resumed(chain, signature, v)
        BY <1>1, <3>2, OwesParts
      <4> QED BY <4>1, SpentParts
    <3>3. CASE mode # "socket" /\ phase = "running"
      <4>1. Owes(v) = Pulled(chain, batch, last, v) /\ Owes(v)' = Resumed(chain, signature, v)
        BY <1>1, <3>3, OwesParts
      <4>2. last \in {signature, NoTx} /\ chain \in Seq(Txs)
        BY <3>3 DEF Places, DepositTypes
      <4> QED BY <4>1, <4>2, PulledStops
    <3> QED BY <3>1, <3>2, <3>3
  <2> QED BY <2>1, <2>2, SpentParts
<1> QED BY <1>1, <1>3, <1>4, <1>5, <1>6, ReportedKept

LEMMA RestartKeeps == DepositInv /\ D!Restart => DepositInv'
<1> SUFFICES ASSUME DepositInv, D!Restart PROVE DepositInv'
  OBVIOUS
<1> USE DEF DepositInv
<1>1. /\ phase = "down" /\ phase' = "seeding"
      /\ UNCHANGED <<slot, chain, slotOf, mode, signature, last, batch, feed, deposits,
                     verifying, reports, times, missed, injections, stops, forks, misses>>
  BY DEF D!Restart, D!pollVars, D!chainVars, D!histVars, D!faultVars
<1>2. DepositTypes'
  BY <1>1 DEF DepositTypes
<1>3. Places'
  BY <1>1 DEF Places
<1>4. Budget'
  <2>1. \A v \in Txs : Owes(v)' = Owes(v)
    BY <1>1 DEF Owes
  <2> QED BY <1>1, <1>2, <2>1, BudgetStill, SpentParts
<1> QED BY <1>1, <1>2, <1>3, <1>4, ReportedKept, VerifiedKept

LEMMA NewSlotKeeps == DepositInv /\ D!NewSlot => DepositInv'
<1> SUFFICES ASSUME DepositInv, D!NewSlot PROVE DepositInv'
  OBVIOUS
<1> USE DEF DepositInv
<1>1. /\ slot' = slot + 1
      /\ UNCHANGED <<chain, slotOf, phase, mode, signature, last, batch, feed, deposits,
                     verifying, reports, times, missed, injections, stops, forks, misses>>
  BY DEF D!NewSlot, D!pollVars, D!histVars, D!faultVars
<1>2. DepositTypes'
  BY <1>1 DEF DepositTypes
<1>3. Places'
  BY <1>1 DEF Places
<1>4. slot \in Nat /\ deposits \in [Txs -> Nat] /\ verifying \in Txs \cup {NoTx}
      /\ slotOf \in [Txs -> Nat] /\ reports \subseteq Txs \X Nat
  BY DEF DepositTypes
<1>5. Verified'
  BY <1>1, <1>4, DepositConstants DEF Verified
<1>6. Reported'
  <2> SUFFICES ASSUME NEW r \in reports PROVE (D!Final(r[1]) /\ slotOf[r[1]] = r[2])'
    BY <1>1 DEF Reported
  <2>1. D!Final(r[1]) /\ slotOf[r[1]] = r[2] /\ slotOf[r[1]] \in Nat
    BY <1>4 DEF Reported
  <2> QED BY <1>1, <1>4, <2>1, DepositConstants DEF D!Final, D!OnChain
<1>7. Budget'
  <2>1. \A v \in Txs : Owes(v)' = Owes(v)
    BY <1>1 DEF Owes
  <2> QED BY <1>1, <1>2, <2>1, BudgetStill, SpentParts
<1> QED BY <1>2, <1>3, <1>5, <1>6, <1>7


\* A fork abandons no transaction that was reported, and may owe each
\* transaction once more.
LEMMA ForkKeeps == DepositInv /\ D!Fork => DepositInv'
<1> SUFFICES ASSUME DepositInv, D!Fork PROVE DepositInv'
  OBVIOUS
<1> USE DEF DepositInv
<1>1. /\ slot' = slot + 1 /\ forks' = forks + 1
      /\ UNCHANGED <<slotOf, phase, mode, signature, last, batch, feed, deposits,
                     verifying, reports, times, missed, injections, stops, misses>>
  BY DEF D!Fork, D!pollVars, D!histVars
<1>2. PICK s \in (slot - Depth + 1)..slot, k \in 0..(Len(chain) - 1) :
        /\ \A i \in 1..Len(chain) : i <= k <=> slotOf[chain[i]] < s
        /\ chain' = SubSeq(chain, 1, k)
  BY DEF D!Fork
<1>3. /\ slot \in Nat /\ deposits \in [Txs -> Nat] /\ verifying \in Txs \cup {NoTx}
      /\ slotOf \in [Txs -> Nat] /\ reports \subseteq Txs \X Nat /\ chain \in Seq(Txs)
      /\ Distinct(chain) /\ forks \in Nat
  BY DEF DepositTypes, Places
<1>4. k \in 0..Len(chain) /\ k \in Nat
  BY <1>3
<1>5. /\ chain' \in Seq(Txs) /\ Distinct(chain')
      /\ \A i \in 1..k : On(chain', chain[i])
  <2>1. /\ SubSeq(chain, 1, k) \in Seq(Txs) /\ Distinct(SubSeq(chain, 1, k))
        /\ \A i \in 1..k : On(SubSeq(chain, 1, k), chain[i])
    BY <1>3, <1>4, Shortened
  <2> QED BY <1>2, <2>1
<1>6. DepositTypes'
  <2>1. slot' \in Nat /\ forks' \in Nat
    BY <1>1, <1>3
  <2> QED BY <1>1, <1>5, <2>1 DEF DepositTypes
<1>7. Places'
  BY <1>1, <1>5 DEF Places
<1>8. Verified'
  BY <1>1, <1>3, DepositConstants DEF Verified
<1>9. Reported'
  <2> SUFFICES ASSUME NEW r \in reports PROVE (D!Final(r[1]) /\ slotOf[r[1]] = r[2])'
    BY <1>1 DEF Reported
  <2>1. D!Final(r[1]) /\ slotOf[r[1]] = r[2] /\ slotOf[r[1]] \in Nat
    BY <1>3 DEF Reported
  <2>2. PICK i \in 1..Len(chain) : chain[i] = r[1]
    BY <2>1 DEF D!Final, D!OnChain
  <2>3. slotOf[r[1]] < s
    <3>1. slot \in Nat /\ slotOf[r[1]] \in Nat /\ Depth \in Nat /\ Confirmations \in Nat
      BY <1>3, <2>1, DepositConstants
    <3>2. slot - Depth - slotOf[r[1]] >= Confirmations
      BY <2>1 DEF D!Final
    <3>3. s \in Int /\ slot - Depth + 1 <= s
      BY <3>1
    <3> QED BY <3>1, <3>2, <3>3
  <2>4. i <= k /\ i \in 1..k
    BY <1>2, <1>4, <2>2, <2>3
  <2>5. On(chain', r[1])
    BY <1>5, <2>2, <2>4
  <2>6. D!OnChain(r[1])'
    BY <2>5 DEF On, D!OnChain
  <2>7. slot - Depth - slotOf[r[1]] >= Confirmations
    BY <2>1 DEF D!Final
  <2>8. slot' - Depth - slotOf[r[1]] >= Confirmations
    <3>1. slot \in Nat /\ slotOf[r[1]] \in Nat /\ Depth \in Nat /\ Confirmations \in Nat
      BY <1>3, <2>1, DepositConstants
    <3> QED BY <1>1, <2>7, <3>1
  <2> QED BY <1>1, <2>1, <2>6, <2>8 DEF D!Final
<1>10. Budget'
  <2> SUFFICES ASSUME NEW v \in Txs PROVE Owes(v)' <= Owes(v) + 1
    BY <1>1, BudgetForks
  <2>1. CASE mode = "socket"
    <3>1. Owes(v) = Told(chain, feed, v) /\ Owes(v)' = Told(chain', feed, v)
      BY <1>1, <2>1, OwesParts
    <3> QED BY <3>1 DEF Told, Count
  <2>2. CASE mode # "socket" /\ phase # "running"
    <3>1. Owes(v) = Resumed(chain, signature, v) /\ Owes(v)' = Resumed(chain', signature, v)
      BY <1>1, <2>2, OwesParts
    <3> QED BY <3>1 DEF Resumed, Count
  <2>3. CASE mode # "socket" /\ phase = "running"
    <3>1. Owes(v) = Pulled(chain, batch, last, v) /\ Owes(v)' = Pulled(chain', batch, last, v)
      BY <1>1, <2>3, OwesParts
    <3> QED BY <3>1, PulledRange
  <2> QED BY <2>1, <2>2, <2>3
<1> QED BY <1>6, <1>7, <1>8, <1>9, <1>10

LEMMA LandKeeps ==
  ASSUME DepositInv, NEW t \in Txs, D!Land(t) PROVE DepositInv'
<1> USE DEF DepositInv
<1>1. /\ chain' = Append(chain, t) /\ slotOf' = [slotOf EXCEPT ![t] = slot]
      /\ feed' = IF phase = "running" /\ mode = "socket" THEN feed \cup {t} ELSE feed
      /\ UNCHANGED <<slot, phase, mode, signature, last, batch, deposits, verifying, reports,
                     times, injections, stops, forks, misses>>
  BY DEF D!Land, D!Up, D!pollVars, D!faultVars
<1>2. missed' \in SUBSET VaultDeposits
  BY DEF D!Land, DepositTypes
<1>3. /\ slot \in Nat /\ slotOf \in [Txs -> Nat] /\ reports \subseteq Txs \X Nat
      /\ chain \in Seq(Txs) /\ Distinct(chain) /\ batch \in Seq(Entries)
  BY DEF DepositTypes, Places
<1>4. ~On(chain, t)
  BY OnSame DEF D!Land
<1>5. /\ chain' \in Seq(Txs) /\ Distinct(chain')
      /\ \A v : On(chain, v) => On(chain', v)
  <2>1. /\ Append(chain, t) \in Seq(Txs) /\ Distinct(Append(chain, t))
        /\ \A v : On(Append(chain, t), v) <=> On(chain, v) \/ v = t
    BY <1>3, <1>4, Landing
  <2> QED BY <1>1, <2>1
<1>6. slotOf' \in [Txs -> Nat] /\ feed' \subseteq Txs
  BY <1>1, <1>3 DEF DepositTypes
<1>7. DepositTypes'
  BY <1>1, <1>2, <1>5, <1>6 DEF DepositTypes
<1>8. Places'
  BY <1>1, <1>5 DEF Places
<1>9. Reported'
  <2> SUFFICES ASSUME NEW r \in reports PROVE (D!Final(r[1]) /\ slotOf[r[1]] = r[2])'
    BY <1>1 DEF Reported
  <2>1. D!Final(r[1]) /\ slotOf[r[1]] = r[2]
    BY DEF Reported
  <2>2. On(chain, r[1])
    BY <2>1 DEF D!Final, D!OnChain, On
  <2>3. slotOf'[r[1]] = slotOf[r[1]]
    BY <1>1, <1>3, <1>4, <2>2
  <2>4. D!OnChain(r[1])'
    BY <1>5, <2>2 DEF On, D!OnChain
  <2> QED BY <1>1, <2>1, <2>3, <2>4 DEF D!Final
<1>10. Budget'
  <2> SUFFICES ASSUME NEW v \in Txs
               PROVE  Count(deposits'[v] # 0) + Owes(v)' <= Count(deposits[v] # 0) + Owes(v)
    BY <1>1, <1>7, BudgetStill
  <2>1. Owes(v)' <= Owes(v)
    <3>1. CASE mode = "socket"
      <4>1. Owes(v) = Told(chain, feed, v) /\ Owes(v)' = Told(Append(chain, t), feed', v)
        BY <1>1, <3>1, OwesParts
      <4>2. feed' \in {feed, feed \cup {t}}
        BY <1>1
      <4>3. \A g \in {feed, feed \cup {t}} :
               Told(Append(chain, t), g, v) <= Told(chain, feed, v)
        BY <1>3, <1>4, ToldLands
      <4> QED BY <4>1, <4>2, <4>3
    <3>2. CASE mode # "socket" /\ phase # "running"
      <4>1. Owes(v) = Resumed(chain, signature, v)
            /\ Owes(v)' = Resumed(Append(chain, t), signature, v)
        BY <1>1, <3>2, OwesParts
      <4> QED BY <1>3, <1>4, <4>1, ResumedLands
    <3>3. CASE mode # "socket" /\ phase = "running"
      <4>1. Owes(v) = Pulled(chain, batch, last, v)
            /\ Owes(v)' = Pulled(Append(chain, t), batch, last, v)
        BY <1>1, <3>3, OwesParts
      <4> QED BY <1>3, <1>4, <4>1, PulledLands
    <3> QED BY <3>1, <3>2, <3>3
  <2> QED BY <1>1, <2>1, SpentParts
<1> QED BY <1>1, <1>7, <1>8, <1>9, <1>10, VerifiedKept

LEMMA DepositStutters == DepositInv /\ UNCHANGED D!vars => DepositInv'
<1> SUFFICES ASSUME DepositInv, UNCHANGED D!vars PROVE DepositInv'
  OBVIOUS
<1> USE DEF DepositInv
<1>1. UNCHANGED <<slot, chain, slotOf, phase, mode, signature, last, batch, feed, deposits,
                  verifying, reports, times, missed, injections, stops, forks, misses>>
  BY DEF D!vars, D!chainVars, D!pollVars, D!histVars, D!faultVars
<1>2. DepositTypes'
  BY <1>1 DEF DepositTypes
<1>3. Places'
  BY <1>1 DEF Places
<1>4. Budget'
  <2>1. \A v \in Txs : Owes(v)' = Owes(v)
    BY <1>1 DEF Owes
  <2> QED BY <1>1, <1>2, <2>1, BudgetStill, SpentParts
<1> QED BY <1>1, <1>2, <1>3, <1>4, ReportedKept, VerifiedKept

LEMMA DepositNext == DepositInv /\ [D!Next]_(D!vars) => DepositInv'
<1> SUFFICES ASSUME DepositInv, D!Next PROVE DepositInv'
  BY DepositStutters
<1>1. CASE D!Poll
  BY <1>1, SeedKeeps, SeedFailsKeeps, SubscribeKeeps, FetchKeeps, HandleKeeps,
     FetchFailsKeeps, LoggedKeeps DEF D!Poll
<1>2. CASE D!Finality
  BY <1>2, CheckKeeps, ReportKeeps, InvalidateKeeps DEF D!Finality
<1>3. CASE D!Crash \/ D!Restart \/ D!Fork \/ D!NewSlot
  BY <1>3, CrashKeeps, RestartKeeps, ForkKeeps, NewSlotKeeps
<1>4. CASE \E t \in Txs : D!Land(t) \/ D!Inject(t)
  BY <1>4, LandKeeps, InjectKeeps
<1> QED BY <1>1, <1>2, <1>3, <1>4 DEF D!Next

\* What the loops of the deposit watcher hold in every state: no transaction is
\* on the chain or in a poll twice, the poll loop is where its cursor says or has
\* not begun, what is being verified is deep enough, and no transaction has been
\* reported, noted and still owed more often than its allowance.
THEOREM DepositWatcherInvariance == D!Spec => []DepositInv
  BY DepositInit, DepositNext, PTL DEF D!Spec

\* Whatever the interleaving of polling, verifying, forks, restarts and injections,
\* a deposit that is reported is final in the slot it was reported with, and is
\* reported once more at most for each injection, lost place and fork.
THEOREM DepositWatcherReportsFinal == D!Spec => []DepositsFinal
<1>1. DepositInv => DepositsFinal
  <2> SUFFICES ASSUME DepositInv PROVE DepositsFinal
    OBVIOUS
  <2> USE DEF DepositInv
  <2>1. ASSUME NEW t \in VaultDeposits PROVE times[t] <= 1 + injections[t] + misses + forks
    <3>1. t \in Txs
      BY DepositConstants
    <3>2. Spent(t) <= Allowed(t)
      BY <3>1 DEF Budget
    <3>3. times[t] \in Nat /\ injections[t] \in Nat /\ misses \in Nat /\ forks \in Nat
      BY <3>1 DEF DepositTypes
    <3> QED BY <3>2, <3>3, SpentParts
  <2> QED BY <2>1 DEF DepositsFinal, D!ReportedFinal, Reported
<1> QED BY <1>1, DepositWatcherInvariance, PTL

----------------------------------------------------------------------------
(* Nothing is passed over: what the watcher has not accounted for is after *)
(* its place.  A place is a signature, and its transaction may be nowhere  *)
(* or elsewhere on the chain by the time the watcher is there; the slots   *)
(* say what was after it.                                                  *)

Settled(t) == D!Reported(t) \/ t \in missed \/ deposits[t] # 0
Unsettled(t) == t \in VaultDeposits /\ On(chain, t) /\ ~Settled(t)

\* Transaction t is after the place p, on chain c with slots a.
After(c, a, p, t) == p = NoTx \/ IF On(c, p) THEN Bef(c, p, t) ELSE a[t] >= a[p]

\* Going through the batch as far as entry e does not pass t.
NotPassed(c, a, e, t) ==
  /\ a[t] >= e.slot
  /\ On(c, e.tx) /\ a[e.tx] = e.slot => Bef(c, e.tx, t)
Kept(c, a, b, t) ==
  \A i \in 1..Len(b) : (\E j \in 1..i : b[j].tx = t) \/ NotPassed(c, a, b[i], t)

Awaits(t) ==
  IF mode = "socket" THEN t \in feed
  ELSE /\ After(chain, slotOf, signature, t) /\ After(chain, slotOf, last, t)
       /\ Kept(chain, slotOf, batch, t)

\* The chain is in the order of the slots; a transaction that lost its fork was in
\* an earlier one.
Sorted(c, a) == \A i, j \in 1..Len(c) : i < j => a[c[i]] <= a[c[j]]
Dated(c, a, now) ==
  /\ now \in Nat /\ now >= 1 /\ Sorted(c, a)
  /\ \A t \in Txs : IF On(c, t) THEN 1 <= a[t] /\ a[t] <= now ELSE a[t] < now

\* What the watcher has come across has been on the chain.
Met(a, p, b) ==
  /\ p # NoTx => a[p] >= 1
  /\ \A i \in 1..Len(b) : 1 <= b[i].slot /\ b[i].slot <= a[b[i].tx]

AwaitInv ==
  /\ Dated(chain, slotOf, slot) /\ Met(slotOf, signature, batch)
  /\ \A t \in Txs : Unsettled(t) => Awaits(t)

LEMMA AwaitInit == D!Init => AwaitInv
<1> SUFFICES ASSUME D!Init PROVE AwaitInv
  OBVIOUS
<1> USE DEF D!Init
<1>1. chain = <<>> /\ batch = <<>> /\ signature = NoTx /\ slot = 1
      /\ \A t \in Txs : slotOf[t] = 0
  OBVIOUS
<1>2. \A t : ~On(chain, t)
  BY <1>1 DEF On
<1>3. Sorted(chain, slotOf)
  BY <1>1 DEF Sorted
<1>4. Dated(chain, slotOf, slot)
  BY <1>1, <1>2, <1>3 DEF Dated
<1>5. Met(slotOf, signature, batch)
  BY <1>1 DEF Met
<1> QED BY <1>2, <1>4, <1>5 DEF AwaitInv, Unsettled

\* A step of the watcher that passes nothing: what was settled stays so, and the
\* place stays where it is or is lost.
LEMMA AwaitsStill ==
  ASSUME DepositTypes, AwaitInv, slot' \in Nat, slot' >= slot,
         UNCHANGED <<chain, slotOf, mode, signature>>,
         last' \in {last, signature, NoTx}, batch' \in {batch, <<>>},
         \A t \in Txs : Unsettled(t)' => Unsettled(t) /\ (mode = "socket" => t \in feed')
  PROVE  AwaitInv'
<1>1. slot \in Nat /\ slotOf \in [Txs -> Nat]
  BY DEF DepositTypes
<1>2. Dated(chain, slotOf, slot) /\ Met(slotOf, signature, batch)
      /\ \A t \in Txs : Unsettled(t) => Awaits(t)
  BY DEF AwaitInv
<1>3. Dated(chain, slotOf, slot')
  <2>1. \A t \in Txs : slotOf[t] \in Nat
    BY <1>1
  <2> QED BY <1>1, <1>2, <2>1 DEF Dated
<1>4. Met(slotOf, signature, batch')
  BY <1>2 DEF Met
<1>5. ASSUME NEW t \in Txs, Unsettled(t)' PROVE Awaits(t)'
  <2>1. Unsettled(t) /\ Awaits(t)
    BY <1>2, <1>5
  <2>2. CASE mode = "socket"
    BY <1>5, <2>2 DEF Awaits
  <2>3. CASE mode # "socket"
    <3>1. /\ After(chain, slotOf, signature, t) /\ After(chain, slotOf, last, t)
          /\ Kept(chain, slotOf, batch, t)
      BY <2>1, <2>3 DEF Awaits
    <3>2. After(chain, slotOf, last', t)
      BY <3>1 DEF After
    <3>3. Kept(chain, slotOf, batch', t)
      BY <3>1 DEF Kept
    <3> QED BY <2>3, <3>1, <3>2, <3>3 DEF Awaits
  <2> QED BY <2>2, <2>3
<1> QED BY <1>3, <1>4, <1>5 DEF AwaitInv

\* What is settled stays so while nothing is taken off the pending list.
LEMMA StaysSettled ==
  ASSUME UNCHANGED chain, reports \subseteq reports', missed \subseteq missed',
         \A t \in Txs : deposits[t] # 0 => deposits'[t] # 0,
         NEW t \in Txs, Unsettled(t)'
  PROVE  Unsettled(t)
BY DEF Unsettled, Settled, D!Reported

LEMMA SeedAwaits == DepositInv /\ AwaitInv /\ D!Seed => AwaitInv'
<1> SUFFICES ASSUME DepositInv, AwaitInv, D!Seed PROVE AwaitInv'
  OBVIOUS
<1> USE DEF DepositInv
<1>1. /\ phase = "seeding" /\ mode = "poll"
      /\ last' = IF signature = NoTx /\ chain # <<>> THEN chain[Len(chain)] ELSE signature
      /\ signature' = last'
      /\ IF signature = NoTx THEN D!Lose({t \in Txs : D!OnChain(t)}) ELSE UNCHANGED missed
      /\ UNCHANGED <<slot, chain, slotOf, mode, batch, feed, deposits, reports>>
  BY DEF D!Seed, D!chainVars, D!faultVars
<1>2. batch = <<>> /\ slot \in Nat /\ chain \in Seq(Txs)
  BY <1>1 DEF Places, DepositTypes
<1>3. CASE signature # NoTx
  <2>1. last' = signature /\ signature' = signature /\ UNCHANGED missed
    BY <1>1, <1>3
  <2>2. \A t \in Txs : Unsettled(t)' => Unsettled(t) /\ (mode = "socket" => t \in feed')
    BY <1>1, <2>1, StaysSettled
  <2> QED BY <1>1, <1>2, <2>1, <2>2, AwaitsStill
<1>4. CASE signature = NoTx
  <2>1. missed' = missed \cup {t \in {v \in Txs : D!OnChain(v)} \cap VaultDeposits : ~D!Reported(t)}
    BY <1>1, <1>4 DEF D!Lose
  <2>2. ASSUME NEW t \in Txs PROVE ~Unsettled(t)'
    <3>1. On(chain, t) /\ t \in VaultDeposits => t \in missed' \/ D!Reported(t)
      BY <2>1, OnSame
    <3> QED BY <1>1, <3>1 DEF Unsettled, Settled, D!Reported
  <2>3. Dated(chain, slotOf, slot)
    BY DEF AwaitInv
  <2>4. Met(slotOf, signature', batch)
    <3>1. CASE chain = <<>>
      BY <1>1, <1>2, <1>4, <3>1 DEF Met
    <3>2. CASE chain # <<>>
      <4>1. signature' = chain[Len(chain)] /\ Len(chain) \in 1..Len(chain) /\ signature' \in Txs
        BY <1>1, <1>2, <1>4, <3>2
      <4>2. On(chain, signature')
        BY <4>1 DEF On
      <4>3. slotOf[signature'] >= 1
        BY <2>3, <4>1, <4>2 DEF Dated
      <4> QED BY <1>2, <4>3 DEF Met
    <3> QED BY <3>1, <3>2
  <2> QED BY <1>1, <2>2, <2>3, <2>4 DEF AwaitInv
<1> QED BY <1>3, <1>4

\* Steps that touch neither the chain nor what is settled.
LEMMA IdleAwaits ==
  ASSUME DepositInv, AwaitInv,
         D!SeedFails \/ D!Subscribe \/ D!Restart \/ D!NewSlot \/ UNCHANGED D!vars
           \/ (\E t \in Txs : D!FetchFails(t) \/ D!Check(t))
  PROVE  AwaitInv'
<1> USE DEF DepositInv
<1>1. /\ slot' \in {slot, slot + 1} /\ batch' \in {batch, <<>>}
      /\ UNCHANGED <<chain, slotOf, mode, signature, last, feed, deposits, reports, missed>>
  BY DEF D!SeedFails, D!Subscribe, D!Restart, D!NewSlot, D!FetchFails, D!Check, D!vars,
         D!chainVars, D!pollVars, D!histVars, D!faultVars
<1>2. slot' \in Nat /\ slot' >= slot
  BY <1>1 DEF DepositTypes
<1>3. ASSUME NEW t \in Txs, Unsettled(t)'
      PROVE  Unsettled(t) /\ (mode = "socket" => t \in feed')
  <2>1. Unsettled(t)
    BY <1>1, <1>3, StaysSettled
  <2> QED BY <1>1, <2>1 DEF AwaitInv, Awaits
<1> QED BY <1>1, <1>2, <1>3, AwaitsStill

\* What is noted has landed in a slot, and is pending from then on.
LEMMA NotedSettles ==
  ASSUME DepositTypes, AwaitInv, NEW u \in Txs, D!Noted(u), UNCHANGED chain
  PROVE  /\ \A t \in Txs : deposits[t] # 0 => deposits'[t] # 0
         /\ ~Unsettled(u)'
<1>1. deposits \in [Txs -> Nat] /\ slotOf \in [Txs -> Nat]
  BY DEF DepositTypes
<1>2. deposits' = IF u \in VaultDeposits /\ deposits[u] = 0
                  THEN [deposits EXCEPT ![u] = slotOf[u]] ELSE deposits
  BY DEF D!Noted
<1>3. On(chain, u) => slotOf[u] >= 1
  BY DEF AwaitInv, Dated
<1>4. u \in VaultDeposits /\ On(chain, u) => deposits'[u] # 0
  BY <1>1, <1>2, <1>3
<1>5. \A t \in Txs : deposits[t] # 0 => deposits'[t] # 0
  BY <1>1, <1>2
<1> QED BY <1>4, <1>5 DEF Unsettled, Settled

LEMMA NoteAwaits ==
  ASSUME DepositInv, AwaitInv, NEW u \in Txs, D!Logged(u) \/ D!Inject(u) PROVE AwaitInv'
<1> USE DEF DepositInv
<1>1. /\ D!Noted(u) /\ feed' \in {feed, feed \ {u}}
      /\ UNCHANGED <<slot, chain, slotOf, mode, signature, last, batch, reports, missed>>
  BY DEF D!Logged, D!Inject, D!Noted, D!chainVars, D!pollVars, D!histVars, D!faultVars
<1>2. slot \in Nat
  BY DEF DepositTypes
<1>3. (\A t \in Txs : deposits[t] # 0 => deposits'[t] # 0) /\ ~Unsettled(u)'
  BY <1>1, NotedSettles
<1>4. ASSUME NEW t \in Txs, Unsettled(t)'
      PROVE  Unsettled(t) /\ (mode = "socket" => t \in feed')
  <2>1. Unsettled(t) /\ t # u
    BY <1>1, <1>3, <1>4, StaysSettled
  <2>2. mode = "socket" => t \in feed
    BY <2>1 DEF AwaitInv, Awaits
  <2> QED BY <1>1, <2>1, <2>2
<1> QED BY <1>1, <1>2, <1>4, AwaitsStill

\* What leaves the pending list was reported, or is not on the chain, or is lost.
LEMMA DoneAwaits ==
  ASSUME DepositInv, AwaitInv, NEW u \in Txs, D!Report(u) \/ D!Invalidate(u) PROVE AwaitInv'
<1> USE DEF DepositInv
<1>1. /\ D!Done(u)
      /\ UNCHANGED <<slot, chain, slotOf, mode, signature, last, batch, feed>>
  BY DEF D!Report, D!Invalidate, D!chainVars, D!pollVars
<1>2. slot \in Nat /\ deposits \in [Txs -> Nat]
  BY DEF DepositTypes
<1>3. \A t \in Txs : t # u => deposits'[t] = deposits[t]
  BY <1>1, <1>2 DEF D!Done
<1>4. reports \subseteq reports' /\ missed \subseteq missed'
  BY DEF D!Report, D!Invalidate, D!Lose
<1>5. u \in VaultDeposits /\ On(chain, u) => D!Reported(u)' \/ u \in missed'
  <2>1. CASE D!Report(u)
    <3>1. <<u, deposits[u]>> \in reports'
      BY <2>1 DEF D!Report
    <3>2. D!Reported(u)'
      BY <3>1 DEF D!Reported
    <3> QED BY <3>2
  <2>2. CASE D!Invalidate(u)
    <3>1. /\ UNCHANGED reports
          /\ missed' = missed \cup {t \in {v \in {u} : D!OnChain(v)} \cap VaultDeposits : ~D!Reported(t)}
      BY <2>2 DEF D!Invalidate, D!Lose
    <3>2. u \in VaultDeposits /\ On(chain, u) => u \in missed' \/ D!Reported(u)
      BY <3>1, OnSame
    <3> QED BY <3>1, <3>2 DEF D!Reported
  <2> QED BY <2>1, <2>2
<1>6. ASSUME NEW t \in Txs, Unsettled(t)'
      PROVE  Unsettled(t) /\ (mode = "socket" => t \in feed')
  <2>1. t # u
    BY <1>1, <1>5, <1>6 DEF Unsettled, Settled
  <2>2. Unsettled(t)
    BY <1>1, <1>3, <1>4, <1>6, <2>1 DEF Unsettled, Settled, D!Reported
  <2> QED BY <1>1, <2>2 DEF AwaitInv, Awaits
<1> QED BY <1>1, <1>2, <1>6, AwaitsStill

LEMMA CrashAwaits == DepositInv /\ AwaitInv /\ D!Crash => AwaitInv'
<1> SUFFICES ASSUME DepositInv, AwaitInv, D!Crash PROVE AwaitInv'
  OBVIOUS
<1> USE DEF DepositInv
<1>1. /\ D!Lose({t \in Txs : deposits[t] # 0} \cup feed)
      /\ batch' = <<>> /\ last' = NoTx
      /\ UNCHANGED <<slot, chain, slotOf, mode, signature, reports>>
  BY DEF D!Crash, D!chainVars
<1>2. slot \in Nat
  BY DEF DepositTypes
<1>3. ASSUME NEW t \in Txs, Unsettled(t)'
      PROVE  Unsettled(t) /\ t \notin feed
  <2>1. missed' = missed \cup
          {v \in ({w \in Txs : deposits[w] # 0} \cup feed) \cap VaultDeposits : ~D!Reported(v)}
    BY <1>1 DEF D!Lose
  <2>2. t \in VaultDeposits /\ On(chain, t) /\ ~D!Reported(t) /\ t \notin missed'
    BY <1>1, <1>3 DEF Unsettled, Settled, D!Reported
  <2>3. t \notin missed /\ deposits[t] = 0 /\ t \notin feed
    BY <2>1, <2>2
  <2> QED BY <2>2, <2>3 DEF Unsettled, Settled
<1>4. \A t \in Txs : Unsettled(t) /\ mode = "socket" => t \in feed
  BY DEF AwaitInv, Awaits
<1> QED BY <1>1, <1>2, <1>3, <1>4, AwaitsStill

\* The end of the chain, from after the place on, passes nothing that is behind the
\* place, unless it starts later and so leaves it out.
LEMMA FetchedPassesNone ==
  ASSUME NEW c \in Seq(Txs), Distinct(c), NEW a, Sorted(c, a), \A v \in Txs : a[v] \in Nat,
         NEW b \in Seq(Entries), NEW off \in Nat, Len(b) + off = Len(c),
         \A i \in 1..Len(b) : b[i].tx = c[off + i] /\ b[i].slot = a[c[off + i]],
         NEW k \in 1..Len(c), k > off
  PROVE  Kept(c, a, b, c[k])
<1> SUFFICES ASSUME NEW i \in 1..Len(b), ~(\E j \in 1..i : b[j].tx = c[k])
             PROVE  NotPassed(c, a, b[i], c[k])
  BY DEF Kept
<1>1. Len(b) \in Nat /\ Len(c) \in Nat /\ off + i \in 1..Len(c) /\ k - off \in 1..Len(b)
      /\ off + (k - off) = k
  OBVIOUS
<1>2. b[k - off].tx = c[k] /\ b[i].tx = c[off + i] /\ b[i].slot = a[c[off + i]]
  BY <1>1
<1>3. off + i < k
  BY <1>1, <1>2
<1>4. Bef(c, c[off + i], c[k]) /\ a[c[off + i]] <= a[c[k]]
  BY <1>1, <1>3 DEF Bef, Sorted
<1> QED BY <1>2, <1>4 DEF NotPassed

LEMMA FetchAwaits == DepositInv /\ AwaitInv /\ D!Fetch => AwaitInv'
<1> SUFFICES ASSUME DepositInv, AwaitInv, D!Fetch PROVE AwaitInv'
  OBVIOUS
<1> USE DEF DepositInv
<1> DEFINE found == IF Len(D!Newer) > Limit THEN D!Newest(D!Newer) ELSE D!Newer
           skipped == {D!Newer[i] : i \in 1..(Len(D!Newer) - Len(found))}
<1>1. /\ mode = "poll"
      /\ batch' = [i \in 1..Len(found) |-> [tx |-> found[i], slot |-> slotOf[found[i]]]]
      /\ D!Lose(skipped)
      /\ UNCHANGED <<slot, chain, slotOf, mode, signature, last, deposits, reports>>
  BY DEF D!Fetch, D!chainVars, D!faultVars
<1>2. found \in Seq(Txs)
  BY FoundSuffix
<1>3. PICK off \in Nat : /\ off >= D!Place /\ Len(found) + off = Len(chain)
                         /\ \A i \in 1..Len(found) : found[i] = chain[off + i]
  BY FoundSuffix
<1>4. /\ D!Place \in 0..Len(chain)
      /\ On(chain, last) => D!Place \in 1..Len(chain) /\ chain[D!Place] = last
      /\ ~On(chain, last) => D!Place = 0
  BY PlaceFound, OnSame DEF D!Place
<1>5. /\ chain \in Seq(Txs) /\ Distinct(chain) /\ Len(chain) \in Nat /\ Len(found) \in Nat
      /\ slotOf \in [Txs -> Nat] /\ Dated(chain, slotOf, slot)
  BY <1>2 DEF DepositTypes, Places, AwaitInv
<1>6. /\ Len(D!Newer) = Len(chain) - D!Place
      /\ \A i \in 1..(Len(chain) - D!Place) : D!Newer[i] = chain[D!Place + i]
  <2>1. PICK q \in 0..Len(chain) : q = D!Place
    BY <1>4
  <2> QED BY <1>5, <2>1, SuffixOf DEF D!Newer
<1> HIDE DEF found
<1>7. /\ Len(batch') = Len(found) /\ batch' \in Seq(Entries)
      /\ \A i \in 1..Len(batch') : batch'[i].tx = chain[off + i]
                                   /\ batch'[i].slot = slotOf[chain[off + i]]
  <2>1. Len(batch') = Len(found)
        /\ \A i \in 1..Len(found) : batch'[i] = [tx |-> found[i], slot |-> slotOf[found[i]]]
    BY <1>1, <1>5
  <2>2. ASSUME NEW i \in 1..Len(batch')
        PROVE  batch'[i].tx = chain[off + i] /\ batch'[i].slot = slotOf[chain[off + i]]
    <3>1. batch'[i] = [tx |-> found[i], slot |-> slotOf[found[i]]] /\ found[i] = chain[off + i]
      BY <1>3, <2>1
    <3> QED BY <3>1
  <2>3. batch' \in Seq(Entries)
    <3>1. DepositTypes'
      BY FetchKeeps
    <3> QED BY <3>1 DEF DepositTypes
  <2> QED BY <2>1, <2>2, <2>3
<1>8. Met(slotOf, signature, batch')
  <2>1. Met(slotOf, signature, batch)
    BY DEF AwaitInv
  <2>2. ASSUME NEW i \in 1..Len(batch')
        PROVE  1 <= batch'[i].slot /\ batch'[i].slot <= slotOf[batch'[i].tx]
    <3>1. off + i \in 1..Len(chain)
      BY <1>3, <1>5, <1>7
    <3>2. On(chain, chain[off + i]) /\ chain[off + i] \in Txs
      BY <1>5, <3>1 DEF On
    <3>3. 1 <= slotOf[chain[off + i]] /\ slotOf[chain[off + i]] \in Nat
      BY <1>5, <3>2 DEF Dated
    <3> QED BY <1>7, <3>3
  <2> QED BY <2>1, <2>2 DEF Met
<1>9. ASSUME NEW t \in Txs, Unsettled(t)' PROVE Awaits(t)'
  <2>1. missed' = missed \cup {v \in skipped \cap VaultDeposits : ~D!Reported(v)}
    BY <1>1 DEF D!Lose
  <2>2. Unsettled(t) /\ t \notin skipped
    BY <1>1, <1>9, <2>1 DEF Unsettled, Settled, D!Reported
  <2>3. /\ After(chain, slotOf, signature, t) /\ After(chain, slotOf, last, t)
    BY <1>1, <2>2 DEF AwaitInv, Awaits
  <2>4. PICK k \in 1..Len(chain) : chain[k] = t
    BY <2>2 DEF Unsettled, On
  <2>5. k > D!Place
    <3>1. CASE On(chain, last)
      <4>1. last # NoTx
        BY <1>5, <3>1, NowhereNoTx
      <4>2. Bef(chain, last, t)
        BY <2>3, <3>1, <4>1 DEF After
      <4>3. PICK i \in 1..Len(chain), j \in 1..Len(chain) :
              i < j /\ chain[i] = last /\ chain[j] = t
        BY <4>2 DEF Bef
      <4>4. i = D!Place /\ j = k
        BY <1>4, <1>5, <2>4, <3>1, <4>3 DEF Distinct
      <4> QED BY <4>3, <4>4
    <3>2. CASE ~On(chain, last)
      BY <1>4, <3>2
    <3> QED BY <3>1, <3>2
  <2>6. k > off
    <3> SUFFICES ASSUME k <= off PROVE FALSE
      BY <1>3
    <3>1. k - D!Place \in 1..(Len(D!Newer) - Len(found))
      BY <1>3, <1>4, <1>5, <1>6, <2>5
    <3>2. k - D!Place \in 1..(Len(chain) - D!Place) /\ D!Place + (k - D!Place) = k
      BY <1>4, <1>5, <2>5
    <3>3. D!Newer[k - D!Place] = t
      BY <1>6, <2>4, <3>2
    <3> QED BY <2>2, <3>1, <3>3
  <2>7. Kept(chain, slotOf, batch', t)
    <3>1. PICK b \in Seq(Entries) : b = batch'
      BY <1>7
    <3>2. Sorted(chain, slotOf) /\ \A v \in Txs : slotOf[v] \in Nat
      BY <1>5 DEF Dated
    <3>3. /\ Len(b) + off = Len(chain)
          /\ \A i \in 1..Len(b) : b[i].tx = chain[off + i] /\ b[i].slot = slotOf[chain[off + i]]
      BY <1>3, <1>7, <3>1
    <3>4. Kept(chain, slotOf, b, chain[k])
      BY <1>5, <2>6, <3>2, <3>3, FetchedPassesNone
    <3> QED BY <2>4, <3>1, <3>4
  <2> QED BY <1>1, <2>3, <2>7 DEF Awaits
<1> QED BY <1>1, <1>5, <1>8, <1>9 DEF AwaitInv

\* The poll loop goes past the head of the batch only when that is settled, and so
\* are those that its transaction overtook.
LEMMA HandleAwaits ==
  ASSUME DepositInv, AwaitInv, NEW h \in Txs, D!Handle(h) \/ D!HandleNothing(h)
  PROVE  AwaitInv'
<1> USE DEF DepositInv
<1>1. /\ phase = "running" /\ batch # <<>> /\ h = Head(batch).tx
      /\ last' = h /\ signature' = h /\ batch' = Tail(batch)
      /\ UNCHANGED <<slot, chain, slotOf, mode, feed, reports>>
  BY DEF D!Handle, D!HandleNothing, D!Up, D!AdvanceCursor, D!chainVars, D!faultVars
<1>2. /\ batch \in Seq(Entries) /\ slotOf \in [Txs -> Nat] /\ mode = "poll"
      /\ Dated(chain, slotOf, slot) /\ Met(slotOf, signature, batch)
  BY <1>1 DEF DepositTypes, Places, AwaitInv
<1>3. /\ Head(batch) = batch[1] /\ Len(batch) \in Nat /\ Len(batch) >= 1
      /\ Len(batch') = Len(batch) - 1
      /\ \A i \in 1..Len(batch') : batch'[i] = batch[i + 1] /\ i + 1 \in 1..Len(batch)
  BY <1>1, <1>2, Shifted
<1>4. 1 \in 1..Len(batch) /\ batch[1].tx = h /\ batch[1].slot >= 1 /\ batch[1].slot <= slotOf[h]
  BY <1>1, <1>2, <1>3 DEF Met
<1>5. Met(slotOf, signature', batch')
  <2>1. slotOf[h] >= 1
    <3>1. slotOf[h] \in Nat /\ batch[1] \in Entries
      BY <1>2, <1>4
    <3>2. batch[1].slot \in Nat
      BY <3>1 DEF Entries
    <3> QED BY <1>4, <3>1, <3>2
  <2> QED BY <1>1, <1>2, <1>3, <2>1 DEF Met
<1>6. ASSUME NEW t \in Txs, Unsettled(t)'
      PROVE  Unsettled(t) /\ t # h /\ t \notin D!Overtaken(h, Head(batch).slot)
  <2>1. CASE D!Handle(h)
    <3>1. /\ D!Noted(h)
          /\ missed' = missed \cup {v \in D!Overtaken(h, Head(batch).slot) \cap VaultDeposits :
                                       ~D!Reported(v)}
      BY <2>1 DEF D!Handle, D!Lose
    <3>2. (\A v \in Txs : deposits[v] # 0 => deposits'[v] # 0) /\ ~Unsettled(h)'
      BY <1>1, <3>1, NotedSettles
    <3>3. Unsettled(t)
      BY <1>1, <1>6, <3>1, <3>2, StaysSettled
    <3> QED BY <1>1, <1>6, <3>1, <3>2, <3>3 DEF Unsettled, Settled, D!Reported
  <2>2. CASE D!HandleNothing(h)
    <3>1. /\ UNCHANGED deposits
          /\ missed' = missed \cup
               {v \in ({h} \cup D!Overtaken(h, Head(batch).slot)) \cap VaultDeposits :
                   ~D!Reported(v)}
      BY <2>2 DEF D!HandleNothing, D!Lose
    <3> QED BY <1>1, <1>6, <3>1 DEF Unsettled, Settled, D!Reported
  <2> QED BY <2>1, <2>2
<1>7. ASSUME NEW t \in Txs, Unsettled(t)' PROVE Awaits(t)'
  <2>1. Unsettled(t) /\ t # h /\ t \notin D!Overtaken(h, batch[1].slot)
    BY <1>3, <1>6, <1>7
  <2>2. Kept(chain, slotOf, batch, t)
    BY <1>2, <2>1 DEF AwaitInv, Awaits
  <2>3. NotPassed(chain, slotOf, batch[1], t)
    <3>1. \A j \in 1..1 : j = 1
      OBVIOUS
    <3> QED BY <1>4, <2>1, <2>2, <3>1 DEF Kept
  <2>4. slotOf[h] = batch[1].slot
    <3> SUFFICES ASSUME slotOf[h] # batch[1].slot PROVE FALSE
      OBVIOUS
    <3>1. On(chain, t) /\ slotOf[t] >= batch[1].slot
      BY <2>1, <2>3 DEF Unsettled, NotPassed
    <3>2. t \in D!Overtaken(h, batch[1].slot)
      BY <2>1, <3>1, OnSame DEF D!Overtaken
    <3> QED BY <2>1, <3>2
  <2>5. After(chain, slotOf, h, t)
    BY <1>4, <2>3, <2>4 DEF After, NotPassed
  <2>6. Kept(chain, slotOf, batch', t)
    <3> SUFFICES ASSUME NEW i \in 1..Len(batch'), ~(\E j \in 1..i : batch'[j].tx = t)
                 PROVE  NotPassed(chain, slotOf, batch'[i], t)
      BY DEF Kept
    <3>1. batch'[i] = batch[i + 1] /\ i + 1 \in 1..Len(batch)
      BY <1>3
    <3>2. ASSUME NEW j \in 1..(i + 1), batch[j].tx = t PROVE FALSE
      <4>1. CASE j = 1
        BY <1>4, <2>1, <3>2, <4>1
      <4>2. CASE j # 1
        <5>1. j - 1 \in 1..i /\ (j - 1) + 1 = j
          BY <1>3, <4>2
        <5>2. j - 1 \in 1..Len(batch')
          BY <1>3, <5>1
        <5>3. batch'[j - 1] = batch[j]
          BY <1>3, <5>1, <5>2
        <5> QED BY <3>2, <5>1, <5>3
      <4> QED BY <4>1, <4>2
    <3> QED BY <2>2, <3>1, <3>2 DEF Kept
  <2> QED BY <1>1, <1>2, <2>5, <2>6 DEF Awaits
<1> QED BY <1>1, <1>2, <1>5, <1>7 DEF AwaitInv

\* What comes before a transaction that keeps its fork keeps it too.
LEMMA KeepsOrder ==
  ASSUME NEW c \in Seq(Txs), Distinct(c), NEW k \in 0..Len(c), NEW p, NEW t,
         Bef(c, p, t), On(SubSeq(c, 1, k), t)
  PROVE  Bef(SubSeq(c, 1, k), p, t)
<1> DEFINE d == SubSeq(c, 1, k)
<1>1. Len(d) = k /\ k \in Nat /\ k <= Len(c) /\ \A i \in 1..k : d[i] = c[i]
  OBVIOUS
<1> HIDE DEF d
<1>2. PICK i \in 1..Len(c), j \in 1..Len(c) : i < j /\ c[i] = p /\ c[j] = t
  BY DEF Bef
<1>3. PICK m \in 1..k : d[m] = t
  BY <1>1 DEF On, d
<1>4. m = j
  BY <1>1, <1>2, <1>3 DEF Distinct
<1>5. i \in 1..Len(d) /\ j \in 1..Len(d) /\ d[i] = p /\ d[j] = t
  BY <1>1, <1>2, <1>3, <1>4
<1>6. Bef(d, p, t)
  BY <1>2, <1>5 DEF Bef
<1> QED BY <1>6 DEF d

LEMMA ForkAwaits == DepositInv /\ AwaitInv /\ D!Fork => AwaitInv'
<1> SUFFICES ASSUME DepositInv, AwaitInv, D!Fork PROVE AwaitInv'
  OBVIOUS
<1> USE DEF DepositInv
<1>1. /\ slot' = slot + 1
      /\ UNCHANGED <<slotOf, mode, signature, last, batch, feed, deposits, reports, missed>>
  BY DEF D!Fork, D!pollVars, D!histVars
<1>2. PICK k \in 0..(Len(chain) - 1) : chain' = SubSeq(chain, 1, k)
  BY DEF D!Fork
<1>3. /\ chain \in Seq(Txs) /\ Distinct(chain) /\ slotOf \in [Txs -> Nat] /\ slot \in Nat
      /\ Dated(chain, slotOf, slot) /\ Met(slotOf, signature, batch)
  BY DEF DepositTypes, Places, AwaitInv
<1>4. k \in 0..Len(chain) /\ k \in Nat
  BY <1>3
<1>5. /\ Len(chain') = k /\ \A i \in 1..k : chain'[i] = chain[i] /\ i \in 1..Len(chain)
  BY <1>2, <1>3, <1>4
<1>6. \A t : On(chain', t) => On(chain, t)
  BY <1>5 DEF On
<1>7. \A p, t : On(chain', t) /\ Bef(chain, p, t) => Bef(chain', p, t)
  BY <1>2, <1>3, <1>4, KeepsOrder
<1>8. Dated(chain', slotOf, slot')
  <2>1. Sorted(chain', slotOf)
    BY <1>3, <1>5 DEF Dated, Sorted
  <2>2. ASSUME NEW t \in Txs
        PROVE  IF On(chain', t) THEN 1 <= slotOf[t] /\ slotOf[t] <= slot + 1
               ELSE slotOf[t] < slot + 1
    <3>1. slotOf[t] \in Nat
      BY <1>3
    <3> QED BY <1>3, <1>6, <3>1 DEF Dated
  <2> QED BY <1>1, <1>3, <2>1, <2>2 DEF Dated
<1>9. ASSUME NEW t \in Txs, Unsettled(t)' PROVE Awaits(t)'
  <2>1. On(chain', t) /\ Unsettled(t) /\ Awaits(t)
    BY <1>1, <1>6, <1>9 DEF Unsettled, Settled, D!Reported, AwaitInv
  <2>2. ASSUME NEW p, After(chain, slotOf, p, t) PROVE After(chain', slotOf, p, t)
    <3>1. CASE On(chain, p)
      BY <1>7, <2>1, <2>2, <3>1, BefOn DEF After
    <3>2. CASE ~On(chain, p)
      BY <1>6, <2>2, <3>2 DEF After
    <3> QED BY <3>1, <3>2
  <2>3. Kept(chain, slotOf, batch, t) => Kept(chain', slotOf, batch, t)
    BY <1>6, <1>7, <2>1 DEF Kept, NotPassed
  <2> QED BY <1>1, <2>1, <2>2, <2>3 DEF Awaits
<1> QED BY <1>1, <1>3, <1>8, <1>9 DEF AwaitInv

\* A transaction that lands comes last, except that a place that points to it moves
\* with it past what came after.
LEMMA LandAwaits ==
  ASSUME DepositInv, AwaitInv, NEW u \in Txs, D!Land(u) PROVE AwaitInv'
<1> USE DEF DepositInv
<1>1. /\ ~On(chain, u) /\ chain' = Append(chain, u) /\ slotOf' = [slotOf EXCEPT ![u] = slot]
      /\ feed' = IF phase = "running" /\ mode = "socket" THEN feed \cup {u} ELSE feed
      /\ UNCHANGED <<slot, mode, signature, last, batch, deposits, reports>>
  BY OnSame DEF D!Land, D!Up, D!pollVars, D!faultVars
<1>2. /\ chain \in Seq(Txs) /\ Distinct(chain) /\ slotOf \in [Txs -> Nat] /\ slot \in Nat
      /\ Dated(chain, slotOf, slot) /\ Met(slotOf, signature, batch)
      /\ batch \in Seq(Entries) /\ mode \in {"poll", "socket"}
      /\ signature \in Txs \cup {NoTx} /\ last \in Txs \cup {NoTx}
  BY DEF DepositTypes, Places, AwaitInv
<1>3. /\ \A t : On(chain', t) <=> On(chain, t) \/ t = u
      /\ \A t, v : Bef(chain, t, v) => Bef(chain', t, v)
  BY <1>1, <1>2, Landing
<1>4. \A t : On(chain, t) => Bef(chain', t, u)
  <2>1. /\ Len(chain) \in Nat /\ Len(chain') = Len(chain) + 1 /\ chain'[Len(chain) + 1] = u
        /\ \A i \in 1..Len(chain) : chain'[i] = chain[i]
    BY <1>1, <1>2
  <2>2. ASSUME NEW t, On(chain, t) PROVE Bef(chain', t, u)
    <3>1. PICK i \in 1..Len(chain) : chain[i] = t
      BY <2>2 DEF On
    <3>2. /\ i \in 1..Len(chain') /\ Len(chain) + 1 \in 1..Len(chain') /\ i < Len(chain) + 1
          /\ chain'[i] = t
      BY <2>1, <3>1
    <3> QED BY <2>1, <3>2 DEF Bef
  <2> QED BY <2>2
<1>5. /\ slotOf'[u] = slot /\ slotOf[u] < slot /\ slotOf[u] \in Nat
      /\ \A t \in Txs : t # u => slotOf'[t] = slotOf[t]
      /\ \A t \in Txs : slotOf[t] \in Nat /\ slotOf[t] <= slot /\ slotOf[t] <= slotOf'[t]
  BY <1>1, <1>2 DEF Dated
<1>6. Dated(chain', slotOf', slot)
  <2>1. Sorted(chain', slotOf')
    <3> SUFFICES ASSUME NEW i \in 1..Len(chain'), NEW j \in 1..Len(chain'), i < j
                 PROVE  slotOf'[chain'[i]] <= slotOf'[chain'[j]]
      BY DEF Sorted
    <3>1. /\ Len(chain) \in Nat /\ Len(chain') = Len(chain) + 1 /\ chain'[Len(chain) + 1] = u
          /\ \A m \in 1..Len(chain) : chain'[m] = chain[m] /\ chain[m] \in Txs /\ chain[m] # u
      BY <1>1, <1>2 DEF On
    <3>2. i \in 1..Len(chain)
      BY <3>1
    <3>3. CASE j = Len(chain) + 1
      BY <1>5, <3>1, <3>2, <3>3
    <3>4. CASE j # Len(chain) + 1
      <4>1. j \in 1..Len(chain)
        BY <3>1, <3>4
      <4>2. slotOf[chain[i]] <= slotOf[chain[j]]
        BY <1>2, <3>2, <4>1 DEF Dated, Sorted
      <4> QED BY <1>5, <3>1, <3>2, <4>1, <4>2
    <3> QED BY <3>3, <3>4
  <2>2. ASSUME NEW t \in Txs
        PROVE  IF On(chain', t) THEN 1 <= slotOf'[t] /\ slotOf'[t] <= slot
               ELSE slotOf'[t] < slot
    BY <1>2, <1>3, <1>5 DEF Dated
  <2> QED BY <1>2, <2>1, <2>2 DEF Dated
<1>7. Met(slotOf', signature, batch)
  <2>1. ASSUME signature # NoTx PROVE slotOf'[signature] >= 1
    <3>1. signature \in Txs /\ slotOf[signature] >= 1
      BY <1>2, <2>1 DEF Met
    <3> QED BY <1>1, <1>2, <1>5, <3>1
  <2>2. ASSUME NEW i \in 1..Len(batch)
        PROVE  1 <= batch[i].slot /\ batch[i].slot <= slotOf'[batch[i].tx]
    <3>1. batch[i] \in Entries
      BY <1>2
    <3>2. batch[i].tx \in Txs /\ batch[i].slot \in Nat
      BY <3>1 DEF Entries
    <3>3. 1 <= batch[i].slot /\ batch[i].slot <= slotOf[batch[i].tx]
      BY <1>2 DEF Met
    <3>4. slotOf[batch[i].tx] \in Nat /\ slotOf'[batch[i].tx] \in Nat
      BY <1>1, <1>2, <3>2
    <3> QED BY <1>5, <3>2, <3>3, <3>4
  <2> QED BY <2>1, <2>2 DEF Met
<1>8. ASSUME NEW t \in Txs, Unsettled(t)', mode = "socket" PROVE Awaits(t)'
  <2>1. missed' = missed \cup (IF phase = "running" THEN {} ELSE {u} \cap VaultDeposits)
    BY <1>8 DEF D!Land, D!Up
  <2>2. CASE t = u
    BY <1>1, <1>8, <2>1, <2>2 DEF Awaits, Unsettled, Settled
  <2>3. CASE t # u
    <3>1. Unsettled(t)
      BY <1>1, <1>3, <1>8, <2>1, <2>3 DEF Unsettled, Settled, D!Reported
    <3> QED BY <1>1, <1>8, <3>1 DEF AwaitInv, Awaits
  <2> QED BY <2>2, <2>3
<1>9. ASSUME NEW t \in Txs, Unsettled(t)', mode # "socket" PROVE Awaits(t)'
  <2>1. /\ missed \subseteq missed'
        /\ u \in {last, signature} =>
             {u} \cap VaultDeposits \subseteq missed'
             /\ {v \in VaultDeposits : D!OnChain(v) /\ slotOf[v] >= slotOf[u] /\ ~D!Reported(v)}
                  \subseteq missed'
    BY <1>9 DEF D!Land
  <2>2. t \in VaultDeposits /\ t \notin missed' /\ ~D!Reported(t) /\ deposits[t] = 0
        /\ On(chain', t)
    BY <1>1, <1>9 DEF Unsettled, Settled, D!Reported
  <2>3. CASE t = u
    <3>1. u \notin {last, signature}
      BY <2>1, <2>2, <2>3
    <3>2. ASSUME NEW p \in {signature, last} PROVE After(chain', slotOf', p, t)
      <4>1. CASE p = NoTx
        BY <4>1 DEF After
      <4>2. CASE p # NoTx /\ On(chain, p)
        BY <1>3, <1>4, <2>3, <4>2 DEF After
      <4>3. CASE p # NoTx /\ ~On(chain, p)
        <5>1. p \in Txs /\ p # u /\ ~On(chain', p)
          BY <1>2, <1>3, <3>1, <4>3
        <5>2. slotOf'[t] >= slotOf'[p]
          BY <1>2, <1>5, <2>3, <5>1
        <5> QED BY <5>1, <5>2 DEF After
      <4> QED BY <4>1, <4>2, <4>3
    <3>3. Kept(chain', slotOf', batch, t)
      <4> SUFFICES ASSUME NEW i \in 1..Len(batch), ~(\E j \in 1..i : batch[j].tx = t)
                   PROVE  NotPassed(chain', slotOf', batch[i], t)
        BY DEF Kept
      <4>1. i \in 1..i /\ batch[i] \in Entries
        BY <1>2
      <4>2. batch[i].tx # u /\ batch[i].tx \in Txs /\ batch[i].slot \in Nat
        BY <2>3, <4>1 DEF Entries
      <4>3. batch[i].slot <= slotOf[batch[i].tx]
        BY <1>2 DEF Met
      <4>4. slotOf'[t] >= batch[i].slot
        BY <1>2, <1>5, <2>3, <4>2, <4>3
      <4>5. On(chain', batch[i].tx) => Bef(chain', batch[i].tx, t)
        BY <1>3, <1>4, <2>3, <4>2
      <4> QED BY <4>4, <4>5 DEF NotPassed
    <3> QED BY <1>1, <1>9, <3>2, <3>3 DEF Awaits
  <2>4. CASE t # u
    <3>1. Unsettled(t) /\ slotOf'[t] = slotOf[t] /\ On(chain, t)
      BY <1>3, <1>5, <2>1, <2>2, <2>4 DEF Unsettled, Settled
    <3>2. /\ After(chain, slotOf, signature, t) /\ After(chain, slotOf, last, t)
          /\ Kept(chain, slotOf, batch, t)
      BY <1>9, <3>1 DEF AwaitInv, Awaits
    <3>3. ASSUME NEW p \in {signature, last} PROVE After(chain', slotOf', p, t)
      <4>1. After(chain, slotOf, p, t)
        BY <3>2
      <4>2. CASE p = u
        <5>1. slotOf[t] >= slotOf[u]
          BY <1>1, <1>2, <4>1, <4>2, DepositConstants DEF After
        <5>2. t \in missed'
          BY <2>1, <2>2, <3>1, <4>2, <5>1, OnSame
        <5> QED BY <2>2, <5>2
      <4>3. CASE p = NoTx
        BY <4>3 DEF After
      <4>4. CASE p # u /\ p # NoTx
        <5>1. slotOf'[p] = slotOf[p]
          BY <1>2, <1>5, <4>4
        <5> QED BY <1>3, <3>1, <4>1, <4>4, <5>1 DEF After
      <4> QED BY <4>2, <4>3, <4>4
    <3>4. Kept(chain', slotOf', batch, t)
      <4> SUFFICES ASSUME NEW i \in 1..Len(batch), ~(\E j \in 1..i : batch[j].tx = t)
                   PROVE  NotPassed(chain', slotOf', batch[i], t)
        BY DEF Kept
      <4>1. NotPassed(chain, slotOf, batch[i], t)
        BY <3>2 DEF Kept
      <4>2. batch[i].tx \in Txs /\ batch[i].slot \in Nat /\ batch[i].slot <= slotOf[batch[i].tx]
        <5>1. batch[i] \in Entries
          BY <1>2
        <5> QED BY <1>2, <5>1 DEF Entries, Met
      <4>3. CASE batch[i].tx = u
        <5>1. slotOf'[batch[i].tx] # batch[i].slot
          BY <1>2, <1>5, <4>2, <4>3
        <5> QED BY <3>1, <4>1, <5>1 DEF NotPassed
      <4>4. CASE batch[i].tx # u
        <5>1. slotOf'[batch[i].tx] = slotOf[batch[i].tx]
          BY <1>5, <4>2, <4>4
        <5> QED BY <1>3, <3>1, <4>1, <4>4, <5>1 DEF NotPassed
      <4> QED BY <4>3, <4>4
    <3> QED BY <1>1, <1>9, <3>3, <3>4 DEF Awaits
  <2> QED BY <2>3, <2>4
<1> QED BY <1>1, <1>6, <1>7, <1>8, <1>9 DEF AwaitInv

LEMMA AwaitNext == DepositInv /\ AwaitInv /\ [D!Next]_(D!vars) => AwaitInv'
<1> SUFFICES ASSUME DepositInv, AwaitInv, [D!Next]_(D!vars) PROVE AwaitInv'
  OBVIOUS
<1>1. CASE D!Poll
  BY <1>1, SeedAwaits, IdleAwaits, FetchAwaits, HandleAwaits, NoteAwaits DEF D!Poll
<1>2. CASE D!Finality
  BY <1>2, IdleAwaits, DoneAwaits DEF D!Finality
<1>3. CASE D!Crash \/ D!Restart \/ D!Fork \/ D!NewSlot \/ UNCHANGED D!vars
  BY <1>3, CrashAwaits, IdleAwaits, ForkAwaits
<1>4. CASE \E t \in Txs : D!Land(t) \/ D!Inject(t)
  BY <1>4, LandAwaits, NoteAwaits
<1> QED BY <1>1, <1>2, <1>3, <1>4 DEF D!Next

\* What D!ReportedOrLost rests on: a deposit on the chain is reported, pending, lost
\* in one of the ways the model names, or still to come, on the socket or after
\* both the place of the poll loop and the cursor on disk, however polls, forks,
\* replays, failed requests and restarts interleave.
THEOREM DepositWatcherHidesNothing ==
  D!Spec => [](\A t \in VaultDeposits : D!OnChain(t) => Settled(t) \/ Awaits(t))
<1>1. AwaitInv => \A t \in VaultDeposits : D!OnChain(t) => Settled(t) \/ Awaits(t)
  BY DepositConstants, OnSame DEF AwaitInv, Unsettled
<1> QED BY <1>1, AwaitInit, AwaitNext, DepositWatcherInvariance, PTL DEF D!Spec


----------------------------------------------------------------------------
(* The signing key.  A key that is shown is in a file that can be read, or *)
(* in a backup that can, except while its file is being moved: then what   *)
(* it was encrypted with is about to follow.                               *)

KeyFiles == [key : Nat, enc : Int]
KeyTypes ==
  /\ file \in KeyFiles /\ encFile \in Int /\ backups \subseteq [data : KeyFiles, enc : Int]
  /\ env \in BOOLEAN /\ signer \in Nat /\ announced \subseteq Nat /\ rotated \subseteq Nat
  /\ registered \in [solana : SUBSET Nat, dcc : SUBSET Nat]
  /\ job \in [at : {"idle", "starting", "generating", "moving", "moved", "saved", "solana",
                    "dcc", "removed"},
              key : Nat]
  /\ generated \in Nat /\ toggles \in Nat /\ orphaned \in BOOLEAN

\* The key in the file was never moved away, and no key is zero.
KeysApart ==
  /\ file = K!NoFile \/ file.key \in 1..generated
  /\ \A b \in backups : b.data.key \in 1..generated /\ b.data.key # file.key
  /\ 0 \notin announced

\* What is so while a script or a starting validator is in the middle.
JobStages ==
  /\ job.at \in {"moving", "moved"} => file = K!NoFile
  /\ job.at \in {"starting", "generating"} =>
       /\ file.key = job.key /\ job.key # 0
       /\ file.enc = IF env THEN K!Env ELSE job.key
  /\ job.at \in {"saved", "solana", "dcc"} => job.key \in rotated

KeysKnown == registered.solana \cup registered.dcc \subseteq announced \cup rotated

KeyFollows ==
  ~orphaned /\ job.at = "moving" /\ job.key \in announced =>
    \/ job.key \in rotated
    \/ \E b \in backups : b.data.key = job.key /\ b.data.enc \in {K!Env, encFile}

ShownKept == ~orphaned => \A k \in announced : K!Kept(k)

KeyInv == KeyTypes /\ KeysApart /\ JobStages /\ KeysKnown /\ KeyFollows /\ ShownKept

LEMMA KeyInit == K!Init => KeyInv
<1> SUFFICES ASSUME K!Init PROVE KeyInv
  OBVIOUS
<1> USE DEF K!Init
<1>1. K!NoFile \in KeyFiles /\ K!None \in Int
  BY DEF K!NoFile, K!None, KeyFiles
<1>2. job \in [at : {"idle", "starting", "generating", "moving", "moved", "saved", "solana",
                     "dcc", "removed"}, key : Nat] /\ job.at = "idle"
  BY DEF K!Idle, K!None
<1>3. KeyTypes
  BY <1>1, <1>2 DEF KeyTypes, K!None
<1>4. KeysApart /\ KeysKnown /\ ShownKept
  BY DEF KeysApart, KeysKnown, ShownKept
<1>5. JobStages /\ KeyFollows
  BY <1>2 DEF JobStages, KeyFollows
<1> QED BY <1>3, <1>4, <1>5 DEF KeyInv

\* What can be read stays so unless a file is touched.
LEMMA KeptStays ==
  ASSUME NEW k, K!Kept(k), rotated \subseteq rotated', backups \subseteq backups',
         UNCHANGED <<file, encFile>>, job.at # "moving"
  PROVE  K!Kept(k)'
BY DEF K!Kept

\* A step that leaves the files alone and is not in the middle of a move.
LEMMA FilesLeft ==
  ASSUME KeyInv, KeyTypes', JobStages', KeysKnown',
         UNCHANGED <<file, encFile, backups>>, orphaned' = orphaned,
         rotated \subseteq rotated', generated' >= generated,
         job.at # "moving", job'.at # "moving",
         \A k \in announced' : k \in announced \/ (k # 0 /\ K!Kept(k)')
  PROVE  KeyInv'
<1> USE DEF KeyInv
<1>1. KeysApart'
  <2>1. generated \in Nat /\ generated' \in Nat
    BY DEF KeyTypes
  <2>2. 1..generated \subseteq 1..generated'
    BY <2>1
  <2> QED BY <2>2 DEF KeysApart
<1>2. KeyFollows'
  BY DEF KeyFollows
<1>3. ShownKept'
  BY KeptStays DEF ShownKept
<1> QED BY <1>1, <1>2, <1>3


LEMMA LoadKeeps == KeyInv /\ K!Load => KeyInv'
<1> SUFFICES ASSUME KeyInv, K!Load PROVE KeyInv'
  OBVIOUS
<1> USE DEF KeyInv
<1>1. /\ job = K!Idle /\ file # K!NoFile /\ file.enc = (IF env THEN K!Env ELSE encFile)
      /\ signer' = file.key /\ announced' = announced \cup {file.key}
      /\ UNCHANGED <<file, encFile, backups, env, rotated, registered, job, generated,
                     toggles, orphaned>>
  BY DEF K!Load, K!Decrypts
<1>2. job.at = "idle" /\ file.key \in Nat /\ file.key # 0
  BY <1>1 DEF K!Idle, KeyTypes, KeyFiles, KeysApart
<1>3. KeyTypes'
  BY <1>1, <1>2 DEF KeyTypes
<1>4. JobStages' /\ KeysKnown'
  BY <1>1 DEF JobStages, KeysKnown
<1>5. K!Kept(file.key)'
  BY <1>1 DEF K!Kept
<1>6. \A k \in announced' : k \in announced \/ (k # 0 /\ K!Kept(k)')
  BY <1>1, <1>2, <1>5
<1>7. generated' >= generated
  BY <1>1 DEF KeyTypes
<1> QED BY <1>1, <1>2, <1>3, <1>4, <1>6, <1>7, FilesLeft

\* A key is written to its file, and its encryption key is not yet.
LEMMA SaveKeyKeeps == KeyInv /\ (K!Start \/ K!Generate) => KeyInv'
<1> SUFFICES ASSUME KeyInv, K!Start \/ K!Generate PROVE KeyInv'
  OBVIOUS
<1> USE DEF KeyInv
<1> DEFINE k == generated + 1
<1>1. /\ job.at \in {"idle", "moved"} /\ file = K!NoFile
      /\ generated' = k /\ file' = [key |-> k, enc |-> IF env THEN K!Env ELSE k]
      /\ job' \in {[at |-> "starting", key |-> k], [at |-> "generating", key |-> k]}
      /\ UNCHANGED <<encFile, backups, env, signer, announced, rotated, registered,
                     toggles, orphaned>>
  BY DEF K!Start, K!Generate, K!SaveKey, K!Idle, JobStages
<1>2. generated \in Nat /\ k \in Nat /\ k # 0 /\ k \in 1..k /\ 1..generated \subseteq 1..k
      /\ k \notin 1..generated
  BY DEF KeyTypes
<1>3. K!Env \in Int
  BY DEF K!Env
<1>4. env \in BOOLEAN /\ encFile \in Int
  BY DEF KeyTypes
<1> HIDE DEF k
<1>5. /\ file'.key = k /\ file'.enc = (IF env THEN K!Env ELSE k)
      /\ file' \in KeyFiles
  BY <1>1, <1>2, <1>3, <1>4 DEF KeyFiles
<1>6. job'.key = k /\ job'.at \in {"starting", "generating"}
  BY <1>1
<1>7. KeyTypes'
  <2>1. job' \in [at : {"idle", "starting", "generating", "moving", "moved", "saved", "solana",
                        "dcc", "removed"}, key : Nat]
    BY <1>1, <1>2
  <2> QED BY <1>1, <1>2, <1>5, <2>1 DEF KeyTypes
<1>8. KeysApart'
  BY <1>1, <1>2, <1>5 DEF KeysApart
<1>9. JobStages'
  BY <1>1, <1>2, <1>5, <1>6 DEF JobStages
<1>10. KeysKnown' /\ KeyFollows'
  BY <1>1, <1>6 DEF KeysKnown, KeyFollows
<1>11. ShownKept'
  <2> SUFFICES ASSUME ~orphaned, NEW x \in announced PROVE K!Kept(x)'
    BY <1>1 DEF ShownKept
  <2>1. K!Kept(x) /\ x # 0 /\ file.key = 0
    BY <1>1 DEF ShownKept, KeysApart, K!NoFile, K!None
  <2> QED BY <1>1, <2>1 DEF K!Kept
<1> QED BY <1>7, <1>8, <1>9, <1>10, <1>11

LEMMA SaveEncryptionKeyKeeps == KeyInv /\ K!SaveEncryptionKey => KeyInv'
<1> SUFFICES ASSUME KeyInv, K!SaveEncryptionKey PROVE KeyInv'
  OBVIOUS
<1> USE DEF KeyInv
<1>1. /\ job.at \in {"starting", "generating"}
      /\ encFile' = IF env THEN encFile ELSE file.enc
      /\ announced' = announced \cup {job.key}
      /\ signer' = IF job.at = "starting" THEN job.key ELSE signer
      /\ job' = K!Idle
      /\ UNCHANGED <<file, backups, env, rotated, registered, generated, toggles, orphaned>>
  BY DEF K!SaveEncryptionKey
<1>2. /\ file.key = job.key /\ job.key # 0 /\ file.enc = IF env THEN K!Env ELSE job.key
  BY <1>1 DEF JobStages
<1>3. K!Idle \in [at : {"idle", "starting", "generating", "moving", "moved", "saved", "solana",
                        "dcc", "removed"}, key : Nat] /\ K!Idle.at = "idle"
  BY DEF K!Idle, K!None
<1>4. file.enc \in Int /\ job.key \in Nat
  BY DEF KeyTypes, KeyFiles
<1>5. KeyTypes'
  BY <1>1, <1>3, <1>4 DEF KeyTypes
<1>6. KeysApart' /\ KeysKnown'
  BY <1>1, <1>2 DEF KeysApart, KeysKnown
<1>7. JobStages' /\ KeyFollows'
  BY <1>1, <1>3 DEF JobStages, KeyFollows
<1>8. ShownKept'
  <2> SUFFICES ASSUME ~orphaned, NEW x \in announced' PROVE K!Kept(x)'
    BY <1>1 DEF ShownKept
  <2>1. CASE x = job.key
    <3>1. file'.key = x /\ file'.enc \in {K!Env, encFile'}
      BY <1>1, <1>2, <2>1
    <3> QED BY <3>1 DEF K!Kept
  <2>2. CASE x # job.key
    <3>1. K!Kept(x)
      BY <1>1, <2>2 DEF ShownKept
    <3> QED BY <1>1, <1>2, <2>2, <3>1 DEF K!Kept
  <2> QED BY <2>1, <2>2
<1> QED BY <1>5, <1>6, <1>7, <1>8

LEMMA MoveKeyKeeps == KeyInv /\ K!MoveKey => KeyInv'
<1> SUFFICES ASSUME KeyInv, K!MoveKey PROVE KeyInv'
  OBVIOUS
<1> USE DEF KeyInv
<1> DEFINE new == [data |-> file, enc |-> K!None]
<1>1. /\ job = K!Idle /\ file # K!NoFile /\ backups' = backups \cup {new}
      /\ file' = K!NoFile /\ job' = [at |-> "moving", key |-> file.key]
      /\ UNCHANGED <<encFile, env, signer, announced, rotated, registered, generated,
                     toggles, orphaned>>
  BY DEF K!MoveKey
<1>2. job.at = "idle" /\ K!NoFile \in KeyFiles /\ K!NoFile.key = 0 /\ K!None \in Int
  BY <1>1 DEF K!Idle, K!NoFile, K!None, KeyFiles
<1>3. file \in KeyFiles /\ file.key \in 1..generated /\ file.key \in Nat
  BY <1>1 DEF KeyTypes, KeysApart, KeyFiles
<1>4. new \in [data : KeyFiles, enc : Int] /\ new.data = file
  BY <1>2, <1>3
<1> HIDE DEF new
<1>5. job'.at = "moving" /\ job'.key = file.key
  BY <1>1
<1>6. KeyTypes'
  <2>1. job' \in [at : {"idle", "starting", "generating", "moving", "moved", "saved", "solana",
                        "dcc", "removed"}, key : Nat]
    BY <1>1, <1>3
  <2>2. backups' \subseteq [data : KeyFiles, enc : Int]
    BY <1>1, <1>4 DEF KeyTypes
  <2> QED BY <1>1, <1>2, <2>1, <2>2 DEF KeyTypes
<1>7. KeysApart'
  <2>1. generated \in Nat /\ 0 \notin 1..generated
    BY DEF KeyTypes
  <2> QED BY <1>1, <1>2, <1>3, <1>4, <2>1 DEF KeysApart
<1>8. JobStages' /\ KeysKnown'
  BY <1>1, <1>5 DEF JobStages, KeysKnown
<1>9. KeyFollows'
  <2> SUFFICES ASSUME ~orphaned, file.key \in announced, file.key \notin rotated
               PROVE  \E b \in backups' : b.data.key = file.key /\ b.data.enc \in {K!Env, encFile}
    BY <1>1, <1>5 DEF KeyFollows
  <2>1. K!Kept(file.key)
    BY DEF ShownKept
  <2>2. file.enc \in {K!Env, encFile}
    BY <1>2, <2>1 DEF K!Kept, KeysApart
  <2> QED BY <1>1, <1>4, <2>2
<1>10. ShownKept'
  <2> SUFFICES ASSUME ~orphaned, NEW x \in announced PROVE K!Kept(x)'
    BY <1>1 DEF ShownKept
  <2>1. K!Kept(x)
    BY DEF ShownKept
  <2>2. CASE x = file.key
    BY <1>5, <2>2 DEF K!Kept
  <2>3. CASE x # file.key
    BY <1>1, <1>2, <2>1, <2>3 DEF K!Kept
  <2> QED BY <2>2, <2>3
<1> QED BY <1>6, <1>7, <1>8, <1>9, <1>10


LEMMA MoveEncryptionKeyKeeps == KeyInv /\ K!MoveEncryptionKey => KeyInv'
<1> SUFFICES ASSUME KeyInv, K!MoveEncryptionKey PROVE KeyInv'
  OBVIOUS
<1> USE DEF KeyInv
<1> DEFINE moved(b) == IF b.data.key = job.key THEN [b EXCEPT !.enc = encFile] ELSE b
           Backup == [data : KeyFiles, enc : Int]
<1>1. /\ job.at = "moving" /\ encFile' = K!None /\ job' = [job EXCEPT !.at = "moved"]
      /\ backups' = {moved(b) : b \in backups}
      /\ UNCHANGED <<file, env, signer, announced, rotated, registered, generated,
                     toggles, orphaned>>
  BY DEF K!MoveEncryptionKey
<1>2. job'.at = "moved" /\ job'.key = job.key
      /\ job' \in [at : {"idle", "starting", "generating", "moving", "moved", "saved",
                         "solana", "dcc", "removed"}, key : Nat]
  BY <1>1 DEF KeyTypes
<1>3. ASSUME NEW b \in backups
      PROVE  /\ moved(b) \in Backup /\ moved(b).data = b.data
             /\ moved(b).enc = IF b.data.key = job.key THEN encFile ELSE b.enc
  <2>1. b \in Backup /\ encFile \in Int
    BY DEF KeyTypes
  <2> QED BY <2>1
<1> HIDE DEF moved
<1>4. K!None \in Int
  BY DEF K!None
<1>5. backups' \subseteq Backup
  BY <1>1, <1>3
<1>6. KeyTypes'
  BY <1>1, <1>2, <1>4, <1>5 DEF KeyTypes
<1>7. KeysApart'
  BY <1>1, <1>3 DEF KeysApart
<1>8. JobStages' /\ KeysKnown' /\ KeyFollows'
  BY <1>1, <1>2 DEF JobStages, KeysKnown, KeyFollows
<1>9. ShownKept'
  <2> SUFFICES ASSUME ~orphaned, NEW x \in announced PROVE K!Kept(x)'
    BY <1>1 DEF ShownKept
  <2>1. K!Kept(x) /\ x # 0 /\ file = K!NoFile /\ file.key = 0
    BY <1>1 DEF ShownKept, KeysApart, JobStages, K!NoFile, K!None
  <2>2. CASE x \in rotated
    BY <1>1, <2>2 DEF K!Kept
  <2>3. CASE x = job.key /\ x \notin rotated
    <3>1. PICK b \in backups : b.data.key = x /\ b.data.enc \in {K!Env, encFile}
      BY <1>1, <2>3 DEF KeyFollows
    <3>2. moved(b) \in backups' /\ moved(b).data = b.data /\ moved(b).enc = encFile
      BY <1>1, <1>3, <2>3, <3>1
    <3> QED BY <3>1, <3>2 DEF K!Kept
  <2>4. CASE x # job.key /\ x \notin rotated
    <3>1. PICK b \in backups : b.data.key = x /\ b.data.enc \in {K!Env, b.enc}
      BY <2>1, <2>4 DEF K!Kept
    <3>2. moved(b) \in backups' /\ moved(b).data = b.data /\ moved(b).enc = b.enc
      BY <1>1, <1>3, <2>4, <3>1
    <3> QED BY <3>1, <3>2 DEF K!Kept
  <2> QED BY <2>2, <2>3, <2>4
<1> QED BY <1>6, <1>7, <1>8, <1>9

\* Rotation, registration and removal write no key file.
LEMMA RotateKeeps == KeyInv /\ K!Rotate => KeyInv'
<1> SUFFICES ASSUME KeyInv, K!Rotate PROVE KeyInv'
  OBVIOUS
<1> USE DEF KeyInv
<1>1. /\ job = K!Idle /\ generated' = generated + 1
      /\ rotated' = rotated \cup {generated'} /\ job' = [at |-> "saved", key |-> generated']
      /\ UNCHANGED <<file, encFile, backups, signer, announced, orphaned, env, registered,
                     toggles>>
  BY DEF K!Rotate, K!signerVars
<1>2. job.at = "idle" /\ generated \in Nat /\ generated' \in Nat /\ generated' >= generated
  BY <1>1 DEF K!Idle, KeyTypes
<1>3. job'.at = "saved" /\ job'.key = generated'
      /\ job' \in [at : {"idle", "starting", "generating", "moving", "moved", "saved",
                         "solana", "dcc", "removed"}, key : Nat]
  BY <1>1, <1>2
<1>4. KeyTypes'
  BY <1>1, <1>2, <1>3 DEF KeyTypes
<1>5. JobStages' /\ KeysKnown'
  BY <1>1, <1>3 DEF JobStages, KeysKnown
<1> QED BY <1>1, <1>2, <1>3, <1>4, <1>5, FilesLeft

LEMMA RegisterKeeps ==
  KeyInv /\ (K!RegisterOnSolana \/ K!RegisterOnDcc \/ K!RemoveOnSolana \/ K!RemoveOnDcc)
    => KeyInv'
<1> SUFFICES ASSUME KeyInv,
                    K!RegisterOnSolana \/ K!RegisterOnDcc \/ K!RemoveOnSolana \/ K!RemoveOnDcc
             PROVE  KeyInv'
  OBVIOUS
<1> USE DEF KeyInv
<1> DEFINE stages == {"idle", "starting", "generating", "moving", "moved", "saved",
                      "solana", "dcc", "removed"}
<1>1. UNCHANGED <<file, encFile, backups, signer, announced, orphaned, env, rotated,
                  generated, toggles>>
  BY DEF K!RegisterOnSolana, K!RegisterOnDcc, K!RemoveOnSolana, K!RemoveOnDcc, K!signerVars
<1>2. /\ registered \in [solana : SUBSET Nat, dcc : SUBSET Nat]
      /\ job \in [at : stages, key : Nat] /\ announced \subseteq Nat /\ rotated \subseteq Nat
  BY DEF KeyTypes
<1>3. K!Idle \in [at : stages, key : Nat] /\ K!Idle.at = "idle"
  BY DEF K!Idle, K!None
<1>4. /\ job' \in [at : stages, key : Nat]
      /\ job.at # "moving" /\ job'.at \in {"idle", "solana", "dcc", "removed"}
      /\ job'.at \in {"solana", "dcc"} => job'.key \in rotated
      /\ registered' \in [solana : SUBSET Nat, dcc : SUBSET Nat]
      /\ registered'.solana \cup registered'.dcc \subseteq announced \cup rotated
  <2>1. CASE K!RegisterOnSolana
    <3>1. CASE job.at = "saved"
      <4>1. job.key \in rotated /\ job.key \in Nat
        BY <1>2, <3>1 DEF JobStages
      <4>2. registered' = [registered EXCEPT !.solana = @ \cup {job.key}]
            /\ job' = [job EXCEPT !.at = "solana"]
        BY <2>1, <3>1, <1>3 DEF K!RegisterOnSolana
      <4> QED BY <1>2, <3>1, <4>1, <4>2 DEF KeysKnown
    <3>2. CASE job.at # "saved"
      <4>1. job = K!Idle /\ job' = job
            /\ \E k \in announced : registered' = [registered EXCEPT !.solana = @ \cup {k}]
        BY <2>1, <3>2 DEF K!RegisterOnSolana
      <4> QED BY <1>2, <1>3, <4>1 DEF KeysKnown
    <3> QED BY <3>1, <3>2
  <2>2. CASE K!RegisterOnDcc
    <3>1. /\ job.at = "solana"
          /\ registered' \in {registered, [registered EXCEPT !.dcc = @ \cup {job.key}]}
          /\ job' \in {K!Idle, [job EXCEPT !.at = "dcc"]}
      BY <2>2 DEF K!RegisterOnDcc
    <3>2. job.key \in rotated /\ job.key \in Nat
      BY <1>2, <3>1 DEF JobStages
    <3>3. /\ registered' \in [solana : SUBSET Nat, dcc : SUBSET Nat]
          /\ registered'.solana \cup registered'.dcc \subseteq announced \cup rotated
      BY <1>2, <3>1, <3>2 DEF KeysKnown
    <3>4. job' \in [at : stages, key : Nat] /\ job'.at \in {"idle", "dcc"}
          /\ (job'.at = "dcc" => job'.key = job.key)
      BY <1>2, <1>3, <3>1
    <3> QED BY <3>1, <3>2, <3>3, <3>4
  <2>3. CASE K!RemoveOnSolana
    <3>1. PICK old \in registered.solana \ {job.key} :
            /\ registered' = [registered EXCEPT !.solana = @ \ {old}]
            /\ job' = [at |-> "removed", key |-> old]
      BY <2>3 DEF K!RemoveOnSolana
    <3>2. job.at = "dcc" /\ old \in Nat
      BY <1>2, <2>3 DEF K!RemoveOnSolana
    <3> QED BY <1>2, <3>1, <3>2 DEF KeysKnown
  <2>4. CASE K!RemoveOnDcc
    <3>1. /\ job.at = "removed" /\ job' = K!Idle
          /\ registered' \in {registered, [registered EXCEPT !.dcc = @ \ {job.key}]}
      BY <2>4 DEF K!RemoveOnDcc
    <3> QED BY <1>2, <1>3, <3>1 DEF KeysKnown
  <2> QED BY <2>1, <2>2, <2>3, <2>4
<1>5. KeyTypes'
  BY <1>1, <1>4 DEF KeyTypes
<1>6. JobStages' /\ KeysKnown'
  BY <1>1, <1>4 DEF JobStages, KeysKnown
<1>7. generated' >= generated /\ job'.at # "moving"
  BY <1>1, <1>4 DEF KeyTypes
<1> QED BY <1>1, <1>4, <1>5, <1>6, <1>7, FilesLeft

\* A kill ends what was in the middle; between the two renames, it is recorded.
LEMMA KillKeeps == KeyInv /\ K!Kill => KeyInv'
<1> SUFFICES ASSUME KeyInv, K!Kill PROVE KeyInv'
  OBVIOUS
<1> USE DEF KeyInv
<1>1. /\ toggles' = toggles + 1 /\ job' = K!Idle /\ signer' \in {signer, K!None}
      /\ orphaned' = (orphaned \/ job.at = "moving")
      /\ UNCHANGED <<file, encFile, backups, env, announced, rotated, registered, generated>>
  BY DEF K!Kill
<1>2. K!Idle \in [at : {"idle", "starting", "generating", "moving", "moved", "saved", "solana",
                        "dcc", "removed"}, key : Nat] /\ K!Idle.at = "idle" /\ K!None \in Nat
  BY DEF K!Idle, K!None
<1>3. toggles' \in Nat /\ orphaned' \in BOOLEAN /\ signer' \in Nat
  BY <1>1, <1>2 DEF KeyTypes
<1>4. KeyTypes'
  BY <1>1, <1>2, <1>3 DEF KeyTypes
<1>5. KeysApart' /\ KeysKnown'
  BY <1>1 DEF KeysApart, KeysKnown
<1>6. JobStages' /\ KeyFollows'
  BY <1>1, <1>2 DEF JobStages, KeyFollows
<1>7. ShownKept'
  <2> SUFFICES ASSUME ~orphaned', NEW x \in announced PROVE K!Kept(x)'
    BY <1>1 DEF ShownKept
  <2>1. ~orphaned /\ job.at # "moving"
    BY <1>1
  <2> QED BY <1>1, <2>1, KeptStays DEF ShownKept
<1> QED BY <1>4, <1>5, <1>6, <1>7

LEMMA SetEnvKeeps == KeyInv /\ K!SetEnv => KeyInv'
<1> SUFFICES ASSUME KeyInv, K!SetEnv PROVE KeyInv'
  OBVIOUS
<1> USE DEF KeyInv
<1>1. /\ job = K!Idle /\ toggles' = toggles + 1 /\ env' = ~env
      /\ UNCHANGED <<file, encFile, backups, signer, announced, orphaned, rotated, registered,
                     job, generated>>
  BY DEF K!SetEnv, K!signerVars
<1>2. job.at = "idle" /\ generated' >= generated
  BY <1>1 DEF K!Idle, KeyTypes
<1>3. KeyTypes'
  BY <1>1 DEF KeyTypes
<1>4. JobStages' /\ KeysKnown'
  BY <1>1, <1>2 DEF JobStages, KeysKnown
<1> QED BY <1>1, <1>2, <1>3, <1>4, FilesLeft

LEMMA KeyNext == KeyInv /\ [K!Next]_(K!vars) => KeyInv'
<1> SUFFICES ASSUME KeyInv, [K!Next]_(K!vars) PROVE KeyInv'
  OBVIOUS
<1>1. CASE UNCHANGED K!vars
  BY <1>1 DEF K!vars, KeyInv, KeyTypes, KeysApart, JobStages, KeysKnown, KeyFollows,
              ShownKept, K!Kept
<1>2. CASE K!Next
  BY <1>2, LoadKeeps, SaveKeyKeeps, SaveEncryptionKeyKeeps, MoveKeyKeeps,
     MoveEncryptionKeyKeeps, RotateKeeps, RegisterKeeps, KillKeeps, SetEnvKeeps DEF K!Next
<1> QED BY <1>1, <1>2

\* However generations, forced or not, rotations, registrations, restarts, kills and
\* changes of the environment follow each other, and however many there are, no key
\* that was shown or registered is lost, but for a kill between the two renames.
THEOREM NoKeyLost == K!Spec => []KeysKept
<1>1. KeyInv => KeysKept
  BY DEF KeyInv, KeysKept, K!KeysKept, KeysKnown, ShownKept, K!Kept
<1> QED BY <1>1, KeyInit, KeyNext, PTL DEF K!Spec


----------------------------------------------------------------------------
(* The Telegram bot.  A poll that has recorded a transaction and not yet   *)
(* started its relay is the only one that will.                            *)

Telling(p) == polls[p].at \in {"spl-told", "sol-told", "burn-told"}
Subject(p) == Head(polls[p].list)
Shaped(r) == DOMAIN r = {"at", "list", "since"}

BotTypes ==
  /\ polls = [p \in Polls |-> polls[p]] /\ \A p \in Polls : Shaped(polls[p])
  /\ started \in [R!Items -> Nat] /\ statuses \in [R!Items -> R!Statuses]
  /\ relays \in [R!Items -> [at : {"idle", "trying", "waiting"}, tries : Nat]]

\* Who tells of a transaction has recorded it, nobody else does, and it has not
\* been relayed yet.
OneTells ==
  \A p \in Polls : Telling(p) =>
    /\ Subject(p) \in recorded
    /\ Subject(p) \in R!Items => started[Subject(p)] = 0
    /\ \A q \in Polls : Telling(q) /\ Subject(q) = Subject(p) => q = p

StartedRecorded ==
  \A x \in R!Items : started[x] <= 1 /\ (started[x] # 0 => x \in recorded)

ShownMinted ==
  \A x \in R!Items :
    statuses[x] \in {"dcc_minted", "complete"} \/ relays[x].at = "waiting" => x \in relayed

BotInv == BotTypes /\ OneTells /\ StartedRecorded /\ ShownMinted

LEMMA BotInit == R!Init => BotInv
<1> SUFFICES ASSUME R!Init PROVE BotInv
  OBVIOUS
<1> USE DEF R!Init
<1>1. Shaped(R!NoPoll) /\ R!NoPoll.at = "idle"
  BY DEF Shaped, R!NoPoll
<1>2. \A p \in Polls : polls[p] = R!NoPoll
  OBVIOUS
<1>3. R!NoRelay \in [at : {"idle", "trying", "waiting"}, tries : Nat]
      /\ R!NoRelay.at = "idle"
  BY DEF R!NoRelay
<1>4. polls = [p \in Polls |-> polls[p]]
  BY Zenon
<1>5. BotTypes
  BY <1>1, <1>2, <1>3, <1>4 DEF BotTypes, R!Statuses
<1>6. OneTells
  BY <1>1, <1>2 DEF OneTells, Telling
<1>7. StartedRecorded /\ ShownMinted
  BY <1>3 DEF StartedRecorded, ShownMinted
<1> QED BY <1>5, <1>6, <1>7 DEF BotInv

\* A step of a poll that tells of nothing new.
LEMMA PollsQuiet ==
  ASSUME BotInv, NEW p \in Polls, NEW poll, polls' = [polls EXCEPT ![p] = poll],
         Shaped(poll), poll.at \notin {"spl-told", "sol-told", "burn-told"},
         UNCHANGED <<recorded, statuses, relays, started, relayed>>
  PROVE  BotInv'
<1> USE DEF BotInv
<1>1. polls' = [q \in Polls |-> IF q = p THEN poll ELSE polls[q]]
  BY DEF BotTypes
<1>2. polls'[p] = poll /\ \A q \in Polls : q # p => polls'[q] = polls[q]
  BY <1>1
<1>3. polls' = [q \in Polls |-> polls'[q]]
  BY <1>1
<1>4. BotTypes'
  BY <1>2, <1>3 DEF BotTypes
<1>5. OneTells'
  BY <1>2 DEF OneTells, Telling, Subject
<1>6. StartedRecorded' /\ ShownMinted'
  BY DEF StartedRecorded, ShownMinted
<1> QED BY <1>4, <1>5, <1>6

LEMMA BeginKeeps ==
  ASSUME BotInv, NEW p \in Polls, NEW c \in {"solana", "dcc"}, R!Begin(p, c) PROVE BotInv'
<1> DEFINE poll == [at |-> IF c = "dcc" THEN "burns" ELSE "spl", list |-> <<>>,
                    since |-> scanned[c]]
<1>1. polls' = [polls EXCEPT ![p] = poll]
      /\ UNCHANGED <<recorded, statuses, relays, started, relayed>>
  BY DEF R!Begin, R!Poll, R!dbVars
<1>2. Shaped(poll) /\ poll.at \notin {"spl-told", "sol-told", "burn-told"}
  BY DEF Shaped
<1> HIDE DEF poll
<1> QED BY <1>1, <1>2, PollsQuiet

LEMMA ScanKeeps ==
  ASSUME BotInv, NEW p \in Polls, R!Scan(p) PROVE BotInv'
<1>0. PICK stage \in {"spl-list", "sol-list", "burn-list"} : \E list :
        polls' = [polls EXCEPT ![p] = [polls[p] EXCEPT !.at = stage, !.list = list]]
  BY DEF R!Scan, R!Poll, R!At
<1>1. PICK list :
        polls' = [polls EXCEPT ![p] = [polls[p] EXCEPT !.at = stage, !.list = list]]
  BY <1>0
<1>2. UNCHANGED <<recorded, statuses, relays, started, relayed>>
  BY DEF R!Scan, R!dbVars
<1> DEFINE poll == [polls[p] EXCEPT !.at = stage, !.list = list]
<1>3. Shaped(polls[p])
  BY DEF BotInv, BotTypes
<1>4. Shaped(poll) /\ poll.at = stage
  BY <1>3 DEF Shaped
<1>5. polls' = [polls EXCEPT ![p] = poll]
  BY <1>1
<1> HIDE DEF poll
<1> QED BY <1>2, <1>4, <1>5, PollsQuiet

LEMMA ExhaustedKeeps ==
  ASSUME BotInv, NEW p \in Polls, R!Exhausted(p) PROVE BotInv'
<1>1. UNCHANGED <<recorded, statuses, relays, started, relayed>>
  BY DEF R!Exhausted, R!dbVars
<1> DEFINE next == [polls[p] EXCEPT !.at = "sol"]
           poll == IF R!At(p, "spl-list") THEN next ELSE R!NoPoll
<1>2. polls' = [polls EXCEPT ![p] = poll]
  BY DEF R!Exhausted, R!Poll
<1>3. Shaped(next) /\ next.at = "sol"
  <2>1. Shaped(polls[p])
    BY DEF BotInv, BotTypes
  <2> QED BY <2>1 DEF Shaped
<1>4. Shaped(R!NoPoll) /\ R!NoPoll.at = "idle"
  BY DEF R!NoPoll, Shaped
<1> HIDE DEF next
<1>5. Shaped(poll) /\ poll.at \notin {"spl-told", "sol-told", "burn-told"}
  BY <1>3, <1>4
<1> HIDE DEF poll
<1> QED BY <1>1, <1>2, <1>5, PollsQuiet

\* What is known already is passed over; the rest is recorded before it is told.
LEMMA RecordKeeps ==
  ASSUME BotInv, NEW p \in Polls, R!Record(p) PROVE BotInv'
<1> USE DEF BotInv
<1> DEFINE x == Head(polls[p].list)
<1>1. /\ polls[p].at \in {"spl-list", "sol-list", "burn-list"}
      /\ UNCHANGED <<relays, started, relayed>>
  BY DEF R!Record, R!Listing
<1>2. Shaped(polls[p])
  BY DEF BotTypes
<1>3. CASE polls' = [polls EXCEPT ![p] = R!Advanced(p)] /\ UNCHANGED <<recorded, statuses>>
  <2> DEFINE poll == R!Advanced(p)
  <2>1. Shaped(poll) /\ poll.at = polls[p].at
    BY <1>2 DEF R!Advanced, Shaped
  <2> HIDE DEF poll
  <2>2. poll.at \notin {"spl-told", "sol-told", "burn-told"}
    BY <1>1, <2>1
  <2>3. polls' = [polls EXCEPT ![p] = poll]
    BY <1>3 DEF poll
  <2> QED BY <1>1, <1>3, <2>1, <2>2, <2>3, PollsQuiet
<1>4. CASE ~(polls' = [polls EXCEPT ![p] = R!Advanced(p)] /\ UNCHANGED <<recorded, statuses>>)
  <2>1. /\ x \notin recorded /\ recorded' = recorded \cup {x}
        /\ statuses' = [statuses EXCEPT ![x] = "pending"]
        /\ \E stage \in {"spl-told", "sol-told", "burn-told"} :
              polls' = [polls EXCEPT ![p] = [polls[p] EXCEPT !.at = stage]]
    BY <1>1, <1>4 DEF R!Record, R!Poll, R!Row, R!At
  <2>2. PICK stage \in {"spl-told", "sol-told", "burn-told"} :
              polls' = [polls EXCEPT ![p] = [polls[p] EXCEPT !.at = stage]]
    BY <2>1
  <2> DEFINE poll == [polls[p] EXCEPT !.at = stage]
  <2>3. Shaped(poll) /\ poll.at = stage /\ poll.list = polls[p].list
    BY <1>2 DEF Shaped
  <2>4. polls' = [q \in Polls |-> IF q = p THEN poll ELSE polls[q]]
    BY <2>2 DEF BotTypes
  <2> HIDE DEF poll
  <2>5. polls'[p] = poll /\ (\A q \in Polls : q # p => polls'[q] = polls[q])
        /\ polls' = [q \in Polls |-> polls'[q]]
    BY <2>4
  <2>6. statuses \in [R!Items -> R!Statuses] /\ started \in [R!Items -> Nat]
    BY DEF BotTypes
  <2>7. statuses' \in [R!Items -> R!Statuses]
        /\ \A y \in R!Items : statuses'[y] \in {statuses[y], "pending"}
    BY <2>1, <2>6 DEF R!Statuses
  <2>8. BotTypes'
    BY <1>1, <2>3, <2>5, <2>7 DEF BotTypes
  <2>9. x \in R!Items => started[x] = 0
    BY <2>1, <2>6 DEF StartedRecorded
  <2>10. OneTells'
    <3>1. ASSUME NEW q \in Polls, Telling(q)', q # p
          PROVE  Telling(q) /\ Subject(q)' = Subject(q) /\ Subject(q) \in recorded
                 /\ Subject(q) # x
      BY <2>1, <2>5, <3>1 DEF OneTells, Telling, Subject
    <3>2. Subject(p)' = x
      BY <2>3, <2>5 DEF Subject
    <3> SUFFICES ASSUME NEW q \in Polls, Telling(q)'
                 PROVE  /\ Subject(q)' \in recorded'
                        /\ Subject(q)' \in R!Items => started'[Subject(q)'] = 0
                        /\ \A r \in Polls : Telling(r)' /\ Subject(r)' = Subject(q)' => r = q
      BY DEF OneTells
    <3>3. CASE q = p
      BY <1>1, <2>1, <2>9, <3>1, <3>2, <3>3
    <3>4. CASE q # p
      <4>1. Telling(q) /\ Subject(q)' = Subject(q) /\ Subject(q) \in recorded
            /\ Subject(q) # x
        BY <3>1, <3>4
      <4>2. ASSUME NEW r \in Polls, Telling(r)', Subject(r)' = Subject(q)' PROVE r = q
        <5>1. r # p
          BY <3>2, <4>1, <4>2
        <5>2. Telling(r) /\ Subject(r)' = Subject(r)
          BY <3>1, <4>2, <5>1
        <5> QED BY <4>1, <4>2, <5>2 DEF OneTells
      <4>3. Subject(q) \in R!Items => started[Subject(q)] = 0
        BY <4>1 DEF OneTells
      <4> QED BY <1>1, <2>1, <4>1, <4>2, <4>3
    <3> QED BY <3>3, <3>4
  <2>11. StartedRecorded'
    BY <1>1, <2>1 DEF StartedRecorded
  <2>12. ShownMinted'
    BY <1>1, <2>7 DEF ShownMinted
  <2> QED BY <2>8, <2>10, <2>11, <2>12
<1> QED BY <1>3, <1>4


\* A relay is started once: whoever tells of its transaction is alone.
LEMMA StartKeeps ==
  ASSUME BotInv, NEW p \in Polls, R!Start(p) PROVE BotInv'
<1> USE DEF BotInv
<1> DEFINE x == Head(polls[p].list)
           fresh == [R!NoRelay EXCEPT !.at = "trying"]
<1>1. /\ polls[p].at \in {"spl-told", "sol-told", "burn-told"}
      /\ started' = [started EXCEPT ![x] = @ + 1]
      /\ relays' = [relays EXCEPT ![x] = fresh]
      /\ statuses' = [statuses EXCEPT ![x] = IF x \in Withdrawals THEN "pending"
                                             ELSE "sol_confirmed"]
      /\ UNCHANGED <<relayed, recorded>>
  BY DEF R!Start, R!Relay, R!Row
<1>2. PICK stage \in {"spl-list", "sol-list", "burn-list"} :
        polls' = [polls EXCEPT ![p] = [R!Advanced(p) EXCEPT !.at = stage]]
  BY <1>1 DEF R!Start, R!Poll, R!At
<1> DEFINE poll == [R!Advanced(p) EXCEPT !.at = stage]
<1>3. Shaped(polls[p])
  BY DEF BotTypes
<1>4. Shaped(poll) /\ poll.at = stage
  BY <1>3 DEF Shaped, R!Advanced
<1>5. polls' = [q \in Polls |-> IF q = p THEN poll ELSE polls[q]]
  BY <1>2 DEF BotTypes
<1> HIDE DEF poll
<1>6. polls'[p] = poll /\ (\A q \in Polls : q # p => polls'[q] = polls[q])
      /\ polls' = [q \in Polls |-> polls'[q]]
  BY <1>5
<1>7. /\ Telling(p) /\ Subject(p) = x /\ x \in recorded
      /\ x \in R!Items => started[x] = 0
      /\ \A q \in Polls : Telling(q) /\ Subject(q) = x => q = p
  BY <1>1 DEF OneTells, Telling, Subject
<1>8. fresh \in [at : {"idle", "trying", "waiting"}, tries : Nat] /\ fresh.at = "trying"
  BY DEF R!NoRelay
<1> HIDE DEF fresh, x
<1>9. /\ started \in [R!Items -> Nat] /\ statuses \in [R!Items -> R!Statuses]
      /\ relays \in [R!Items -> [at : {"idle", "trying", "waiting"}, tries : Nat]]
  BY DEF BotTypes
<1>10. /\ started' \in [R!Items -> Nat]
       /\ \A y \in R!Items : started'[y] = IF y = x THEN started[y] + 1 ELSE started[y]
  <2>1. \A y \in R!Items : started[y] \in Nat
    BY <1>9
  <2>2. started' = [y \in R!Items |-> IF y = x THEN started[x] + 1 ELSE started[y]]
    BY <1>1, <1>9
  <2>3. \A y \in R!Items : started'[y] = IF y = x THEN started[y] + 1 ELSE started[y]
    BY <2>2
  <2>4. \A y \in R!Items : started'[y] \in Nat
    BY <2>1, <2>3
  <2> QED BY <2>2, <2>3, <2>4
<1>11. /\ statuses' \in [R!Items -> R!Statuses]
       /\ \A y \in R!Items : statuses'[y] \in {statuses[y], "pending", "sol_confirmed"}
  BY <1>1, <1>9 DEF R!Statuses
<1>12. /\ relays' \in [R!Items -> [at : {"idle", "trying", "waiting"}, tries : Nat]]
       /\ \A y \in R!Items : relays'[y] \in {relays[y], fresh}
  BY <1>1, <1>8, <1>9
<1>13. BotTypes'
  BY <1>4, <1>6, <1>10, <1>11, <1>12 DEF BotTypes
<1>14. OneTells'
  <2>1. ASSUME NEW q \in Polls, Telling(q)'
        PROVE  /\ q # p /\ Telling(q) /\ Subject(q)' = Subject(q) /\ Subject(q) # x
    BY <1>4, <1>6, <1>7, <2>1 DEF Telling, Subject
  <2> SUFFICES ASSUME NEW q \in Polls, Telling(q)'
               PROVE  /\ Subject(q)' \in recorded'
                      /\ Subject(q)' \in R!Items => started'[Subject(q)'] = 0
                      /\ \A r \in Polls : Telling(r)' /\ Subject(r)' = Subject(q)' => r = q
    BY DEF OneTells
  <2>2. /\ Telling(q) /\ Subject(q)' = Subject(q) /\ Subject(q) # x
    BY <2>1
  <2>3. /\ Subject(q) \in recorded
        /\ Subject(q) \in R!Items => started[Subject(q)] = 0
    BY <2>2 DEF OneTells
  <2>4. ASSUME NEW r \in Polls, Telling(r)', Subject(r)' = Subject(q)' PROVE r = q
    <3>1. Telling(r) /\ Subject(r)' = Subject(r)
      BY <2>1, <2>4
    <3> QED BY <2>2, <2>4, <3>1 DEF OneTells
  <2> QED BY <1>1, <1>10, <2>2, <2>3, <2>4
<1>15. StartedRecorded'
  BY <1>1, <1>7, <1>10 DEF StartedRecorded
<1>16. ShownMinted'
  BY <1>1, <1>8, <1>11, <1>12 DEF ShownMinted
<1> QED BY <1>13, <1>14, <1>15, <1>16

\* A step of a relay: what it shows as minted is.
LEMMA RelaySteps ==
  ASSUME BotInv, NEW x \in R!Items, relayed \subseteq relayed',
         NEW row, NEW relay,
         statuses' = [statuses EXCEPT ![x] = row] \/ UNCHANGED statuses,
         relays' = [relays EXCEPT ![x] = relay],
         row \in R!Statuses, relay \in [at : {"idle", "trying", "waiting"}, tries : Nat],
         row \in {"dcc_minted", "complete"} \/ relay.at = "waiting" => x \in relayed',
         UNCHANGED <<polls, recorded, started>>
  PROVE  BotInv'
<1> USE DEF BotInv
<1>1. /\ statuses \in [R!Items -> R!Statuses]
      /\ relays \in [R!Items -> [at : {"idle", "trying", "waiting"}, tries : Nat]]
  BY DEF BotTypes
<1>2. /\ statuses' \in [R!Items -> R!Statuses]
      /\ \A y \in R!Items : y # x => statuses'[y] = statuses[y]
      /\ statuses'[x] \in {statuses[x], row}
  BY <1>1
<1>3. /\ relays' \in [R!Items -> [at : {"idle", "trying", "waiting"}, tries : Nat]]
      /\ relays'[x] = relay /\ \A y \in R!Items : y # x => relays'[y] = relays[y]
  BY <1>1
<1>4. BotTypes'
  BY <1>2, <1>3 DEF BotTypes
<1>5. OneTells' /\ StartedRecorded'
  BY DEF OneTells, StartedRecorded, Telling, Subject
<1>6. ShownMinted'
  BY <1>2, <1>3 DEF ShownMinted
<1> QED BY <1>4, <1>5, <1>6

LEMMA RelayShapes ==
  ASSUME BotInv, NEW x \in R!Items
  PROVE  /\ R!NoRelay \in [at : {"idle", "trying", "waiting"}, tries : Nat]
         /\ R!NoRelay.at = "idle"
         /\ relays[x] \in [at : {"idle", "trying", "waiting"}, tries : Nat]
BY DEF BotInv, BotTypes, R!NoRelay

LEMMA MintKeeps ==
  ASSUME BotInv, NEW x \in R!Items, R!Mint(x) PROVE BotInv'
<1> DEFINE relay == [relays[x] EXCEPT !.at = "waiting"]
<1>1. /\ relayed' = relayed \cup {x} /\ statuses' = [statuses EXCEPT ![x] = "dcc_minted"]
      /\ relays' = [relays EXCEPT ![x] = relay] /\ UNCHANGED <<polls, recorded, started>>
  BY DEF R!Mint, R!Row, R!Relay
<1>2. relay \in [at : {"idle", "trying", "waiting"}, tries : Nat]
  BY RelayShapes
<1>3. "dcc_minted" \in R!Statuses
  BY DEF R!Statuses
<1> HIDE DEF relay
<1> QED BY <1>1, <1>2, <1>3, RelaySteps

LEMMA FailedKeeps ==
  ASSUME BotInv, NEW x \in R!Items, R!Failed(x), relays[x].at = "trying",
         relayed \subseteq relayed', UNCHANGED <<polls, recorded, started>>
  PROVE  BotInv'
<1>1. "failed" \in R!Statuses
  BY DEF R!Statuses
<1>2. CASE relays[x].tries + 1 < Retries
  <2> DEFINE relay == [relays[x] EXCEPT !.tries = @ + 1]
  <2>1. UNCHANGED statuses /\ relays' = [relays EXCEPT ![x] = relay]
    BY <1>2 DEF R!Failed, R!Relay
  <2>2. relay \in [at : {"idle", "trying", "waiting"}, tries : Nat] /\ relay.at = "trying"
    BY RelayShapes
  <2>3. "failed" \in {"dcc_minted", "complete"} \/ relay.at = "waiting" => x \in relayed'
    BY <2>2
  <2>4. statuses' = [statuses EXCEPT ![x] = "failed"] \/ UNCHANGED statuses
    BY <2>1
  <2> HIDE DEF relay
  <2> QED BY <1>1, <2>1, <2>2, <2>3, <2>4, RelaySteps
<1>3. CASE ~(relays[x].tries + 1 < Retries)
  <2>1. /\ statuses' = [statuses EXCEPT ![x] = "failed"]
        /\ relays' = [relays EXCEPT ![x] = R!NoRelay]
    BY <1>3 DEF R!Failed, R!Relay, R!Row
  <2> QED BY <1>1, <2>1, RelayShapes, RelaySteps
<1> QED BY <1>2, <1>3

LEMMA MintFailsKeeps ==
  ASSUME BotInv, NEW x \in R!Items, R!MintFails(x) PROVE BotInv'
<1>1. /\ R!Failed(x) /\ relays[x].at = "trying" /\ relayed \subseteq relayed'
      /\ UNCHANGED <<polls, recorded, started>>
  BY DEF R!MintFails, R!Trying
<1> QED BY <1>1, FailedKeeps

LEMMA UnlockKeeps ==
  ASSUME BotInv, NEW x \in R!Items, R!Unlock(x) PROVE BotInv'
<1>1. relays[x].at = "trying" /\ UNCHANGED <<relayed, polls, recorded, started>>
  BY DEF R!Unlock
<1>2. CASE consensus
  BY <1>1, <1>2, FailedKeeps DEF R!Unlock
<1>3. CASE ~consensus
  <2>1. relays' = [relays EXCEPT ![x] = R!NoRelay]
        /\ statuses' = [statuses EXCEPT ![x] = "pending_unlock"]
    BY <1>3 DEF R!Unlock, R!Relay, R!Row
  <2>2. "pending_unlock" \in R!Statuses
    BY DEF R!Statuses
  <2> QED BY <1>1, <2>1, <2>2, RelayShapes, RelaySteps
<1> QED BY <1>2, <1>3

LEMMA ConfirmKeeps ==
  ASSUME BotInv, NEW x \in R!Items, R!Confirm(x) PROVE BotInv'
<1>1. /\ relays[x].at = "waiting" /\ relays' = [relays EXCEPT ![x] = R!NoRelay]
      /\ UNCHANGED <<relayed, polls, recorded, started>>
  BY DEF R!Confirm, R!Relay
<1>2. PICK row \in {"complete", "pending_confirmation"} :
        statuses' = [statuses EXCEPT ![x] = row]
  BY DEF R!Confirm, R!Row
<1>3. row \in R!Statuses
  BY DEF R!Statuses
<1>4. x \in relayed'
  BY <1>1 DEF BotInv, ShownMinted
<1> QED BY <1>1, <1>2, <1>3, <1>4, RelayShapes, RelaySteps

LEMMA BotStops == BotInv /\ R!Restart => BotInv'
<1> SUFFICES ASSUME BotInv, R!Restart PROVE BotInv'
  OBVIOUS
<1> USE DEF BotInv
<1>1. /\ polls' = [p \in Polls |-> R!NoPoll] /\ relays' = [x \in R!Items |-> R!NoRelay]
      /\ UNCHANGED <<relayed, recorded, statuses, started>>
  BY DEF R!Restart, R!dbVars
<1>2. Shaped(R!NoPoll) /\ R!NoPoll.at = "idle"
  BY DEF Shaped, R!NoPoll
<1>3. R!NoRelay \in [at : {"idle", "trying", "waiting"}, tries : Nat]
      /\ R!NoRelay.at = "idle"
  BY DEF R!NoRelay
<1>4. polls' = [p \in Polls |-> polls'[p]] /\ \A p \in Polls : polls'[p] = R!NoPoll
  BY <1>1
<1>5. BotTypes'
  BY <1>1, <1>2, <1>3, <1>4 DEF BotTypes
<1>6. OneTells'
  BY <1>2, <1>4 DEF OneTells, Telling
<1>7. StartedRecorded' /\ ShownMinted'
  BY <1>1, <1>3 DEF StartedRecorded, ShownMinted
<1> QED BY <1>5, <1>6, <1>7

LEMMA BotNext == BotInv /\ [R!Next]_(R!vars) => BotInv'
<1> SUFFICES ASSUME BotInv, [R!Next]_(R!vars) PROVE BotInv'
  OBVIOUS
<1>1. CASE UNCHANGED <<polls, relays, relayed, recorded, statuses, started>>
  BY <1>1 DEF BotInv, BotTypes, OneTells, StartedRecorded, ShownMinted, Telling, Subject
<1>2. CASE \E x \in R!Items : R!Land(x)
  BY <1>1, <1>2 DEF R!Land, R!dbVars
<1>3. CASE \E x \in R!Items : R!Mint(x) \/ R!MintFails(x) \/ R!Confirm(x) \/ R!Unlock(x)
  BY <1>3, MintKeeps, MintFailsKeeps, ConfirmKeeps, UnlockKeeps
<1>4. CASE \E p \in Polls : \/ \E c \in {"solana", "dcc"} : R!Begin(p, c)
                            \/ R!Scan(p) \/ R!Exhausted(p) \/ R!Record(p) \/ R!Start(p)
  BY <1>4, BeginKeeps, ScanKeeps, ExhaustedKeeps, RecordKeeps, StartKeeps
<1>5. CASE R!Restart
  BY <1>5, BotStops
<1>6. CASE UNCHANGED R!vars
  BY <1>1, <1>6 DEF R!vars, R!dbVars
<1> QED BY <1>2, <1>3, <1>4, <1>5, <1>6 DEF R!Next

\* However many polls overlap, wherever the cursors go and whenever the bot is
\* started again, a relay is started at most once for each transaction, and a row
\* that calls a deposit minted is right.
THEOREM BotRelaysOnce == R!Spec => []RelayedOnce
<1>1. BotInv => RelayedOnce
  BY DEF BotInv, RelayedOnce, R!RelayedOnce, StartedRecorded, ShownMinted
<1> QED BY <1>1, BotInit, BotNext, PTL DEF R!Spec

----------------------------------------------------------------------------
(* The deployment scripts.  What a script promises is on the chain, or is  *)
(* still on its list.                                                      *)

Code == {"controller", "bridge", "verifier", "dusd"}
Facts ==
  Code \cup {"admin", "validator", "token", "members", "link", "admin of B", "key",
            "members of B", "resetVerifyingKey", "update_config of one key",
            "update_guardian", "admin of dusd", "validator of dusd", "vault",
            "multisig", "cap on one mint", "cap on a day"}

\* What the calls on a list add, if none of them is passed over.
Owed(list) == UNION {list[k].adds : k \in {k \in DOMAIN list : ~list[k].tolerant}}

\* A transaction removes code alone, and is skipped only when what it adds shows.
InOrder(tx) ==
  /\ tx.drops \subseteq C!CodeOfA
  /\ tx.adds \subseteq Code \/ \A f \in tx.unless : tx.adds = {f}

Transactions ==
  [adds : SUBSET Facts, drops : SUBSET Facts, needs : SUBSET Facts,
   bars : SUBSET Facts, unless : SUBSET Facts, tolerant : BOOLEAN]
Lawful == {tx \in Transactions : InOrder(tx)}

MempoolOrderly == \A tx \in mempool : tx.drops \subseteq C!CodeOfA

ScriptShape == script = C!NoScript \/ DOMAIN script = {"name", "left", "awaits"}

ScriptOrderly ==
  C!Running =>
    /\ script.name \in C!Names /\ script.left \in Seq(Lawful)
    /\ script.awaits => script.left # <<>>

OwedOrInForce ==
  C!Running /\ script.name \notin C!Careless =>
    C!Promised(script.name) \subseteq facts \cup Owed(script.left)

DeployInv ==
  ScriptShape /\ MempoolOrderly /\ ScriptOrderly /\ OwedOrInForce /\ CompleteInForce

LEMMA CallLawful ==
  ASSUME NEW fact \in Facts, NEW needs \in SUBSET Facts, NEW bars \in SUBSET Facts
  PROVE  /\ C!Call(fact, needs, bars) \in Lawful
         /\ C!Call(fact, needs, bars) \in Transactions
         /\ C!Call(fact, needs, bars).adds = {fact}
         /\ C!Call(fact, needs, bars).drops = {}
         /\ C!Call(fact, needs, bars).unless = {}
         /\ C!Call(fact, needs, bars).tolerant = FALSE
BY DEF C!Call, Lawful, Transactions, InOrder

LEMMA SetScriptLawful ==
  ASSUME NEW code \in Code
  PROVE  /\ C!SetScript(code) \in Lawful /\ C!SetScript(code).adds = {code}
         /\ C!SetScript(code).tolerant = FALSE
<1> DEFINE tx == C!Call(code, {}, {})
           drops == IF code \in C!CodeOfA THEN C!CodeOfA \ {code} ELSE {}
<1>1. code \in Facts /\ drops \subseteq C!CodeOfA /\ drops \in SUBSET Facts
  BY DEF Code, Facts, C!CodeOfA
<1>2. tx \in Transactions /\ tx.adds = {code} /\ tx.unless = {} /\ tx.tolerant = FALSE
  <2>1. code \in Facts /\ {} \in SUBSET Facts
    BY <1>1
  <2> HIDE DEF drops
  <2>2. tx \in Transactions
    BY <2>1, CallLawful
  <2>3. tx.adds = {code}
    BY DEF C!Call
  <2>4. tx.unless = {}
    BY <2>1, CallLawful
  <2>5. tx.tolerant = FALSE
    BY DEF C!Call
  <2> QED BY <2>2, <2>3, <2>4, <2>5
<1>3. C!SetScript(code) = [tx EXCEPT !.drops = drops]
  BY DEF C!SetScript
<1> HIDE DEF tx, drops
<1> QED BY <1>1, <1>2, <1>3 DEF Transactions, Lawful, InOrder

LEMMA TolerantLawful ==
  ASSUME NEW tx \in Lawful
  PROVE  C!Tolerant(tx) \in Lawful /\ C!Tolerant(tx).tolerant = TRUE
BY DEF C!Tolerant, Lawful, Transactions, InOrder

LEMMA UnlessLawful ==
  ASSUME NEW tx \in Lawful, NEW shown \in SUBSET Facts,
         tx.adds \subseteq Code \/ \A f \in shown : tx.adds = {f}
  PROVE  /\ C!Unless(shown, tx) \in Lawful
         /\ C!Unless(shown, tx).adds = tx.adds
         /\ C!Unless(shown, tx).tolerant = tx.tolerant
BY DEF C!Unless, Lawful, Transactions, InOrder

LEMMA CallsLawful ==
  /\ C!Initialize \in Lawful /\ C!Initialize.adds = {"admin"}
  /\ C!RegisterValidator \in Lawful /\ C!RegisterValidator.adds = {"validator"}
  /\ C!RegisterToken \in Lawful /\ C!InitializeCommittee \in Lawful
  /\ C!SetZkVerifier \in Lawful /\ C!InitializeVerifier \in Lawful
  /\ C!SetVerifyingKey \in Lawful /\ C!SetVerifyingKey.adds = {"key"}
  /\ C!InitializeCommitteeOfB \in Lawful
  /\ C!InitializeCommitteeOfB.adds = {"members of B"}
  /\ C!InitializeDusd \in Lawful /\ C!RegisterDusdValidator \in Lawful
  /\ C!InitializeVault \in Lawful /\ C!CreateMultisig \in Lawful
<1> DEFINE F == Facts
<1>1. /\ {"admin", "validator", "token", "members", "link", "admin of B", "key",
          "members of B", "admin of dusd", "validator of dusd", "vault", "multisig",
          "controller", "bridge", "verifier", "dusd"} \subseteq F
  BY DEF Facts, Code
<1> HIDE DEF F
<1>2. ASSUME NEW fact \in F, NEW needs \in SUBSET F, NEW bars \in SUBSET F
      PROVE  C!Call(fact, needs, bars) \in Lawful /\ C!Call(fact, needs, bars).adds = {fact}
  BY CallLawful DEF F
<1>3. C!Initialize \in Lawful /\ C!Initialize.adds = {"admin"}
  BY <1>1, <1>2 DEF C!Initialize
<1>4. C!RegisterValidator \in Lawful /\ C!RegisterValidator.adds = {"validator"}
  BY <1>1, <1>2 DEF C!RegisterValidator
<1>5. C!RegisterToken \in Lawful
  BY <1>1, <1>2 DEF C!RegisterToken
<1>6. C!InitializeCommittee \in Lawful
  BY <1>1, <1>2 DEF C!InitializeCommittee
<1>7. C!SetZkVerifier \in Lawful
  BY <1>1, <1>2 DEF C!SetZkVerifier
<1>8. C!InitializeVerifier \in Lawful
  BY <1>1, <1>2 DEF C!InitializeVerifier
<1>9. C!SetVerifyingKey \in Lawful /\ C!SetVerifyingKey.adds = {"key"}
  BY <1>1, <1>2 DEF C!SetVerifyingKey
<1>10. /\ C!InitializeCommitteeOfB \in Lawful
       /\ C!InitializeCommitteeOfB.adds = {"members of B"}
  BY <1>1, <1>2 DEF C!InitializeCommitteeOfB
<1>11. C!InitializeDusd \in Lawful
  BY <1>1, <1>2 DEF C!InitializeDusd
<1>12. C!RegisterDusdValidator \in Lawful
  BY <1>1, <1>2 DEF C!RegisterDusdValidator
<1>13. C!InitializeVault \in Lawful
  BY <1>1, <1>2 DEF C!InitializeVault
<1>14. C!CreateMultisig \in Lawful
  BY <1>1, <1>2 DEF C!CreateMultisig
<1> QED
  BY <1>3, <1>4, <1>5, <1>6, <1>7, <1>8, <1>9, <1>10, <1>11, <1>12, <1>13, <1>14

\* The calls only some scripts make.
LEMMA OtherCallsLawful ==
  /\ \A f \in {"resetVerifyingKey", "update_config of one key", "update_guardian"} :
       C!NoSuchFunction(f) \in Lawful
  /\ C!SetMintCaps \in Seq(Lawful)
<1>1. ASSUME NEW f \in {"resetVerifyingKey", "update_config of one key",
                        "update_guardian"}
      PROVE  C!NoSuchFunction(f) \in Lawful
  <2>1. f \in Facts /\ {f} \in SUBSET Facts /\ {} \in SUBSET Facts
    BY DEF Facts
  <2> QED BY <2>1, CallLawful DEF C!NoSuchFunction
<1>2. /\ {"controller", "admin"} \in SUBSET Facts /\ {} \in SUBSET Facts
      /\ "cap on one mint" \in Facts /\ "cap on a day" \in Facts
  BY DEF Facts, Code
<1> DEFINE one == C!Call("cap on one mint", {"controller", "admin"}, {})
           day == C!Call("cap on a day", {"controller", "admin"}, {})
<1>3. one \in Lawful /\ day \in Lawful
  BY <1>2, CallLawful
<1>4. C!SetMintCaps = <<one, day>>
  BY DEF C!SetMintCaps
<1> HIDE DEF one, day
<1>5. C!SetMintCaps \in Seq(Lawful)
  BY <1>3, <1>4
<1> QED BY <1>1, <1>5

\* Two lists that leave the same data entries behind.
SameDuties(s, t) ==
  /\ DOMAIN s = DOMAIN t
  /\ \A k \in DOMAIN s : /\ s[k].tolerant = t[k].tolerant
                         /\ s[k].adds = t[k].adds \/ s[k].adds \subseteq Code

LEMMA DeployDuties ==
  ASSUME NEW code \in C!CodeOfA
  PROVE  /\ C!Deploy(code) \in Seq(Lawful) /\ C!Deploy("controller") \in Seq(Lawful)
         /\ SameDuties(C!Deploy("controller"), C!Deploy(code))
<1>1. code \in Code /\ "controller" \in Code
  BY DEF Code, C!CodeOfA
<1>2. /\ C!SetScript(code) \in Lawful /\ C!SetScript("controller") \in Lawful
      /\ C!SetScript("controller").adds \subseteq Code
      /\ C!SetScript(code).tolerant = C!SetScript("controller").tolerant
  BY <1>1, SetScriptLawful
<1>3. C!Initialize \in Lawful /\ C!RegisterValidator \in Lawful
  BY CallsLawful
<1>4. C!Deploy(code) \in Seq(Lawful) /\ C!Deploy("controller") \in Seq(Lawful)
  BY <1>2, <1>3 DEF C!Deploy
<1>5. SameDuties(C!Deploy("controller"), C!Deploy(code))
  BY <1>2 DEF C!Deploy, SameDuties
<1> QED BY <1>4, <1>5

LEMMA DeployDccMainnetDuties ==
  ASSUME NEW code \in C!CodeOfA
  PROVE  /\ C!DeployDccMainnet(code) \in Seq(Lawful)
         /\ SameDuties(C!DeployDccMainnet("controller"), C!DeployDccMainnet(code))
<1> DEFINE s == C!Deploy("controller")
           t == C!Deploy(code)
           u == <<C!Tolerant(C!RegisterToken)>>
<1>1. s \in Seq(Lawful) /\ t \in Seq(Lawful) /\ SameDuties(s, t)
  BY DeployDuties
<1>2. u \in Seq(Lawful)
  <2>1. C!RegisterToken \in Lawful
    BY CallsLawful
  <2>2. C!Tolerant(C!RegisterToken) \in Lawful
    BY <2>1, TolerantLawful
  <2> QED BY <2>2
<1>3. C!DeployDccMainnet(code) = t \o u /\ C!DeployDccMainnet("controller") = s \o u
  BY DEF C!DeployDccMainnet
<1> HIDE DEF s, t, u
<1>4. t \o u \in Seq(Lawful)
  BY <1>1, <1>2
<1>5. SameDuties(s \o u, t \o u)
  <2>1. Len(s) = Len(t) /\ DOMAIN s = 1..Len(s) /\ Len(s) \in Nat /\ Len(u) \in Nat
    BY <1>1, <1>2 DEF SameDuties
  <2>2. /\ s \o u \in Seq(Lawful) /\ t \o u \in Seq(Lawful)
        /\ Len(s \o u) = Len(s) + Len(u) /\ Len(t \o u) = Len(s) + Len(u)
    BY <1>1, <1>2, <2>1
  <2>3. DOMAIN (s \o u) = 1..(Len(s) + Len(u)) /\ DOMAIN (t \o u) = 1..(Len(s) + Len(u))
    BY <2>2
  <2>4. ASSUME NEW k \in 1..(Len(s) + Len(u))
        PROVE  /\ (s \o u)[k].tolerant = (t \o u)[k].tolerant
               /\ \/ (s \o u)[k].adds = (t \o u)[k].adds
                  \/ (s \o u)[k].adds \subseteq Code
    <3>1. CASE k \in 1..Len(s)
      <4>1. (s \o u)[k] = s[k] /\ (t \o u)[k] = t[k]
        BY <1>1, <1>2, <2>1, <3>1
      <4> QED BY <1>1, <2>1, <3>1, <4>1 DEF SameDuties
    <3>2. CASE k \notin 1..Len(s)
      <4>1. (s \o u)[k] = u[k - Len(s)] /\ (t \o u)[k] = u[k - Len(s)]
        BY <1>1, <1>2, <2>1, <3>2
      <4> QED BY <4>1
    <3> QED BY <3>1, <3>2
  <2> QED BY <2>3, <2>4 DEF SameDuties
<1> QED BY <1>3, <1>4, <1>5

LEMMA ScriptsDeployDccDuties ==
  ASSUME NEW code \in C!CodeOfA
  PROVE  /\ C!ScriptsDeployDcc(code) \in Seq(Lawful)
         /\ SameDuties(C!ScriptsDeployDcc("controller"), C!ScriptsDeployDcc(code))
<1>1. code \in Code /\ "controller" \in Code /\ C!CodeOfA \in SUBSET Facts
  BY DEF Code, Facts, C!CodeOfA
<1>2. /\ C!SetScript(code) \in Lawful /\ C!SetScript(code).adds \subseteq Code
      /\ C!SetScript("controller") \in Lawful
      /\ C!SetScript("controller").adds \subseteq Code
      /\ C!SetScript(code).tolerant = C!SetScript("controller").tolerant
  BY <1>1, SetScriptLawful
<1>3. /\ C!Unless(C!CodeOfA, C!SetScript(code)) \in Lawful
      /\ C!Unless(C!CodeOfA, C!SetScript("controller")).adds \subseteq Code
      /\ C!Unless(C!CodeOfA, C!SetScript(code)).tolerant
           = C!Unless(C!CodeOfA, C!SetScript("controller")).tolerant
  BY <1>1, <1>2, UnlessLawful
<1>4. /\ C!Unless({"admin"}, C!Initialize) \in Lawful
      /\ C!Unless({"validator"}, C!RegisterValidator) \in Lawful
  BY CallsLawful, UnlessLawful DEF Facts
<1> QED BY <1>3, <1>4 DEF C!ScriptsDeployDcc, SameDuties

LEMMA SameList == ASSUME NEW s PROVE SameDuties(s, s)
BY DEF SameDuties

\* Every list is of lawful transactions, and leaves the same data entries whichever
\* contract the environment names for account A.
LEMMA StepsLawful ==
  ASSUME NEW name \in C!Names, NEW code \in C!CodeOfA
  PROVE  /\ C!Steps(name, code) \in Seq(Lawful)
         /\ SameDuties(C!Steps(name, "controller"), C!Steps(name, code))
<1> DEFINE Good(list) == list \in Seq(Lawful)
<1>0. /\ code \in Code /\ "controller" \in Code /\ "bridge" \in Code
      /\ "verifier" \in Code /\ "dusd" \in Code /\ "controller" \in C!CodeOfA
  BY DEF Code, C!CodeOfA
<1>2. ASSUME NEW a \in Lawful PROVE Good(<<a>>)
  BY <1>2
<1>3. ASSUME NEW a \in Lawful, NEW b \in Lawful, NEW c \in Lawful PROVE Good(<<a, b, c>>)
  BY <1>3
<1>4. ASSUME NEW s, NEW a \in Lawful, Good(s) PROVE Good(s \o <<a>>)
  BY <1>4
<1>5. ASSUME NEW c \in Code PROVE C!SetScript(c) \in Lawful
  BY <1>5, SetScriptLawful
<1>6. CASE name = "deploy-dcc"
  <2>1. /\ C!Steps(name, code) = C!Deploy(code)
        /\ C!Steps(name, "controller") = C!Deploy("controller")
    BY <1>6 DEF C!Steps
  <2> QED BY <2>1, DeployDuties
<1>7. CASE name = "deploy-dcc-mainnet"
  <2>1. /\ C!Steps(name, code) = C!DeployDccMainnet(code)
        /\ C!Steps(name, "controller") = C!DeployDccMainnet("controller")
    BY <1>7 DEF C!Steps
  <2> QED BY <2>1, DeployDccMainnetDuties
<1>8. CASE name = "scripts/deploy-dcc"
  <2>1. /\ C!Steps(name, code) = C!ScriptsDeployDcc(code)
        /\ C!Steps(name, "controller") = C!ScriptsDeployDcc("controller")
    BY <1>8 DEF C!Steps
  <2> QED BY <2>1, ScriptsDeployDccDuties
<1>9. CASE name = "upgrade-dcc-contract"
  <2>1. /\ C!Steps(name, code) = <<C!SetScript(code)>>
        /\ C!Steps(name, "controller") = <<C!SetScript("controller")>>
    BY <1>9 DEF C!Steps, C!UpgradeDccContract
  <2>2. SameDuties(<<C!SetScript("controller")>>, <<C!SetScript(code)>>)
    <3>1. /\ C!SetScript("controller").adds \subseteq Code
          /\ C!SetScript(code).tolerant = C!SetScript("controller").tolerant
      BY <1>0, SetScriptLawful
    <3> QED BY <3>1 DEF SameDuties
  <2> QED BY <1>0, <1>2, <1>5, <2>1, <2>2
<1>10. CASE name = "deploy-dcc-mainnet-v2"
  <2>1. C!Steps(name, code) = C!DeployDccMainnetV2 /\ C!Steps(name, "controller") = C!DeployDccMainnetV2
    BY <1>10 DEF C!Steps
  <2>2. Good(C!DeployDccMainnetV2)
    <3>1. C!Deploy("controller") \in Seq(Lawful)
      BY <1>0, DeployDuties
    <3>2. C!RegisterToken \in Lawful
      BY CallsLawful
    <3>3. C!Tolerant(C!RegisterToken) \in Lawful
      BY <3>2, TolerantLawful
    <3> QED BY <1>4, <3>1, <3>3 DEF C!DeployDccMainnetV2
  <2> QED BY <2>1, <2>2, SameList
<1>11. CASE name = "deploy-dcc.cjs"
  <2>1. C!Steps(name, code) = C!DeployDccCjs /\ C!Steps(name, "controller") = C!DeployDccCjs
    BY <1>11 DEF C!Steps
  <2>2. Good(C!DeployDccCjs)
    <3>1. C!Deploy("controller") \in Seq(Lawful)
      BY <1>0, DeployDuties
    <3>2. C!RegisterToken \in Lawful
      BY CallsLawful
    <3> QED BY <1>4, <3>1, <3>2 DEF C!DeployDccCjs
  <2> QED BY <2>1, <2>2, SameList
<1>12. CASE name = "deploy-dusd"
  <2>1. C!Steps(name, code) = C!DeployDusd /\ C!Steps(name, "controller") = C!DeployDusd
    BY <1>12 DEF C!Steps
  <2>2. Good(C!DeployDusd)
    BY <1>0, <1>3, <1>5, CallsLawful DEF C!DeployDusd
  <2> QED BY <2>1, <2>2, SameList
<1>13. CASE name = "redeploy-bridge-contract"
  <2>1. C!Steps(name, code) = C!RedeployBridgeContract /\ C!Steps(name, "controller") = C!RedeployBridgeContract
    BY <1>13 DEF C!Steps
  <2>2. Good(C!RedeployBridgeContract)
    BY <1>0, <1>2, <1>5 DEF C!RedeployBridgeContract
  <2> QED BY <2>1, <2>2, SameList
<1>14. CASE name = "init-committee"
  <2>1. C!Steps(name, code) = C!InitCommittee /\ C!Steps(name, "controller") = C!InitCommittee
    BY <1>14 DEF C!Steps
  <2>2. Good(C!InitCommittee)
    BY <1>2, CallsLawful DEF C!InitCommittee
  <2> QED BY <2>1, <2>2, SameList
<1>15. CASE name = "set-mint-caps"
  <2>1. C!Steps(name, code) = C!SetMintCaps /\ C!Steps(name, "controller") = C!SetMintCaps
    BY <1>15 DEF C!Steps
  <2>2. Good(C!SetMintCaps)
    BY OtherCallsLawful
  <2> QED BY <2>1, <2>2, SameList
<1>16. CASE name = "deploy-zk-verifier"
  <2>1. C!Steps(name, code) = C!DeployZkVerifier /\ C!Steps(name, "controller") = C!DeployZkVerifier
    BY <1>16 DEF C!Steps
  <2>2. Good(C!DeployZkVerifier)
    <3> DEFINE v == C!SetScript("verifier")
               b == C!SetScript("bridge")
    <3>1. v \in Lawful /\ b \in Lawful
      BY <1>0, <1>5
    <3>2. C!DeployZkVerifier = <<v, C!InitializeVerifier, b, C!SetZkVerifier,
                                 C!SetVerifyingKey, C!InitializeCommitteeOfB>>
      BY DEF C!DeployZkVerifier
    <3>3. /\ C!InitializeVerifier \in Lawful /\ C!SetZkVerifier \in Lawful
          /\ C!SetVerifyingKey \in Lawful /\ C!InitializeCommitteeOfB \in Lawful
      BY CallsLawful
    <3> HIDE DEF v, b
    <3> QED BY <3>1, <3>2, <3>3
  <2> QED BY <2>1, <2>2, SameList
<1>17. CASE name = "deploy-zk-verifier-continue"
  <2>1. C!Steps(name, code) = C!DeployZkVerifierContinue /\ C!Steps(name, "controller") = C!DeployZkVerifierContinue
    BY <1>17 DEF C!Steps
  <2>2. Good(C!DeployZkVerifierContinue)
    <3> DEFINE a == C!Unless({"key"}, C!SetVerifyingKey)
               b == C!Unless({"members of B"}, C!InitializeCommitteeOfB)
    <3>1. a \in Lawful /\ b \in Lawful
      BY CallsLawful, UnlessLawful DEF Facts
    <3>2. C!DeployZkVerifierContinue = <<a, b>>
      BY DEF C!DeployZkVerifierContinue
    <3> HIDE DEF a, b
    <3> QED BY <3>1, <3>2
  <2> QED BY <2>1, <2>2, SameList
<1>18. CASE name = "redeploy-contract-b"
  <2>1. C!Steps(name, code) = C!RedeployContractB /\ C!Steps(name, "controller") = C!RedeployContractB
    BY <1>18 DEF C!Steps
  <2>2. Good(C!RedeployContractB)
    BY <1>0, <1>2, <1>5 DEF C!RedeployContractB
  <2> QED BY <2>1, <2>2, SameList
<1>19. CASE name = "redeploy-contract-b-v2"
  <2>1. C!Steps(name, code) = C!RedeployContractBV2 /\ C!Steps(name, "controller") = C!RedeployContractBV2
    BY <1>19 DEF C!Steps
  <2>2. Good(C!RedeployContractBV2)
    <3>1. C!NoSuchFunction("resetVerifyingKey") \in Lawful
      BY OtherCallsLawful
    <3> QED BY <1>0, <1>3, <1>5, <3>1, CallsLawful DEF C!RedeployContractBV2
  <2> QED BY <2>1, <2>2, SameList
<1>20. CASE name = "upload-compressed-vk"
  <2>1. C!Steps(name, code) = C!UploadCompressedVk /\ C!Steps(name, "controller") = C!UploadCompressedVk
    BY <1>20 DEF C!Steps
  <2>2. Good(C!UploadCompressedVk)
    <3> DEFINE a == C!NoSuchFunction("resetVerifyingKey")
    <3>1. a \in Lawful
      BY OtherCallsLawful
    <3>2. C!UploadCompressedVk = <<a, C!SetVerifyingKey>>
      BY DEF C!UploadCompressedVk
    <3>3. C!SetVerifyingKey \in Lawful
      BY CallsLawful
    <3> HIDE DEF a
    <3> QED BY <3>1, <3>2, <3>3
  <2> QED BY <2>1, <2>2, SameList
<1>21. CASE name = "upload-new-vk"
  <2>1. C!Steps(name, code) = C!UploadNewVk /\ C!Steps(name, "controller") = C!UploadNewVk
    BY <1>21 DEF C!Steps
  <2>2. Good(C!UploadNewVk)
    BY <1>2, CallsLawful DEF C!UploadNewVk
  <2> QED BY <2>1, <2>2, SameList
<1>22. CASE name = "initialize-bridge"
  <2>1. C!Steps(name, code) = C!InitializeBridge /\ C!Steps(name, "controller") = C!InitializeBridge
    BY <1>22 DEF C!Steps
  <2>2. Good(C!InitializeBridge)
    BY <1>2, CallsLawful DEF C!InitializeBridge
  <2> QED BY <2>1, <2>2, SameList
<1>23. CASE name = "setup-multisig"
  <2>1. C!Steps(name, code) = C!SetupMultisig /\ C!Steps(name, "controller") = C!SetupMultisig
    BY <1>23 DEF C!Steps
  <2>2. Good(C!SetupMultisig)
    <3>1. /\ C!NoSuchFunction("update_config of one key") \in Lawful
          /\ C!NoSuchFunction("update_guardian") \in Lawful
      BY OtherCallsLawful
    <3> QED BY <1>3, <3>1, CallsLawful DEF C!SetupMultisig
  <2> QED BY <2>1, <2>2, SameList
<1> QED
  BY <1>6, <1>7, <1>8, <1>9, <1>10, <1>11, <1>12, <1>13, <1>14, <1>15, <1>16,
     <1>17, <1>18, <1>19, <1>20, <1>21, <1>22, <1>23 DEF C!Names

LEMMA PromisesNoCode ==
  ASSUME NEW name
  PROVE  /\ C!Promised(name) = Owed(C!Steps(name, "controller")) \ Code
         /\ C!Promised(name) \cap Code = {}
<1>1. C!CodeOfA \cup {"verifier", "dusd"} = Code
  BY DEF C!CodeOfA, Code
<1>2. C!Promised(name) = Owed(C!Steps(name, "controller"))
                           \ (C!CodeOfA \cup {"verifier", "dusd"})
  <2> DEFINE s == C!Steps(name, "controller")
             sets == {s[k].adds : k \in {k \in DOMAIN s : ~s[k].tolerant}}
  <2>1. Owed(s) = UNION sets
    BY Zenon DEF Owed
  <2>2. C!Promised(name) = (UNION sets) \ (C!CodeOfA \cup {"verifier", "dusd"})
    BY Zenon DEF C!Promised
  <2> HIDE DEF sets
  <2> QED BY <2>1, <2>2
<1> QED BY <1>1, <1>2

\* A script's list, at its start, holds all that the script promises.
LEMMA PromisedOwed ==
  ASSUME NEW name \in C!Names, NEW code \in C!CodeOfA
  PROVE  C!Promised(name) \subseteq Owed(C!Steps(name, code))
<1> DEFINE s == C!Steps(name, "controller")
           t == C!Steps(name, code)
<1>1. SameDuties(s, t)
  BY StepsLawful
<1>2. C!Promised(name) = Owed(s) \ Code
  BY PromisesNoCode
<1> HIDE DEF s
<1> SUFFICES ASSUME NEW f \in Owed(s), f \notin Code PROVE f \in Owed(t)
  BY <1>2
<1> HIDE DEF t
<1>3. PICK k \in DOMAIN s : ~s[k].tolerant /\ f \in s[k].adds
  BY DEF Owed
<1>4. k \in DOMAIN t /\ ~t[k].tolerant /\ f \in t[k].adds
  BY <1>1, <1>3 DEF SameDuties
<1> QED BY <1>4 DEF Owed


\* What is owed shrinks by the transaction that heads the list.
LEMMA OwedTail ==
  ASSUME NEW S, NEW list \in Seq(S), list # <<>>, NEW f \in Owed(list)
  PROVE  f \in Owed(Tail(list)) \/ (~list[1].tolerant /\ f \in list[1].adds)
<1>1. PICK k \in DOMAIN list : ~list[k].tolerant /\ f \in list[k].adds
  BY DEF Owed
<1>2. CASE k = 1
  BY <1>1, <1>2
<1>3. CASE k # 1
  <2>1. k - 1 \in DOMAIN Tail(list) /\ Tail(list)[k - 1] = list[k]
    BY <1>3
  <2> QED BY <1>1, <2>1 DEF Owed
<1> QED BY <1>2, <1>3

\* A script that goes on: what heads its list is passed over, or its data show.
LEMMA OnwardKeeps ==
  ASSUME ScriptShape, ScriptOrderly, OwedOrInForce, C!Running,
         script.left # <<>>, script' = C!Onward, facts \ Code \subseteq facts',
         \/ script.name \in C!Careless \/ C!Tx.tolerant
         \/ C!Tx.adds \ Code \subseteq facts'
  PROVE  ScriptShape' /\ ScriptOrderly' /\ OwedOrInForce'
<1>1. DOMAIN script = {"name", "left", "awaits"} /\ script.name \in C!Names
      /\ script.left \in Seq(Lawful)
  BY DEF ScriptShape, ScriptOrderly, C!Running
<1>2. /\ DOMAIN script' = {"name", "left", "awaits"} /\ script'.name = script.name
      /\ script'.left = Tail(script.left) /\ script'.awaits = FALSE
  BY <1>1 DEF C!Onward
<1>3. Tail(script.left) \in Seq(Lawful)
  BY <1>1
<1>4. ScriptShape' /\ ScriptOrderly'
  BY <1>1, <1>2, <1>3 DEF ScriptShape, ScriptOrderly
<1>5. ASSUME script.name \notin C!Careless
      PROVE  C!Promised(script.name) \subseteq facts' \cup Owed(Tail(script.left))
  <2> SUFFICES ASSUME NEW f \in C!Promised(script.name), f \notin facts'
               PROVE  f \in Owed(Tail(script.left))
    OBVIOUS
  <2>1. f \notin Code
    BY PromisesNoCode
  <2>2. f \in Owed(script.left)
    BY <1>5, <2>1 DEF OwedOrInForce
  <2>3. f \in Owed(Tail(script.left))
        \/ (~script.left[1].tolerant /\ f \in script.left[1].adds)
    BY <1>1, <2>2, OwedTail
  <2> QED BY <1>5, <2>1, <2>3 DEF C!Tx
<1>6. OwedOrInForce'
  BY <1>2, <1>5 DEF OwedOrInForce
<1> QED BY <1>4, <1>6

\* A script that stops owes nothing.
LEMMA StopKeeps ==
  ASSUME script' = C!NoScript
  PROVE  ScriptShape' /\ ScriptOrderly' /\ OwedOrInForce'
BY DEF ScriptShape, ScriptOrderly, OwedOrInForce, C!Running

LEMMA DeployInit == C!Init => DeployInv
BY DEF C!Init, DeployInv, ScriptShape, MempoolOrderly, ScriptOrderly, OwedOrInForce,
  CompleteInForce, C!CompleteInForce, C!Running

LEMMA ScriptStarts ==
  ASSUME DeployInv, NEW name \in C!Names, NEW code \in C!CodeOfA, C!Start(name, code)
  PROVE  DeployInv'
<1>1. UNCHANGED <<facts, mempool, said>>
  BY DEF C!Start
<1>2. MempoolOrderly' /\ CompleteInForce'
  BY <1>1 DEF DeployInv, MempoolOrderly, CompleteInForce, C!CompleteInForce
<1>3. CASE script' = C!NoScript
  BY <1>2, <1>3, StopKeeps DEF DeployInv
<1>4. CASE script' = [name |-> name, left |-> C!Steps(name, code), awaits |-> FALSE]
  <2>1. /\ DOMAIN script' = {"name", "left", "awaits"} /\ script'.name = name
        /\ script'.left = C!Steps(name, code) /\ script'.awaits = FALSE
    BY <1>4
  <2>2. C!Steps(name, code) \in Seq(Lawful)
        /\ C!Promised(name) \subseteq Owed(C!Steps(name, code))
    BY StepsLawful, PromisedOwed
  <2>3. ScriptShape' /\ ScriptOrderly'
    BY <2>1, <2>2 DEF ScriptShape, ScriptOrderly
  <2>4. OwedOrInForce'
    BY <2>1, <2>2 DEF OwedOrInForce
  <2> QED BY <1>2, <2>3, <2>4 DEF DeployInv
<1> QED BY <1>3, <1>4 DEF C!Start

LEMMA ScriptDoes ==
  ASSUME DeployInv, C!Do PROVE DeployInv'
<1> USE DEF DeployInv
<1>1. /\ C!Running /\ script.left # <<>> /\ UNCHANGED <<facts, said>>
  BY DEF C!Do
<1>2. CompleteInForce'
  BY <1>1 DEF CompleteInForce, C!CompleteInForce
<1>3. DOMAIN script = {"name", "left", "awaits"} /\ script.left \in Seq(Lawful)
  BY <1>1 DEF ScriptShape, ScriptOrderly, C!Running
<1>4. C!Tx \in Lawful
  BY <1>1, <1>3 DEF C!Tx
<1>5. facts \ Code \subseteq facts'
  BY <1>1
<1>6. CASE C!Tx.unless \cap facts # {} /\ script' = C!Onward /\ UNCHANGED mempool
  <2>1. C!Tx.adds \ Code \subseteq facts'
    BY <1>1, <1>4, <1>6 DEF Lawful, InOrder
  <2>2. ScriptShape' /\ ScriptOrderly' /\ OwedOrInForce'
    BY <1>1, <1>5, <1>6, <2>1, OnwardKeeps
  <2> QED BY <1>2, <1>6, <2>2 DEF MempoolOrderly
<1>7. CASE mempool' = mempool \cup {C!Tx} /\ script' = [script EXCEPT !.awaits = TRUE]
  <2>1. MempoolOrderly'
    BY <1>4, <1>7 DEF MempoolOrderly, Lawful, InOrder
  <2>2. /\ DOMAIN script' = {"name", "left", "awaits"}
        /\ script'.name = script.name /\ script'.left = script.left
    BY <1>3, <1>7
  <2>3. ScriptShape' /\ ScriptOrderly' /\ OwedOrInForce'
    BY <1>1, <2>2 DEF ScriptShape, ScriptOrderly, OwedOrInForce
  <2> QED BY <1>2, <2>1, <2>3
<1>8. CASE /\ script' = IF C!Tx.tolerant THEN C!Onward ELSE C!NoScript
           /\ UNCHANGED mempool
  <2>1. ScriptShape' /\ ScriptOrderly' /\ OwedOrInForce'
    BY <1>1, <1>5, <1>8, OnwardKeeps, StopKeeps
  <2> QED BY <1>2, <1>8, <2>1 DEF MempoolOrderly
<1> QED BY <1>6, <1>7, <1>8 DEF C!Do

\* Blocks and forgetful nodes remove code, never the data entries.
LEMMA TxLands ==
  ASSUME DeployInv, NEW tx \in mempool, C!Land(tx) \/ C!Forgotten(tx) PROVE DeployInv'
<1> USE DEF DeployInv
<1>1. mempool' = mempool \ {tx} /\ UNCHANGED <<script, said>>
  BY DEF C!Land, C!Forgotten
<1>2. facts \ Code \subseteq facts'
  <2>1. tx.drops \subseteq Code
    BY DEF MempoolOrderly, Code, C!CodeOfA
  <2> QED BY <2>1 DEF C!Land, C!Forgotten
<1>3. \A name : C!Promised(name) \cap facts \subseteq facts'
  BY <1>2, PromisesNoCode
<1>4. MempoolOrderly' /\ ScriptShape' /\ ScriptOrderly'
  BY <1>1 DEF MempoolOrderly, ScriptShape, ScriptOrderly, C!Running
<1>5. OwedOrInForce'
  BY <1>1, <1>3 DEF OwedOrInForce, C!Running
<1>6. CompleteInForce'
  BY <1>1, <1>3 DEF CompleteInForce, C!CompleteInForce
<1> QED BY <1>4, <1>5, <1>6

LEMMA ScriptGoesOn ==
  ASSUME DeployInv, C!Confirmed \/ C!Unconfirmed \/ C!NeverSeen \/ C!Crash
  PROVE  DeployInv'
<1> USE DEF DeployInv
<1>1. UNCHANGED <<facts, mempool, said>> /\ C!Running
  BY DEF C!Confirmed, C!Unconfirmed, C!NeverSeen, C!Crash
<1>2. MempoolOrderly' /\ CompleteInForce'
  BY <1>1 DEF MempoolOrderly, CompleteInForce, C!CompleteInForce
<1>3. script.awaits => script.left # <<>>
  BY <1>1 DEF ScriptOrderly
<1>4. facts \ Code \subseteq facts'
  BY <1>1
<1>5. CASE C!Confirmed
  <2>1. script.left # <<>> /\ C!Tx.adds \ Code \subseteq facts' /\ script' = C!Onward
    BY <1>1, <1>3, <1>5 DEF C!Confirmed
  <2> QED BY <1>1, <1>2, <1>4, <2>1, OnwardKeeps
<1>6. CASE C!Unconfirmed \/ C!NeverSeen
  <2>1. script.left # <<>>
        /\ script' = IF script.name \in C!Careless THEN C!Onward ELSE C!NoScript
    BY <1>3, <1>6 DEF C!Unconfirmed, C!NeverSeen
  <2> QED BY <1>1, <1>2, <1>4, <2>1, OnwardKeeps, StopKeeps
<1>7. CASE C!Crash
  BY <1>2, <1>7, StopKeeps DEF C!Crash
<1> QED BY <1>5, <1>6, <1>7

\* A list that is done leaves nothing owed.
LEMMA ScriptFinishes ==
  ASSUME DeployInv, C!Finish PROVE DeployInv'
<1> USE DEF DeployInv
<1>1. /\ C!Running /\ script.left = <<>> /\ script' = C!NoScript
      /\ said' = said \cup {script.name} /\ UNCHANGED <<facts, mempool>>
  BY DEF C!Finish
<1>2. Owed(<<>>) = {}
  BY DEF Owed
<1>3. script.name \notin C!Careless => C!Promised(script.name) \subseteq facts
  BY <1>1, <1>2 DEF OwedOrInForce
<1>4. CompleteInForce'
  BY <1>1, <1>3 DEF CompleteInForce, C!CompleteInForce
<1>5. MempoolOrderly'
  BY <1>1 DEF MempoolOrderly
<1> QED BY <1>1, <1>4, <1>5, StopKeeps

LEMMA DeployNext == DeployInv /\ [C!Next]_(C!vars) => DeployInv'
<1> SUFFICES ASSUME DeployInv, [C!Next]_(C!vars) PROVE DeployInv'
  OBVIOUS
<1>1. CASE UNCHANGED C!vars
  BY <1>1 DEF C!vars, DeployInv, ScriptShape, MempoolOrderly, ScriptOrderly,
    OwedOrInForce, CompleteInForce, C!CompleteInForce, C!Running
<1>2. CASE C!Next
  BY <1>2, ScriptStarts, ScriptDoes, ScriptGoesOn, ScriptFinishes, TxLands DEF C!Next
<1> QED BY <1>1, <1>2

\* What a script that waits for its transactions calls complete is on the chain from
\* then on, whatever ran before or runs after it, however many scripts run, crash, or
\* lose a transaction.
THEOREM DeployedInForce == C!Spec => []CompleteInForce
<1>1. DeployInv => CompleteInForce
  BY DEF DeployInv
<1> QED BY <1>1, DeployInit, DeployNext, PTL DEF C!Spec

----------------------------------------------------------------------------
(* The Merkle trees. *)
LEMMA LeastIn ==
  ASSUME NEW S \in SUBSET Nat, S # {}
  PROVE  \E m \in S : \A y \in S : m <= y
<1>1. PICK m \in S : \A y \in S : <<y, m>> \notin OpToRel(<, Nat)
  BY NatLessThanWellFounded, WFMin
<1>2. ASSUME NEW y \in S PROVE m <= y
  <2>1. y \in Nat /\ m \in Nat
    OBVIOUS
  <2>2. ~(y < m)
    BY <1>1, <2>1, Zenon DEF OpToRel
  <2> QED BY <2>1, <2>2
<1> QED BY <1>2

LEMMA PowerOfTwo ==
  ASSUME NEW k \in Nat
  PROVE  2 ^ k \in Nat /\ 2 ^ k > 0 /\ 2 ^ (k + 1) = 2 * 2 ^ k
<1> DEFINE A == SUBSET (1..k)
           B == {T \cup {k + 1} : T \in A}
           f == [T \in A |-> T \cup {k + 1}]
<1>1. /\ IsFiniteSet(1..k) /\ Cardinality(1..k) = k
      /\ IsFiniteSet(1..k + 1) /\ Cardinality(1..k + 1) = k + 1
  BY FS_Interval
<1>2. /\ IsFiniteSet(A) /\ Cardinality(A) = 2 ^ k
      /\ Cardinality(SUBSET (1..k + 1)) = 2 ^ (k + 1)
  BY <1>1, FS_SUBSET
<1>3. f \in Bijection(A, B)
  <2>1. f \in [A -> B]
    OBVIOUS
  <2>2. \A S, T \in A : f[S] = f[T] => S = T
    OBVIOUS
  <2>3. \A U \in B : \E T \in A : f[T] = U
    OBVIOUS
  <2> HIDE DEF A, B, f
  <2>4. f \in Injection(A, B)
    BY <2>1, <2>2 DEF Injection, IsInjective
  <2>5. f \in Surjection(A, B)
    BY <2>1, <2>3 DEF Surjection
  <2> QED BY <2>4, <2>5 DEF Bijection
<1>4. IsFiniteSet(B) /\ Cardinality(B) = Cardinality(A)
  BY <1>2, <1>3, FS_Bijection DEF ExistsBijection
<1>5. A \cup B = SUBSET (1..k + 1) /\ A \cap B = {}
  <2>1. ASSUME NEW U \in SUBSET (1..k + 1), U \notin A PROVE U \in B
    <3>1. U \ {k + 1} \in A /\ U = (U \ {k + 1}) \cup {k + 1}
      BY <2>1
    <3> QED BY <3>1
  <2>2. A \subseteq SUBSET (1..k + 1) /\ B \subseteq SUBSET (1..k + 1)
    <3>1. 1..k \subseteq 1..k + 1 /\ k + 1 \in 1..k + 1
      OBVIOUS
    <3> QED BY <3>1
  <2>3. A \cap B = {}
    OBVIOUS
  <2> QED BY <2>1, <2>2, <2>3
<1>6. Cardinality(A \cup B) = Cardinality(A) + Cardinality(B) - Cardinality(A \cap B)
  BY <1>2, <1>4, FS_Union
<1>7. Cardinality(A) \in Nat /\ Cardinality(A) # 0
  <2>1. A # {}
    OBVIOUS
  <2> QED BY <1>2, <2>1, FS_CardinalityType, FS_EmptySet
<1>8. Cardinality({}) = 0
  BY FS_EmptySet
<1> HIDE DEF A, B, f
<1>9. 2 ^ k = Cardinality(A) /\ 2 ^ (k + 1) = Cardinality(A) + Cardinality(A) - 0
  BY <1>2, <1>4, <1>5, <1>6, <1>8, Zenon
<1>10. \A c, n, m : c \in Nat /\ c # 0 /\ n = c /\ m = c + c - 0 => n \in Nat /\ n > 0 /\ m = 2 * n
  OBVIOUS
<1> QED BY <1>7, <1>9, <1>10, Zenon

----------------------------------------------------------------------------
\* One level over the one below it, in each of the three constructions.
FullRow(padding, below, d) ==
  IF d = 0 THEN [i \in 0..L!Size(0) - 1 |-> IF i < Len(messages) THEN L!Leaf(messages[i + 1])
                                          ELSE padding]
  ELSE [i \in 0..L!Size(d) - 1 |-> L!Node(below[2 * i], below[2 * i + 1])]
EmptyRow(below, d) == IF d = 0 THEN L!EmptyLeaf ELSE L!Node(below, below)
Stored(prev, d, i) == IF i <= Len(prev) THEN prev[i] ELSE L!EmptyHashes[d - 1]
StoredRow(below, d) ==
  IF d = 0 THEN [i \in 1..Len(messages) |-> L!Leaf(messages[i])]
  ELSE [i \in 1..L!StoredSize(Len(below)) |-> L!Node(Stored(below, d, 2 * i - 1), Stored(below, d, 2 * i))]

Row(kind, padding, below, d) ==
  IF kind = "full" THEN FullRow(padding, below, d)
  ELSE IF kind = "empty" THEN EmptyRow(below, d)
  ELSE StoredRow(below, d)

IsTree(g, kind, padding, n) == g = [d \in 0..n |-> Row(kind, padding, g[d - 1], d)]

LEMMA TreeExists ==
  ASSUME NEW kind, NEW padding, NEW n \in Nat
  PROVE  \E g : IsTree(g, kind, padding, n)
<1> DEFINE Bad == {k \in Nat : ~ \E g : IsTree(g, kind, padding, k)}
<1> SUFFICES ASSUME Bad # {} PROVE FALSE
  OBVIOUS
<1>1. PICK k \in Bad : \A j \in Bad : k <= j
  <2>1. Bad \in SUBSET Nat
    OBVIOUS
  <2> HIDE DEF Bad
  <2> QED BY <2>1, LeastIn
<1>2. k \in Nat
  BY <1>1
<1>3. CASE k = 0
  <2> DEFINE g == [d \in 0..0 |-> Row(kind, padding, padding, d)]
             h == [d \in 0..0 |-> FullRow(padding, padding, 0)]
  <2>1. \A u, v : Row(kind, padding, u, 0) = Row(kind, padding, v, 0)
    BY DEF Row, FullRow, EmptyRow, StoredRow
  <2>2. g = [d \in 0..0 |-> Row(kind, padding, g[d - 1], d)]
    <3>1. \A d \in 0..0 : Row(kind, padding, padding, d) = Row(kind, padding, g[d - 1], d)
      BY <2>1
    <3> QED BY <3>1
  <2> QED BY <1>1, <1>3, <2>2 DEF IsTree
<1>4. CASE k # 0
  <2>1. k - 1 \in Nat /\ k - 1 \notin Bad
    BY <1>1, <1>2, <1>4
  <2>2. PICK g : IsTree(g, kind, padding, k - 1)
    BY <2>1
  <2> DEFINE h == [d \in 0..k |-> IF d = k THEN Row(kind, padding, g[k - 1], k) ELSE g[d]]
  <2>3. ASSUME NEW d \in 0..k PROVE h[d] = Row(kind, padding, h[d - 1], d)
    <3>1. CASE d = k
      <4>1. k - 1 \in 0..k /\ k - 1 # k
        BY <2>1
      <4> QED BY <3>1, <4>1
    <3>2. CASE d # k
      <4>1. d \in 0..k - 1
        BY <3>2, <1>2
      <4>2. g[d] = Row(kind, padding, g[d - 1], d)
        BY <2>2, <4>1 DEF IsTree
      <4>3. CASE d = 0
        <5>1. \A u, v : Row(kind, padding, u, 0) = Row(kind, padding, v, 0)
          BY DEF Row, FullRow, EmptyRow, StoredRow
        <5> QED BY <3>2, <4>2, <4>3, <5>1
      <4>4. CASE d # 0
        <5>1. d - 1 \in 0..k /\ d - 1 # k
          BY <4>1, <4>4, <1>2
        <5> QED BY <3>2, <4>2, <5>1
      <4> QED BY <4>3, <4>4
    <3> QED BY <3>1, <3>2
  <2>4. IsTree(h, kind, padding, k)
    <3>1. h = [d \in 0..k |-> h[d]]
      OBVIOUS
    <3> HIDE DEF h
    <3> QED BY <2>3, <3>1 DEF IsTree
  <2> QED BY <1>1, <2>4
<1> QED BY <1>3, <1>4

LEMMA LevelsUnfold ==
  ASSUME NEW padding, NEW d \in 0..TreeDepth
  PROVE  L!Levels(padding)[d] = FullRow(padding, L!Levels(padding)[d - 1], d)
<1>1. PICK g : IsTree(g, "full", padding, TreeDepth)
  BY TreeConstants, TreeExists
<1>2. g = [e \in 0..TreeDepth |-> FullRow(padding, g[e - 1], e)]
  BY <1>1 DEF IsTree, Row
<1>3. L!Levels(padding) = [e \in 0..TreeDepth |-> FullRow(padding, L!Levels(padding)[e - 1], e)]
  BY <1>2, Zenon DEF L!Levels, FullRow
<1> QED BY <1>3

LEMMA EmptyUnfold ==
  ASSUME NEW d \in 0..TreeDepth
  PROVE  L!EmptyHashes[d] = EmptyRow(L!EmptyHashes[d - 1], d)
<1>1. PICK g : IsTree(g, "empty", 0, TreeDepth)
  BY TreeConstants, TreeExists
<1>2. g = [e \in 0..TreeDepth |-> EmptyRow(g[e - 1], e)]
  BY <1>1 DEF IsTree, Row
<1>3. L!EmptyHashes = [e \in 0..TreeDepth |-> EmptyRow(L!EmptyHashes[e - 1], e)]
  BY <1>2, Zenon DEF L!EmptyHashes, EmptyRow
<1> QED BY <1>3

LEMMA StoredUnfold ==
  ASSUME NEW d \in 0..TreeDepth
  PROVE  L!BuildFromMessageIds[d] = StoredRow(L!BuildFromMessageIds[d - 1], d)
<1>1. PICK g : IsTree(g, "stored", 0, TreeDepth)
  BY TreeConstants, TreeExists
<1>2. g = [e \in 0..TreeDepth |-> StoredRow(g[e - 1], e)]
  BY <1>1 DEF IsTree, Row
<1>3. L!BuildFromMessageIds = [e \in 0..TreeDepth |-> StoredRow(L!BuildFromMessageIds[e - 1], e)]
  BY <1>2, Zenon DEF L!BuildFromMessageIds, StoredRow, Stored
<1> QED BY <1>3

----------------------------------------------------------------------------
Onward(proof, hash, d) ==
  IF proof.path[d] = 0 THEN L!Node(hash, proof.siblings[d]) ELSE L!Node(proof.siblings[d], hash)
Above(leaf, proof, g, s) ==
  IF s = {} THEN leaf ELSE Onward(proof, g[s \ {L!Max(s)}], L!Max(s))
IsClimb(g, leaf, proof, n) == g = [s \in SUBSET (1..n) |-> Above(leaf, proof, g, s)]

LEMMA GreatestIn ==
  ASSUME NEW n \in Nat, NEW s \in SUBSET (1..n), s # {}
  PROVE  L!Max(s) \in s /\ \A x \in s : x <= L!Max(s)
<1> DEFINE Bounds == {u \in Nat : \A y \in s : y <= u}
<1>1. n \in Bounds /\ Bounds \in SUBSET Nat
  OBVIOUS
<1>2. PICK m \in Bounds : \A u \in Bounds : m <= u
  <2> HIDE DEF Bounds
  <2> QED BY <1>1, LeastIn
<1>3. m \in s
  <2> SUFFICES ASSUME m \notin s PROVE FALSE
    OBVIOUS
  <2>1. m \in Nat /\ \A y \in s : y \in Nat /\ y >= 1 /\ y < m
    BY <1>2
  <2>2. m >= 1 /\ m - 1 \in Nat
    <3>1. PICK y \in s : TRUE
      OBVIOUS
    <3>2. y \in Nat /\ y >= 1 /\ y < m /\ m \in Nat
      BY <2>1, <3>1
    <3> QED BY <3>2
  <2>3. m - 1 \in Bounds
    BY <2>1, <2>2
  <2> QED BY <1>2, <2>1, <2>2, <2>3
<1>4. \E x \in s : \A y \in s : x >= y
  <2>1. m \in Nat /\ \A y \in s : y \in Nat /\ y <= m
    BY <1>2
  <2>2. \A y \in s : m >= y
    BY <2>1
  <2> QED BY <1>3, <2>2
<1>5. L!Max(s) \in s /\ \A y \in s : L!Max(s) >= y
  BY <1>4 DEF L!Max
<1> QED BY <1>5

LEMMA GreatestIs ==
  ASSUME NEW n \in Nat, NEW s \in SUBSET (1..n), n \in s
  PROVE  L!Max(s) = n
<1>1. L!Max(s) \in s /\ n <= L!Max(s)
  BY GreatestIn
<1>2. L!Max(s) \in 1..n
  BY <1>1
<1> QED BY <1>1, <1>2

LEMMA ClimbExists ==
  ASSUME NEW leaf, NEW proof, NEW n \in Nat
  PROVE  \E g : IsClimb(g, leaf, proof, n)
<1> DEFINE Bad == {k \in Nat : ~ \E g : IsClimb(g, leaf, proof, k)}
<1> SUFFICES ASSUME Bad # {} PROVE FALSE
  OBVIOUS
<1>1. PICK k \in Bad : \A j \in Bad : k <= j
  <2>1. Bad \in SUBSET Nat
    OBVIOUS
  <2> HIDE DEF Bad
  <2> QED BY <2>1, LeastIn
<1>2. k \in Nat
  BY <1>1
<1>3. CASE k = 0
  <2> DEFINE g == [s \in SUBSET (1..0) |-> leaf]
  <2>1. \A s \in SUBSET (1..0) : s = {}
    OBVIOUS
  <2>2. g = [s \in SUBSET (1..0) |-> Above(leaf, proof, g, s)]
    BY <2>1 DEF Above
  <2> QED BY <1>1, <1>3, <2>2 DEF IsClimb
<1>4. CASE k # 0
  <2>1. k - 1 \in Nat /\ k - 1 \notin Bad
    BY <1>1, <1>2, <1>4
  <2>2. PICK g : IsClimb(g, leaf, proof, k - 1)
    BY <2>1
  <2> DEFINE h == [s \in SUBSET (1..k) |-> IF k \in s THEN Onward(proof, g[s \ {k}], k) ELSE g[s]]
  <2>3. ASSUME NEW s \in SUBSET (1..k) PROVE h[s] = Above(leaf, proof, h, s)
    <3>1. CASE k \in s
      <4>1. L!Max(s) = k /\ s # {}
        BY <1>2, <3>1, GreatestIs
      <4>2. s \ {k} \in SUBSET (1..k) /\ k \notin s \ {k}
        OBVIOUS
      <4>3. h[s \ {k}] = g[s \ {k}]
        BY <4>2
      <4>4. h[s] = Onward(proof, g[s \ {k}], k)
        BY <3>1
      <4> HIDE DEF h
      <4> QED BY <4>1, <4>3, <4>4 DEF Above
    <3>2. CASE k \notin s
      <4>1. s \in SUBSET (1..k - 1)
        BY <3>2, <1>2
      <4>2. h[s] = Above(leaf, proof, g, s)
        BY <2>2, <3>2, <4>1 DEF IsClimb
      <4>3. CASE s = {}
        BY <4>2, <4>3 DEF Above
      <4>4. CASE s # {}
        <5>1. s \ {L!Max(s)} \in SUBSET (1..k) /\ k \notin s \ {L!Max(s)}
          BY <3>2
        <5>2. h[s \ {L!Max(s)}] = g[s \ {L!Max(s)}]
          BY <5>1
        <5> HIDE DEF h
        <5> QED BY <4>2, <4>4, <5>2 DEF Above
      <4> QED BY <4>3, <4>4
    <3> QED BY <3>1, <3>2
  <2>4. IsClimb(h, leaf, proof, k)
    <3>1. h = [s \in SUBSET (1..k) |-> h[s]]
      OBVIOUS
    <3> HIDE DEF h
    <3> QED BY <2>3, <3>1 DEF IsClimb
  <2> QED BY <1>1, <2>4
<1> QED BY <1>3, <1>4

\* What the library's fold computes is such a function's value at all levels.
LEMMA ClimbIs ==
  ASSUME NEW leaf, NEW proof, DOMAIN proof.path = 1..TreeDepth
  PROVE  \E g : IsClimb(g, leaf, proof, TreeDepth) /\ L!Climb(leaf, proof) = g[1..TreeDepth]
<1> DEFINE name == [j \in DOMAIN proof.path |-> j]
           fold == CHOOSE g : g = [s \in SUBSET (DOMAIN name) |->
                     IF s = {} THEN leaf ELSE Onward(proof, g[s \ {L!Max(s)}], name[L!Max(s)])]
<1>1. L!Climb(leaf, proof) = fold[DOMAIN name]
  BY DEF L!Climb, L!FoldLeftDomain, L!FoldLeft, L!MapThenFoldSet, Onward
<1>2. DOMAIN name = 1..TreeDepth /\ \A d \in 1..TreeDepth : name[d] = d
  OBVIOUS
<1> HIDE DEF name
<1>3. ASSUME NEW g
      PROVE  g = [s \in SUBSET (DOMAIN name) |->
                     IF s = {} THEN leaf ELSE Onward(proof, g[s \ {L!Max(s)}], name[L!Max(s)])]
             <=> IsClimb(g, leaf, proof, TreeDepth)
  <2>1. ASSUME NEW s \in SUBSET (1..TreeDepth), s # {} PROVE name[L!Max(s)] = L!Max(s)
    BY <1>2, <2>1, GreatestIn, TreeConstants
  <2>2. ASSUME NEW s \in SUBSET (1..TreeDepth)
        PROVE  (IF s = {} THEN leaf ELSE Onward(proof, g[s \ {L!Max(s)}], name[L!Max(s)]))
                 = Above(leaf, proof, g, s)
    BY <2>1 DEF Above
  <2> QED BY <1>2, <2>2 DEF IsClimb
<1>4. PICK g : IsClimb(g, leaf, proof, TreeDepth)
  BY TreeConstants, ClimbExists
<1>5. fold = [s \in SUBSET (DOMAIN name) |->
                IF s = {} THEN leaf ELSE Onward(proof, fold[s \ {L!Max(s)}], name[L!Max(s)])]
  BY <1>3, <1>4, Zenon
<1>6. IsClimb(fold, leaf, proof, TreeDepth)
  BY <1>3, <1>5
<1> QED BY <1>1, <1>2, <1>6

----------------------------------------------------------------------------
LEMMA Halves ==
  ASSUME NEW x \in Nat, NEW p \in Nat, p > 0
  PROVE  /\ x \div p \in Nat /\ x \div (2 * p) = (x \div p) \div 2
<1> DEFINE q == x \div p
           r == x % p
           h == q \div 2
           b == q % 2
<1>1. x = p * q + r /\ q \in Nat /\ r \in 0..p - 1
  OBVIOUS
<1>2. q = 2 * h + b /\ h \in Nat /\ b \in {0, 1}
  BY <1>1
<1>3. p * q = (2 * p) * h + p * b
  <2>1. p * q = p * (2 * h + b)
    BY <1>2
  <2>2. p \in Nat /\ h \in Nat /\ b \in Nat
    BY <1>2
  <2> HIDE DEF q, h, b
  <2> QED BY <2>1, <2>2
<1>4. p * b \in {0, p}
  BY <1>2
<1>5. x = (2 * p) * h + (p * b + r) /\ p * b + r \in 0..2 * p - 1
  <2>1. \A pb, s : pb \in {0, p} /\ s \in 0..p - 1 => pb + s \in 0..2 * p - 1
    OBVIOUS
  <2>2. p * b + r \in 0..2 * p - 1
    BY <1>1, <1>4, <2>1
  <2>3. (2 * p) * h \in Nat
    BY <1>2
  <2>4. \A pq, n, pb : pq = n + pb /\ x = pq + r /\ n \in Nat /\ pb \in {0, p} => x = n + (pb + r)
    BY <1>1
  <2> QED BY <1>1, <1>3, <1>4, <2>2, <2>3, <2>4
<1>6. \A n \in Nat, c \in 0..2 * p - 1 : x = (2 * p) * n + c => x \div (2 * p) = n
  OBVIOUS
<1> QED BY <1>1, <1>2, <1>5, <1>6

LEMMA Sizes ==
  ASSUME NEW d \in 0..TreeDepth
  PROVE  /\ L!Size(d) \in Nat /\ L!Size(d) > 0
         /\ d # 0 => L!Size(d - 1) = 2 * L!Size(d)
         /\ L!Size(0) = 2 ^ TreeDepth /\ L!Size(TreeDepth) = 1
<1>1. TreeDepth - d \in Nat /\ TreeDepth \in Nat /\ TreeDepth - TreeDepth = 0 /\ TreeDepth - 0 = TreeDepth
  BY TreeConstants
<1>2. L!Size(d) \in Nat /\ L!Size(d) > 0
  BY <1>1, PowerOfTwo DEF L!Size
<1>3. ASSUME d # 0 PROVE L!Size(d - 1) = 2 * L!Size(d)
  <2>1. TreeDepth - (d - 1) = (TreeDepth - d) + 1
    BY <1>1
  <2>2. 2 ^ ((TreeDepth - d) + 1) = 2 * 2 ^ (TreeDepth - d)
    BY <1>1, PowerOfTwo
  <2> QED BY <2>1, <2>2 DEF L!Size
<1>4. 2 ^ 0 = 1
  OBVIOUS
<1> QED BY <1>1, <1>2, <1>3, <1>4 DEF L!Size

\* The node above a leaf, level by level.
LEMMA Ancestors ==
  ASSUME NEW leaf \in 0..L!Size(0) - 1
  PROVE  \A d \in 0..TreeDepth : leaf \div 2 ^ d \in 0..L!Size(d) - 1
<1> DEFINE Bad == {d \in 0..TreeDepth : leaf \div 2 ^ d \notin 0..L!Size(d) - 1}
<1> SUFFICES ASSUME Bad # {} PROVE FALSE
  OBVIOUS
<1>1. PICK k \in Bad : \A j \in Bad : k <= j
  <2>1. Bad \in SUBSET Nat
    BY TreeConstants
  <2> HIDE DEF Bad
  <2> QED BY <2>1, LeastIn
<1>2. k \in 0..TreeDepth /\ leaf \div 2 ^ k \notin 0..L!Size(k) - 1 /\ k \in Nat /\ TreeDepth \in Nat
  BY <1>1, TreeConstants
<1>3. leaf \in Nat /\ L!Size(0) \in Nat
  BY <1>2, Sizes
<1>4. CASE k = 0
  <2>1. 2 ^ 0 = 1 /\ leaf \div 1 = leaf
    BY <1>3
  <2> QED BY <1>2, <1>4, <2>1
<1>5. CASE k # 0
  <2> DEFINE a == leaf \div 2 ^ (k - 1)
  <2>1. k - 1 \in 0..TreeDepth /\ k - 1 \notin Bad /\ k - 1 \in Nat /\ (k - 1) + 1 = k
    BY <1>1, <1>2, <1>5
  <2>2. a \in 0..L!Size(k - 1) - 1
    BY <2>1
  <2>3. 2 ^ (k - 1) \in Nat /\ 2 ^ (k - 1) > 0 /\ 2 ^ k = 2 * 2 ^ (k - 1)
    BY <2>1, PowerOfTwo, Zenon
  <2>4. a \in Nat /\ leaf \div 2 ^ k = a \div 2
    BY <1>3, <2>3, Halves
  <2>5. L!Size(k - 1) = 2 * L!Size(k) /\ L!Size(k) \in Nat
    BY <1>2, <1>5, Sizes
  <2> HIDE DEF a
  <2>6. a \div 2 \in 0..L!Size(k) - 1
    BY <2>2, <2>4, <2>5
  <2> QED BY <1>2, <2>4, <2>6
<1> QED BY <1>4, <1>5

\* A tree whose nodes hash their two children, level by level.
Hashed(tree) ==
  \A d \in 1..TreeDepth : \A i \in 0..L!Size(d) - 1 :
    tree[d][i] = L!Node(tree[d - 1][2 * i], tree[d - 1][2 * i + 1])

\* What a proof of a leaf of the tree holds.
Proves(proof, tree, leaf) ==
  /\ DOMAIN proof.path = 1..TreeDepth
  /\ \A d \in 1..TreeDepth :
       /\ proof.siblings[d] = tree[d - 1][L!Sibling(leaf \div 2 ^ (d - 1))]
       /\ proof.path[d] = (leaf \div 2 ^ (d - 1)) % 2

\* One step up leads to the tree's node exactly from the tree's node.
LEMMA StepUp ==
  ASSUME NEW tree, Hashed(tree), NEW leaf \in 0..L!Size(0) - 1, NEW proof, Proves(proof, tree, leaf),
         NEW hash, NEW d \in 1..TreeDepth
  PROVE  (Onward(proof, hash, d) = tree[d][leaf \div 2 ^ d])
           <=> (hash = tree[d - 1][leaf \div 2 ^ (d - 1)])
<1> DEFINE a == leaf \div 2 ^ (d - 1)
           h == leaf \div 2 ^ d
<1>1. d \in Nat /\ d \in 0..TreeDepth /\ d - 1 \in 0..TreeDepth /\ d - 1 \in Nat /\ (d - 1) + 1 = d
  BY TreeConstants
<1>2. h \in 0..L!Size(d) - 1
  BY <1>1, Ancestors
<1>3. leaf \in Nat /\ L!Size(0) \in Nat /\ L!Size(d) \in Nat
  <2>1. 0 \in 0..TreeDepth
    BY TreeConstants
  <2> QED BY <1>1, <2>1, Sizes
<1>4. a \in Nat /\ h = a \div 2
  <2>1. 2 ^ (d - 1) \in Nat /\ 2 ^ (d - 1) > 0 /\ 2 ^ d = 2 * 2 ^ (d - 1)
    BY <1>1, PowerOfTwo, Zenon
  <2> QED BY <1>3, <2>1, Halves
<1>5. tree[d][h] = L!Node(tree[d - 1][2 * h], tree[d - 1][2 * h + 1])
  BY <1>2 DEF Hashed
<1>6. proof.siblings[d] = tree[d - 1][L!Sibling(a)] /\ proof.path[d] = a % 2
  BY DEF Proves
<1> HIDE DEF a, h
<1>7. CASE a % 2 = 0
  <2>1. a = 2 * h /\ L!Sibling(a) = 2 * h + 1
    BY <1>4, <1>7 DEF L!Sibling
  <2>2. Onward(proof, hash, d) = L!Node(hash, tree[d - 1][2 * h + 1])
    BY <1>6, <1>7, <2>1 DEF Onward
  <2> QED BY <1>5, <2>1, <2>2 DEF L!Node, a, h
<1>8. CASE a % 2 # 0
  <2>1. a = 2 * h + 1 /\ L!Sibling(a) = 2 * h
    BY <1>4, <1>8 DEF L!Sibling
  <2>2. Onward(proof, hash, d) = L!Node(tree[d - 1][2 * h], hash)
    BY <1>6, <1>8, <2>1 DEF Onward
  <2> QED BY <1>5, <2>1, <2>2 DEF L!Node, a, h
<1> QED BY <1>7, <1>8

LEMMA ProofLeads ==
  ASSUME NEW tree, Hashed(tree), NEW leaf \in 0..L!Size(0) - 1, NEW proof, Proves(proof, tree, leaf),
         NEW x
  PROVE  (L!Climb(x, proof) = tree[TreeDepth][0]) <=> (x = tree[0][leaf])
<1>1. PICK g : IsClimb(g, x, proof, TreeDepth) /\ L!Climb(x, proof) = g[1..TreeDepth]
  BY ClimbIs DEF Proves
<1> DEFINE Leads(d) == (g[1..d] = tree[d][leaf \div 2 ^ d]) <=> (x = tree[0][leaf])
           Bad == {d \in 0..TreeDepth : ~Leads(d)}
<1>2. TreeDepth \in Nat /\ 0 \in 0..TreeDepth /\ TreeDepth \in 0..TreeDepth
  BY TreeConstants
<1>3. Bad = {}
  <2> SUFFICES ASSUME Bad # {} PROVE FALSE
    OBVIOUS
  <2>1. PICK k \in Bad : \A j \in Bad : k <= j
    <3>1. Bad \in SUBSET Nat
      BY <1>2
    <3> HIDE DEF Bad
    <3> QED BY <3>1, LeastIn
  <2>2. k \in 0..TreeDepth /\ k \in Nat /\ ~Leads(k)
    BY <1>2, <2>1
  <2>3. CASE k = 0
    <3>1. 1..0 = {} /\ {} \in SUBSET (1..TreeDepth) /\ 2 ^ 0 = 1
      OBVIOUS
    <3>2. g[1..0] = x
      BY <1>1, <3>1 DEF IsClimb, Above
    <3>3. leaf \in Nat /\ leaf \div 1 = leaf
      BY <1>2, Sizes
    <3> QED BY <2>2, <2>3, <3>1, <3>2, <3>3
  <2>4. CASE k # 0
    <3>1. k \in 1..TreeDepth /\ k - 1 \in 0..TreeDepth /\ k - 1 \notin Bad
      BY <1>2, <2>1, <2>2, <2>4
    <3>2. Leads(k - 1)
      BY <3>1
    <3>3. g[1..k] = Onward(proof, g[1..k - 1], k)
      <4>1. k \in 1..k /\ (1..k) \ {k} = 1..k - 1 /\ 1..k \in SUBSET (1..k)
        BY <2>2, <3>1
      <4>4. 1..k \in SUBSET (1..TreeDepth) /\ 1..k # {}
        BY <1>2, <3>1, <4>1
      <4>2. L!Max(1..k) = k
        BY <2>2, <4>1, GreatestIs
      <4>3. g[1..k] = Above(x, proof, g, 1..k)
        BY <1>1, <4>4 DEF IsClimb
      <4> QED BY <4>1, <4>2, <4>3, <4>4 DEF Above
    <3>4. (g[1..k] = tree[k][leaf \div 2 ^ k]) <=> (g[1..k - 1] = tree[k - 1][leaf \div 2 ^ (k - 1)])
      BY <3>1, <3>3, StepUp
    <3> QED BY <2>2, <3>2, <3>4
  <2> QED BY <2>3, <2>4
<1>4. Leads(TreeDepth)
  BY <1>2, <1>3
<1>5. leaf \div 2 ^ TreeDepth = 0
  <2>1. leaf \div 2 ^ TreeDepth \in 0..L!Size(TreeDepth) - 1 /\ L!Size(TreeDepth) = 1
    BY <1>2, Ancestors, Sizes
  <2> QED BY <2>1
<1> QED BY <1>1, <1>4, <1>5

----------------------------------------------------------------------------
LEMMA LevelsHashed ==
  ASSUME NEW padding
  PROVE  Hashed(L!Levels(padding))
<1> DEFINE tree == L!Levels(padding)
<1> SUFFICES ASSUME NEW d \in 1..TreeDepth, NEW i \in 0..L!Size(d) - 1
             PROVE  tree[d][i] = L!Node(tree[d - 1][2 * i], tree[d - 1][2 * i + 1])
  BY DEF Hashed
<1>1. d \in 0..TreeDepth /\ d # 0
  BY TreeConstants
<1>2. tree[d] = FullRow(padding, tree[d - 1], d)
  BY <1>1, LevelsUnfold
<1> HIDE DEF tree
<1> QED BY <1>1, <1>2 DEF FullRow

LEMMA Leaves ==
  ASSUME NEW padding, NEW i \in 0..L!Size(0) - 1
  PROVE  L!Levels(padding)[0][i] = IF i < Len(messages) THEN L!Leaf(messages[i + 1]) ELSE padding
<1>1. 0 \in 0..TreeDepth
  BY TreeConstants
<1>2. L!Levels(padding)[0] = FullRow(padding, L!Levels(padding)[0 - 1], 0)
  BY <1>1, LevelsUnfold
<1> QED BY <1>2 DEF FullRow

\* The prover's tree with the nodes it does not store.
Implied == [d \in 0..TreeDepth |-> [i \in Nat |-> L!NodeAt(L!BuildFromMessageIds, d, i)]]

LEMMA StoredLength ==
  ASSUME NEW d \in 0..TreeDepth, Len(messages) \in Nat
  PROVE  /\ Len(L!BuildFromMessageIds[d]) \in Nat
         /\ d # 0 => Len(L!BuildFromMessageIds[d]) = L!StoredSize(Len(L!BuildFromMessageIds[d - 1]))
<1> DEFINE layers == L!BuildFromMessageIds
<1>1. TreeDepth \in Nat /\ \A e \in 0..TreeDepth : layers[e] = StoredRow(layers[e - 1], e)
  BY TreeConstants, StoredUnfold
<1> HIDE DEF layers
<1>2. \A e \in 0..TreeDepth, n \in Nat : Len(layers[e - 1]) = n /\ e # 0 =>
         L!StoredSize(n) \in Nat /\ Len(layers[e]) = L!StoredSize(n)
  <2> SUFFICES ASSUME NEW e \in 0..TreeDepth, NEW n \in Nat, Len(layers[e - 1]) = n, e # 0
               PROVE  L!StoredSize(n) \in Nat /\ Len(layers[e]) = L!StoredSize(n)
    OBVIOUS
  <2>1. L!StoredSize(n) \in Nat
    BY DEF L!StoredSize
  <2> DEFINE row == StoredRow(layers[e - 1], e)
  <2>2. row = [i \in 1..L!StoredSize(n) |-> L!Node(Stored(layers[e - 1], e, 2 * i - 1), Stored(layers[e - 1], e, 2 * i))]
    BY DEF StoredRow
  <2>3. Len(row) = L!StoredSize(n)
    <3> DEFINE node(i) == L!Node(Stored(layers[e - 1], e, 2 * i - 1), Stored(layers[e - 1], e, 2 * i))
    <3>1. row = [i \in 1..L!StoredSize(n) |-> node(i)]
      BY <2>2
    <3> HIDE DEF row, node
    <3> QED BY <2>1, <3>1
  <2> QED BY <1>1, <2>1, <2>3
<1>3. Len(layers[0]) = Len(messages)
  <2>1. layers[0] = [i \in 1..Len(messages) |-> L!Leaf(messages[i])]
    <3>1. 0 \in 0..TreeDepth
      BY <1>1
    <3>2. layers[0] = StoredRow(layers[0 - 1], 0)
      BY <1>1, <3>1
    <3> QED BY <3>2 DEF StoredRow
  <2> QED BY <2>1
<1> DEFINE Bad == {e \in 0..TreeDepth : Len(layers[e]) \notin Nat}
<1>4. Bad = {}
  <2> SUFFICES ASSUME Bad # {} PROVE FALSE
    OBVIOUS
  <2>1. PICK k \in Bad : \A j \in Bad : k <= j
    <3>1. Bad \in SUBSET Nat
      BY <1>1
    <3> HIDE DEF Bad
    <3> QED BY <3>1, LeastIn
  <2>2. k \in 0..TreeDepth /\ k \in Nat /\ Len(layers[k]) \notin Nat
    BY <1>1, <2>1
  <2>3. k # 0
    BY <1>3, <2>2
  <2>4. k - 1 \in 0..TreeDepth /\ k - 1 \notin Bad
    BY <1>1, <2>1, <2>2, <2>3
  <2>5. Len(layers[k - 1]) \in Nat
    BY <2>4
  <2> QED BY <1>2, <2>2, <2>3, <2>5
<1>5. Len(layers[d]) \in Nat
  BY <1>4
<1>6. ASSUME d # 0 PROVE Len(layers[d]) = L!StoredSize(Len(layers[d - 1]))
  <2>1. d - 1 \in 0..TreeDepth
    BY <1>1, <1>6
  <2>2. Len(layers[d - 1]) \in Nat
    BY <1>4, <2>1
  <2> QED BY <1>2, <1>6, <2>2
<1> QED BY <1>5, <1>6 DEF layers

\* Which nodes are stored, in terms of what is stored below them.
LEMMA StoredHalf ==
  ASSUME NEW n \in Nat, NEW i \in Nat
  PROVE  /\ i < L!StoredSize(n) => i + 1 \in 1..L!StoredSize(n)
         /\ ~(i < L!StoredSize(n)) => ~(2 * i < n) /\ ~(2 * i + 1 < n)
<1>1. CASE n <= 1
  BY <1>1 DEF L!StoredSize
<1>2. CASE ~(n <= 1)
  BY <1>2 DEF L!StoredSize
<1> QED BY <1>1, <1>2

LEMMA ImpliedHashed ==
  ASSUME Len(messages) \in Nat
  PROVE  Hashed(Implied)
<1> DEFINE layers == L!BuildFromMessageIds
<1> SUFFICES ASSUME NEW d \in 1..TreeDepth, NEW i \in 0..L!Size(d) - 1
             PROVE  Implied[d][i] = L!Node(Implied[d - 1][2 * i], Implied[d - 1][2 * i + 1])
  BY DEF Hashed
<1>1. d \in 0..TreeDepth /\ d # 0 /\ d - 1 \in 0..TreeDepth
  BY TreeConstants
<1>2. i \in Nat /\ 2 * i \in Nat /\ 2 * i + 1 \in Nat
  <2>1. L!Size(d) \in Nat
    BY <1>1, Sizes
  <2> QED BY <2>1
<1> DEFINE n == Len(layers[d - 1])
<1>3. n \in Nat /\ Len(layers[d]) = L!StoredSize(n)
  BY <1>1, StoredLength
<1>4. \A j \in Nat : Implied[d][j] = L!NodeAt(layers, d, j) /\ Implied[d - 1][j] = L!NodeAt(layers, d - 1, j)
  BY <1>1 DEF Implied
<1>5. layers[d] = StoredRow(layers[d - 1], d)
  BY <1>1, StoredUnfold
<1>6. L!EmptyHashes[d] = L!Node(L!EmptyHashes[d - 1], L!EmptyHashes[d - 1])
  BY <1>1, EmptyUnfold DEF EmptyRow
<1> HIDE DEF layers
<1>7. CASE i < L!StoredSize(n)
  <2>1. i + 1 \in 1..L!StoredSize(n) /\ 2 * (i + 1) - 1 = 2 * i + 1 /\ 2 * (i + 1) = 2 * i + 2
    BY <1>2, <1>3, <1>7, StoredHalf
  <2>2. layers[d][i + 1] = L!Node(Stored(layers[d - 1], d, 2 * i + 1), Stored(layers[d - 1], d, 2 * i + 2))
    BY <1>1, <1>5, <2>1 DEF StoredRow
  <2>3. /\ Stored(layers[d - 1], d, 2 * i + 1) = L!NodeAt(layers, d - 1, 2 * i)
        /\ Stored(layers[d - 1], d, 2 * i + 2) = L!NodeAt(layers, d - 1, 2 * i + 1)
    BY <1>2, <1>3 DEF Stored, L!NodeAt
  <2>4. L!NodeAt(layers, d, i) = layers[d][i + 1]
    BY <1>3, <1>7 DEF L!NodeAt
  <2> QED BY <1>2, <1>4, <2>2, <2>3, <2>4
<1>8. CASE ~(i < L!StoredSize(n))
  <2>1. ~(2 * i < n) /\ ~(2 * i + 1 < n)
    BY <1>2, <1>3, <1>8, StoredHalf
  <2>2. L!NodeAt(layers, d - 1, 2 * i) = L!EmptyHashes[d - 1] /\ L!NodeAt(layers, d - 1, 2 * i + 1) = L!EmptyHashes[d - 1]
    BY <2>1 DEF L!NodeAt
  <2>3. L!NodeAt(layers, d, i) = L!EmptyHashes[d]
    BY <1>3, <1>8 DEF L!NodeAt
  <2> QED BY <1>2, <1>4, <1>6, <2>2, <2>3
<1> QED BY <1>7, <1>8

TreeInv == messages \in Seq(MessageIds) /\ Len(messages) <= MaxLeaves

LEMMA TreeNext == TreeInv /\ [L!Next]_messages => TreeInv'
<1> SUFFICES ASSUME TreeInv, [L!Next]_messages PROVE TreeInv'
  OBVIOUS
<1>1. CASE UNCHANGED messages
  BY <1>1 DEF TreeInv
<1>2. ASSUME NEW m \in MessageIds, L!Add(m) PROVE TreeInv'
  <2>1. messages \in Seq(MessageIds) /\ Len(messages) \in Nat
    BY DEF TreeInv
  <2>2. Append(messages, m) \in Seq(MessageIds) /\ Len(Append(messages, m)) = Len(messages) + 1
    BY <2>1
  <2>3. Len(messages) < MaxLeaves /\ messages' = Append(messages, m) /\ MaxLeaves \in Nat
    BY <1>2, TreeConstants DEF L!Add
  <2> QED BY <2>1, <2>2, <2>3 DEF TreeInv
<1> QED BY <1>1, <1>2 DEF L!Next

LEMMA PaddedProof ==
  ASSUME NEW leaf \in Nat
  PROVE  Proves(L!GetMerkleProof(leaf), L!Levels(L!Padding), leaf)
BY DEF Proves, L!GetMerkleProof

LEMMA StoredProof ==
  ASSUME NEW leaf \in 0..L!Size(0) - 1
  PROVE  Proves(L!GetProof(leaf), Implied, leaf)
<1>1. ASSUME NEW d \in 1..TreeDepth
      PROVE  L!GetProof(leaf).siblings[d] = Implied[d - 1][L!Sibling(leaf \div 2 ^ (d - 1))]
  <2>1. d - 1 \in 0..TreeDepth
    BY TreeConstants
  <2>2. leaf \div 2 ^ (d - 1) \in Nat
    BY <2>1, Ancestors
  <2>3. \A a \in Nat : L!Sibling(a) \in Nat
    BY DEF L!Sibling
  <2>4. L!GetProof(leaf).siblings[d] = L!NodeAt(L!BuildFromMessageIds, d - 1, L!Sibling(leaf \div 2 ^ (d - 1)))
    BY DEF L!GetProof
  <2> QED BY <2>1, <2>2, <2>3, <2>4 DEF Implied
<1>2. /\ DOMAIN L!GetProof(leaf).path = 1..TreeDepth
      /\ \A d \in 1..TreeDepth : L!GetProof(leaf).path[d] = (leaf \div 2 ^ (d - 1)) % 2
  BY DEF L!GetProof
<1> QED BY <1>1, <1>2 DEF Proves

LEMMA TreesProve == TreeInv => L!ProofsLead
<1> SUFFICES ASSUME TreeInv, NEW i \in 1..Len(messages), NEW m
             PROVE  /\ (L!Climb(L!Leaf(m), L!GetMerkleProof(i - 1)) = L!Root) <=> (m = messages[i])
                    /\ (L!Climb(L!Leaf(m), L!GetProof(i - 1)) = L!ProverRoot) <=> (m = messages[i])
  BY DEF L!ProofsLead
<1>1. 0 \in 0..TreeDepth /\ TreeDepth \in 0..TreeDepth /\ TreeDepth \in Nat
  BY TreeConstants
<1>2. Len(messages) \in Nat /\ Len(messages) <= L!Size(0) /\ L!Size(0) \in Nat
  BY <1>1, TreeConstants, Sizes DEF TreeInv
<1> DEFINE leaf == i - 1
<1>3. leaf \in 0..L!Size(0) - 1 /\ leaf \in Nat /\ leaf < Len(messages) /\ leaf + 1 = i
  BY <1>2
<1>4. (L!Leaf(m) = L!Leaf(messages[i])) <=> (m = messages[i])
  BY DEF L!Leaf
<1> HIDE DEF leaf
<1>5. (L!Climb(L!Leaf(m), L!GetMerkleProof(leaf)) = L!Root) <=> (m = messages[i])
  <2>1. Hashed(L!Levels(L!Padding)) /\ Proves(L!GetMerkleProof(leaf), L!Levels(L!Padding), leaf)
    BY <1>3, LevelsHashed, PaddedProof
  <2>2. (L!Climb(L!Leaf(m), L!GetMerkleProof(leaf)) = L!Levels(L!Padding)[TreeDepth][0])
          <=> (L!Leaf(m) = L!Levels(L!Padding)[0][leaf])
    BY <1>3, <2>1, ProofLeads
  <2>3. L!Levels(L!Padding)[0][leaf] = L!Leaf(messages[i])
    BY <1>3, Leaves
  <2> QED BY <1>4, <2>2, <2>3 DEF L!Root
<1>6. (L!Climb(L!Leaf(m), L!GetProof(leaf)) = L!ProverRoot) <=> (m = messages[i])
  <2>1. Hashed(Implied) /\ Proves(L!GetProof(leaf), Implied, leaf)
    BY <1>2, <1>3, ImpliedHashed, StoredProof
  <2>2. (L!Climb(L!Leaf(m), L!GetProof(leaf)) = Implied[TreeDepth][0]) <=> (L!Leaf(m) = Implied[0][leaf])
    BY <1>3, <2>1, ProofLeads
  <2>3. \A d \in 0..TreeDepth : \A j \in Nat : Implied[d][j] = L!NodeAt(L!BuildFromMessageIds, d, j)
    BY DEF Implied
  <2>4. L!BuildFromMessageIds[0] = [j \in 1..Len(messages) |-> L!Leaf(messages[j])]
    <3>1. L!BuildFromMessageIds[0] = StoredRow(L!BuildFromMessageIds[0 - 1], 0)
      BY <1>1, StoredUnfold
    <3> QED BY <3>1 DEF StoredRow
  <2>5. Len(L!BuildFromMessageIds[0]) = Len(messages)
    BY <1>2, <2>4
  <2>6. Implied[0][leaf] = L!Leaf(messages[i])
    <3>1. Implied[0][leaf] = L!NodeAt(L!BuildFromMessageIds, 0, leaf)
      BY <1>1, <1>3, <2>3
    <3>2. L!BuildFromMessageIds[0][leaf + 1] = L!Leaf(messages[i])
      BY <1>3, <2>4
    <3> QED BY <1>3, <2>5, <3>1, <3>2 DEF L!NodeAt
  <2>7. Implied[TreeDepth][0] = L!ProverRoot
    <3>1. Implied[TreeDepth][0] = L!NodeAt(L!BuildFromMessageIds, TreeDepth, 0)
      BY <1>1, <2>3
    <3>2. 0 < Len(L!BuildFromMessageIds[TreeDepth])
      <4>1. CASE TreeDepth = 0
        BY <1>2, <2>5, <4>1
      <4>2. CASE TreeDepth # 0
        <5>1. Len(L!BuildFromMessageIds[TreeDepth]) = L!StoredSize(Len(L!BuildFromMessageIds[TreeDepth - 1]))
          BY <1>1, <1>2, <4>2, StoredLength
        <5>2. TreeDepth - 1 \in 0..TreeDepth
          BY <1>1, <4>2
        <5>3. Len(L!BuildFromMessageIds[TreeDepth - 1]) \in Nat
          BY <1>2, <5>2, StoredLength
        <5>4. \A n \in Nat : 0 < L!StoredSize(n)
          BY DEF L!StoredSize
        <5> QED BY <5>1, <5>3, <5>4
      <4> QED BY <4>1, <4>2
    <3> QED BY <3>1, <3>2 DEF L!NodeAt, L!ProverRoot
  <2> QED BY <1>4, <2>2, <2>6, <2>7
<1> QED BY <1>5, <1>6 DEF leaf

\* For a tree of any depth and as many leaves as it holds: the proof of a leaf,
\* of the validators' padded tree or of the prover's sparse one, leads to the
\* root of that tree from this leaf and from no other message (zk-utils.ts,
\* merkle.ts, bridge_deposit.circom).
THEOREM MerkleProofsLead == L!Spec => []ProofsLead
<1>1. L!Init => TreeInv
  BY TreeConstants DEF L!Init, TreeInv
<1> QED BY <1>1, TreeNext, TreesProve, PTL DEF L!Spec, ProofsLead

----------------------------------------------------------------------------
(* The encodings of a deposit, for bytes and fields of any width. *)
LEMMA FieldConstants ==
  /\ Width \in Nat \ {0}
  /\ IdSize \in Nat /\ IdSize >= 3 /\ IdSize % 2 = 0
  /\ {Short, Long} \subseteq 1..IdSize /\ Short <= Long /\ Long >= 2
  /\ Version \in 0..E!Byte - 1 /\ Bodies \subseteq 0..E!Byte - 1
  /\ Senders \subseteq [1..IdSize -> 0..E!Byte - 1] /\ Ids \subseteq [1..IdSize -> 0..E!Byte - 1]
  /\ \A a \in Amounts : a \in Nat /\ 2 * a < 2 ^ (Width * Long)
  /\ Slots \subseteq 0..2 ^ (Width * Long) - 1
<1> DEFINE Value == 0..2 ^ Width - 1
           Field == [1..IdSize -> Value]
<1>1. /\ Width \in Nat \ {0}
      /\ IdSize \in Nat /\ IdSize >= 3 /\ IdSize % 2 = 0
      /\ {Short, Long} \subseteq 1..IdSize /\ Short <= Long /\ Long >= 2
      /\ Version \in Value /\ Bodies \subseteq Value
      /\ Senders \subseteq Field /\ Ids \subseteq Field
      /\ \A a \in Amounts : a \in Nat /\ 2 * a < 2 ^ (Width * Long)
      /\ Slots \subseteq 0..2 ^ (Width * Long) - 1
  BY EncodingConstants, Zenon
<1>2. Value = 0..E!Byte - 1
  BY Zenon DEF E!Byte
<1> QED BY <1>1, <1>2, Zenon

LEMMA PowerAdds ==
  ASSUME NEW a \in Nat, NEW b \in Nat
  PROVE  2 ^ (a + b) = 2 ^ a * 2 ^ b
<1> DEFINE Bad == {k \in Nat : 2 ^ (a + k) # 2 ^ a * 2 ^ k}
<1> SUFFICES ASSUME Bad # {} PROVE FALSE
  OBVIOUS
<1>1. PICK k \in Bad : \A j \in Bad : k <= j
  <2>1. Bad \in SUBSET Nat
    OBVIOUS
  <2> HIDE DEF Bad
  <2> QED BY <2>1, LeastIn
<1>2. k \in Nat /\ 2 ^ (a + k) # 2 ^ a * 2 ^ k
  BY <1>1
<1>3. CASE k = 0
  <2>1. a + 0 = a /\ 2 ^ 0 = 1 /\ 2 ^ a \in Nat
    BY PowerOfTwo
  <2>2. \A p \in Nat : p * 1 = p
    OBVIOUS
  <2> QED BY <1>2, <1>3, <2>1, <2>2
<1>4. CASE k # 0
  <2>1. k - 1 \in Nat /\ k - 1 \notin Bad /\ a + (k - 1) \in Nat
        /\ (a + (k - 1)) + 1 = a + k /\ (k - 1) + 1 = k
    BY <1>1, <1>2, <1>4
  <2>2. 2 ^ (a + (k - 1)) = 2 ^ a * 2 ^ (k - 1)
    BY <2>1
  <2>3. 2 ^ (a + k) = 2 * 2 ^ (a + (k - 1)) /\ 2 ^ k = 2 * 2 ^ (k - 1)
    BY <2>1, PowerOfTwo, Zenon
  <2>4. 2 ^ a \in Nat /\ 2 ^ (k - 1) \in Nat
    BY <2>1, PowerOfTwo
  <2>5. \A p \in Nat, q \in Nat : 2 * (p * q) = p * (2 * q)
    OBVIOUS
  <2>6. 2 ^ (a + k) = 2 ^ a * 2 ^ k
    BY <2>2, <2>3, <2>4, <2>5, ZenonT(30)
  <2> QED BY <1>2, <2>6
<1> QED BY <1>3, <1>4

\* Dividing twice is dividing by the product.
LEMMA DivDiv ==
  ASSUME NEW x \in Nat, NEW p \in Nat, NEW q \in Nat, p > 0, q > 0
  PROVE  /\ x \div p \in Nat /\ p * q \in Nat /\ p * q > 0
         /\ x \div (p * q) = (x \div p) \div q
<1> DEFINE u == x \div p
           r == x % p
           w == u \div q
           s == u % q
<1>1. x = p * u + r /\ u \in Nat /\ r \in 0..p - 1
  OBVIOUS
<1>2. u = q * w + s /\ w \in Nat /\ s \in 0..q - 1
  BY <1>1
<1> HIDE DEF u, r, w, s
<1>3. x = (p * q) * w + (p * s + r)
  <2>1. p * u = p * (q * w + s)
    BY <1>2
  <2>2. p * (q * w + s) = (p * q) * w + p * s
    BY <1>2
  <2>4. p * u \in Int /\ (p * q) * w \in Int /\ p * s \in Int /\ r \in Int
    BY <1>1, <1>2
  <2>5. p * u = (p * q) * w + p * s
    BY <2>1, <2>2, Zenon
  <2> DEFINE b == (p * q) * w
             c == p * s
             a == p * u
  <2>6. a \in Int /\ b \in Int /\ c \in Int /\ r \in Int /\ x = a + r /\ a = b + c
    BY <1>1, <2>4, <2>5
  <2> HIDE DEF a, b, c
  <2>7. x = b + (c + r)
    BY <2>6
  <2> QED BY <2>7 DEF b, c
<1>4. p * q \in Nat /\ p * q > 0
  OBVIOUS
<1>5. p * s + r \in 0..p * q - 1
  <2>1. p * s <= p * (q - 1)
    BY <1>2
  <2>2. p * (q - 1) = p * q - p
    OBVIOUS
  <2>3. p * s \in Nat
    BY <1>2
  <2> QED BY <1>1, <1>4, <2>1, <2>2, <2>3
<1>6. \A n \in Nat, m \in Nat : \A c \in 0..m - 1 : m > 0 /\ x = m * n + c => x \div m = n
  OBVIOUS
<1>7. x \div (p * q) = w
  BY <1>2, <1>3, <1>4, <1>5, <1>6
<1> QED BY <1>1, <1>4, <1>7 DEF u, w

----------------------------------------------------------------------------
\* The value of a byte with i bytes below it.
Place(i) == 2 ^ (Width * i)
Word(n) == {w \in Seq(0..E!Byte - 1) : Len(w) = n}

LEMMA ByteType == E!Byte \in Nat /\ E!Byte > 1 /\ E!Byte % 2 = 0
<1>1. Width - 1 \in Nat /\ (Width - 1) + 1 = Width
  BY FieldConstants
<1>2. 2 ^ (Width - 1) \in Nat /\ 2 ^ (Width - 1) > 0
  BY <1>1, PowerOfTwo
<1>3. 2 ^ Width = 2 * 2 ^ (Width - 1)
  BY <1>1, PowerOfTwo, Zenon
<1> QED BY <1>2, <1>3 DEF E!Byte

LEMMA PlaceValues ==
  ASSUME NEW i \in Nat
  PROVE  /\ Place(i) \in Nat /\ Place(i) > 0
         /\ Place(0) = 1 /\ Place(i + 1) = Place(i) * E!Byte
<1>1. Width \in Nat /\ Width * i \in Nat /\ Width * 0 = 0 /\ Width * (i + 1) = Width * i + Width
  BY FieldConstants
<1>2. 2 ^ (Width * i + Width) = 2 ^ (Width * i) * 2 ^ Width
  BY <1>1, PowerAdds
<1>3. 2 ^ 0 = 1
  OBVIOUS
<1>4. 2 ^ (Width * i) \in Nat /\ 2 ^ (Width * i) > 0
  BY <1>1, PowerOfTwo
<1> QED BY <1>1, <1>2, <1>3, <1>4 DEF Place, E!Byte

LEMMA HigherPlaces ==
  ASSUME NEW x \in Nat, NEW i \in Nat
  PROVE  /\ x \div Place(i) \in Nat
         /\ x \div Place(i + 1) = (x \div Place(i)) \div E!Byte
<1>1. Place(i) \in Nat /\ Place(i) > 0 /\ Place(i + 1) = Place(i) * E!Byte
  BY PlaceValues
<1> QED BY <1>1, ByteType, DivDiv

LEMMA WordIs ==
  ASSUME NEW n \in Nat, NEW w
  PROVE  /\ w \in Word(n) <=> w \in [1..n -> 0..E!Byte - 1]
         /\ w \in Word(n) => /\ w \in Seq(0..E!Byte - 1) /\ w \in Seq(Nat)
                             /\ Len(w) = n /\ DOMAIN w = 1..n
<1>1. ASSUME w \in Word(n) PROVE w \in [1..n -> 0..E!Byte - 1] /\ w \in Seq(0..E!Byte - 1) /\ Len(w) = n
  BY <1>1, LenProperties DEF Word
<1>2. ASSUME w \in [1..n -> 0..E!Byte - 1] PROVE w \in Word(n)
  <2>1. w \in Seq(0..E!Byte - 1)
    <3> DEFINE S == 0..E!Byte - 1
    <3>1. w \in [1..n -> S]
      BY <1>2
    <3> HIDE DEF S
    <3>2. \E m \in Nat : w \in [1..m -> S]
      BY <3>1
    <3>3. w \in Seq(S)
      BY <3>2, SeqDef
    <3> QED BY <3>3 DEF S
  <2>2. Len(w) = n
    BY <1>2, <2>1, LenProperties
  <2> QED BY <2>1, <2>2 DEF Word
<1>3. ASSUME w \in Seq(0..E!Byte - 1) PROVE w \in Seq(Nat)
  <2>1. 0..E!Byte - 1 \subseteq Nat
    BY ByteType
  <2> QED BY <1>3, <2>1, SeqMonotonic
<1> QED BY <1>1, <1>2, <1>3

LEMMA WordJoin ==
  ASSUME NEW m \in Nat, NEW n \in Nat, NEW a \in Word(m), NEW b \in Word(n)
  PROVE  /\ a \o b \in Word(m + n)
         /\ \A i \in 1..m + n : (a \o b)[i] = IF i <= m THEN a[i] ELSE b[i - m]
<1>1. a \in Seq(0..E!Byte - 1) /\ Len(a) = m /\ b \in Seq(0..E!Byte - 1) /\ Len(b) = n
  BY WordIs
<1>2. /\ a \o b \in Seq(0..E!Byte - 1) /\ Len(a \o b) = m + n
      /\ \A i \in 1..m + n : (a \o b)[i] = IF i <= m THEN a[i] ELSE b[i - m]
  BY <1>1, ConcatProperties
<1> QED BY <1>2 DEF Word

LEMMA LEWord ==
  ASSUME NEW v \in Nat, NEW n \in Nat
  PROVE  /\ E!LE(v, n) \in Word(n)
         /\ \A i \in 1..n : E!LE(v, n)[i] = (v \div Place(i - 1)) % E!Byte
<1>1. \A i \in 1..n : (v \div Place(i - 1)) \in Nat
  BY HigherPlaces
<1>2. \A q \in Nat : q % E!Byte \in 0..E!Byte - 1
  BY ByteType
<1>3. E!LE(v, n) = [i \in 1..n |-> (v \div Place(i - 1)) % E!Byte]
  BY DEF E!LE, Place
<1> DEFINE digit(i) == (v \div Place(i - 1)) % E!Byte
<1>4. E!LE(v, n) = [i \in 1..n |-> digit(i)] /\ \A i \in 1..n : digit(i) \in 0..E!Byte - 1
  BY <1>1, <1>2, <1>3
<1> HIDE DEF digit
<1>5. E!LE(v, n) \in Word(n) /\ \A i \in 1..n : E!LE(v, n)[i] = digit(i)
  BY <1>4 DEF Word
<1> QED BY <1>5 DEF digit

----------------------------------------------------------------------------
(* The number in a sequence of bytes: the library folds from the right.     *)
Under(bytes, g, s) ==
  IF s = {} THEN 0 ELSE g[s \ {E!Min(s)}] * E!Byte + bytes[E!Min(s)]
IsNumber(g, bytes, m, n) == g = [s \in SUBSET (m..n) |-> Under(bytes, g, s)]

LEMMA LeastOf ==
  ASSUME NEW s \in SUBSET Nat, s # {}
  PROVE  E!Min(s) \in s /\ \A x \in s : E!Min(s) <= x
BY LeastIn DEF E!Min

LEMMA LeastIs ==
  ASSUME NEW m \in Nat, NEW n \in Nat, NEW s \in SUBSET (m..n), m \in s
  PROVE  E!Min(s) = m
<1>1. s \in SUBSET Nat
  OBVIOUS
<1>2. E!Min(s) \in s /\ E!Min(s) <= m
  BY <1>1, LeastOf
<1>3. E!Min(s) \in m..n
  BY <1>2
<1> QED BY <1>2, <1>3

LEMMA NumberExists ==
  ASSUME NEW bytes, NEW n \in Nat
  PROVE  \E g : IsNumber(g, bytes, 1, n)
<1> DEFINE Bad == {k \in 0..n : ~ \E g : IsNumber(g, bytes, n + 1 - k, n)}
<1>1. Bad = {}
  <2> SUFFICES ASSUME Bad # {} PROVE FALSE
    OBVIOUS
  <2>1. PICK k \in Bad : \A j \in Bad : k <= j
    <3>1. Bad \in SUBSET Nat
      OBVIOUS
    <3> HIDE DEF Bad
    <3> QED BY <3>1, LeastIn
  <2>2. k \in 0..n /\ k \in Nat
    BY <2>1
  <2>3. CASE k = 0
    <3> DEFINE g == [s \in SUBSET (n + 1..n) |-> 0]
    <3>1. \A s \in SUBSET (n + 1..n) : s = {}
      OBVIOUS
    <3>2. g = [s \in SUBSET (n + 1..n) |-> Under(bytes, g, s)]
      BY <3>1 DEF Under
    <3>3. n + 1 - 0 = n + 1
      OBVIOUS
    <3> QED BY <2>1, <2>3, <3>2, <3>3 DEF IsNumber
  <2>4. CASE k # 0
    <3> DEFINE m == n + 1 - k
    <3>1. k - 1 \in 0..n /\ k - 1 \notin Bad /\ n + 1 - (k - 1) = m + 1 /\ m \in 1..n
      BY <2>1, <2>2, <2>4
    <3>2. PICK g : IsNumber(g, bytes, m + 1, n)
      BY <3>1
    <3> DEFINE h == [s \in SUBSET (m..n) |-> IF m \in s THEN g[s \ {m}] * E!Byte + bytes[m] ELSE g[s]]
    <3>6. m \in Nat
      BY <3>1
    <3> HIDE DEF m
    <3>3. ASSUME NEW s \in SUBSET (m..n) PROVE h[s] = Under(bytes, h, s)
      <4>1. CASE m \in s
        <5>1. E!Min(s) = m /\ s # {}
          BY <3>6, <4>1, LeastIs
        <5>2. s \ {m} \in SUBSET (m..n) /\ m \notin s \ {m}
          OBVIOUS
        <5>3. h[s \ {m}] = g[s \ {m}]
          BY <5>2
        <5>4. h[s] = g[s \ {m}] * E!Byte + bytes[m]
          BY <4>1
        <5> HIDE DEF h
        <5> QED BY <5>1, <5>3, <5>4 DEF Under
      <4>2. CASE m \notin s
        <5>1. s \in SUBSET (m + 1..n)
          <6>1. \A x \in s : x \in m..n /\ x # m
            BY <4>2
          <6>2. \A x \in m..n : x # m => x \in m + 1..n
            BY <3>6
          <6> QED BY <6>1, <6>2
        <5>2. h[s] = Under(bytes, g, s)
          BY <3>2, <4>2, <5>1 DEF IsNumber
        <5>3. CASE s = {}
          BY <5>2, <5>3 DEF Under
        <5>4. CASE s # {}
          <6>1. s \ {E!Min(s)} \in SUBSET (m..n) /\ m \notin s \ {E!Min(s)}
            BY <4>2
          <6>2. h[s \ {E!Min(s)}] = g[s \ {E!Min(s)}]
            BY <6>1
          <6> HIDE DEF h
          <6> QED BY <5>2, <5>4, <6>2 DEF Under
        <5> QED BY <5>3, <5>4
      <4> QED BY <4>1, <4>2
    <3>4. IsNumber(h, bytes, m, n)
      <4>1. h = [s \in SUBSET (m..n) |-> h[s]]
        OBVIOUS
      <4> HIDE DEF h
      <4> QED BY <3>3, <4>1 DEF IsNumber
    <3> QED BY <2>1, <3>4 DEF m
  <2> QED BY <2>3, <2>4
<1>2. n \in 0..n /\ n + 1 - n = 1
  OBVIOUS
<1> QED BY <1>1, <1>2

LEMMA FromLEIs ==
  ASSUME NEW bytes, NEW n \in Nat, DOMAIN bytes = 1..n
  PROVE  \E g : IsNumber(g, bytes, 1, n) /\ E!FromLE(bytes) = g[1..n]
<1> DEFINE fold == CHOOSE g : g = [s \in SUBSET (1..n) |->
                     IF s = {} THEN 0 ELSE g[s \ {E!Min(s)}] * E!Byte + bytes[E!Min(s)]]
<1>1. E!FromLE(bytes) = fold[1..n]
  BY DEF E!FromLE, E!FoldRight, E!MapThenFoldSet
<1>2. \E g : g = [s \in SUBSET (1..n) |->
                     IF s = {} THEN 0 ELSE g[s \ {E!Min(s)}] * E!Byte + bytes[E!Min(s)]]
  BY NumberExists, Zenon DEF IsNumber, Under
<1>3. fold = [s \in SUBSET (1..n) |->
                     IF s = {} THEN 0 ELSE fold[s \ {E!Min(s)}] * E!Byte + bytes[E!Min(s)]]
  BY <1>2, Zenon
<1>4. IsNumber(fold, bytes, 1, n)
  BY <1>3, Zenon DEF IsNumber, Under
<1> QED BY <1>1, <1>4

\* Horner's scheme: what the bytes from each place on are worth.
IsWorth(h, w, n) ==
  /\ h \in [1..n + 1 -> Nat]
  /\ h[n + 1] = 0
  /\ \A i \in 1..n : h[i] = h[i + 1] * E!Byte + w[i]
  /\ E!FromLE(w) = h[1]

LEMMA Worth ==
  ASSUME NEW n \in Nat, NEW w \in Word(n)
  PROVE  \E h : IsWorth(h, w, n)
<1>1. w \in [1..n -> 0..E!Byte - 1] /\ DOMAIN w = 1..n
  BY WordIs
<1>2. PICK g : IsNumber(g, w, 1, n) /\ E!FromLE(w) = g[1..n]
  BY <1>1, FromLEIs
<1> DEFINE h == [i \in 1..n + 1 |-> g[i..n]]
<1>3. h[n + 1] = 0
  <2>1. n + 1..n = {} /\ {} \in SUBSET (1..n) /\ n + 1 \in 1..n + 1
    OBVIOUS
  <2>2. g[{}] = 0
    BY <1>2, <2>1 DEF IsNumber, Under
  <2> QED BY <2>1, <2>2
<1>4. ASSUME NEW i \in 1..n PROVE h[i] = h[i + 1] * E!Byte + w[i]
  <2>1. i \in Nat /\ i \in i..n /\ i..n \in SUBSET (1..n) /\ i..n \in SUBSET (i..n) /\ i..n # {}
    OBVIOUS
  <2>2. (i..n) \ {i} = i + 1..n
    OBVIOUS
  <2>3. E!Min(i..n) = i
    BY <2>1, LeastIs
  <2>4. g[i..n] = Under(w, g, i..n)
    BY <1>2, <2>1 DEF IsNumber
  <2>5. g[i..n] = g[i + 1..n] * E!Byte + w[i]
    BY <2>1, <2>2, <2>3, <2>4 DEF Under
  <2>6. i \in 1..n + 1 /\ i + 1 \in 1..n + 1
    OBVIOUS
  <2> QED BY <2>5, <2>6
<1>5. h[1] = g[1..n]
  BY 1 \in 1..n + 1
<1> DEFINE Bad == {k \in 0..n : h[n + 1 - k] \notin Nat}
<1>6. Bad = {}
  <2> SUFFICES ASSUME Bad # {} PROVE FALSE
    OBVIOUS
  <2>1. PICK k \in Bad : \A j \in Bad : k <= j
    <3>1. Bad \in SUBSET Nat
      OBVIOUS
    <3> HIDE DEF Bad
    <3> QED BY <3>1, LeastIn
  <2>2. k \in 0..n /\ k \in Nat /\ h[n + 1 - k] \notin Nat
    BY <2>1
  <2>3. k # 0
    BY <1>3, <2>2
  <2>4. k - 1 \in 0..n /\ k - 1 \notin Bad /\ n + 1 - (k - 1) = (n + 1 - k) + 1 /\ n + 1 - k \in 1..n
    BY <2>1, <2>2, <2>3
  <2>5. h[(n + 1 - k) + 1] \in Nat
    BY <2>4
  <2> HIDE DEF h
  <2>6. h[n + 1 - k] = h[(n + 1 - k) + 1] * E!Byte + w[n + 1 - k]
    BY <1>4, <2>4
  <2>7. w[n + 1 - k] \in Nat
    BY <1>1, <2>4, ByteType
  <2> QED BY <2>2, <2>5, <2>6, <2>7, ByteType
<1>7. h \in [1..n + 1 -> Nat]
  <2>1. ASSUME NEW i \in 1..n + 1 PROVE h[i] \in Nat
    <3>1. n + 1 - i \in 0..n /\ n + 1 - (n + 1 - i) = i
      OBVIOUS
    <3>2. n + 1 - i \notin Bad
      BY <1>6
    <3> QED BY <3>1, <3>2
  <2> QED BY <2>1
<1> HIDE DEF h
<1> QED BY <1>2, <1>3, <1>4, <1>5, <1>7 DEF IsWorth

\* A word is the digits of its number.
LEMMA Digits256 ==
  ASSUME NEW n \in Nat, NEW w \in Word(n)
  PROVE  /\ E!FromLE(w) \in Nat
         /\ \A i \in 1..n : (E!FromLE(w) \div Place(i - 1)) % E!Byte = w[i]
<1>1. PICK h : IsWorth(h, w, n)
  BY Worth
<1>2. \A i \in 1..n + 1 : h[i] \in Nat
  BY <1>1 DEF IsWorth
<1>3. \A i \in 1..n : w[i] \in 0..E!Byte - 1
  BY WordIs
<1>4. E!FromLE(w) = h[1] /\ E!FromLE(w) \in Nat
  BY <1>1, <1>2 DEF IsWorth
<1>5. ASSUME NEW i \in 1..n PROVE h[i] \div E!Byte = h[i + 1] /\ h[i] % E!Byte = w[i]
  <2>1. h[i] = h[i + 1] * E!Byte + w[i] /\ h[i + 1] \in Nat /\ w[i] \in 0..E!Byte - 1
    BY <1>1, <1>2, <1>3 DEF IsWorth
  <2>2. \A m \in Nat, p \in Nat : \A c \in 0..m - 1 : m > 0 => (p * m + c) \div m = p /\ (p * m + c) % m = c
    <3> SUFFICES ASSUME NEW m \in Nat, NEW p \in Nat, NEW c \in 0..m - 1, m > 0
                 PROVE  (p * m + c) \div m = p /\ (p * m + c) % m = c
      OBVIOUS
    <3> DEFINE x == p * m + c
    <3>1. x \in Nat /\ x = m * (x \div m) + (x % m) /\ x % m \in 0..m - 1 /\ x \div m \in Nat
      OBVIOUS
    <3>2. x \div m = p
      OBVIOUS
    <3> QED BY <3>1, <3>2
  <2> DEFINE p == h[i + 1]
             c == w[i]
  <2>3. p \in Nat /\ c \in 0..E!Byte - 1 /\ h[i] = p * E!Byte + c
    BY <2>1
  <2> HIDE DEF p, c
  <2>4. h[i] \div E!Byte = p /\ h[i] % E!Byte = c
    BY <2>2, <2>3, ByteType
  <2> QED BY <2>4 DEF p, c
<1> DEFINE Bad == {k \in 0..n : E!FromLE(w) \div Place(k) # h[k + 1]}
<1>6. Bad = {}
  <2> SUFFICES ASSUME Bad # {} PROVE FALSE
    OBVIOUS
  <2>1. PICK k \in Bad : \A j \in Bad : k <= j
    <3>1. Bad \in SUBSET Nat
      OBVIOUS
    <3> HIDE DEF Bad
    <3> QED BY <3>1, LeastIn
  <2>2. k \in 0..n /\ k \in Nat /\ E!FromLE(w) \div Place(k) # h[k + 1]
    BY <2>1
  <2>3. k # 0
    <3>1. Place(0) = 1 /\ E!FromLE(w) \div 1 = E!FromLE(w)
      BY <1>4, <2>2, PlaceValues
    <3> QED BY <1>4, <2>2, <3>1
  <2>4. k - 1 \in 0..n /\ k - 1 \in Nat /\ k - 1 \notin Bad /\ (k - 1) + 1 = k /\ k \in 1..n
    BY <2>1, <2>2, <2>3
  <2>5. E!FromLE(w) \div Place(k - 1) = h[k]
    BY <2>4
  <2>6. E!FromLE(w) \div Place(k) = (E!FromLE(w) \div Place(k - 1)) \div E!Byte
    BY <1>4, <2>4, HigherPlaces, Zenon
  <2> QED BY <1>5, <2>2, <2>4, <2>5, <2>6
<1>7. ASSUME NEW i \in 1..n PROVE (E!FromLE(w) \div Place(i - 1)) % E!Byte = w[i]
  <2>1. i - 1 \in 0..n /\ (i - 1) + 1 = i /\ i - 1 \notin Bad
    BY <1>6
  <2>2. E!FromLE(w) \div Place(i - 1) = h[i]
    BY <2>1
  <2> QED BY <1>5, <2>2
<1> QED BY <1>4, <1>7

LEMMA LEUndoes ==
  ASSUME NEW n \in Nat, NEW w \in Word(n)
  PROVE  E!LE(E!FromLE(w), n) = w
<1>1. E!FromLE(w) \in Nat /\ \A i \in 1..n : (E!FromLE(w) \div Place(i - 1)) % E!Byte = w[i]
  BY Digits256
<1>2. E!LE(E!FromLE(w), n) \in Word(n) /\ \A i \in 1..n : E!LE(E!FromLE(w), n)[i] = w[i]
  BY <1>1, LEWord
<1> QED BY <1>2 DEF Word

\* A number that fits is what its bytes say.
LEMMA FromLEUndoes ==
  ASSUME NEW n \in Nat, NEW v \in 0..Place(n) - 1
  PROVE  E!FromLE(E!LE(v, n)) = v
<1> DEFINE w == E!LE(v, n)
<1>1. v \in Nat /\ Place(n) \in Nat /\ Place(n) > 0
  BY PlaceValues
<1>2. w \in Word(n) /\ \A i \in 1..n : w[i] = (v \div Place(i - 1)) % E!Byte
  BY <1>1, LEWord
<1> HIDE DEF w
<1>3. PICK h : IsWorth(h, w, n)
  BY <1>2, Worth
<1> DEFINE Bad == {k \in 0..n : h[n + 1 - k] # v \div Place(n - k)}
<1>4. Bad = {}
  <2> SUFFICES ASSUME Bad # {} PROVE FALSE
    OBVIOUS
  <2>1. PICK k \in Bad : \A j \in Bad : k <= j
    <3>1. Bad \in SUBSET Nat
      OBVIOUS
    <3> HIDE DEF Bad
    <3> QED BY <3>1, LeastIn
  <2>2. k \in 0..n /\ k \in Nat /\ h[n + 1 - k] # v \div Place(n - k)
    BY <2>1
  <2>3. k # 0
    <3>1. v \div Place(n) = 0
      BY <1>1
    <3>2. n + 1 - 0 = n + 1 /\ n - 0 = n
      OBVIOUS
    <3> QED BY <1>3, <2>2, <3>1, <3>2 DEF IsWorth
  <2> DEFINE i == n + 1 - k
  <2>4. k - 1 \in 0..n /\ k - 1 \notin Bad /\ n + 1 - (k - 1) = i + 1 /\ n - (k - 1) = i
        /\ n - k = i - 1 /\ i - 1 \in Nat /\ (i - 1) + 1 = i /\ i \in 1..n
    BY <2>1, <2>2, <2>3
  <2>5. h[i + 1] = v \div Place(i)
    <3>1. h[n + 1 - (k - 1)] = v \div Place(n - (k - 1))
      BY <2>4
    <3> QED BY <2>4, <3>1
  <2>6. h[i] # v \div Place(i - 1)
    BY <2>2, <2>4
  <2> HIDE DEF i
  <2>7. h[i] = h[i + 1] * E!Byte + w[i] /\ w[i] = (v \div Place(i - 1)) % E!Byte
    BY <1>2, <1>3, <2>4 DEF IsWorth
  <2>8. v \div Place(i - 1) \in Nat
    BY <1>1, <2>4, HigherPlaces
  <2>10. v \div Place(i) = (v \div Place(i - 1)) \div E!Byte
    <3>1. v \div Place((i - 1) + 1) = (v \div Place(i - 1)) \div E!Byte
      BY <1>1, <2>4, HigherPlaces
    <3> QED BY <2>4, <3>1
  <2>9. \A q \in Nat : (q \div E!Byte) * E!Byte + (q % E!Byte) = q
    BY ByteType
  <2> QED BY <2>5, <2>6, <2>7, <2>8, <2>9, <2>10
<1>5. h[1] = v
  <2>1. n \in 0..n /\ n \notin Bad /\ n + 1 - n = 1 /\ n - n = 0
    BY <1>4
  <2>2. h[1] = v \div Place(0)
    BY <2>1
  <2>3. Place(0) = 1 /\ v \div 1 = v
    BY <1>1, PlaceValues
  <2> QED BY <2>2, <2>3
<1> QED BY <1>3, <1>5 DEF IsWorth, w

----------------------------------------------------------------------------
\* The bits of a byte are bits of the number it is cut from.
LEMMA LowBits ==
  ASSUME NEW y \in Nat, NEW r \in 0..Width - 1
  PROVE  ((y % E!Byte) \div 2 ^ r) % 2 = (y \div 2 ^ r) % 2
<1> DEFINE p == 2 ^ r
           c == 2 ^ (Width - r - 1)
           t == y \div E!Byte
           z == y % E!Byte
           q == z \div p
<1>1. p \in Nat /\ p > 0 /\ c \in Nat /\ c > 0
  BY FieldConstants, PowerOfTwo
<1>2. E!Byte = p * (2 * c)
  <2>1. r \in Nat /\ Width - r - 1 \in Nat /\ Width - r \in Nat /\ (Width - r - 1) + 1 = Width - r
        /\ r + (Width - r) = Width
    BY FieldConstants
  <2>2. 2 ^ (r + (Width - r)) = 2 ^ r * 2 ^ (Width - r)
    BY <2>1, PowerAdds
  <2>3. 2 ^ ((Width - r - 1) + 1) = 2 * 2 ^ (Width - r - 1)
    BY <2>1, PowerOfTwo
  <2> QED BY <2>1, <2>2, <2>3, Zenon DEF E!Byte
<1>3. y = E!Byte * t + z /\ t \in Nat /\ z \in 0..E!Byte - 1 /\ z \in Nat
  BY ByteType
<1>4. z = p * q + (z % p) /\ q \in Nat /\ z % p \in 0..p - 1
  BY <1>1, <1>3
<1> HIDE DEF p, c, t, z, q
<1>5. y = p * (2 * (c * t) + q) + (z % p)
  <2>1. E!Byte * t = p * (2 * (c * t))
    BY <1>1, <1>2, <1>3
  <2>2. p * (2 * (c * t) + q) = p * (2 * (c * t)) + p * q
    BY <1>1, <1>3, <1>4
  <2>3. E!Byte * t \in Nat /\ p * q \in Nat
    BY <1>1, <1>3, <1>4, ByteType
  <2> DEFINE u == E!Byte * t
             v == p * q
             e == p * (2 * (c * t) + q)
  <2>4. y = u + z /\ z = v + (z % p) /\ e = u + v /\ u \in Nat /\ v \in Nat /\ z % p \in Nat
    BY <1>3, <1>4, <2>1, <2>2, <2>3
  <2> HIDE DEF u, v, e
  <2>5. y = e + (z % p)
    BY <2>4
  <2> QED BY <2>5 DEF e
<1>6. 2 * (c * t) + q \in Nat /\ c * t \in Nat
  BY <1>1, <1>3, <1>4
<1>7. y \div p = 2 * (c * t) + q
  <2>1. \A n \in Nat : \A d \in 0..p - 1 : y = p * n + d => y \div p = n
    BY <1>1
  <2> QED BY <1>4, <1>5, <1>6, <2>1
<1>8. \A a \in Nat, b \in Nat : (2 * a + b) % 2 = b % 2
  OBVIOUS
<1>9. (y \div p) % 2 = q % 2
  BY <1>4, <1>6, <1>7, <1>8
<1> QED BY <1>9 DEF p, q, z

\* Where a position falls: in which byte and at which bit of it.
LEMMA Cut ==
  ASSUME NEW W \in Nat, W > 0, NEW k \in Nat, NEW r \in 0..W - 1
  PROVE  (W * k + r) \div W = k /\ (W * k + r) % W = r
<1> DEFINE x == W * k + r
<1>1. x \in Nat
  OBVIOUS
<1>2. x = W * (x \div W) + (x % W) /\ x % W \in 0..W - 1 /\ x \div W \in Nat
  BY <1>1
<1>3. x \div W = k
  OBVIOUS
<1> QED BY <1>2, <1>3

LEMMA Within ==
  ASSUME NEW W \in Nat, W > 0, NEW n \in Nat, NEW i \in 1..W * n
  PROVE  /\ (i - 1) \div W \in 0..n - 1 /\ (i - 1) \div W \in Nat
         /\ (i - 1) % W \in 0..W - 1 /\ (i - 1) % W \in Nat
         /\ W * ((i - 1) \div W) + ((i - 1) % W) = i - 1
<1> DEFINE x == i - 1
           k == x \div W
<1>1. x \in Nat /\ x < W * n
  <2>1. W * n \in Nat
    OBVIOUS
  <2> QED BY <2>1
<1> HIDE DEF x
<1>2. k \in Nat /\ x % W \in 0..W - 1 /\ x % W \in Nat /\ W * k + (x % W) = x
  BY <1>1
<1>3. k < n
  <2> SUFFICES ASSUME ~(k < n) PROVE FALSE
    OBVIOUS
  <2>1. W * k >= W * n
    <3> HIDE DEF k
    <3>1. k - n \in Nat /\ W * (k - n) \in Nat
      BY <1>2
    <3>2. W * k = W * n + W * (k - n)
      BY <1>2
    <3> QED BY <3>1, <3>2
  <2> QED BY <1>1, <1>2, <2>1
<1> QED BY <1>2, <1>3 DEF x

LEMMA BitsAre ==
  ASSUME NEW n \in Nat, NEW w \in Word(n)
  PROVE  /\ E!BytesToBits(w) \in Seq({0, 1}) /\ Len(E!BytesToBits(w)) = Width * n
         /\ \A i \in 1..Width * n :
              E!BytesToBits(w)[i] = (w[(i - 1) \div Width + 1] \div 2 ^ ((i - 1) % Width)) % 2
<1>1. w \in [1..n -> 0..E!Byte - 1] /\ Len(w) = n /\ E!Byte \in Nat /\ Width \in Nat /\ Width > 0 /\ Width * n \in Nat
  BY WordIs, ByteType, FieldConstants
<1> DEFINE bit(i) == (w[(i - 1) \div Width + 1] \div 2 ^ ((i - 1) % Width)) % 2
<1>2. ASSUME NEW i \in 1..Width * n PROVE bit(i) \in {0, 1}
  <2>1. (i - 1) \div Width \in 0..n - 1 /\ (i - 1) % Width \in Nat
    BY <1>1, Within
  <2>2. (i - 1) \div Width + 1 \in 1..n
    BY <1>1, <2>1
  <2>3. w[(i - 1) \div Width + 1] \in Nat
    BY <1>1, <2>2
  <2>4. 2 ^ ((i - 1) % Width) \in Nat /\ 2 ^ ((i - 1) % Width) > 0
    BY <2>1, PowerOfTwo
  <2>5. \A a \in Nat, b \in Nat : b > 0 => (a \div b) % 2 \in {0, 1}
    <3> SUFFICES ASSUME NEW a \in Nat, NEW b \in Nat, b > 0 PROVE (a \div b) % 2 \in {0, 1}
      OBVIOUS
    <3>1. a \div b \in Nat
      OBVIOUS
    <3> QED BY <3>1
  <2> QED BY <2>3, <2>4, <2>5
<1>3. E!BytesToBits(w) = [i \in 1..Width * n |-> bit(i)]
  BY <1>1 DEF E!BytesToBits
<1> HIDE DEF bit
<1>4. E!BytesToBits(w) \in Seq({0, 1}) /\ Len(E!BytesToBits(w)) = Width * n
      /\ \A i \in 1..Width * n : E!BytesToBits(w)[i] = bit(i)
  BY <1>1, <1>2, <1>3
<1> QED BY <1>4 DEF bit

\* The bits of a number are those of its bytes.
LEMMA NumberBits ==
  ASSUME NEW v \in Nat, NEW n \in Nat
  PROVE  E!NumberToBits(v, Width * n) = E!BytesToBits(E!LE(v, n))
<1>1. Width \in Nat /\ Width > 0 /\ Width * n \in Nat
  BY FieldConstants
<1>2. E!LE(v, n) \in Word(n) /\ \A i \in 1..n : E!LE(v, n)[i] = (v \div Place(i - 1)) % E!Byte
  BY LEWord
<1>3. ASSUME NEW i \in 1..Width * n PROVE E!BytesToBits(E!LE(v, n))[i] = (v \div 2 ^ (i - 1)) % 2
  <2> DEFINE k == (i - 1) \div Width
             r == (i - 1) % Width
  <2>1. k \in 0..n - 1 /\ r \in 0..Width - 1 /\ Width * k + r = i - 1 /\ k \in Nat /\ r \in Nat
    BY <1>1, Within
  <2>2. E!BytesToBits(E!LE(v, n))[i] = (E!LE(v, n)[k + 1] \div 2 ^ r) % 2
    BY <1>2, BitsAre
  <2> HIDE DEF k, r
  <2>3. E!LE(v, n)[k + 1] = (v \div Place(k)) % E!Byte
    <3>1. k + 1 \in 1..n /\ (k + 1) - 1 = k
      BY <2>1
    <3> QED BY <1>2, <3>1
  <2>4. v \div Place(k) \in Nat
    BY <2>1, HigherPlaces
  <2>5. E!BytesToBits(E!LE(v, n))[i] = ((v \div Place(k)) \div 2 ^ r) % 2
    BY <2>1, <2>2, <2>3, <2>4, LowBits
  <2>6. Place(k) \in Nat /\ Place(k) > 0 /\ 2 ^ r \in Nat /\ 2 ^ r > 0
    BY <2>1, PlaceValues, PowerOfTwo
  <2>7. v \div (Place(k) * 2 ^ r) = (v \div Place(k)) \div 2 ^ r
    BY <2>6, DivDiv
  <2>8. Place(k) * 2 ^ r = 2 ^ (i - 1)
    <3>1. Width * k \in Nat
      BY <1>1, <2>1
    <3>2. 2 ^ (Width * k + r) = 2 ^ (Width * k) * 2 ^ r
      BY <2>1, <3>1, PowerAdds
    <3> QED BY <2>1, <3>2 DEF Place
  <2> QED BY <2>5, <2>7, <2>8
<1>4. E!BytesToBits(E!LE(v, n)) \in Seq({0, 1}) /\ Len(E!BytesToBits(E!LE(v, n))) = Width * n
  BY <1>2, BitsAre
<1> DEFINE bit(i) == (v \div 2 ^ (i - 1)) % 2
<1>5. E!NumberToBits(v, Width * n) = [i \in 1..Width * n |-> bit(i)]
  BY DEF E!NumberToBits
<1> HIDE DEF bit
<1> QED BY <1>1, <1>3, <1>4, <1>5 DEF bit

LEMMA BitsJoin ==
  ASSUME NEW m \in Nat, NEW n \in Nat, NEW a \in Word(m), NEW b \in Word(n)
  PROVE  E!BytesToBits(a) \o E!BytesToBits(b) = E!BytesToBits(a \o b)
<1>1. Width \in Nat /\ Width > 0 /\ Width * m \in Nat /\ Width * n \in Nat
      /\ Width * (m + n) = Width * m + Width * n
  BY FieldConstants
<1> DEFINE c == a \o b
           x == E!BytesToBits(a)
           y == E!BytesToBits(b)
           z == E!BytesToBits(c)
<1> HIDE DEF c
<1>0. c \in Word(m + n) /\ \A i \in 1..m + n : c[i] = IF i <= m THEN a[i] ELSE b[i - m]
  BY WordJoin, Zenon DEF c
<1>2. c \in Word(m + n) /\ m + n \in Nat /\ \A i \in 1..m + n : c[i] = IF i <= m THEN a[i] ELSE b[i - m]
  BY <1>0
<1>3. /\ x \in Seq({0, 1}) /\ Len(x) = Width * m
      /\ y \in Seq({0, 1}) /\ Len(y) = Width * n
      /\ z \in Seq({0, 1}) /\ Len(z) = Width * (m + n)
  BY <1>2, BitsAre
<1>4. ASSUME NEW i \in 1..Width * m PROVE z[i] = x[i]
  <2>1. (i - 1) \div Width \in 0..m - 1
    BY <1>1, Within
  <2>2. (i - 1) \div Width + 1 \in 1..m /\ (i - 1) \div Width + 1 \in 1..m + n
    BY <2>1
  <2>3. c[(i - 1) \div Width + 1] = a[(i - 1) \div Width + 1]
    BY <1>2, <2>2
  <2>4. i \in 1..Width * (m + n)
    BY <1>1
  <2>5. x[i] = (a[(i - 1) \div Width + 1] \div 2 ^ ((i - 1) % Width)) % 2
    BY BitsAre
  <2>6. z[i] = (c[(i - 1) \div Width + 1] \div 2 ^ ((i - 1) % Width)) % 2
    BY <1>2, <2>4, BitsAre
  <2> QED BY <2>3, <2>5, <2>6
<1>5. ASSUME NEW i \in 1..Width * n PROVE z[Width * m + i] = y[i]
  <2> DEFINE k == (i - 1) \div Width
             r == (i - 1) % Width
             j == Width * m + i
  <2>1. k \in 0..n - 1 /\ r \in 0..Width - 1 /\ Width * k + r = i - 1 /\ k \in Nat
    BY <1>1, Within
  <2>2. (j - 1) \div Width = m + k /\ (j - 1) % Width = r
    <3>1. j - 1 = Width * (m + k) + r /\ m + k \in Nat
      BY <1>1, <2>1
    <3> HIDE DEF k, r, j
    <3>2. (Width * (m + k) + r) \div Width = m + k /\ (Width * (m + k) + r) % Width = r
      BY <1>1, <2>1, <3>1, Cut
    <3> QED BY <3>1, <3>2
  <2>3. m + k + 1 \in 1..m + n /\ ~(m + k + 1 <= m) /\ (m + k + 1) - m = k + 1
    BY <2>1
  <2>4. c[m + k + 1] = b[k + 1]
    BY <1>2, <2>3
  <2>5. j \in 1..Width * (m + n)
    BY <1>1
  <2>6. y[i] = (b[k + 1] \div 2 ^ r) % 2
    BY BitsAre
  <2>7. z[j] = (c[(j - 1) \div Width + 1] \div 2 ^ ((j - 1) % Width)) % 2
    BY <1>2, <2>5, BitsAre
  <2> QED BY <2>2, <2>4, <2>6, <2>7
<1> HIDE DEF x, y, z
<1>6. /\ x \o y \in Seq({0, 1}) /\ Len(x \o y) = Len(z) /\ Len(z) = Width * m + Width * n
      /\ \A i \in 1..Width * m + Width * n : (x \o y)[i] = IF i <= Width * m THEN x[i] ELSE y[i - Width * m]
  <2> DEFINE e == x \o y
             p == Width * m
             q == Width * n
  <2>1. /\ x \in Seq({0, 1}) /\ Len(x) = p
        /\ y \in Seq({0, 1}) /\ Len(y) = q /\ Len(z) = p + q
    BY <1>1, <1>3
  <2>2. e \in Seq({0, 1}) /\ Len(e) = Len(x) + Len(y)
        /\ \A i \in 1..Len(x) + Len(y) : e[i] = IF i <= Len(x) THEN x[i] ELSE y[i - Len(x)]
    BY <1>3, ConcatProperties, Zenon
  <2> HIDE DEF e, p, q
  <2>3. e \in Seq({0, 1}) /\ Len(e) = Len(z) /\ Len(z) = p + q
        /\ \A i \in 1..p + q : e[i] = IF i <= p THEN x[i] ELSE y[i - p]
    BY <2>1, <2>2
  <2> QED BY <2>3, Zenon DEF e, p, q
<1>7. ASSUME NEW i \in 1..Len(z) PROVE (x \o y)[i] = z[i]
  <2>1. CASE i <= Width * m
    BY <1>1, <1>4, <1>6, <2>1
  <2>2. CASE ~(i <= Width * m)
    <3>1. i - Width * m \in 1..Width * n /\ Width * m + (i - Width * m) = i
      BY <1>1, <1>6, <2>2
    <3>2. (x \o y)[i] = y[i - Width * m]
      BY <1>1, <1>6, <2>2
    <3> QED BY <1>5, <3>1, <3>2
  <2> QED BY <2>1, <2>2
<1> QED BY <1>3, <1>6, <1>7, SeqEqual DEF x, y, z, c

----------------------------------------------------------------------------
LEMMA WordEqual ==
  ASSUME NEW n \in Nat, NEW a \in Word(n), NEW b \in Word(n), \A i \in 1..n : a[i] = b[i]
  PROVE  a = b
<1>1. a \in [1..n -> 0..E!Byte - 1] /\ b \in [1..n -> 0..E!Byte - 1]
  BY WordIs
<1> QED BY <1>1

LEMMA Slice ==
  ASSUME NEW m \in Nat, NEW w \in Word(m), NEW p \in Nat, NEW n \in Nat, p + n <= m
  PROVE  /\ SubSeq(w, p + 1, p + n) \in Word(n)
         /\ \A i \in 1..n : SubSeq(w, p + 1, p + n)[i] = w[p + i]
<1> DEFINE S == 0..E!Byte - 1
           from == p + 1
           to == p + n
           t == SubSeq(w, from, to)
<1>1. w \in [1..m -> S]
  BY WordIs
<1> HIDE DEF S
<1>2. from \in Int /\ to \in Int /\ \A i \in from..to : w[i] \in S
  BY <1>1
<1>3. (IF from <= to THEN to - from + 1 ELSE 0) = n /\ to - from + 1 = n
      /\ \A i \in 1..n : from + i - 1 = p + i
  OBVIOUS
<1> HIDE DEF from, to
<1>4. /\ t \in Seq(S) /\ Len(t) = (IF from <= to THEN to - from + 1 ELSE 0)
      /\ \A i \in 1..to - from + 1 : t[i] = w[from + i - 1]
  BY <1>2, SubSeqProperties
<1> HIDE DEF t
<1>5. t \in Seq(S) /\ Len(t) = n /\ \A i \in 1..n : t[i] = w[p + i]
  BY <1>3, <1>4
<1> QED BY <1>5, Zenon DEF Word, S, t, from, to

\* Concatenation and subsequence, for the provers to take as they are.
Joint(x, y) == x \o y
Part(w, p, q) == SubSeq(w, p, q)

\* A part of a concatenation is a part of the left word, or the right one.
LEMMA Peel ==
  ASSUME NEW m \in Nat, NEW k \in Nat, NEW a \in Word(m), NEW b \in Word(k),
         NEW p \in Nat, NEW n \in Nat, p + n <= m
  PROVE  Part(Joint(a, b), p + 1, p + n) = Part(a, p + 1, p + n)
<1> DEFINE c == a \o b
<1>1. c \in Word(m + k) /\ \A i \in 1..m + k : c[i] = IF i <= m THEN a[i] ELSE b[i - m]
  BY WordJoin, Zenon
<1> HIDE DEF c
<1>2. m + k \in Nat /\ p + n <= m + k
  OBVIOUS
<1>3. /\ SubSeq(c, p + 1, p + n) \in Word(n)
      /\ \A i \in 1..n : SubSeq(c, p + 1, p + n)[i] = c[p + i]
  BY <1>1, <1>2, Slice
<1>4. /\ SubSeq(a, p + 1, p + n) \in Word(n)
      /\ \A i \in 1..n : SubSeq(a, p + 1, p + n)[i] = a[p + i]
  BY Slice
<1>5. ASSUME NEW i \in 1..n PROVE c[p + i] = a[p + i]
  <2>1. p + i \in 1..m + k /\ p + i <= m
    OBVIOUS
  <2> QED BY <1>1, <2>1
<1>6. SubSeq(c, p + 1, p + n) = SubSeq(a, p + 1, p + n)
  BY <1>3, <1>4, <1>5, WordEqual
<1> QED BY <1>6, Zenon DEF c, Joint, Part

LEMMA Rest ==
  ASSUME NEW m \in Nat, NEW k \in Nat, NEW a \in Word(m), NEW b \in Word(k),
         NEW p \in Nat, p = m, NEW n \in Nat, n <= k
  PROVE  Part(Joint(a, b), p + 1, p + n) = Part(b, 1, n)
<1> DEFINE c == a \o b
<1>1. c \in Word(m + k) /\ \A i \in 1..m + k : c[i] = IF i <= m THEN a[i] ELSE b[i - m]
  BY WordJoin, ZenonT(30)
<1> HIDE DEF c
<1>2. 0 + 1 = 1 /\ 0 + n = n
  OBVIOUS
<1>7. m + k \in Nat /\ p + n <= m + k
  OBVIOUS
<1>8. 0 + n <= k /\ 0 \in Nat
  OBVIOUS
<1>3. /\ SubSeq(c, p + 1, p + n) \in Word(n)
      /\ \A i \in 1..n : SubSeq(c, p + 1, p + n)[i] = c[p + i]
  BY <1>1, <1>7, Slice
<1>4. /\ SubSeq(b, 0 + 1, 0 + n) \in Word(n)
      /\ \A i \in 1..n : SubSeq(b, 0 + 1, 0 + n)[i] = b[0 + i]
  BY <1>8, Slice, ZenonT(30)
<1>5. ASSUME NEW i \in 1..n PROVE c[p + i] = b[0 + i]
  <2>1. p + i \in 1..m + k /\ ~(p + i <= m) /\ (p + i) - m = 0 + i
    OBVIOUS
  <2> QED BY <1>1, <2>1
<1>6. SubSeq(c, p + 1, p + n) = SubSeq(b, 0 + 1, 0 + n)
  BY <1>3, <1>4, <1>5, WordEqual
<1> QED BY <1>2, <1>6, Zenon DEF c, Joint, Part

LEMMA Whole ==
  ASSUME NEW n \in Nat, NEW w \in Word(n)
  PROVE  SubSeq(w, 1, n) = w
<1>1. 0 + n <= n /\ 0 + 1 = 1 /\ 0 + n = n /\ \A i \in 1..n : 0 + i = i
  OBVIOUS
<1>2. /\ SubSeq(w, 0 + 1, 0 + n) \in Word(n)
      /\ \A i \in 1..n : SubSeq(w, 0 + 1, 0 + n)[i] = w[0 + i]
  BY <1>1, Slice
<1>3. \A i \in 1..n : SubSeq(w, 0 + 1, 0 + n)[i] = w[i]
  BY <1>1, <1>2
<1>4. SubSeq(w, 0 + 1, 0 + n) = w
  BY <1>2, <1>3, WordEqual
<1> QED BY <1>1, <1>4

----------------------------------------------------------------------------
LEMMA Joined ==
  ASSUME NEW m \in Nat, NEW k \in Nat, NEW x \in Word(m), NEW y \in Word(k)
  PROVE  /\ Joint(x, y) \in Word(m + k)
         /\ Part(Joint(x, y), m + 1, m + k) = y
         /\ \A p \in Nat, q \in Nat :
              1 <= p /\ p <= q + 1 /\ q <= m => Part(Joint(x, y), p, q) = Part(x, p, q)
<1>1. Joint(x, y) \in Word(m + k)
  BY WordJoin, Zenon DEF Joint
<1>2. Part(Joint(x, y), m + 1, m + k) = y
  <2>1. m = m /\ k <= k
    OBVIOUS
  <2>2. Part(Joint(x, y), m + 1, m + k) = Part(y, 1, k)
    BY <2>1, Rest
  <2> QED BY <2>2, Whole, Zenon DEF Part
<1>3. ASSUME NEW f \in Nat, NEW n \in Nat, f + n <= m
      PROVE  Part(Joint(x, y), f + 1, f + n) = Part(x, f + 1, f + n)
  BY <1>3, Peel
<1>4. ASSUME NEW p \in Nat, NEW q \in Nat, 1 <= p, p <= q + 1, q <= m
      PROVE  Part(Joint(x, y), p, q) = Part(x, p, q)
  <2>1. PICK f \in Nat : f = p - 1
    BY <1>4
  <2>2. PICK n \in Nat : n = q - f
    BY <1>4, <2>1
  <2>3. f + n <= m
    BY <1>4, <2>1, <2>2
  <2>4. f + 1 = p /\ f + n = q
    BY <1>4, <2>1, <2>2
  <2>5. Part(Joint(x, y), f + 1, f + n) = Part(x, f + 1, f + n)
    BY <1>3, <2>3
  <2> QED BY <2>4, <2>5, Zenon
<1> QED BY <1>1, <1>2, <1>4, Zenon

\* The parts of a word that was put together, by where each of them ends.
OfFiveParts(w, o1, o2, o3, o4, o5, a1, a2, a3, a4, a5) ==
  /\ o1 \in Nat /\ o2 \in Nat /\ o3 \in Nat /\ o4 \in Nat /\ o5 \in Nat
  /\ o1 <= o2 /\ o2 <= o3 /\ o3 <= o4 /\ o4 <= o5
  /\ a1 \in Word(o1) /\ a2 \in Word(o2 - o1) /\ a3 \in Word(o3 - o2)
  /\ a4 \in Word(o4 - o3) /\ a5 \in Word(o5 - o4)
  /\ w = Joint(Joint(Joint(Joint(a1, a2), a3), a4), a5)

LEMMA FiveParts ==
  ASSUME NEW w,
         NEW o1, NEW o2, NEW o3, NEW o4, NEW o5,
         NEW a1, NEW a2, NEW a3, NEW a4, NEW a5,
         OfFiveParts(w, o1, o2, o3, o4, o5, a1, a2, a3, a4, a5)
  PROVE  /\ w \in Word(o5)
         /\ Part(w, 1, o1) = a1
         /\ Part(w, o1 + 1, o2) = a2
         /\ Part(w, o2 + 1, o3) = a3
         /\ Part(w, o3 + 1, o4) = a4
         /\ Part(w, o4 + 1, o5) = a5
<1>h. /\ o1 \in Nat /\ o2 \in Nat /\ o3 \in Nat /\ o4 \in Nat /\ o5 \in Nat
      /\ o1 <= o2 /\ o2 <= o3 /\ o3 <= o4 /\ o4 <= o5
      /\ a1 \in Word(o1) /\ a2 \in Word(o2 - o1) /\ a3 \in Word(o3 - o2)
      /\ a4 \in Word(o4 - o3) /\ a5 \in Word(o5 - o4)
      /\ w = Joint(Joint(Joint(Joint(a1, a2), a3), a4), a5)
  BY Zenon DEF OfFiveParts
<1>1. PICK x1 : x1 = a1
  OBVIOUS
<1> DEFINE x2 == Joint(x1, a2)
           x3 == Joint(x2, a3)
           x4 == Joint(x3, a4)
           x5 == Joint(x4, a5)
<1>2. /\ x1 \in Word(o1)
      /\ Part(x1, 1, o1) = a1
  BY <1>h, <1>1, Whole, Zenon DEF Part
<1>0. w = x5
  BY <1>h, <1>1, Zenon
<1>3. o2 - o1 \in Nat /\ o1 + (o2 - o1) = o2
  BY <1>h
<1>4. /\ x2 \in Word(o2)
      /\ Part(x2, o1 + 1, o2) = a2
      /\ \A p \in Nat, q \in Nat :
           1 <= p /\ p <= q + 1 /\ q <= o1 => Part(x2, p, q) = Part(x1, p, q)
  BY <1>h, <1>2, <1>3, Joined
<1> HIDE DEF x2
<1>5. /\ x2 \in Word(o2)
      /\ Part(x2, 1, o1) = a1
      /\ Part(x2, o1 + 1, o2) = a2
  BY <1>h, <1>2, <1>4
<1>6. o3 - o2 \in Nat /\ o2 + (o3 - o2) = o3
  BY <1>h
<1>7. /\ x3 \in Word(o3)
      /\ Part(x3, o2 + 1, o3) = a3
      /\ \A p \in Nat, q \in Nat :
           1 <= p /\ p <= q + 1 /\ q <= o2 => Part(x3, p, q) = Part(x2, p, q)
  BY <1>h, <1>5, <1>6, Joined
<1> HIDE DEF x3
<1>8. /\ x3 \in Word(o3)
      /\ Part(x3, 1, o1) = a1
      /\ Part(x3, o1 + 1, o2) = a2
      /\ Part(x3, o2 + 1, o3) = a3
  BY <1>h, <1>5, <1>7
<1>9. o4 - o3 \in Nat /\ o3 + (o4 - o3) = o4
  BY <1>h
<1>10. /\ x4 \in Word(o4)
      /\ Part(x4, o3 + 1, o4) = a4
      /\ \A p \in Nat, q \in Nat :
           1 <= p /\ p <= q + 1 /\ q <= o3 => Part(x4, p, q) = Part(x3, p, q)
  BY <1>h, <1>8, <1>9, Joined
<1> HIDE DEF x4
<1>11. /\ x4 \in Word(o4)
      /\ Part(x4, 1, o1) = a1
      /\ Part(x4, o1 + 1, o2) = a2
      /\ Part(x4, o2 + 1, o3) = a3
      /\ Part(x4, o3 + 1, o4) = a4
  BY <1>h, <1>8, <1>10
<1>12. o5 - o4 \in Nat /\ o4 + (o5 - o4) = o5
  BY <1>h
<1>13. /\ x5 \in Word(o5)
      /\ Part(x5, o4 + 1, o5) = a5
      /\ \A p \in Nat, q \in Nat :
           1 <= p /\ p <= q + 1 /\ q <= o4 => Part(x5, p, q) = Part(x4, p, q)
  BY <1>h, <1>11, <1>12, Joined
<1> HIDE DEF x5
<1>14. /\ x5 \in Word(o5)
      /\ Part(x5, 1, o1) = a1
      /\ Part(x5, o1 + 1, o2) = a2
      /\ Part(x5, o2 + 1, o3) = a3
      /\ Part(x5, o3 + 1, o4) = a4
      /\ Part(x5, o4 + 1, o5) = a5
  BY <1>h, <1>11, <1>13
<1> QED BY <1>0, <1>14, Zenon

OfSixParts(w, o1, o2, o3, o4, o5, o6, a1, a2, a3, a4, a5, a6) ==
  /\ o1 \in Nat /\ o2 \in Nat /\ o3 \in Nat /\ o4 \in Nat /\ o5 \in Nat /\ o6 \in Nat
  /\ o1 <= o2 /\ o2 <= o3 /\ o3 <= o4 /\ o4 <= o5 /\ o5 <= o6
  /\ a1 \in Word(o1) /\ a2 \in Word(o2 - o1) /\ a3 \in Word(o3 - o2)
  /\ a4 \in Word(o4 - o3) /\ a5 \in Word(o5 - o4) /\ a6 \in Word(o6 - o5)
  /\ w = Joint(Joint(Joint(Joint(Joint(a1, a2), a3), a4), a5), a6)

LEMMA SixParts ==
  ASSUME NEW w,
         NEW o1, NEW o2, NEW o3, NEW o4, NEW o5, NEW o6,
         NEW a1, NEW a2, NEW a3, NEW a4, NEW a5, NEW a6,
         OfSixParts(w, o1, o2, o3, o4, o5, o6, a1, a2, a3, a4, a5, a6)
  PROVE  /\ w \in Word(o6)
         /\ Part(w, 1, o1) = a1
         /\ Part(w, o1 + 1, o2) = a2
         /\ Part(w, o2 + 1, o3) = a3
         /\ Part(w, o3 + 1, o4) = a4
         /\ Part(w, o4 + 1, o5) = a5
         /\ Part(w, o5 + 1, o6) = a6
<1>h. /\ o1 \in Nat /\ o2 \in Nat /\ o3 \in Nat /\ o4 \in Nat /\ o5 \in Nat /\ o6 \in Nat
      /\ o1 <= o2 /\ o2 <= o3 /\ o3 <= o4 /\ o4 <= o5 /\ o5 <= o6
      /\ a1 \in Word(o1) /\ a2 \in Word(o2 - o1) /\ a3 \in Word(o3 - o2)
      /\ a4 \in Word(o4 - o3) /\ a5 \in Word(o5 - o4) /\ a6 \in Word(o6 - o5)
      /\ w = Joint(Joint(Joint(Joint(Joint(a1, a2), a3), a4), a5), a6)
  BY Zenon DEF OfSixParts
<1>1. PICK x5 : x5 = Joint(Joint(Joint(Joint(a1, a2), a3), a4), a5)
  OBVIOUS
<1> DEFINE x6 == Joint(x5, a6)
<1>2. /\ x5 \in Word(o5)
      /\ Part(x5, 1, o1) = a1
      /\ Part(x5, o1 + 1, o2) = a2
      /\ Part(x5, o2 + 1, o3) = a3
      /\ Part(x5, o3 + 1, o4) = a4
      /\ Part(x5, o4 + 1, o5) = a5
  <2>1. OfFiveParts(x5, o1, o2, o3, o4, o5, a1, a2, a3, a4, a5)
    BY <1>h, <1>1, Zenon DEF OfFiveParts
  <2> QED BY <2>1, FiveParts
<1>0. w = x6
  BY <1>h, <1>1, Zenon
<1>3. o6 - o5 \in Nat /\ o5 + (o6 - o5) = o6
  BY <1>h
<1>4. /\ x6 \in Word(o6)
      /\ Part(x6, o5 + 1, o6) = a6
      /\ \A p \in Nat, q \in Nat :
           1 <= p /\ p <= q + 1 /\ q <= o5 => Part(x6, p, q) = Part(x5, p, q)
  BY <1>h, <1>2, <1>3, Joined
<1> HIDE DEF x6
<1>5. /\ x6 \in Word(o6)
      /\ Part(x6, 1, o1) = a1
      /\ Part(x6, o1 + 1, o2) = a2
      /\ Part(x6, o2 + 1, o3) = a3
      /\ Part(x6, o3 + 1, o4) = a4
      /\ Part(x6, o4 + 1, o5) = a5
      /\ Part(x6, o5 + 1, o6) = a6
  BY <1>h, <1>2, <1>4
<1> QED BY <1>0, <1>5, Zenon

OfEightParts(w, o1, o2, o3, o4, o5, o6, o7, o8, a1, a2, a3, a4, a5, a6, a7, a8) ==
  /\ o1 \in Nat /\ o2 \in Nat /\ o3 \in Nat /\ o4 \in Nat /\ o5 \in Nat /\ o6 \in Nat /\ o7 \in Nat /\ o8 \in Nat
  /\ o1 <= o2 /\ o2 <= o3 /\ o3 <= o4 /\ o4 <= o5 /\ o5 <= o6 /\ o6 <= o7 /\ o7 <= o8
  /\ a1 \in Word(o1) /\ a2 \in Word(o2 - o1) /\ a3 \in Word(o3 - o2)
  /\ a4 \in Word(o4 - o3) /\ a5 \in Word(o5 - o4) /\ a6 \in Word(o6 - o5)
  /\ a7 \in Word(o7 - o6) /\ a8 \in Word(o8 - o7)
  /\ w = Joint(Joint(Joint(Joint(Joint(Joint(Joint(a1, a2), a3), a4), a5), a6), a7), a8)

LEMMA EightParts ==
  ASSUME NEW w,
         NEW o1, NEW o2, NEW o3, NEW o4, NEW o5, NEW o6, NEW o7, NEW o8,
         NEW a1, NEW a2, NEW a3, NEW a4, NEW a5, NEW a6, NEW a7, NEW a8,
         OfEightParts(w, o1, o2, o3, o4, o5, o6, o7, o8, a1, a2, a3, a4, a5, a6, a7, a8)
  PROVE  /\ w \in Word(o8)
         /\ Part(w, 1, o1) = a1
         /\ Part(w, o1 + 1, o2) = a2
         /\ Part(w, o2 + 1, o3) = a3
         /\ Part(w, o3 + 1, o4) = a4
         /\ Part(w, o4 + 1, o5) = a5
         /\ Part(w, o5 + 1, o6) = a6
         /\ Part(w, o6 + 1, o7) = a7
         /\ Part(w, o7 + 1, o8) = a8
<1>h. /\ o1 \in Nat /\ o2 \in Nat /\ o3 \in Nat /\ o4 \in Nat /\ o5 \in Nat /\ o6 \in Nat /\ o7 \in Nat /\ o8 \in Nat
      /\ o1 <= o2 /\ o2 <= o3 /\ o3 <= o4 /\ o4 <= o5 /\ o5 <= o6 /\ o6 <= o7 /\ o7 <= o8
      /\ a1 \in Word(o1) /\ a2 \in Word(o2 - o1) /\ a3 \in Word(o3 - o2)
      /\ a4 \in Word(o4 - o3) /\ a5 \in Word(o5 - o4) /\ a6 \in Word(o6 - o5)
      /\ a7 \in Word(o7 - o6) /\ a8 \in Word(o8 - o7)
      /\ w = Joint(Joint(Joint(Joint(Joint(Joint(Joint(a1, a2), a3), a4), a5), a6), a7), a8)
  BY Zenon DEF OfEightParts
<1>1. PICK x6 : x6 = Joint(Joint(Joint(Joint(Joint(a1, a2), a3), a4), a5), a6)
  OBVIOUS
<1> DEFINE x7 == Joint(x6, a7)
           x8 == Joint(x7, a8)
<1>2. /\ x6 \in Word(o6)
      /\ Part(x6, 1, o1) = a1
      /\ Part(x6, o1 + 1, o2) = a2
      /\ Part(x6, o2 + 1, o3) = a3
      /\ Part(x6, o3 + 1, o4) = a4
      /\ Part(x6, o4 + 1, o5) = a5
      /\ Part(x6, o5 + 1, o6) = a6
  <2>1. OfSixParts(x6, o1, o2, o3, o4, o5, o6, a1, a2, a3, a4, a5, a6)
    BY <1>h, <1>1, Zenon DEF OfSixParts
  <2> QED BY <2>1, SixParts
<1>0. w = x8
  BY <1>h, <1>1, Zenon
<1>3. o7 - o6 \in Nat /\ o6 + (o7 - o6) = o7
  BY <1>h
<1>4. /\ x7 \in Word(o7)
      /\ Part(x7, o6 + 1, o7) = a7
      /\ \A p \in Nat, q \in Nat :
           1 <= p /\ p <= q + 1 /\ q <= o6 => Part(x7, p, q) = Part(x6, p, q)
  BY <1>h, <1>2, <1>3, Joined, SMTT(30)
<1> HIDE DEF x7
<1>5. /\ x7 \in Word(o7)
      /\ Part(x7, 1, o1) = a1
      /\ Part(x7, o1 + 1, o2) = a2
      /\ Part(x7, o2 + 1, o3) = a3
      /\ Part(x7, o3 + 1, o4) = a4
      /\ Part(x7, o4 + 1, o5) = a5
      /\ Part(x7, o5 + 1, o6) = a6
      /\ Part(x7, o6 + 1, o7) = a7
  BY <1>h, <1>2, <1>4
<1>6. o8 - o7 \in Nat /\ o7 + (o8 - o7) = o8
  BY <1>h
<1>7. /\ x8 \in Word(o8)
      /\ Part(x8, o7 + 1, o8) = a8
      /\ \A p \in Nat, q \in Nat :
           1 <= p /\ p <= q + 1 /\ q <= o7 => Part(x8, p, q) = Part(x7, p, q)
  BY <1>h, <1>5, <1>6, Joined, SMTT(30)
<1> HIDE DEF x8
<1>8. /\ x8 \in Word(o8)
      /\ Part(x8, 1, o1) = a1
      /\ Part(x8, o1 + 1, o2) = a2
      /\ Part(x8, o2 + 1, o3) = a3
      /\ Part(x8, o3 + 1, o4) = a4
      /\ Part(x8, o4 + 1, o5) = a5
      /\ Part(x8, o5 + 1, o6) = a6
      /\ Part(x8, o6 + 1, o7) = a7
      /\ Part(x8, o7 + 1, o8) = a8
  BY <1>h, <1>5, <1>7
<1> QED BY <1>0, <1>8, Zenon

----------------------------------------------------------------------------
(* Reversing, and big-endian numbers. *)
LEMMA ReversedWord ==
  ASSUME NEW n \in Nat, NEW w \in Word(n)
  PROVE  /\ E!Reverse(w) \in Word(n)
         /\ \A i \in 1..n : E!Reverse(w)[i] = w[n + 1 - i]
<1>1. Len(w) = n /\ w \in [1..n -> 0..E!Byte - 1]
  BY WordIs, Zenon
<1> DEFINE S == 0..E!Byte - 1
<1>2. \A i \in 1..n : (n - i) + 1 \in 1..n /\ (n - i) + 1 = n + 1 - i
  OBVIOUS
<1>3. E!Reverse(w) = [i \in 1..n |-> w[(n - i) + 1]]
  BY <1>1, Zenon DEF E!Reverse
<1>4. w \in [1..n -> S]
  BY <1>1
<1> HIDE DEF S
<1>5. E!Reverse(w) \in [1..n -> S] /\ \A i \in 1..n : E!Reverse(w)[i] = w[n + 1 - i]
  BY <1>2, <1>3, <1>4
<1>6. E!Reverse(w) \in [1..n -> 0..E!Byte - 1]
  BY <1>5, Zenon DEF S
<1> QED BY <1>5, <1>6, WordIs, Zenon

LEMMA ReversedTwice ==
  ASSUME NEW n \in Nat, NEW w \in Word(n)
  PROVE  E!Reverse(E!Reverse(w)) = w
<1> DEFINE r == E!Reverse(w)
<1>1. r \in Word(n) /\ \A i \in 1..n : r[i] = w[n + 1 - i]
  BY ReversedWord, Zenon
<1> HIDE DEF r
<1>2. E!Reverse(r) \in Word(n) /\ \A i \in 1..n : E!Reverse(r)[i] = r[n + 1 - i]
  BY <1>1, ReversedWord, Zenon
<1>3. \A i \in 1..n : n + 1 - i \in 1..n /\ n + 1 - (n + 1 - i) = i
  OBVIOUS
<1>4. \A i \in 1..n : E!Reverse(r)[i] = w[i]
  BY <1>1, <1>2, <1>3
<1>5. E!Reverse(r) = w
  BY <1>2, <1>4, WordEqual, Zenon
<1> QED BY <1>5 DEF r

\* The end of a big-endian number is its value below that place.
LEMMA EndOfNumber ==
  ASSUME NEW v \in Nat, NEW m \in Nat, NEW n \in 0..m
  PROVE  /\ SubSeq(E!BE(v, m), m - n + 1, m) \in Word(n)
         /\ E!Reverse(SubSeq(E!BE(v, m), m - n + 1, m)) = E!LE(v, n)
<1> DEFINE l == E!LE(v, m)
           b == E!Reverse(l)
           k == m - n
           e == SubSeq(b, k + 1, k + n)
<1>1. l \in Word(m) /\ \A i \in 1..m : l[i] = (v \div Place(i - 1)) % E!Byte
  BY LEWord, Zenon
<1>2. n \in Nat /\ k \in Nat /\ k + n <= m /\ k + 1 = m - n + 1 /\ k + n = m
  OBVIOUS
<1>3. E!LE(v, n) \in Word(n) /\ \A i \in 1..n : E!LE(v, n)[i] = (v \div Place(i - 1)) % E!Byte
  BY <1>2, LEWord, Zenon
<1> HIDE DEF l, k
<1>4. b \in Word(m) /\ \A i \in 1..m : b[i] = l[m + 1 - i]
  BY <1>1, ReversedWord, Zenon
<1> HIDE DEF b
<1>5. e \in Word(n) /\ \A i \in 1..n : e[i] = b[k + i]
  BY <1>2, <1>4, Slice
<1> HIDE DEF e
<1>6. E!Reverse(e) \in Word(n) /\ \A i \in 1..n : E!Reverse(e)[i] = e[n + 1 - i]
  BY <1>2, <1>5, ReversedWord, Zenon
<1>7. ASSUME NEW i \in 1..n PROVE E!Reverse(e)[i] = E!LE(v, n)[i]
  <2>1. n + 1 - i \in 1..n /\ k + (n + 1 - i) \in 1..m /\ m + 1 - (k + (n + 1 - i)) = i /\ i \in 1..m
    BY <1>2
  <2>2. E!Reverse(e)[i] = b[k + (n + 1 - i)]
    BY <1>5, <1>6, <2>1
  <2>3. b[k + (n + 1 - i)] = l[i]
    BY <1>4, <2>1
  <2> QED BY <1>1, <1>3, <2>1, <2>2, <2>3
<1>8. E!Reverse(e) = E!LE(v, n)
  BY <1>2, <1>3, <1>6, <1>7, WordEqual, Zenon
<1> QED BY <1>2, <1>5, <1>8, Zenon DEF l, b, e, E!BE

LEMMA IntegerRead ==
  ASSUME NEW v \in 0..Place(Long) - 1
  PROVE  E!FieldElementToInt(E!BE(v, IdSize)) = v
<1>1. Long \in Nat /\ Long \in 0..IdSize /\ IdSize \in Nat
  BY FieldConstants
<1>2. v \in Nat
  BY <1>1, PlaceValues
<1> DEFINE e == SubSeq(E!BE(v, IdSize), IdSize - Long + 1, IdSize)
<1>3. E!Reverse(e) = E!LE(v, Long)
  BY <1>1, <1>2, EndOfNumber, Zenon
<1> HIDE DEF e
<1>4. E!FromLE(E!LE(v, Long)) = v
  BY <1>1, FromLEUndoes, Zenon
<1> QED BY <1>3, <1>4, Zenon DEF E!FieldElementToInt, E!FromBE, e

LEMMA TwoHalves ==
  ASSUME NEW w \in Word(IdSize)
  PROVE  /\ SubSeq(w, 1, E!Half) \in Word(E!Half) /\ SubSeq(w, E!Half + 1, IdSize) \in Word(E!Half)
         /\ SubSeq(w, 1, E!Half) \o SubSeq(w, E!Half + 1, IdSize) = w
<1>1. /\ IdSize \in Nat /\ E!Half \in Nat /\ E!Half + E!Half = IdSize /\ 0 + E!Half <= IdSize
      /\ 0 + 1 = 1 /\ 0 + E!Half = E!Half /\ \A i \in 1..E!Half : 0 + i = i
  BY FieldConstants DEF E!Half
<1> DEFINE a == SubSeq(w, 0 + 1, 0 + E!Half)
           b == SubSeq(w, E!Half + 1, E!Half + E!Half)
           c == a \o b
<1>2. a \in Word(E!Half) /\ \A i \in 1..E!Half : a[i] = w[0 + i]
  <2>1. 0 \in Nat /\ IdSize \in Nat /\ E!Half \in Nat /\ 0 + E!Half <= IdSize
    BY <1>1
  <2> QED BY <2>1, Slice
<1>3. E!Half + E!Half <= IdSize
  BY <1>1
<1>4. b \in Word(E!Half) /\ \A i \in 1..E!Half : b[i] = w[E!Half + i]
  BY <1>1, <1>3, Slice
<1> HIDE DEF a, b
<1>5. c \in Word(E!Half + E!Half) /\ \A i \in 1..E!Half + E!Half : c[i] = IF i <= E!Half THEN a[i] ELSE b[i - E!Half]
  <2>1. E!Half \in Nat
    BY <1>1
  <2> QED BY <1>2, <1>4, <2>1, WordJoin, Zenon
<1> HIDE DEF c
<1>6. ASSUME NEW i \in 1..IdSize PROVE c[i] = w[i]
  <2>1. i \in 1..E!Half + E!Half
    BY <1>1
  <2>2. CASE i <= E!Half
    BY <1>1, <1>2, <1>5, <2>1, <2>2
  <2>3. CASE ~(i <= E!Half)
    <3>1. i - E!Half \in 1..E!Half /\ E!Half + (i - E!Half) = i
      BY <1>1, <2>3
    <3> QED BY <1>4, <1>5, <2>1, <2>3, <3>1
  <2> QED BY <2>2, <2>3
<1>7. c \in Word(IdSize)
  BY <1>1, <1>5
<1>8. c = w
  BY <1>1, <1>6, <1>7, WordEqual, Zenon
<1> QED BY <1>1, <1>2, <1>4, <1>8, Zenon DEF a, b, c

\* Two field elements make the hash again, for the contract and in the circuit.
LEMMA HashRead ==
  ASSUME NEW w \in Word(IdSize), NEW lo, NEW hi, E!HashToFieldElements(w) = <<lo, hi>>
  PROVE  /\ lo \in Nat /\ hi \in Nat
         /\ E!Reconstruct256(E!BE(lo, IdSize), E!BE(hi, IdSize)) = w
         /\ E!NumberToBits(lo, Width * E!Half) \o E!NumberToBits(hi, Width * E!Half) = E!BytesToBits(w)
<1> DEFINE a == SubSeq(w, 1, E!Half)
           b == SubSeq(w, E!Half + 1, IdSize)
<1>1. a \in Word(E!Half) /\ b \in Word(E!Half) /\ a \o b = w
  BY TwoHalves, Zenon
<1>2. lo = E!FromLE(a) /\ hi = E!FromLE(b)
  BY DEF E!HashToFieldElements
<1>3. IdSize \in Nat /\ E!Half \in Nat /\ E!Half \in 0..IdSize /\ IdSize - E!Half = E!Half
  BY FieldConstants DEF E!Half
<1> HIDE DEF a, b
<1>4. lo \in Nat /\ hi \in Nat
  BY <1>1, <1>2, <1>3, Digits256, Zenon
<1>5. E!LE(lo, E!Half) = a /\ E!LE(hi, E!Half) = b
  BY <1>1, <1>2, <1>3, LEUndoes, Zenon
<1>6. /\ E!Reverse(SubSeq(E!BE(lo, IdSize), IdSize - E!Half + 1, IdSize)) = E!LE(lo, E!Half)
      /\ E!Reverse(SubSeq(E!BE(hi, IdSize), IdSize - E!Half + 1, IdSize)) = E!LE(hi, E!Half)
  BY <1>3, <1>4, EndOfNumber, Zenon
<1>7. E!Reconstruct256(E!BE(lo, IdSize), E!BE(hi, IdSize)) = a \o b
  BY <1>3, <1>5, <1>6, Zenon DEF E!Reconstruct256
<1>8. E!NumberToBits(lo, Width * E!Half) = E!BytesToBits(a) /\ E!NumberToBits(hi, Width * E!Half) = E!BytesToBits(b)
  BY <1>3, <1>4, <1>5, NumberBits, Zenon
<1>9. E!BytesToBits(a) \o E!BytesToBits(b) = E!BytesToBits(a \o b)
  BY <1>1, <1>3, BitsJoin, Zenon
<1> QED BY <1>1, <1>4, <1>7, <1>8, <1>9, Zenon

----------------------------------------------------------------------------
(* Base58. *)
LEMMA ZerosWord ==
  ASSUME NEW n \in Nat
  PROVE  E!Zeros(n) \in Word(n) /\ \A i \in 1..n : E!Zeros(n)[i] = 0
<1>1. 0 \in 0..E!Byte - 1
  BY ByteType
<1>2. E!Zeros(n) \in [1..n -> 0..E!Byte - 1] /\ \A i \in 1..n : E!Zeros(n)[i] = 0
  BY <1>1 DEF E!Zeros
<1> QED BY <1>2, WordIs, Zenon

LEMMA LeadingZerosAre ==
  ASSUME NEW n \in Nat, NEW w \in Word(n)
  PROVE  /\ E!LeadingZeros(w) \in 0..n /\ \A i \in 1..E!LeadingZeros(w) : w[i] = 0
         /\ E!LeadingZeros(w) < n => w[E!LeadingZeros(w) + 1] # 0
<1> DEFINE Q(z) == /\ \A i \in 1..z : w[i] = 0
                   /\ z < n => w[z + 1] # 0
           F == {z \in 0..n : z < n => w[z + 1] # 0}
<1>1. Len(w) = n
  BY WordIs, Zenon
<1>2. n \in F /\ F \in SUBSET Nat
  OBVIOUS
<1>3. PICK z \in F : \A y \in F : z <= y
  <2> HIDE DEF F
  <2> QED BY <1>2, LeastIn
<1>4. ASSUME NEW i \in 1..z PROVE w[i] = 0
  <2>1. i - 1 \in 0..n /\ i - 1 < n /\ ~(z <= i - 1) /\ (i - 1) + 1 = i
    BY <1>3
  <2>2. i - 1 \notin F
    BY <1>3, <2>1
  <2> QED BY <2>1, <2>2
<1>5. z \in 0..n /\ Q(z)
  BY <1>3, <1>4
<1>6. E!LeadingZeros(w) = CHOOSE y \in 0..n : Q(y)
  BY <1>1, Zenon DEF E!LeadingZeros
<1> HIDE DEF Q
<1>7. E!LeadingZeros(w) \in 0..n /\ Q(E!LeadingZeros(w))
  BY <1>5, <1>6, Zenon
<1> QED BY <1>7 DEF Q

LEMMA ZerosAndDigits ==
  ASSUME NEW n \in Nat, NEW w \in Word(n), NEW z, z = E!LeadingZeros(w)
  PROVE  /\ z \in 0..n /\ E!Digits(w) \in Word(n - z)
         /\ E!Zeros(z) \o E!Digits(w) = w
<1>1. z \in 0..n /\ \A i \in 1..z : w[i] = 0
  BY LeadingZerosAre
<1>2. z \in Nat /\ n - z \in Nat /\ z + (n - z) <= n /\ z + (n - z) = n
  BY <1>1
<1> DEFINE d == SubSeq(w, z + 1, z + (n - z))
           c == E!Zeros(z) \o d
<1>3. d \in Word(n - z) /\ \A i \in 1..n - z : d[i] = w[z + i]
  BY <1>2, Slice, ZenonT(30)
<1>4. E!Digits(w) = d
  BY <1>2, WordIs, Zenon DEF E!Digits
<1> HIDE DEF d
<1>5. E!Zeros(z) \in Word(z) /\ \A i \in 1..z : E!Zeros(z)[i] = 0
  BY <1>2, ZerosWord, Zenon
<1>6. c \in Word(z + (n - z)) /\ \A i \in 1..z + (n - z) : c[i] = IF i <= z THEN E!Zeros(z)[i] ELSE d[i - z]
  <2>1. z \in Nat /\ n - z \in Nat
    BY <1>2
  <2> QED BY <2>1, <1>3, <1>5, WordJoin, ZenonT(30)
<1> HIDE DEF c
<1>7. ASSUME NEW i \in 1..n PROVE c[i] = w[i]
  <2>1. CASE i <= z
    <3>1. i \in 1..z /\ i \in 1..z + (n - z)
      BY <1>2, <2>1
    <3> QED BY <1>1, <1>5, <1>6, <2>1, <3>1
  <2>2. CASE ~(i <= z)
    <3>1. i - z \in 1..n - z /\ z + (i - z) = i
      BY <1>1, <2>2
    <3> QED BY <1>2, <1>3, <1>6, <2>2, <3>1
  <2> QED BY <2>1, <2>2
<1>8. c \in Word(n)
  BY <1>2, <1>6
<1>9. c = w
  BY <1>7, <1>8, WordEqual, Zenon
<1> QED BY <1>1, <1>3, <1>4, <1>9, Zenon DEF c

LEMMA TextAndBack ==
  ASSUME NEW n \in Nat, NEW w \in Word(n)
  PROVE  E!FromBase58(E!ToBase58(w)) = w
<1> DEFINE z == E!LeadingZeros(w)
           d == E!Digits(w)
<1>1. E!Zeros(z) \o d = w
  BY ZerosAndDigits, Zenon
<1>2. E!ToBase58(w) = [ones |-> z, number |-> d]
  BY DEF E!ToBase58
<1> HIDE DEF z, d
<1>3. E!ToBase58(w).ones = z /\ E!ToBase58(w).number = d
  BY <1>2
<1> QED BY <1>1, <1>3, Zenon DEF E!FromBase58

\* A key of zeros only has no digits, and a zero stands for them.
LEMMA TextToBytes ==
  ASSUME NEW n \in Nat, NEW w \in Word(n)
  PROVE  E!Base58ToBytes(E!ToBase58(w), n) = w
<1> DEFINE z == E!LeadingZeros(w)
           d == E!Digits(w)
           t == E!ToBase58(w)
           raw == IF d = <<>> THEN <<0>> ELSE d
           total == z + Len(raw)
           start == IF total < n THEN n - total ELSE 0
<1>1. z \in 0..n /\ d \in Word(n - z) /\ E!Zeros(z) \o d = w
  BY ZerosAndDigits, Zenon
<1>2. t.ones = z /\ t.number = d
  BY DEF E!ToBase58
<1> HIDE DEF z, d, t
<1>3. E!Base58ToBytes(t, n) = SubSeq(E!Zeros(start + z) \o raw, 1, n)
  BY <1>2, Zenon DEF E!Base58ToBytes
<1>4. z \in Nat /\ n - z \in Nat /\ d \in Seq(0..E!Byte - 1) /\ Len(d) = n - z
  BY <1>1 DEF Word
<1>5. CASE d = <<>>
  <2>1. n = z
    BY <1>1, <1>4, <1>5
  <2>2. raw = <<0>> /\ Len(raw) = 1
    BY <1>5
  <2>3. raw \in Word(1)
    <3>1. 0 \in 0..E!Byte - 1
      BY ByteType
    <3> DEFINE S == 0..E!Byte - 1
    <3>2. 0 \in S
      BY <3>1
    <3> HIDE DEF S, raw
    <3>3. raw \in Seq(S) /\ Len(raw) = 1
      BY <2>2, <3>2
    <3> QED BY <3>3, Zenon DEF Word, S
  <2>4. start = 0 /\ start + z = n
    BY <1>1, <2>1, <2>2
  <2> HIDE DEF raw, start
  <2>5. 1 \in Nat /\ 1 <= 1 /\ 1 <= n + 1 /\ n <= n
    OBVIOUS
  <2>6. E!Zeros(n) \in Word(n) /\ \A i \in 1..n : E!Zeros(n)[i] = 0
    BY ZerosWord, Zenon
  <2>7. SubSeq(E!Zeros(n) \o raw, 1, n) = SubSeq(E!Zeros(n), 1, n)
    <3>1. Part(Joint(E!Zeros(n), raw), 1, n) = Part(E!Zeros(n), 1, n)
      BY <2>3, <2>5, <2>6, Joined
    <3> QED BY <3>1, Zenon DEF Joint, Part
  <2>8. SubSeq(E!Zeros(n), 1, n) = E!Zeros(n)
    BY <2>6, Whole, Zenon
  <2>9. \A i \in 1..n : w[i] = 0
    BY <2>1, LeadingZerosAre, Zenon DEF z
  <2>10. E!Zeros(n) = w
    BY <2>6, <2>9, WordEqual
  <2> QED BY <1>3, <2>4, <2>7, <2>8, <2>10, Zenon DEF t
<1>6. CASE d # <<>>
  <2>1. raw = d
    BY <1>6
  <2>2. total = n
    <3>1. Len(raw) = n - z
      BY <1>4, <2>1
    <3> HIDE DEF raw
    <3> QED BY <1>4, <3>1
  <2>3. start = 0
    BY <2>2
  <2>4. start + z = z
    BY <1>4, <2>3
  <2> HIDE DEF raw, total, start
  <2>5. SubSeq(E!Zeros(start + z) \o raw, 1, n) = SubSeq(w, 1, n)
    BY <1>1, <2>1, <2>4, Zenon
  <2>6. SubSeq(w, 1, n) = w
    BY Whole, Zenon
  <2> QED BY <1>3, <2>5, <2>6, Zenon DEF t
<1> QED BY <1>5, <1>6

----------------------------------------------------------------------------
(* The public inputs. *)
LEMMA FlattenedFive ==
  ASSUME NEW s, Len(s) = 5
  PROVE  E!FlattenSeq(s) = s[1] \o s[2] \o s[3] \o s[4] \o s[5]
<1> DEFINE c2 == s[1] \o s[2]
           c3 == c2 \o s[3]
           c4 == c3 \o s[4]
           c5 == c4 \o s[5]
           IsFlat(f) == f = [i \in 1..5 |-> IF i = 1 THEN s[i] ELSE f[i - 1] \o s[i]]
           flat == CHOOSE f : IsFlat(f)
           g == [i \in 1..5 |-> IF i = 1 THEN s[1] ELSE IF i = 2 THEN c2
                                ELSE IF i = 3 THEN c3 ELSE IF i = 4 THEN c4 ELSE c5]
<1>1. E!FlattenSeq(s) = flat[5]
  <2>1. Len(s) # 0
    OBVIOUS
  <2> QED BY <2>1, Zenon DEF E!FlattenSeq
<1>2. IsFlat(g)
  <2>1. /\ g[1] = s[1] /\ g[2] = c2 /\ g[3] = c3 /\ g[4] = c4 /\ g[5] = c5
    OBVIOUS
  <2>2. /\ g[2] = g[1] \o s[2] /\ g[3] = g[2] \o s[3] /\ g[4] = g[3] \o s[4]
        /\ g[5] = g[4] \o s[5]
    <3> HIDE DEF g
    <3> QED BY <2>1, Zenon
  <2>3. DOMAIN g = 1..5 /\ g = [i \in 1..5 |-> g[i]]
    OBVIOUS
  <2> HIDE DEF g
  <2> DEFINE next(i) == IF i = 1 THEN s[i] ELSE g[i - 1] \o s[i]
  <2>4. ASSUME NEW i \in 1..5 PROVE g[i] = next(i)
    <3>1. i = 1 \/ i = 2 \/ i = 3 \/ i = 4 \/ i = 5
      OBVIOUS
    <3>2. 2 - 1 = 1 /\ 3 - 1 = 2 /\ 4 - 1 = 3 /\ 5 - 1 = 4
      OBVIOUS
    <3> QED BY <2>1, <2>2, <3>1, <3>2
  <2>5. g = [i \in 1..5 |-> next(i)]
    <3> HIDE DEF next
    <3> QED BY <2>3, <2>4
  <2> QED BY <2>5
<1> HIDE DEF g
<1>3. IsFlat(flat)
  <2> HIDE DEF IsFlat
  <2> QED BY <1>2, Zenon
<1> HIDE DEF flat
<1>4. /\ flat[1] = s[1] /\ flat[2] = flat[1] \o s[2] /\ flat[3] = flat[2] \o s[3]
      /\ flat[4] = flat[3] \o s[4] /\ flat[5] = flat[4] \o s[5]
  <2> DEFINE next(i) == IF i = 1 THEN s[i] ELSE flat[i - 1] \o s[i]
  <2>1. flat = [i \in 1..5 |-> next(i)]
    BY <1>3
  <2> HIDE DEF next
  <2>2. /\ flat[1] = next(1) /\ flat[2] = next(2) /\ flat[3] = next(3)
        /\ flat[4] = next(4) /\ flat[5] = next(5)
    BY <2>1
  <2>3. /\ next(1) = s[1] /\ next(2) = flat[2 - 1] \o s[2] /\ next(3) = flat[3 - 1] \o s[3]
        /\ next(4) = flat[4 - 1] \o s[4] /\ next(5) = flat[5 - 1] \o s[5]
    BY DEF next
  <2>4. 2 - 1 = 1 /\ 3 - 1 = 2 /\ 4 - 1 = 3 /\ 5 - 1 = 4
    OBVIOUS
  <2> QED BY <2>2, <2>3, <2>4
<1> QED BY <1>1, <1>4, Zenon

LEMMA FivePublic ==
  ASSUME NEW a \in Nat, NEW b \in Nat, NEW c \in Nat, NEW d \in Nat, NEW e \in Nat,
         NEW p, p = <<a, b>> \o <<c>> \o <<d, e>>
  PROVE  Len(p) = 5 /\ p[1] = a /\ p[2] = b /\ p[3] = c /\ p[4] = d /\ p[5] = e
<1> DEFINE x == <<a, b>>
           y == <<c>>
           z == <<d, e>>
           v == x \o y
           q == v \o z
<1>1. /\ x \in Seq(Nat) /\ Len(x) = 2 /\ x[1] = a /\ x[2] = b
      /\ y \in Seq(Nat) /\ Len(y) = 1 /\ y[1] = c
      /\ z \in Seq(Nat) /\ Len(z) = 2 /\ z[1] = d /\ z[2] = e
  OBVIOUS
<1> HIDE DEF x, y, z
<1>2. /\ v \in Seq(Nat) /\ Len(v) = Len(x) + Len(y)
      /\ \A i \in 1..Len(x) + Len(y) : v[i] = IF i <= Len(x) THEN x[i] ELSE y[i - Len(x)]
  BY <1>1, ConcatProperties, Zenon
<1> HIDE DEF v
<1>3. Len(v) = 3 /\ v[1] = a /\ v[2] = b /\ v[3] = c
  BY <1>1, <1>2
<1>4. /\ q \in Seq(Nat) /\ Len(q) = Len(v) + Len(z)
      /\ \A i \in 1..Len(v) + Len(z) : q[i] = IF i <= Len(v) THEN v[i] ELSE z[i - Len(v)]
  <2>1. v \in Seq(Nat) /\ z \in Seq(Nat)
    BY <1>1, <1>2
  <2> QED BY <2>1, ConcatProperties, Zenon
<1> HIDE DEF q
<1>5. Len(q) = 5 /\ q[1] = a /\ q[2] = b /\ q[3] = c /\ q[4] = d /\ q[5] = e
  BY <1>1, <1>3, <1>4
<1> QED BY <1>5 DEF q, v, x, y, z

\* The contract cuts the inputs where the validator joined them.
LEMMA ElementsRead ==
  ASSUME NEW p, Len(p) = 5, p[1] \in Nat, p[2] \in Nat, p[3] \in Nat, p[4] \in Nat, p[5] \in Nat
  PROVE  /\ E!Element(E!SerializeInputs(p), 1) = E!BE(p[1], IdSize)
         /\ E!Element(E!SerializeInputs(p), 2) = E!BE(p[2], IdSize)
         /\ E!Element(E!SerializeInputs(p), 3) = E!BE(p[3], IdSize)
         /\ E!Element(E!SerializeInputs(p), 4) = E!BE(p[4], IdSize)
         /\ E!Element(E!SerializeInputs(p), 5) = E!BE(p[5], IdSize)
<1> DEFINE s == [k \in 1..5 |-> E!BE(p[k], IdSize)]
           w == E!FlattenSeq(s)
<1>1. Len(s) = 5 /\ s[1] = E!BE(p[1], IdSize) /\ s[2] = E!BE(p[2], IdSize) /\ s[3] = E!BE(p[3], IdSize)
      /\ s[4] = E!BE(p[4], IdSize) /\ s[5] = E!BE(p[5], IdSize)
  OBVIOUS
<1>2. E!SerializeInputs(p) = w
  BY Zenon DEF E!SerializeInputs
<1>3. IdSize \in Nat
  BY FieldConstants
<1>4. ASSUME NEW v \in Nat PROVE E!BE(v, IdSize) \in Word(IdSize)
  BY <1>3, LEWord, ReversedWord, Zenon DEF E!BE
<1> HIDE DEF s
<1>5. s[1] \in Word(IdSize) /\ s[2] \in Word(IdSize) /\ s[3] \in Word(IdSize)
      /\ s[4] \in Word(IdSize) /\ s[5] \in Word(IdSize)
  BY <1>1, <1>4, Zenon
<1>6. w = s[1] \o s[2] \o s[3] \o s[4] \o s[5]
  BY <1>1, FlattenedFive, Zenon
<1> HIDE DEF w
<1>7. /\ 2 * IdSize \in Nat /\ 3 * IdSize \in Nat /\ 4 * IdSize \in Nat /\ 5 * IdSize \in Nat
      /\ IdSize <= 2 * IdSize /\ 2 * IdSize <= 3 * IdSize /\ 3 * IdSize <= 4 * IdSize
      /\ 4 * IdSize <= 5 * IdSize /\ 2 * IdSize - IdSize = IdSize
      /\ 3 * IdSize - 2 * IdSize = IdSize /\ 4 * IdSize - 3 * IdSize = IdSize
      /\ 5 * IdSize - 4 * IdSize = IdSize
  BY <1>3
<1>8. /\ SubSeq(w, 1, IdSize) = s[1]
      /\ SubSeq(w, IdSize + 1, 2 * IdSize) = s[2]
      /\ SubSeq(w, 2 * IdSize + 1, 3 * IdSize) = s[3]
      /\ SubSeq(w, 3 * IdSize + 1, 4 * IdSize) = s[4]
      /\ SubSeq(w, 4 * IdSize + 1, 5 * IdSize) = s[5]
  <2>1. OfFiveParts(w, IdSize, 2 * IdSize, 3 * IdSize, 4 * IdSize, 5 * IdSize,
                    s[1], s[2], s[3], s[4], s[5])
    BY <1>3, <1>5, <1>6, <1>7, Zenon DEF OfFiveParts, Joint
  <2>2. /\ Part(w, 1, IdSize) = s[1]
        /\ Part(w, IdSize + 1, 2 * IdSize) = s[2]
        /\ Part(w, 2 * IdSize + 1, 3 * IdSize) = s[3]
        /\ Part(w, 3 * IdSize + 1, 4 * IdSize) = s[4]
        /\ Part(w, 4 * IdSize + 1, 5 * IdSize) = s[5]
    BY <2>1, FiveParts, Zenon
  <2> QED BY <2>2, Zenon DEF Part
<1>9. /\ (1 - 1) * IdSize + 1 = 1 /\ 1 * IdSize = IdSize
      /\ (2 - 1) * IdSize + 1 = IdSize + 1 /\ (3 - 1) * IdSize + 1 = 2 * IdSize + 1
      /\ (4 - 1) * IdSize + 1 = 3 * IdSize + 1 /\ (5 - 1) * IdSize + 1 = 4 * IdSize + 1
  BY <1>3
<1>10. /\ E!Element(w, 1) = s[1] /\ E!Element(w, 2) = s[2] /\ E!Element(w, 3) = s[3]
       /\ E!Element(w, 4) = s[4] /\ E!Element(w, 5) = s[5]
  BY <1>8, <1>9, Zenon DEF E!Element
<1> QED BY <1>1, <1>2, <1>10, Zenon

----------------------------------------------------------------------------
(* The recipient in its padded field. *)
LEMMA AddressWord ==
  ASSUME NEW body \in 0..E!Byte - 1
  PROVE  /\ E!Address(body) \in Word(3) /\ E!Address(body)[3] = E!Checksum(body)
         /\ Len(E!Address(body)) = 3
<1>1. Version \in 0..E!Byte - 1 /\ E!Checksum(body) \in 0..E!Byte - 1
  BY FieldConstants, ByteType DEF E!Checksum
<1> DEFINE S == 0..E!Byte - 1
<1>2. Version \in S /\ E!Checksum(body) \in S /\ body \in S
  BY <1>1
<1> HIDE DEF S
<1>3. <<Version, body, E!Checksum(body)>> \in Seq(S) /\ Len(<<Version, body, E!Checksum(body)>>) = 3
  BY <1>2
<1> QED BY <1>3, Zenon DEF E!Address, Word, S

LEMMA Padded ==
  ASSUME NEW body \in 0..E!Byte - 1, NEW r, r = E!EncodeRecipient(E!Address(body))
  PROVE  /\ r \in Word(IdSize)
         /\ \A n \in 1..3 : SubSeq(r, 1, n) = SubSeq(E!Address(body), 1, n)
         /\ SubSeq(r, 1, 3) = E!Address(body)
         /\ r[3] = E!Checksum(body) /\ \A i \in 4..IdSize : r[i] = 0
<1> DEFINE a == E!Address(body)
           k == IdSize - 3
           z == E!Zeros(k)
           c == a \o z
<1>1. a \in Word(3) /\ a[3] = E!Checksum(body) /\ Len(a) = 3
  BY AddressWord, Zenon
<1>2. k \in Nat /\ 3 + k = IdSize /\ 3 \in Nat /\ IdSize - 3 = k
  BY FieldConstants
<1>3. z \in Word(k) /\ \A i \in 1..k : z[i] = 0
  BY <1>2, ZerosWord, Zenon
<1>4. r = c
  BY <1>1, Zenon DEF E!EncodeRecipient
<1> HIDE DEF a, z, k
<1>5. c \in Word(3 + k) /\ \A i \in 1..3 + k : c[i] = IF i <= 3 THEN a[i] ELSE z[i - 3]
  BY <1>1, <1>2, <1>3, WordJoin, Zenon
<1>7. ASSUME NEW n \in 1..3 PROVE SubSeq(c, 1, n) = SubSeq(a, 1, n)
  <2>1. n \in Nat /\ 1 \in Nat /\ 1 <= 1 /\ 1 <= n + 1 /\ n <= 3
    OBVIOUS
  <2>2. Part(Joint(a, z), 1, n) = Part(a, 1, n)
    BY <1>1, <1>2, <1>3, <2>1, Joined
  <2> QED BY <2>2, Zenon DEF Part, Joint, c
<1> HIDE DEF c
<1> HIDE DEF c
<1> HIDE DEF c
<1>8. SubSeq(c, 1, 3) = a
  <2>1. SubSeq(a, 1, 3) = a
    BY <1>1, <1>2, Whole, Zenon
  <2>2. 3 \in 1..3
    OBVIOUS
  <2> QED BY <1>7, <2>1, <2>2, Zenon
<1>9. c[3] = E!Checksum(body) /\ \A i \in 4..IdSize : c[i] = 0
  <2>1. c[3] = a[3]
    <3>1. 3 \in 1..3 + k
      BY <1>2
    <3> HIDE DEF c
    <3> QED BY <1>5, <3>1
  <2>2. ASSUME NEW i \in 4..IdSize PROVE c[i] = 0
    <3>1. i \in 1..3 + k /\ ~(i <= 3) /\ i - 3 \in 1..k
      BY <1>2
    <3> QED BY <1>3, <1>5, <3>1
  <2> QED BY <1>1, <2>1, <2>2
<1>10. c \in Word(IdSize)
  BY <1>2, <1>5
<1> QED BY <1>4, <1>7, <1>8, <1>9, <1>10, Zenon DEF a

\* Only a last byte that is zero is taken for padding.
LEMMA TrimmedIs ==
  ASSUME NEW body \in 0..E!Byte - 1, NEW r, r = E!EncodeRecipient(E!Address(body))
  PROVE  /\ E!Checksum(body) # 0 => E!Trimmed(r) = E!Address(body)
         /\ E!Checksum(body) = 0 => ~E!IsAddress(E!Trimmed(r))
         /\ \E n \in Nat : E!Trimmed(r) \in Word(n)
<1> DEFINE End(n) == /\ n = 1 \/ r[n] # 0
                     /\ \A i \in n + 1..IdSize : r[i] = 0
           end == CHOOSE n \in 1..IdSize : End(n)
<1>1. /\ r \in Word(IdSize) /\ \A n \in 1..3 : SubSeq(r, 1, n) = SubSeq(E!Address(body), 1, n)
      /\ SubSeq(r, 1, 3) = E!Address(body)
      /\ r[3] = E!Checksum(body) /\ \A i \in 4..IdSize : r[i] = 0
  BY Padded, Zenon
<1>2. IdSize \in Nat /\ IdSize >= 3
  BY FieldConstants
<1>3. E!Trimmed(r) = SubSeq(r, 1, end)
  BY Zenon DEF E!Trimmed
<1>4. \E n \in 1..IdSize : End(n)
  <2>1. CASE r[3] # 0
    BY <1>1, <1>2, <2>1
  <2>2. CASE r[3] = 0 /\ r[2] # 0
    <3>1. 2 \in 1..IdSize
      BY <1>2
    <3>2. ASSUME NEW i \in 2 + 1..IdSize PROVE r[i] = 0
      <4>1. i = 3 \/ i \in 4..IdSize
        BY <1>2
      <4> QED BY <1>1, <2>2, <4>1
    <3> QED BY <2>2, <3>1, <3>2
  <2>3. CASE r[3] = 0 /\ r[2] = 0
    <3>1. 1 \in 1..IdSize
      BY <1>2
    <3>2. ASSUME NEW i \in 1 + 1..IdSize PROVE r[i] = 0
      <4>1. i = 2 \/ i = 3 \/ i \in 4..IdSize
        BY <1>2
      <4> QED BY <1>1, <2>3, <4>1
    <3> QED BY <3>1, <3>2
  <2> QED BY <2>1, <2>2, <2>3
<1>5. end \in 1..IdSize /\ End(end)
  <2> HIDE DEF End
  <2> QED BY <1>4, Zenon
<1> HIDE DEF end
<1>6. end <= 3
  <2>1. CASE end >= 4
    <3>1. end \in 4..IdSize
      BY <1>2, <1>5, <2>1
    <3> QED BY <1>1, <1>5, <2>1, <3>1
  <2> QED BY <1>5, <2>1
<1>7. E!Checksum(body) # 0 => end = 3
  <2> SUFFICES ASSUME E!Checksum(body) # 0, end < 3 PROVE FALSE
    BY <1>5, <1>6
  <2>1. 3 \in end + 1..IdSize
    BY <1>2, <1>5
  <2> QED BY <1>1, <1>5, <2>1
<1>8. E!Checksum(body) = 0 => end < 3
  BY <1>1, <1>5, <1>6
<1>9. E!Trimmed(r) \in Word(end)
  <2>1. 0 + end <= IdSize /\ 0 + 1 = 1 /\ 0 + end = end /\ end \in Nat /\ 0 \in Nat
    BY <1>5
  <2>2. SubSeq(r, 0 + 1, 0 + end) \in Word(end)
    BY <1>1, <1>2, <2>1, Slice, Zenon
  <2> QED BY <1>3, <2>1, <2>2, Zenon
<1>10. end < 3 => ~E!IsAddress(E!Trimmed(r))
  <2> SUFFICES ASSUME end < 3, NEW b \in 0..E!Byte - 1, E!Trimmed(r) = E!Address(b) PROVE FALSE
    BY Zenon DEF E!IsAddress
  <2>1. Len(E!Address(b)) = 3
    BY AddressWord, Zenon
  <2>2. Len(E!Trimmed(r)) = end
    BY <1>9, Zenon DEF Word
  <2>3. end = 3
    BY <2>1, <2>2, Zenon
  <2> QED BY <2>3
<1>11. end \in Nat
  BY <1>5
<1> QED BY <1>1, <1>3, <1>7, <1>8, <1>9, <1>10, <1>11, Zenon

----------------------------------------------------------------------------
(* The deposit, as the program writes it and as the others read it. *)
LEMMA FirstBytes ==
  ASSUME NEW v \in Nat, NEW m \in Nat, NEW n \in Nat, n <= m
  PROVE  Part(E!LE(v, m), 1, n) = E!LE(v, n)
<1> DEFINE l == E!LE(v, m)
           s == SubSeq(l, 0 + 1, 0 + n)
<1>1. l \in Word(m) /\ \A i \in 1..m : l[i] = (v \div Place(i - 1)) % E!Byte
  BY LEWord, Zenon
<1>2. E!LE(v, n) \in Word(n) /\ \A i \in 1..n : E!LE(v, n)[i] = (v \div Place(i - 1)) % E!Byte
  BY LEWord, Zenon
<1> HIDE DEF l
<1>3. 0 + n <= m /\ 0 \in Nat
  OBVIOUS
<1>4. s \in Word(n) /\ \A i \in 1..n : s[i] = l[0 + i]
  BY <1>1, <1>3, Slice
<1> HIDE DEF s
<1>5. ASSUME NEW i \in 1..n PROVE s[i] = E!LE(v, n)[i]
  <2>1. 0 + i = i /\ i \in 1..m
    OBVIOUS
  <2> QED BY <1>1, <1>2, <1>4, <2>1
<1>6. s = E!LE(v, n)
  BY <1>2, <1>4, <1>5, WordEqual
<1>7. 0 + 1 = 1 /\ 0 + n = n
  OBVIOUS
<1> QED BY <1>6, <1>7, Zenon DEF s, l, Part

LEMMA BitsJoint ==
  ASSUME NEW m \in Nat, NEW n \in Nat, NEW a \in Word(m), NEW b \in Word(n)
  PROVE  Joint(E!BytesToBits(a), E!BytesToBits(b)) = E!BytesToBits(Joint(a, b))
BY BitsJoin, Zenon DEF Joint

LEMMA EightBits ==
  ASSUME NEW w,
         NEW o1, NEW o2, NEW o3, NEW o4, NEW o5, NEW o6, NEW o7, NEW o8,
         NEW a1, NEW a2, NEW a3, NEW a4, NEW a5, NEW a6, NEW a7, NEW a8,
         OfEightParts(w, o1, o2, o3, o4, o5, o6, o7, o8, a1, a2, a3, a4, a5, a6, a7, a8),
         NEW b, b = Joint(Joint(Joint(Joint(Joint(Joint(Joint(E!BytesToBits(a1), E!BytesToBits(a2)), E!BytesToBits(a3)), E!BytesToBits(a4)), E!BytesToBits(a5)), E!BytesToBits(a6)), E!BytesToBits(a7)), E!BytesToBits(a8))
  PROVE  b = E!BytesToBits(w)
<1>h. /\ o1 \in Nat /\ o2 \in Nat /\ o3 \in Nat /\ o4 \in Nat /\ o5 \in Nat /\ o6 \in Nat /\ o7 \in Nat /\ o8 \in Nat
      /\ o1 <= o2 /\ o2 <= o3 /\ o3 <= o4 /\ o4 <= o5 /\ o5 <= o6 /\ o6 <= o7 /\ o7 <= o8
      /\ a1 \in Word(o1) /\ a2 \in Word(o2 - o1) /\ a3 \in Word(o3 - o2)
      /\ a4 \in Word(o4 - o3) /\ a5 \in Word(o5 - o4) /\ a6 \in Word(o6 - o5)
      /\ a7 \in Word(o7 - o6) /\ a8 \in Word(o8 - o7)
      /\ w = Joint(Joint(Joint(Joint(Joint(Joint(Joint(a1, a2), a3), a4), a5), a6), a7), a8)
  BY Zenon DEF OfEightParts
<1> DEFINE x2 == Joint(a1, a2)
           x3 == Joint(x2, a3)
           x4 == Joint(x3, a4)
           x5 == Joint(x4, a5)
           x6 == Joint(x5, a6)
           x7 == Joint(x6, a7)
           x8 == Joint(x7, a8)
           y2 == Joint(E!BytesToBits(a1), E!BytesToBits(a2))
           y3 == Joint(y2, E!BytesToBits(a3))
           y4 == Joint(y3, E!BytesToBits(a4))
           y5 == Joint(y4, E!BytesToBits(a5))
           y6 == Joint(y5, E!BytesToBits(a6))
           y7 == Joint(y6, E!BytesToBits(a7))
           y8 == Joint(y7, E!BytesToBits(a8))
<1>1. w = x8 /\ b = y8
  BY <1>h, Zenon
<1>2. x2 \in Word(o2) /\ y2 = E!BytesToBits(x2)
  <2>1. o2 - o1 \in Nat /\ o1 + (o2 - o1) = o2
    BY <1>h
  <2>2. Joint(a1, a2) \in Word(o2)
    BY <1>h, <2>1, Joined
  <2>3. Joint(E!BytesToBits(a1), E!BytesToBits(a2)) = E!BytesToBits(Joint(a1, a2))
    BY <1>h, <2>1, BitsJoint
  <2> QED BY <2>2, <2>3, Zenon
<1> HIDE DEF x2, y2
<1>3. x3 \in Word(o3) /\ y3 = E!BytesToBits(x3)
  <2>1. o3 - o2 \in Nat /\ o2 + (o3 - o2) = o3
    BY <1>h
  <2>2. Joint(x2, a3) \in Word(o3)
    BY <1>h, <1>2, <2>1, Joined
  <2>3. Joint(E!BytesToBits(x2), E!BytesToBits(a3)) = E!BytesToBits(Joint(x2, a3))
    BY <1>h, <1>2, <2>1, BitsJoint
  <2> QED BY <1>2, <2>2, <2>3, Zenon
<1> HIDE DEF x3, y3
<1>4. x4 \in Word(o4) /\ y4 = E!BytesToBits(x4)
  <2>1. o4 - o3 \in Nat /\ o3 + (o4 - o3) = o4
    BY <1>h
  <2>2. Joint(x3, a4) \in Word(o4)
    BY <1>h, <1>3, <2>1, Joined
  <2>3. Joint(E!BytesToBits(x3), E!BytesToBits(a4)) = E!BytesToBits(Joint(x3, a4))
    BY <1>h, <1>3, <2>1, BitsJoint
  <2> QED BY <1>3, <2>2, <2>3, Zenon
<1> HIDE DEF x4, y4
<1>5. x5 \in Word(o5) /\ y5 = E!BytesToBits(x5)
  <2>1. o5 - o4 \in Nat /\ o4 + (o5 - o4) = o5
    BY <1>h
  <2>2. Joint(x4, a5) \in Word(o5)
    BY <1>h, <1>4, <2>1, Joined
  <2>3. Joint(E!BytesToBits(x4), E!BytesToBits(a5)) = E!BytesToBits(Joint(x4, a5))
    BY <1>h, <1>4, <2>1, BitsJoint
  <2> QED BY <1>4, <2>2, <2>3, Zenon
<1> HIDE DEF x5, y5
<1>6. x6 \in Word(o6) /\ y6 = E!BytesToBits(x6)
  <2>1. o6 - o5 \in Nat /\ o5 + (o6 - o5) = o6
    BY <1>h
  <2>2. Joint(x5, a6) \in Word(o6)
    BY <1>h, <1>5, <2>1, Joined
  <2>3. Joint(E!BytesToBits(x5), E!BytesToBits(a6)) = E!BytesToBits(Joint(x5, a6))
    BY <1>h, <1>5, <2>1, BitsJoint
  <2> QED BY <1>5, <2>2, <2>3, Zenon
<1> HIDE DEF x6, y6
<1>7. x7 \in Word(o7) /\ y7 = E!BytesToBits(x7)
  <2>1. o7 - o6 \in Nat /\ o6 + (o7 - o6) = o7
    BY <1>h
  <2>2. Joint(x6, a7) \in Word(o7)
    BY <1>h, <1>6, <2>1, Joined
  <2>3. Joint(E!BytesToBits(x6), E!BytesToBits(a7)) = E!BytesToBits(Joint(x6, a7))
    BY <1>h, <1>6, <2>1, BitsJoint
  <2> QED BY <1>6, <2>2, <2>3, Zenon
<1> HIDE DEF x7, y7
<1>8. x8 \in Word(o8) /\ y8 = E!BytesToBits(x8)
  <2>1. o8 - o7 \in Nat /\ o7 + (o8 - o7) = o8
    BY <1>h
  <2>2. Joint(x7, a8) \in Word(o8)
    BY <1>h, <1>7, <2>1, Joined
  <2>3. Joint(E!BytesToBits(x7), E!BytesToBits(a8)) = E!BytesToBits(Joint(x7, a8))
    BY <1>h, <1>7, <2>1, BitsJoint
  <2> QED BY <1>7, <2>2, <2>3, Zenon
<1> HIDE DEF x8, y8
<1> QED BY <1>1, <1>8, Zenon

DepositsMade == [to : {E!Address(body) : body \in Bodies}, sender : Senders, amount : Amounts,
             slot : Slots, index : {1, E!Byte - 1}, nonce : {0, E!Byte}]

\* The deposit d as an event, and in the log.
Sent(d) == [sender |-> d.sender, recipient |-> E!EncodeRecipient(d.to), amount |-> d.amount,
            nonce |-> d.nonce, slot |-> d.slot, index |-> d.index]
Logged(d) ==
  d.sender \o E!EncodeRecipient(d.to) \o E!LE(d.amount, Long) \o E!LE(d.nonce, Long)
  \o E!LE(d.slot, Long) \o E!LE(d.index, Long)

LEMMA FieldSizes ==
  /\ IdSize \in Nat /\ Short \in Nat /\ Long \in Nat /\ E!Half \in Nat /\ Short >= 1
  /\ 2 * IdSize \in Nat /\ 2 * IdSize - IdSize = IdSize /\ IdSize <= 2 * IdSize
  BY FieldConstants DEF E!Half

LEMMA SmallPlaces ==
  /\ E!Byte - 1 \in 0..Place(Short) - 1 /\ 1 \in 0..Place(Short) - 1
  /\ E!Byte \in 0..Place(Long) - 1 /\ 0 \in 0..Place(Long) - 1
<1> DEFINE Big(n) == Place(n) \in Nat /\ Place(n) >= E!Byte
<1>1. ASSUME NEW n \in Nat, NEW k \in Nat PROVE Place(n + k) >= Place(n) /\ Place(n) \in Nat
  <2>1. Width \in Nat /\ Width * n \in Nat /\ Width * k \in Nat /\ Width * (n + k) = Width * n + Width * k
    BY FieldConstants
  <2>2. 2 ^ (Width * n + Width * k) = 2 ^ (Width * n) * 2 ^ (Width * k)
    BY <2>1, PowerAdds
  <2>3. 2 ^ (Width * n) \in Nat /\ 2 ^ (Width * k) \in Nat /\ 2 ^ (Width * k) > 0
    BY <2>1, PowerOfTwo
  <2> DEFINE p == 2 ^ (Width * n)
             q == 2 ^ (Width * k)
  <2>4. p \in Nat /\ q \in Nat /\ q >= 1
    BY <2>3
  <2>5. Place(n + k) = p * q /\ Place(n) = p
    BY <2>1, <2>2, Zenon DEF Place
  <2> HIDE DEF p, q
  <2>6. p * q >= p
    BY <2>4
  <2> QED BY <2>4, <2>5, <2>6
<1>2. Place(1) = E!Byte /\ Place(2) = E!Byte * E!Byte
  <2>1. Place(0) = 1 /\ Place(0 + 1) = Place(0) * E!Byte /\ Place(1 + 1) = Place(1) * E!Byte
    BY PlaceValues
  <2>2. 0 + 1 = 1 /\ 1 + 1 = 2 /\ 1 * E!Byte = E!Byte
    BY ByteType
  <2> QED BY <2>1, <2>2
<1>3. Place(Short) >= E!Byte /\ Place(Short) \in Nat
  <2>1. Short - 1 \in Nat /\ 1 + (Short - 1) = Short
    BY FieldSizes
  <2>2. Place(1 + (Short - 1)) >= Place(1)
    BY <1>1, <2>1
  <2>3. Place(Short) \in Nat
    BY FieldSizes, PlaceValues
  <2> QED BY <1>2, <2>1, <2>2, <2>3
<1>4. Place(Long) >= E!Byte * E!Byte /\ Place(Long) \in Nat
  <2>1. Long - 2 \in Nat /\ 2 + (Long - 2) = Long
    BY FieldConstants
  <2>2. Place(2 + (Long - 2)) >= Place(2)
    BY <1>1, <2>1
  <2>3. Place(Long) \in Nat
    BY FieldSizes, PlaceValues
  <2> QED BY <1>2, <2>1, <2>2, <2>3
<1>5. E!Byte * E!Byte > E!Byte
  BY ByteType
<1> QED BY <1>3, <1>4, <1>5, ByteType

LEMMA Fields ==
  ASSUME NEW d \in DepositsMade
  PROVE  /\ \E body \in 0..E!Byte - 1 : d.to = E!Address(body)
         /\ d.sender \in Word(IdSize) /\ E!EncodeRecipient(d.to) \in Word(IdSize)
         /\ d.amount \in 0..Place(Long) - 1 /\ d.nonce \in 0..Place(Long) - 1
         /\ d.slot \in 0..Place(Long) - 1 /\ d.index \in 0..Place(Short) - 1
         /\ d.amount \in Nat /\ d.nonce \in Nat /\ d.slot \in Nat /\ d.index \in Nat
<1>1. /\ d.to \in {E!Address(body) : body \in Bodies} /\ d.sender \in Senders
      /\ d.amount \in Amounts /\ d.slot \in Slots /\ d.index \in {1, E!Byte - 1} /\ d.nonce \in {0, E!Byte}
  BY DEF DepositsMade
<1>2. PICK body \in 0..E!Byte - 1 : d.to = E!Address(body)
  <2>1. Bodies \subseteq 0..E!Byte - 1
    BY FieldConstants
  <2> QED BY <1>1, <2>1
<1>3. E!EncodeRecipient(d.to) \in Word(IdSize)
  BY <1>2, Padded, Zenon
<1>4. d.sender \in Word(IdSize)
  <2>1. d.sender \in [1..IdSize -> 0..E!Byte - 1]
    BY <1>1, FieldConstants
  <2> QED BY <2>1, FieldSizes, WordIs, Zenon
<1>5. d.amount \in 0..Place(Long) - 1 /\ d.slot \in 0..Place(Long) - 1
  <2> DEFINE P == 2 ^ (Width * Long)
  <2>1. P \in Nat
    BY FieldSizes, PlaceValues DEF Place
  <2>2. d.amount \in Nat /\ 2 * d.amount < P /\ d.slot \in 0..P - 1
    BY <1>1, FieldConstants
  <2>3. Place(Long) = P
    BY DEF Place
  <2> HIDE DEF P
  <2> QED BY <2>1, <2>2, <2>3
<1>6. d.index \in 0..Place(Short) - 1 /\ d.nonce \in 0..Place(Long) - 1
  BY <1>1, SmallPlaces
<1> QED BY <1>2, <1>3, <1>4, <1>5, <1>6

LEMMA DecodedIs ==
  ASSUME NEW d \in DepositsMade, log = Logged(d)
  PROVE  /\ E!Raw(E!DecodeBridgeDeposit) = Sent(d)
         /\ E!DecodeBridgeDeposit.recipient = E!EncodeRecipient(d.to)
         /\ E!DecodeBridgeDeposit.amount = d.amount
<1> DEFINE r == E!EncodeRecipient(d.to)
           x == Joint(Joint(Joint(Joint(d.sender, r), E!LE(d.amount, Long)), E!LE(d.nonce, Long)), E!LE(d.slot, Long))
           p == 2 * IdSize
<1>1. /\ d.sender \in Word(IdSize) /\ r \in Word(IdSize)
      /\ d.amount \in Nat /\ d.nonce \in Nat /\ d.slot \in Nat /\ d.index \in Nat
  BY Fields, Zenon
<1>2. log = Joint(x, E!LE(d.index, Long))
  BY Zenon DEF Logged, Joint
<1> HIDE DEF r
<1>3. /\ p \in Nat /\ p + Long \in Nat /\ p + 2 * Long \in Nat /\ p + 3 * Long \in Nat /\ p + 4 * Long \in Nat
      /\ IdSize <= p /\ p <= p + Long /\ p + Long <= p + 2 * Long /\ p + 2 * Long <= p + 3 * Long
      /\ p + 3 * Long <= p + 4 * Long
      /\ p - IdSize = IdSize /\ (p + Long) - p = Long /\ (p + 2 * Long) - (p + Long) = Long
      /\ (p + 3 * Long) - (p + 2 * Long) = Long /\ (p + 4 * Long) - (p + 3 * Long) = Long
  BY FieldSizes
<1>4. /\ E!LE(d.amount, Long) \in Word(Long) /\ E!LE(d.nonce, Long) \in Word(Long)
      /\ E!LE(d.slot, Long) \in Word(Long) /\ E!LE(d.index, Long) \in Word(Long)
  BY <1>1, FieldSizes, LEWord, Zenon
<1>5. /\ OfSixParts(log, IdSize, p, p + Long, p + 2 * Long, p + 3 * Long, p + 4 * Long,
                    d.sender, r, E!LE(d.amount, Long), E!LE(d.nonce, Long), E!LE(d.slot, Long), E!LE(d.index, Long))
      /\ OfFiveParts(x, IdSize, p, p + Long, p + 2 * Long, p + 3 * Long,
                    d.sender, r, E!LE(d.amount, Long), E!LE(d.nonce, Long), E!LE(d.slot, Long))
  BY <1>1, <1>2, <1>3, <1>4, FieldSizes, Zenon DEF OfSixParts, OfFiveParts
<1> HIDE DEF x, p
<1>6. /\ Part(log, 1, IdSize) = d.sender
      /\ Part(log, IdSize + 1, p) = r
      /\ Part(log, p + 1, p + Long) = E!LE(d.amount, Long)
      /\ Part(log, p + Long + 1, p + 2 * Long) = E!LE(d.nonce, Long)
      /\ Part(log, p + 2 * Long + 1, p + 3 * Long) = E!LE(d.slot, Long)
  BY <1>5, SixParts, Zenon
<1>7. x \in Word(p + 3 * Long)
  BY <1>5, FiveParts, Zenon
<1>8. Part(log, p + 3 * Long + 1, p + 3 * Long + Short) = E!LE(d.index, Short)
  <2>1. Short <= Long /\ p + 3 * Long \in Nat
    BY FieldConstants, <1>3
  <2>2. Part(Joint(x, E!LE(d.index, Long)), p + 3 * Long + 1, p + 3 * Long + Short) = Part(E!LE(d.index, Long), 1, Short)
    BY <1>4, <1>7, <2>1, FieldSizes, Rest
  <2> QED BY <1>1, <1>2, <2>1, <2>2, FieldSizes, FirstBytes
<1>9. /\ 0 + 1 = 1 /\ 0 + IdSize = IdSize /\ IdSize + IdSize = p
      /\ p + Long + Long = p + 2 * Long /\ p + 2 * Long + Long = p + 3 * Long
  BY FieldSizes DEF p
<1>10. E!DecodeBridgeDeposit =
         [sender |-> E!ToBase58(d.sender), recipient |-> r, amount |-> E!FromLE(E!LE(d.amount, Long)),
          nonce |-> E!FromLE(E!LE(d.nonce, Long)), slot |-> E!FromLE(E!LE(d.slot, Long)),
          index |-> E!FromLE(E!LE(d.index, Short))]
  <2>1. E!DecodeBridgeDeposit =
          [sender |-> E!ToBase58(Part(log, 0 + 1, 0 + IdSize)), recipient |-> Part(log, IdSize + 1, IdSize + IdSize),
           amount |-> E!FromLE(Part(log, p + 1, p + Long)),
           nonce |-> E!FromLE(Part(log, p + Long + 1, p + Long + Long)),
           slot |-> E!FromLE(Part(log, p + 2 * Long + 1, p + 2 * Long + Long)),
           index |-> E!FromLE(Part(log, p + 3 * Long + 1, p + 3 * Long + Short))]
    BY Zenon DEF E!DecodeBridgeDeposit, Part, p
  <2> QED BY <1>6, <1>8, <1>9, <2>1, Zenon
<1>11. /\ E!FromLE(E!LE(d.amount, Long)) = d.amount /\ E!FromLE(E!LE(d.nonce, Long)) = d.nonce
       /\ E!FromLE(E!LE(d.slot, Long)) = d.slot /\ E!FromLE(E!LE(d.index, Short)) = d.index
  BY Fields, FieldSizes, FromLEUndoes
<1>12. E!Base58ToBytes(E!ToBase58(d.sender), IdSize) = d.sender
  BY <1>1, FieldSizes, TextToBytes
<1> DEFINE e == E!DecodeBridgeDeposit
<1>13. e = [sender |-> E!ToBase58(d.sender), recipient |-> r, amount |-> d.amount,
            nonce |-> d.nonce, slot |-> d.slot, index |-> d.index]
  BY <1>10, <1>11, Zenon
<1> HIDE DEF e
<1>14. /\ e.sender = E!ToBase58(d.sender) /\ e.recipient = r /\ e.amount = d.amount
       /\ [e EXCEPT !.sender = d.sender] =
            [sender |-> d.sender, recipient |-> r, amount |-> d.amount,
             nonce |-> d.nonce, slot |-> d.slot, index |-> d.index]
  BY <1>13
<1>15. E!Raw(e) = [e EXCEPT !.sender = d.sender]
  BY <1>12, <1>14, Zenon DEF E!Raw
<1> QED BY <1>14, <1>15, Zenon DEF e, r, Sent

LEMMA Preimage ==
  ASSUME NEW d \in DepositsMade, NEW w, w = E!DepositPreimage(E!SolChain, E!DccChain, Sent(d))
  PROVE  /\ E!ParseDeposit(w) = Sent(d)
         /\ OfEightParts(w, Short, 2 * Short, 2 * Short + Long, 2 * Short + Long + Short,
                         2 * Short + Long + Short + IdSize, 2 * Short + Long + Short + 2 * IdSize,
                         2 * Short + Long + Short + 2 * IdSize + Long,
                         2 * Short + Long + Short + 2 * IdSize + 2 * Long,
                         E!LE(E!SolChain, Short), E!LE(E!DccChain, Short), E!LE(d.slot, Long), E!LE(d.index, Short),
                         d.sender, E!EncodeRecipient(d.to), E!LE(d.amount, Long), E!LE(d.nonce, Long))
<1> DEFINE r == E!EncodeRecipient(d.to)
           base == 2 * Short
           p == base + Long + Short
           q == p + 2 * IdSize
<1>1. /\ d.sender \in Word(IdSize) /\ r \in Word(IdSize)
      /\ d.amount \in Nat /\ d.nonce \in Nat /\ d.slot \in Nat /\ d.index \in Nat
      /\ E!SolChain \in Nat /\ E!DccChain \in Nat
  BY Fields DEF E!SolChain, E!DccChain
<1>2. /\ E!LE(E!SolChain, Short) \in Word(Short) /\ E!LE(E!DccChain, Short) \in Word(Short)
      /\ E!LE(d.slot, Long) \in Word(Long) /\ E!LE(d.index, Short) \in Word(Short)
      /\ E!LE(d.amount, Long) \in Word(Long) /\ E!LE(d.nonce, Long) \in Word(Long)
  BY <1>1, FieldSizes, LEWord, Zenon
<1>3. w = Joint(Joint(Joint(Joint(Joint(Joint(Joint(E!LE(E!SolChain, Short), E!LE(E!DccChain, Short)),
            E!LE(d.slot, Long)), E!LE(d.index, Short)), d.sender), r), E!LE(d.amount, Long)), E!LE(d.nonce, Long))
  <2>1. /\ Sent(d).slot = d.slot /\ Sent(d).index = d.index /\ Sent(d).sender = d.sender
        /\ Sent(d).recipient = r /\ Sent(d).amount = d.amount /\ Sent(d).nonce = d.nonce
    BY DEF Sent
  <2> HIDE DEF r
  <2> QED BY <2>1, Zenon DEF E!DepositPreimage, Joint
<1>4. /\ Short \in Nat /\ base \in Nat /\ base + Long \in Nat /\ p \in Nat /\ p + IdSize \in Nat
      /\ q \in Nat /\ q + Long \in Nat /\ q + 2 * Long \in Nat
      /\ Short <= base /\ base <= base + Long /\ base + Long <= p /\ p <= p + IdSize
      /\ p + IdSize <= q /\ q <= q + Long /\ q + Long <= q + 2 * Long
      /\ base - Short = Short /\ (base + Long) - base = Long /\ p - (base + Long) = Short
      /\ (p + IdSize) - p = IdSize /\ q - (p + IdSize) = IdSize /\ (q + Long) - q = Long
      /\ (q + 2 * Long) - (q + Long) = Long
  BY FieldSizes
<1>5. OfEightParts(w, Short, base, base + Long, p, p + IdSize, q, q + Long, q + 2 * Long,
                   E!LE(E!SolChain, Short), E!LE(E!DccChain, Short), E!LE(d.slot, Long), E!LE(d.index, Short),
                   d.sender, r, E!LE(d.amount, Long), E!LE(d.nonce, Long))
  <2> HIDE DEF r, base, p, q
  <2> QED BY <1>1, <1>2, <1>3, <1>4, Zenon DEF OfEightParts
<1>6. /\ Part(w, base + 1, base + Long) = E!LE(d.slot, Long)
      /\ Part(w, base + Long + 1, p) = E!LE(d.index, Short)
      /\ Part(w, p + 1, p + IdSize) = d.sender
      /\ Part(w, p + IdSize + 1, q) = r
      /\ Part(w, q + 1, q + Long) = E!LE(d.amount, Long)
      /\ Part(w, q + Long + 1, q + 2 * Long) = E!LE(d.nonce, Long)
  <2> HIDE DEF r, base, p, q
  <2> QED BY <1>5, EightParts
<1>7. /\ base + Long + Short = p /\ p + IdSize + IdSize = q /\ q + Long + Long = q + 2 * Long
  BY FieldSizes
<1>8. E!ParseDeposit(w) =
        [slot |-> E!FromLE(E!LE(d.slot, Long)), index |-> E!FromLE(E!LE(d.index, Short)), sender |-> d.sender,
         recipient |-> r, amount |-> E!FromLE(E!LE(d.amount, Long)), nonce |-> E!FromLE(E!LE(d.nonce, Long))]
  <2>1. E!ParseDeposit(w) =
          [slot |-> E!FromLE(Part(w, base + 1, base + Long)),
           index |-> E!FromLE(Part(w, base + Long + 1, base + Long + Short)),
           sender |-> Part(w, p + 1, p + IdSize),
           recipient |-> Part(w, p + IdSize + 1, p + IdSize + IdSize),
           amount |-> E!FromLE(Part(w, q + 1, q + Long)), nonce |-> E!FromLE(Part(w, q + Long + 1, q + Long + Long))]
    BY Zenon DEF E!ParseDeposit, Part
  <2> HIDE DEF r, base, p, q
  <2> QED BY <1>6, <1>7, <2>1, Zenon
<1>9. /\ E!FromLE(E!LE(d.amount, Long)) = d.amount /\ E!FromLE(E!LE(d.nonce, Long)) = d.nonce
      /\ E!FromLE(E!LE(d.slot, Long)) = d.slot /\ E!FromLE(E!LE(d.index, Short)) = d.index
  BY Fields, FieldSizes, FromLEUndoes
<1>10. E!ParseDeposit(w) =
         [slot |-> d.slot, index |-> d.index, sender |-> d.sender,
          recipient |-> r, amount |-> d.amount, nonce |-> d.nonce]
  BY <1>8, <1>9, Zenon
<1> HIDE DEF r
<1>11. Sent(d) =
         [slot |-> d.slot, index |-> d.index, sender |-> d.sender,
          recipient |-> r, amount |-> d.amount, nonce |-> d.nonce]
  BY DEF Sent, r
<1> QED BY <1>5, <1>10, <1>11, Zenon DEF r

\* What the contracts get to see of the deposit.
Text(d) == E!RecipientAddress(Sent(d))

LEMMA TextIs ==
  ASSUME NEW d \in DepositsMade
  PROVE  /\ E!Last(d.to) # 0 => E!FromBase58(Text(d)) = d.to
         /\ E!Last(d.to) = 0 => ~E!IsAddress(E!FromBase58(Text(d)))
<1>1. PICK body \in 0..E!Byte - 1 : d.to = E!Address(body)
  BY Fields
<1> DEFINE r == E!EncodeRecipient(d.to)
<1>2. E!Last(d.to) = E!Checksum(body)
  <2>1. Len(E!Address(body)) = 3 /\ E!Address(body)[3] = E!Checksum(body)
    BY AddressWord, Zenon
  <2> QED BY <1>1, <2>1, Zenon DEF E!Last
<1>3. /\ E!Checksum(body) # 0 => E!Trimmed(r) = d.to
      /\ E!Checksum(body) = 0 => ~E!IsAddress(E!Trimmed(r))
      /\ \E n \in Nat : E!Trimmed(r) \in Word(n)
  BY <1>1, TrimmedIs, Zenon
<1>4. E!FromBase58(E!ToBase58(E!Trimmed(r))) = E!Trimmed(r)
  BY <1>3, TextAndBack, Zenon
<1>5. Text(d) = E!ToBase58(E!Trimmed(r))
  <2>1. Sent(d).recipient = r
    BY DEF Sent
  <2> QED BY <2>1, Zenon DEF Text, E!RecipientAddress
<1> QED BY <1>2, <1>3, <1>4, <1>5, Zenon

LEMMA PublicInputs ==
  ASSUME NEW d \in DepositsMade, log = Logged(d), id \in Word(IdSize)
  PROVE  LET p == E!Witness(Sent(d)).public IN
         /\ Len(p) = 5 /\ p[1] \in Nat /\ p[2] \in Nat /\ p[3] \in Nat /\ p[4] \in Nat /\ p[5] \in Nat
         /\ E!HashToFieldElements(id) = <<p[1], p[2]>> /\ p[3] = d.amount
         /\ E!HashToFieldElements(E!EncodeRecipient(d.to)) = <<p[4], p[5]>>
<1> DEFINE p == E!Witness(Sent(d)).public
           r == E!EncodeRecipient(d.to)
           lo(w) == E!FromLE(SubSeq(w, 1, E!Half))
           hi(w) == E!FromLE(SubSeq(w, E!Half + 1, IdSize))
<1>1. E!Keccak(E!BytesToBits(E!DepositPreimage(E!SolChain, E!DccChain, Sent(d)))) = id
  BY DecodedIs, Zenon DEF E!Keccak
<1>2. /\ Sent(d).amount = d.amount /\ Sent(d).recipient = r
  BY DEF Sent
<1>3. p = E!HashToFieldElements(id) \o <<d.amount>> \o E!HashToFieldElements(r)
  <2>1. p = E!HashToFieldElements(E!Keccak(E!BytesToBits(E!DepositPreimage(E!SolChain, E!DccChain, Sent(d)))))
            \o <<Sent(d).amount>> \o E!HashToFieldElements(Sent(d).recipient)
    BY DEF E!Witness
  <2> HIDE DEF p, r
  <2> QED BY <1>1, <1>2, <2>1, Zenon
<1>4. r \in Word(IdSize) /\ d.amount \in Nat
  BY Fields, Zenon
<1>5. ASSUME NEW w \in Word(IdSize) PROVE lo(w) \in Nat /\ hi(w) \in Nat
  <2>1. SubSeq(w, 1, E!Half) \in Word(E!Half) /\ SubSeq(w, E!Half + 1, IdSize) \in Word(E!Half)
    BY TwoHalves, Zenon
  <2> QED BY <2>1, FieldSizes, Digits256, Zenon
<1>6. \A w : E!HashToFieldElements(w) = <<lo(w), hi(w)>>
  BY DEF E!HashToFieldElements
<1> HIDE DEF p, r, lo, hi
<1>7. p = <<lo(id), hi(id)>> \o <<d.amount>> \o <<lo(r), hi(r)>>
  BY <1>3, <1>6, Zenon
<1>8. lo(id) \in Nat /\ hi(id) \in Nat /\ lo(r) \in Nat /\ hi(r) \in Nat
  BY <1>4, <1>5, Zenon
<1>9. Len(p) = 5 /\ p[1] = lo(id) /\ p[2] = hi(id) /\ p[3] = d.amount /\ p[4] = lo(r) /\ p[5] = hi(r)
  BY <1>4, <1>7, <1>8, FivePublic
<1>10. /\ E!HashToFieldElements(id) = <<p[1], p[2]>> /\ E!HashToFieldElements(r) = <<p[4], p[5]>>
  BY <1>6, <1>9, Zenon
<1>11. /\ p[1] \in Nat /\ p[2] \in Nat /\ p[3] \in Nat /\ p[4] \in Nat /\ p[5] \in Nat
  BY <1>4, <1>8, <1>9, Zenon
<1> QED BY <1>9, <1>10, <1>11, Zenon DEF p, r

\* The circuit hashes the bits that the program hashed.
LEMMA ProofHolds ==
  ASSUME NEW d \in DepositsMade, log = Logged(d), id \in Word(IdSize)
  PROVE  E!Satisfies(E!Witness(Sent(d)))
<1> DEFINE p == E!Witness(Sent(d)).public
           r == E!EncodeRecipient(d.to)
           w == E!DepositPreimage(E!SolChain, E!DccChain, Sent(d))
<1>1. /\ E!HashToFieldElements(id) = <<p[1], p[2]>> /\ p[3] = d.amount
      /\ E!HashToFieldElements(r) = <<p[4], p[5]>>
  BY PublicInputs, Zenon
<1>2. /\ E!Witness(Sent(d)).src = E!NumberToBits(E!SolChain, Width * Short)
      /\ E!Witness(Sent(d)).dst = E!NumberToBits(E!DccChain, Width * Short)
      /\ E!Witness(Sent(d)).slot = E!NumberToBits(d.slot, Width * Long)
      /\ E!Witness(Sent(d)).index = E!NumberToBits(d.index, Width * Short)
      /\ E!Witness(Sent(d)).sender = E!BytesToBits(d.sender)
      /\ E!Witness(Sent(d)).nonce = E!NumberToBits(d.nonce, Width * Long)
  BY DEF E!Witness, Sent
<1>3. E!Keccak(E!BytesToBits(w)) = id
  BY DecodedIs, Zenon DEF E!Keccak
<1>4. /\ r \in Word(IdSize) /\ d.sender \in Word(IdSize)
      /\ d.amount \in Nat /\ d.nonce \in Nat /\ d.slot \in Nat /\ d.index \in Nat
      /\ E!SolChain \in Nat /\ E!DccChain \in Nat
  BY Fields DEF E!SolChain, E!DccChain
<1>5. /\ E!NumberToBits(E!SolChain, Width * Short) = E!BytesToBits(E!LE(E!SolChain, Short))
      /\ E!NumberToBits(E!DccChain, Width * Short) = E!BytesToBits(E!LE(E!DccChain, Short))
      /\ E!NumberToBits(d.slot, Width * Long) = E!BytesToBits(E!LE(d.slot, Long))
      /\ E!NumberToBits(d.index, Width * Short) = E!BytesToBits(E!LE(d.index, Short))
      /\ E!NumberToBits(d.amount, Width * Long) = E!BytesToBits(E!LE(d.amount, Long))
      /\ E!NumberToBits(d.nonce, Width * Long) = E!BytesToBits(E!LE(d.nonce, Long))
  BY <1>4, FieldSizes, NumberBits, Zenon
<1> DEFINE word(k) == E!NumberToBits(p[k], Width * E!Half) \o E!NumberToBits(p[k + 1], Width * E!Half)
           bits == Joint(Joint(Joint(Joint(Joint(Joint(Joint(
                     E!BytesToBits(E!LE(E!SolChain, Short)), E!BytesToBits(E!LE(E!DccChain, Short))),
                     E!BytesToBits(E!LE(d.slot, Long))), E!BytesToBits(E!LE(d.index, Short))), E!BytesToBits(d.sender)),
                     E!BytesToBits(r)), E!BytesToBits(E!LE(d.amount, Long))), E!BytesToBits(E!LE(d.nonce, Long)))
<1>6. word(1) = E!BytesToBits(id) /\ word(4) = E!BytesToBits(r)
  <2>1. 1 + 1 = 2 /\ 4 + 1 = 5
    OBVIOUS
  <2>2. E!NumberToBits(p[1], Width * E!Half) \o E!NumberToBits(p[2], Width * E!Half) = E!BytesToBits(id)
    <3> HIDE DEF p
    <3> QED BY <1>1, HashRead, Zenon
  <2>3. E!NumberToBits(p[4], Width * E!Half) \o E!NumberToBits(p[5], Width * E!Half) = E!BytesToBits(r)
    <3> HIDE DEF p, r
    <3> QED BY <1>1, <1>4, HashRead, Zenon
  <2> QED BY <2>1, <2>2, <2>3, Zenon
<1>7. bits = E!BytesToBits(w)
  BY Preimage, EightBits
<1>8. E!Satisfies(E!Witness(Sent(d))) <=> E!BytesToBits(E!Keccak(
        E!Witness(Sent(d)).src \o E!Witness(Sent(d)).dst \o E!Witness(Sent(d)).slot \o E!Witness(Sent(d)).index
        \o E!Witness(Sent(d)).sender \o word(4) \o E!NumberToBits(p[3], Width * Long)
        \o E!Witness(Sent(d)).nonce)) = word(1)
  BY Zenon DEF E!Satisfies
<1> HIDE DEF word, p, r, w
<1>9. E!Witness(Sent(d)).src \o E!Witness(Sent(d)).dst \o E!Witness(Sent(d)).slot \o E!Witness(Sent(d)).index
        \o E!Witness(Sent(d)).sender \o word(4) \o E!NumberToBits(p[3], Width * Long)
        \o E!Witness(Sent(d)).nonce = bits
  BY <1>1, <1>2, <1>5, <1>6, Zenon DEF Joint
<1> HIDE DEF bits
<1> QED BY <1>3, <1>6, <1>7, <1>8, <1>9, Zenon

\* The verifier reads out of the inputs what the proof is about.
LEMMA ContractReads ==
  ASSUME NEW d \in DepositsMade, log = Logged(d), id \in Word(IdSize)
  PROVE  E!VerifiedRecipient(E!SerializeInputs(E!Witness(Sent(d)).public), Sent(d), Text(d)) <=> E!Last(d.to) # 0
<1> DEFINE p == E!Witness(Sent(d)).public
           i == E!SerializeInputs(p)
           r == E!EncodeRecipient(d.to)
<1>1. /\ Len(p) = 5 /\ p[1] \in Nat /\ p[2] \in Nat /\ p[3] \in Nat /\ p[4] \in Nat /\ p[5] \in Nat
      /\ E!HashToFieldElements(id) = <<p[1], p[2]>> /\ p[3] = d.amount
      /\ E!HashToFieldElements(r) = <<p[4], p[5]>>
  BY PublicInputs, Zenon
<1>2. r \in Word(IdSize) /\ d.amount \in 0..Place(Long) - 1
  BY Fields, Zenon
<1>3. Sent(d).amount = d.amount /\ Sent(d).recipient = r
  BY DEF Sent
<1>4. E!Keccak(E!BytesToBits(E!DepositPreimage(E!SolChain, E!DccChain, Sent(d)))) = id
  BY DecodedIs, Zenon DEF E!Keccak
<1> HIDE DEF p
<1>5. /\ E!Element(i, 1) = E!BE(p[1], IdSize) /\ E!Element(i, 2) = E!BE(p[2], IdSize)
      /\ E!Element(i, 3) = E!BE(p[3], IdSize) /\ E!Element(i, 4) = E!BE(p[4], IdSize)
      /\ E!Element(i, 5) = E!BE(p[5], IdSize)
  BY <1>1, ElementsRead, Zenon
<1> HIDE DEF i, r
<1>6. E!Reconstruct256(E!Element(i, 1), E!Element(i, 2)) = id
  <2>1. E!HashToFieldElements(id) = <<p[1], p[2]>>
    BY <1>1, Zenon
  <2>2. E!Reconstruct256(E!BE(p[1], IdSize), E!BE(p[2], IdSize)) = id
    BY <2>1, HashRead, Zenon
  <2> QED BY <1>5, <2>2, Zenon
<1>7. E!Reconstruct256(E!Element(i, 4), E!Element(i, 5)) = r
  <2>1. E!HashToFieldElements(r) = <<p[4], p[5]>>
    BY <1>1, Zenon
  <2>2. E!Reconstruct256(E!BE(p[4], IdSize), E!BE(p[5], IdSize)) = r
    BY <1>2, <2>1, HashRead, Zenon
  <2> QED BY <1>5, <2>2, Zenon
<1>8. E!FieldElementToInt(E!Element(i, 3)) = d.amount
  BY <1>1, <1>2, <1>5, IntegerRead, Zenon
<1> DEFINE a == E!FromBase58(Text(d))
<1>9. E!VerifiedRecipient(i, Sent(d), Text(d)) <=> E!IsAddress(a) /\ SubSeq(r, 1, Len(a)) = a
  BY <1>3, <1>4, <1>6, <1>7, <1>8, Zenon DEF E!VerifiedRecipient
<1> HIDE DEF a
<1>10. E!Last(d.to) # 0 => a = d.to
  BY TextIs, Zenon DEF a
<1>11. E!Last(d.to) = 0 => ~E!IsAddress(a)
  BY TextIs, Zenon DEF a
<1>12. E!IsAddress(d.to) /\ SubSeq(r, 1, Len(d.to)) = d.to
  <2>1. PICK body \in 0..E!Byte - 1 : d.to = E!Address(body)
    BY Fields
  <2>2. SubSeq(E!EncodeRecipient(E!Address(body)), 1, 3) = E!Address(body)
    BY Padded, Zenon
  <2>3. Len(E!Address(body)) = 3
    BY AddressWord, Zenon
  <2> QED BY <2>1, <2>2, <2>3, Zenon DEF E!IsAddress, r
<1> QED BY <1>9, <1>10, <1>11, <1>12, Zenon DEF i, p

----------------------------------------------------------------------------
Outcome(d) == IF E!Last(d.to) = 0 THEN E!Refused ELSE <<d.to, d.amount>>

EncodingInv ==
  /\ deposit \in DepositsMade
  /\ log = <<>> => answer = E!None
  /\ log # <<>> => id \in Ids /\ log = Logged(deposit)
  /\ answer # E!None => answer = Outcome(deposit)

LEMMA IdsWords == Ids \subseteq Word(IdSize)
<1>1. Ids \subseteq [1..IdSize -> 0..E!Byte - 1]
  BY FieldConstants
<1>2. \A w : w \in [1..IdSize -> 0..E!Byte - 1] => w \in Word(IdSize)
  BY FieldSizes, WordIs, Zenon
<1> QED BY <1>1, <1>2, Zenon

LEMMA EncodingInit == E!Init => EncodingInv
BY DEF E!Init, EncodingInv, DepositsMade

LEMMA LockKeeps ==
  ASSUME EncodingInv, NEW hash \in Ids, E!Lock(hash)
  PROVE  EncodingInv'
<1>1. log = <<>> /\ id' = hash /\ deposit' = deposit /\ answer' = answer
  BY DEF E!Lock
<1>2. log' = Logged(deposit)
  BY Zenon DEF E!Lock, Logged
<1>3. deposit \in DepositsMade /\ answer = E!None
  BY <1>1, Zenon DEF EncodingInv
<1> QED BY <1>1, <1>2, <1>3, Zenon DEF EncodingInv

LEMMA ProofMintKeeps ==
  ASSUME EncodingInv, E!VerifyAndMint
  PROVE  EncodingInv'
<1>1. log # <<>> /\ deposit' = deposit /\ id' = id /\ log' = log
  BY DEF E!VerifyAndMint
<1>2. deposit \in DepositsMade /\ log = Logged(deposit) /\ id \in Ids
  BY <1>1, Zenon DEF EncodingInv
<1>3. id \in Word(IdSize)
  BY <1>2, IdsWords, Zenon
<1>4. E!Raw(E!DecodeBridgeDeposit) = Sent(deposit)
  BY <1>2, DecodedIs, Zenon
<1>5. answer' = IF /\ E!Satisfies(E!Witness(Sent(deposit)))
                   /\ E!VerifiedRecipient(E!SerializeInputs(E!Witness(Sent(deposit)).public), Sent(deposit), Text(deposit))
                THEN <<E!FromBase58(Text(deposit)), Sent(deposit).amount>> ELSE E!Refused
  BY <1>4, Zenon DEF E!VerifyAndMint, Text
<1>6. E!Satisfies(E!Witness(Sent(deposit)))
  BY <1>2, <1>3, ProofHolds, Zenon
<1>7. E!VerifiedRecipient(E!SerializeInputs(E!Witness(Sent(deposit)).public), Sent(deposit), Text(deposit))
        <=> E!Last(deposit.to) # 0
  BY <1>2, <1>3, ContractReads, Zenon
<1>8. E!Last(deposit.to) # 0 => E!FromBase58(Text(deposit)) = deposit.to
  BY <1>2, TextIs, Zenon
<1>9. Sent(deposit).amount = deposit.amount
  BY DEF Sent
<1>10. answer' = Outcome(deposit)
  BY <1>5, <1>6, <1>7, <1>8, <1>9, Zenon DEF Outcome
<1> QED BY <1>1, <1>2, <1>10, Zenon DEF EncodingInv

LEMMA CommitteeKeeps ==
  ASSUME EncodingInv, E!CommitteeMint
  PROVE  EncodingInv'
<1>1. log # <<>> /\ deposit' = deposit /\ id' = id /\ log' = log
  BY DEF E!CommitteeMint
<1>2. deposit \in DepositsMade /\ log = Logged(deposit) /\ id \in Ids
  BY <1>1, Zenon DEF EncodingInv
<1>3. /\ E!DecodeBridgeDeposit.recipient = E!EncodeRecipient(deposit.to)
      /\ E!DecodeBridgeDeposit.amount = deposit.amount
  BY <1>2, DecodedIs, Zenon
<1>4. E!RecipientAddress(E!DecodeBridgeDeposit) = Text(deposit)
  <2>1. Sent(deposit).recipient = E!EncodeRecipient(deposit.to)
    BY DEF Sent
  <2> QED BY <1>3, <2>1, Zenon DEF E!RecipientAddress, Text
<1> DEFINE a == E!FromBase58(Text(deposit))
<1>5. answer' = IF E!IsAddress(a) THEN <<a, deposit.amount>> ELSE E!Refused
  BY <1>3, <1>4, Zenon DEF E!CommitteeMint
<1> HIDE DEF a
<1>6. /\ E!Last(deposit.to) # 0 => a = deposit.to
      /\ E!Last(deposit.to) = 0 => ~E!IsAddress(a)
  BY <1>2, TextIs, Zenon DEF a
<1>7. E!IsAddress(deposit.to)
  <2>1. \E body \in 0..E!Byte - 1 : deposit.to = E!Address(body)
    BY <1>2, Fields, Zenon
  <2> QED BY <2>1, Zenon DEF E!IsAddress
<1>8. answer' = Outcome(deposit)
  BY <1>5, <1>6, <1>7, Zenon DEF Outcome
<1> QED BY <1>1, <1>2, <1>8, Zenon DEF EncodingInv

LEMMA EncodingNext == EncodingInv /\ [E!Next]_(E!vars) => EncodingInv'
<1> SUFFICES ASSUME EncodingInv, [E!Next]_(E!vars) PROVE EncodingInv'
  OBVIOUS
<1>1. ASSUME NEW hash \in Ids, E!Lock(hash) PROVE EncodingInv'
  BY <1>1, LockKeeps
<1>2. CASE E!VerifyAndMint
  BY <1>2, ProofMintKeeps
<1>3. CASE E!CommitteeMint
  BY <1>3, CommitteeKeeps
<1>4. CASE UNCHANGED E!vars
  <2>1. deposit' = deposit /\ id' = id /\ log' = log /\ answer' = answer
    BY <1>4 DEF E!vars
  <2> QED BY <2>1, Zenon DEF EncodingInv
<1> QED BY <1>1, <1>2, <1>3, <1>4, Zenon DEF E!Next

LEMMA InvAgrees == EncodingInv => E!EncodingsAgree
<1> SUFFICES ASSUME EncodingInv PROVE E!EncodingsAgree
  OBVIOUS
<1>1. ASSUME answer # E!None
      PROVE  IF answer = E!Refused THEN E!Last(deposit.to) = 0 ELSE answer = <<deposit.to, deposit.amount>>
  <2>1. answer = Outcome(deposit)
    BY <1>1, Zenon DEF EncodingInv
  <2>2. <<deposit.to, deposit.amount>> # E!Refused
    <3>1. Len(<<deposit.to, deposit.amount>>) = 2 /\ Len(<<"refused">>) = 1
      OBVIOUS
    <3> QED BY <3>1 DEF E!Refused
  <2> QED BY <2>1, <2>2, Zenon DEF Outcome
<1>2. ASSUME log # <<>>
      PROVE  E!ParseDeposit(E!DepositPreimage(E!SolChain, E!DccChain, E!Raw(E!DecodeBridgeDeposit))) = E!Raw(E!DecodeBridgeDeposit)
  <2>1. deposit \in DepositsMade /\ log = Logged(deposit)
    BY <1>2, Zenon DEF EncodingInv
  <2>2. E!Raw(E!DecodeBridgeDeposit) = Sent(deposit)
    BY <2>1, DecodedIs, Zenon
  <2>3. E!ParseDeposit(E!DepositPreimage(E!SolChain, E!DccChain, Sent(deposit))) = Sent(deposit)
    BY <2>1, Preimage, Zenon
  <2> QED BY <2>2, <2>3, Zenon
<1> QED BY <1>1, <1>2, Zenon DEF E!EncodingsAgree

\* For bytes of any width and fields of any size: what is minted, by proof or by
\* the committee, is the amount of the deposit to the address the user gave, a
\* deposit is refused only for an address whose last byte is zero, and a parsed
\* preimage is the event it was made from (encodeRecipientDcc, deposit.rs,
\* decodeBridgeDeposit, zk-utils.ts, zk_verifier.ride).
THEOREM EncodingsAlwaysAgree == E!Spec => []EncodingsAgree
BY EncodingInit, EncodingNext, InvAgrees, PTL DEF E!Spec, EncodingsAgree
=============================================================================
