------------------------- MODULE LoginLockoutProofs -------------------------
(***************************************************************************)
(* Proofs about LoginLockout, for every number of concurrent logins, every *)
(* threshold and all durations.                                            *)
(***************************************************************************)
EXTENDS LoginLockout, TLAPS

-----------------------------------------------------------------------------
(* The inductive invariant.                                                *)

\* A login that has passed the lockout check keeps the time of that check
CheckedInThePast ==
    \A s \in Sessions : /\ login[s].now <= clock
                        /\ login[s].pc \in {"fail", "grant"} => login[s].now # 0

IInv == TypeOK /\ CheckedInThePast /\ ThresholdLocks /\ LockIsBounded

-----------------------------------------------------------------------------
(* LEAST(...) is a positive number of at most MaxDuration ticks, however   *)
(* often the account was locked.                                           *)
LEMMA LockDurationBounds ==
    ASSUME NEW n \in Nat
    PROVE  LockDuration(n) \in 1..MaxDuration
  BY LockoutAssumption DEF LockDuration

LEMMA TypeInit == Init => TypeOK
  BY DEF Init, TypeOK, Account, Cleared, Never, Login, Idle

LEMMA IdleType == Idle \in Login /\ Cleared \in Account
  BY DEF Idle, Login, Cleared, Account, Never

(* The row a counted failure leaves.                                       *)
LEMMA FailureRow ==
    ASSUME IInv, NEW s \in Sessions, RecordFailure(s)
    PROVE  /\ account' \in Account
           /\ account'.attempts = account.attempts + 1
           /\ Escalates(account, login[s].now) =>
                 /\ account'.lockouts = account.lockouts + 1
                 /\ account'.lockedUntil \in Nat \ {0}
                 /\ account'.lockedUntil <= clock + MaxDuration
           /\ ~Escalates(account, login[s].now) =>
                 /\ account'.lockouts = account.lockouts
                 /\ account'.lockedUntil = account.lockedUntil
<1>1. /\ account \in Account /\ login[s].now \in Nat /\ login[s].now <= clock
      /\ clock \in Nat
  BY DEF IInv, TypeOK, Login, CheckedInThePast
<1>2. account.lockouts \in Nat /\ account.attempts \in Nat /\ account.lockedUntil \in Nat
  BY <1>1 DEF Account
<1>3. LockDuration(account.lockouts) \in 1..MaxDuration
  BY <1>2, LockDurationBounds
<1>4. CASE Escalates(account, login[s].now)
  <2>1. account' = [attempts |-> account.attempts + 1, lockouts |-> account.lockouts + 1,
                    lockedUntil |-> login[s].now + LockDuration(account.lockouts)]
    BY <1>4 DEF RecordFailure
  <2>2. /\ login[s].now + LockDuration(account.lockouts) \in Nat \ {0}
        /\ login[s].now + LockDuration(account.lockouts) <= clock + MaxDuration
    BY <1>1, <1>3, LockoutAssumption
  <2> HIDE DEF LockDuration
  <2> QED
    BY <1>2, <1>4, <2>1, <2>2 DEF Account
<1>5. CASE ~Escalates(account, login[s].now)
  <2>1. account' = [account EXCEPT !.attempts = @ + 1]
    BY <1>5 DEF RecordFailure
  <2> QED
    BY <1>1, <1>2, <1>5, <2>1 DEF Account
<1> QED
  BY <1>4, <1>5

LEMMA TypeNext ==
    ASSUME IInv, [Next]_vars
    PROVE  TypeOK'
<1> USE DEF IInv, TypeOK
<1>1. CASE UNCHANGED vars
  BY <1>1 DEF vars
<1>2. CASE Tick
  BY <1>2 DEF Tick
<1>3. ASSUME NEW s \in Sessions, NEW correct \in BOOLEAN, ReadUser(s, correct) PROVE TypeOK'
  <2>1. [pc |-> "decide", correct |-> correct, user |-> account, now |-> 0] \in Login
    BY DEF Login
  <2> QED
    BY <1>3, <2>1 DEF ReadUser
<1>4. ASSUME NEW s \in Sessions, Decide(s) PROVE TypeOK'
  <2>1. login[s] \in Login /\ clock \in Nat
    OBVIOUS
  <2>2. \A p \in {"grant", "fail"} : [login[s] EXCEPT !.pc = p, !.now = clock] \in Login
    BY <2>1 DEF Login
  <2> QED
    BY <1>4, <2>2, IdleType DEF Decide
<1>5. ASSUME NEW s \in Sessions, RecordFailure(s) PROVE TypeOK'
  <2>1. account' \in Account
    BY <1>5, FailureRow
  <2> QED
    BY <1>5, <2>1, IdleType DEF RecordFailure
<1>6. ASSUME NEW s \in Sessions, GrantLogin(s) \/ FailLogin(s) PROVE TypeOK'
  BY <1>6, IdleType DEF GrantLogin, FailLogin
<1> QED
  BY <1>1, <1>2, <1>3, <1>4, <1>5, <1>6 DEF Next

LEMMA CheckedNext ==
    ASSUME IInv, [Next]_vars
    PROVE  CheckedInThePast'
<1> USE DEF CheckedInThePast
<1>0. /\ clock \in Nat \ {0} /\ login \in [Sessions -> Login] /\ CheckedInThePast
      /\ \A s \in Sessions : login[s].now \in Nat
  BY DEF IInv, TypeOK, Login
<1>1. CASE UNCHANGED vars \/ Tick
  BY <1>0, <1>1 DEF vars, Tick
<1>2. ASSUME NEW s \in Sessions, NEW correct \in BOOLEAN, ReadUser(s, correct)
      PROVE  CheckedInThePast'
  BY <1>0, <1>2 DEF ReadUser
<1>3. ASSUME NEW s \in Sessions, Decide(s) PROVE CheckedInThePast'
  BY <1>0, <1>3 DEF Decide, Idle, Login
<1>4. ASSUME NEW s \in Sessions, RecordFailure(s) \/ GrantLogin(s) \/ FailLogin(s)
      PROVE  CheckedInThePast'
  BY <1>0, <1>4 DEF RecordFailure, GrantLogin, FailLogin, Idle
<1> QED
  BY <1>1, <1>2, <1>3, <1>4 DEF Next

(* What a step may do to the row, for the properties about it.             *)
LEMMA AccountStep ==
    ASSUME IInv, [Next]_vars
    PROVE  \/ UNCHANGED account \/ account' = Cleared
           \/ \E s \in Sessions : RecordFailure(s)
  BY DEF Next, vars, Tick, ReadUser, Decide, GrantLogin, FailLogin

LEMMA ThresholdNext ==
    ASSUME IInv, [Next]_vars
    PROVE  ThresholdLocks'
<1>0. /\ ThresholdLocks /\ account \in Account
      /\ account.attempts \in Nat /\ account.lockouts \in Nat /\ account.lockedUntil \in Nat
  BY DEF IInv, TypeOK, Account
<1>1. CASE UNCHANGED account
  BY <1>0, <1>1 DEF ThresholdLocks
<1>2. CASE account' = Cleared
  BY <1>2, LockoutAssumption DEF Cleared, ThresholdLocks, Never
<1>3. ASSUME NEW s \in Sessions, RecordFailure(s) PROVE ThresholdLocks'
  <2>1. login[s].now \in Nat \ {0}
    BY <1>3 DEF RecordFailure, IInv, TypeOK, Login, CheckedInThePast
  <2>2. CASE Escalates(account, login[s].now)
    BY <1>0, <1>3, <2>2, FailureRow DEF ThresholdLocks, Never
  <2>3. CASE ~Escalates(account, login[s].now)
    <3>1. account.lockedUntil # Never \/ account.attempts + 1 < Threshold
      BY <1>0, <2>1, <2>3, LockoutAssumption DEF Escalates, Never
    <3> QED
      BY <1>0, <1>3, <2>3, <3>1, FailureRow, LockoutAssumption DEF ThresholdLocks, Never
  <2> QED
    BY <2>2, <2>3
<1> QED
  BY <1>1, <1>2, <1>3, AccountStep

LEMMA BoundedNext ==
    ASSUME IInv, [Next]_vars
    PROVE  LockIsBounded'
<1>0. /\ LockIsBounded /\ account \in Account /\ account.lockedUntil \in Nat
      /\ clock \in Nat /\ MaxDuration \in Nat
  BY LockoutAssumption DEF IInv, TypeOK, Account
<1>1. clock' \in Nat /\ clock <= clock'
  <2>1. UNCHANGED clock \/ clock' = clock + 1
    BY DEF Next, vars, Tick, ReadUser, Decide, RecordFailure, GrantLogin, FailLogin
  <2> QED
    BY <1>0, <2>1
<1>2. account'.lockedUntil <= clock + MaxDuration /\ account'.lockedUntil \in Nat
  <2>1. CASE UNCHANGED account
    BY <1>0, <2>1 DEF LockIsBounded
  <2>2. CASE account' = Cleared
    BY <1>0, <2>2 DEF Cleared, Never
  <2>3. ASSUME NEW s \in Sessions, RecordFailure(s)
        PROVE  account'.lockedUntil <= clock + MaxDuration /\ account'.lockedUntil \in Nat
    BY <1>0, <2>3, FailureRow DEF LockIsBounded
  <2> QED
    BY <2>1, <2>2, <2>3, AccountStep
<1> QED
  BY <1>0, <1>1, <1>2 DEF LockIsBounded

LEMMA IInvInit == Init => IInv
<1>1. Init => CheckedInThePast /\ ThresholdLocks /\ LockIsBounded
  BY LockoutAssumption DEF Init, CheckedInThePast, ThresholdLocks, LockIsBounded, Cleared,
     Never, Idle
<1> QED
  BY <1>1, TypeInit DEF IInv

LEMMA IInvNext == IInv /\ [Next]_vars => IInv'
  BY TypeNext, CheckedNext, ThresholdNext, BoundedNext DEF IInv

-----------------------------------------------------------------------------
(* The theorems.                                                           *)

(* Type correctness, and the time a login decided at is never ahead of the *)
(* clock.                                                                  *)
THEOREM Invariant == Spec => []IInv
  BY IInvInit, IInvNext, PTL DEF Spec

(* RecordFailedLoginAttempt: no burst of concurrent failures, whatever     *)
(* copies of the row they decided from, passes the threshold unlocked, and *)
(* the escalation counter counts locks that were set.                      *)
THEOREM FailuresLock == Spec => []ThresholdLocks
<1>1. IInv => ThresholdLocks
  BY DEF IInv
<1> QED
  BY <1>1, Invariant, PTL

(* RecordFailedLoginAttempt: the lock ends within MaxDuration, however     *)
(* often the account was locked and however late a failure is recorded.    *)
THEOREM LocksEnd == Spec => []LockIsBounded
<1>1. IInv => LockIsBounded
  BY DEF IInv
<1> QED
  BY <1>1, Invariant, PTL

(* RecordFailedLoginAttempt, "not currently locked": the failures of       *)
(* logins that were past the check when the lock was set neither extend    *)
(* nor escalate it.                                                        *)
THEOREM OncePerEpisode == Spec => LockIsNeverExtended
<1>1. ASSUME IInv, [Next]_vars, account.lockedUntil > clock
      PROVE  \/ account' = Cleared
             \/ /\ account'.lockedUntil = account.lockedUntil
                /\ account'.lockouts = account.lockouts
  <2>1. ASSUME NEW s \in Sessions, RecordFailure(s)
        PROVE  /\ account'.lockedUntil = account.lockedUntil
               /\ account'.lockouts = account.lockouts
    <3>1. ~Escalates(account, login[s].now)
      BY <1>1 DEF Escalates, IInv, CheckedInThePast, TypeOK, Login, Account
    <3> QED
      BY <1>1, <2>1, <3>1, FailureRow
  <2> QED
    BY <1>1, <2>1, AccountStep
<1> QED
  BY <1>1, Invariant, PTL DEF Spec, LockIsNeverExtended
=============================================================================
