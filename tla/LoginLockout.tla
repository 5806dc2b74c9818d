---------------------------- MODULE LoginLockout ----------------------------
(***************************************************************************)
(* The brute-force lockout of Login (internal/auth/register_login.go and   *)
(* queries/login_lockout.sql) on one account.  A login reads the account's *)
(* row, decides from that copy and the clock whether the account is        *)
(* locked, spends a long time in argon2id, and only then writes: one       *)
(* UPDATE that counts a failure, or one that clears the counters.          *)
(* Concurrent logins interleave between those steps.                       *)
(***************************************************************************)
EXTENDS Naturals

CONSTANTS
    Sessions,       \* concurrent login requests on the account
    Threshold,      \* lockoutThreshold()
    BaseDuration,   \* lockoutBaseDuration(), in clock ticks
    MaxDuration,    \* lockoutMaxDuration(), in clock ticks
    MaxAttempts,    \* bound: failures counted
    MaxClock        \* bound: clock ticks

ASSUME LockoutAssumption ==
    /\ Threshold \in Nat \ {0}
    /\ BaseDuration \in Nat \ {0}
    /\ MaxDuration \in Nat \ {0}
    /\ MaxAttempts \in Nat /\ MaxClock \in Nat

VARIABLES
    clock,          \* s.now(), the service's clock
    account,        \* the lockout columns of the account's row
    login           \* the login each session is serving

vars == <<clock, account, login>>

Never == 0          \* locked_until IS NULL; the clock starts above it

Account == [attempts : Nat, lockouts : Nat, lockedUntil : Nat]
Cleared == [attempts |-> 0, lockouts |-> 0, lockedUntil |-> Never]

Login == [pc : {"idle", "decide", "fail", "grant"}, correct : BOOLEAN,
          user : Account, now : Nat]
Idle == [pc |-> "idle", correct |-> FALSE, user |-> Cleared, now |-> 0]

Init ==
    /\ clock = 1
    /\ account = Cleared
    /\ login = [s \in Sessions |-> Idle]

Tick ==
    /\ clock < MaxClock
    /\ clock' = clock + 1
    /\ UNCHANGED <<account, login>>

\* GetUserByEmail; an unknown email, a password-less account or an invalid
\* request is refused without touching the row
ReadUser(s, correct) ==
    /\ login[s].pc = "idle"
    /\ login' = [login EXCEPT ![s] = [pc |-> "decide", correct |-> correct,
                                      user |-> account, now |-> 0]]
    /\ UNCHANGED <<clock, account>>

\* LockedUntil.Time.After(now): refused whatever the password is, and not
\* counted.  Otherwise VerifyPassword decides.
Decide(s) ==
    /\ login[s].pc = "decide"
    /\ login' = [login EXCEPT ![s] =
                   IF login[s].user.lockedUntil > clock THEN Idle
                   ELSE [login[s] EXCEPT !.pc = IF login[s].correct THEN "grant" ELSE "fail",
                                         !.now = clock]]
    /\ UNCHANGED <<clock, account>>

\* Faulty variant: doubling without LEAST
UncappedDuration(n) == BaseDuration * 2^n

\* LEAST(base * power(2, lockout_count), max); both are positive
LockDuration(n) ==
    IF BaseDuration * 2^n \in 1..MaxDuration THEN BaseDuration * 2^n ELSE MaxDuration

\* Faulty variant: escalation without the "not currently locked" guard
EscalatesEveryTime(row, now) == row.attempts + 1 >= Threshold

\* Faulty variant: off by one
EscalatesLate(row, now) == row.lockedUntil <= now /\ row.attempts + 1 > Threshold

\* not currently locked, and this attempt reaches the threshold
Escalates(row, now) == row.lockedUntil <= now /\ row.attempts + 1 >= Threshold

\* RecordFailedLoginAttempt, one UPDATE, with the now of Decide
RecordFailure(s) ==
    /\ login[s].pc = "fail"
    /\ account.attempts < MaxAttempts
    /\ account' =
         IF Escalates(account, login[s].now)
         THEN [attempts |-> account.attempts + 1, lockouts |-> account.lockouts + 1,
               lockedUntil |-> login[s].now + LockDuration(account.lockouts)]
         ELSE [account EXCEPT !.attempts = @ + 1]
    /\ login' = [login EXCEPT ![s] = Idle]
    /\ UNCHANGED clock

\* ResetLoginLockout, when the copy read at the start had anything to clear;
\* the session then issues its tokens (RefreshTokens)
GrantLogin(s) ==
    /\ login[s].pc = "grant"
    /\ account' = IF login[s].user.attempts > 0 \/ login[s].user.lockouts > 0
                  THEN Cleared ELSE account
    /\ login' = [login EXCEPT ![s] = Idle]
    /\ UNCHANGED clock

\* A cancelled request or a database error
FailLogin(s) ==
    /\ login[s].pc # "idle"
    /\ login' = [login EXCEPT ![s] = Idle]
    /\ UNCHANGED <<clock, account>>

Next ==
    \/ Tick
    \/ \E s \in Sessions :
          \/ \E correct \in BOOLEAN : ReadUser(s, correct)
          \/ Decide(s) \/ RecordFailure(s) \/ GrantLogin(s) \/ FailLogin(s)

Spec == Init /\ [][Next]_vars

-----------------------------------------------------------------------------
(* Properties.                                                             *)

TypeOK ==
    /\ clock \in Nat \ {0}
    /\ account \in Account
    /\ login \in [Sessions -> Login]

\* "Once per lockout episode": while the account is locked no failure extends
\* the lock or escalates it, although logins that passed the check before the
\* lock was set still record their failures; only a successful login that was
\* already past the check ends it early.
LockIsNeverExtended ==
    [][account.lockedUntil > clock =>
          \/ account' = Cleared
          \/ /\ account'.lockedUntil = account.lockedUntil
             /\ account'.lockouts = account.lockouts]_vars

\* No burst of concurrent failures gets past the threshold without the
\* account having been locked, and an account that has never been locked has
\* no escalation.
ThresholdLocks ==
    /\ account.attempts >= Threshold => account.lockedUntil # Never
    /\ account.lockedUntil # Never <=> account.lockouts > 0
    /\ account.lockouts <= account.attempts

\* However large lockout_count grows, and however late a failure with an old
\* now is recorded, the owner is never locked out for longer than MaxDuration.
LockIsBounded == account.lockedUntil <= clock + MaxDuration
=============================================================================
