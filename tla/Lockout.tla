------------------------------- MODULE Lockout -------------------------------
(***************************************************************************)
(* The lock of one account (middleware/lockout.js) under the logins that   *)
(* overlap on it (POST /users/login): the gate is read, the password is    *)
(* compared, and the failure is counted, in statements of their own.       *)
(* Times are relative, in seconds, and stop at the last value that         *)
(* matters; a lock is the time it has left.                                *)
(***************************************************************************)
EXTENDS Integers, FiniteSetsExt

CONSTANTS Attempts,     \* the logins under way at once
          Threshold,    \* ACCOUNT_LOCKOUT_THRESHOLD
          CapSeconds,   \* ACCOUNT_LOCKOUT_CAP_SECONDS
          MaxFailures   \* bound of the model: failures that are counted

\* config/index.js: a lock of 30 seconds at least may be asked for.
ASSUME LockoutAssumption ==
    Threshold \in Nat /\ MaxFailures \in Nat /\ CapSeconds \in Nat /\ CapSeconds >= 2

VARIABLES failed_login_count, locked_until,
          lastFailed,  \* seconds since last_failed_login_at, 2 when more
          attempt,     \* idle, passed, bad, good, counted
          counted      \* the count that recordFailure() of an attempt returned

account == <<failed_login_count, locked_until, lastFailed>>
lockoutVars == <<account, attempt, counted>>

LockoutInit ==
    /\ failed_login_count = 0 /\ locked_until = 0 /\ lastFailed = 2
    /\ attempt = [a \in Attempts |-> "idle"]
    /\ counted = [a \in Attempts |-> 0]

MAX_EXPONENT == 20

computeLockoutSeconds(failures) ==
    IF failures <= Threshold THEN 0
    ELSE Min({2 ^ Min({failures - Threshold, MAX_EXPONENT}), CapSeconds})

To(a, there) == attempt' = [attempt EXCEPT ![a] = there]

\* isLocked(): a locked account answers 429, any other lets the login pass. A query
\* that fails answers 500, like the lock here without effect.
Gate(a) ==
    /\ attempt[a] = "idle"
    /\ locked_until = 0
    /\ To(a, "passed")
    /\ UNCHANGED <<account, counted>>

\* The row and the hash: right, or wrong, unknown or inactive
Compare(a) ==
    /\ attempt[a] = "passed"
    /\ \E verdict \in {"good", "bad"} : To(a, verdict)
    /\ UNCHANGED <<account, counted>>

\* Variant: the first UPDATE only counts.
CountOnly(a) ==
    /\ attempt[a] = "bad" /\ failed_login_count < MaxFailures
    /\ failed_login_count' = failed_login_count + 1
    /\ lastFailed' = 0
    /\ counted' = [counted EXCEPT ![a] = failed_login_count']
    /\ To(a, "counted")
    /\ UNCHANGED locked_until

\* recordFailure(), the first UPDATE: past the threshold it locks for two seconds.
Count(a) ==
    /\ attempt[a] = "bad" /\ failed_login_count < MaxFailures
    /\ failed_login_count' = failed_login_count + 1
    /\ lastFailed' = 0
    /\ locked_until' = IF failed_login_count' > Threshold THEN 2 ELSE locked_until
    /\ counted' = [counted EXCEPT ![a] = failed_login_count']
    /\ To(a, "counted")

\* The second UPDATE writes the whole lock, for the count the first one returned.
Lengthen(a) ==
    /\ attempt[a] = "counted"
    /\ locked_until' = IF counted[a] > Threshold THEN computeLockoutSeconds(counted[a])
                       ELSE locked_until
    /\ To(a, "idle")
    /\ UNCHANGED <<failed_login_count, lastFailed, counted>>

\* An UPDATE that fails is swallowed: the answer is 401 all the same.
FailUnrecorded(a) ==
    /\ attempt[a] \in {"bad", "counted"}
    /\ To(a, "idle")
    /\ UNCHANGED <<account, counted>>

\* recordSuccess(), which may fail: the login succeeds either way.
Succeed(a) ==
    /\ attempt[a] = "good"
    /\ \/ failed_login_count' = 0 /\ locked_until' = 0
       \/ UNCHANGED <<failed_login_count, locked_until>>
    /\ To(a, "idle")
    /\ UNCHANGED <<lastFailed, counted>>

Second ==
    /\ locked_until' = Max({0, locked_until - 1})
    /\ lastFailed' = Min({2, lastFailed + 1})
    /\ UNCHANGED <<failed_login_count, attempt, counted>>

LockoutNext ==
    \/ \E a \in Attempts : \/ Gate(a) \/ Compare(a) \/ Count(a) \/ Lengthen(a)
                           \/ FailUnrecorded(a) \/ Succeed(a)
    \/ Second

LockoutSpec == LockoutInit /\ [][LockoutNext]_lockoutVars

-----------------------------------------------------------------------------
(* Properties.                                                             *)

\* Failures that overlap may shorten each other's lock, and a failure may be recorded
\* by half; past the threshold the account still stays locked for the two seconds after
\* the last failure that was counted.
LockOutlastsLastFailure ==
    failed_login_count > Threshold => locked_until + lastFailed >= 2
=============================================================================
