------------------------------- MODULE Login -------------------------------
(***************************************************************************)
(* One account of the auth service: its registration, the logins that are  *)
(* tried on it concurrently, and the lockout after too many failed ones.   *)
(* (services/auth/src: authService.ts, domain/lockout.ts, pg.ts)           *)
(*                                                                         *)
(* A handler waits at every query; between two awaits it is one action.    *)
(* What it read of the row and the instant it started at are kept in the   *)
(* handler.  Two logins never start in the same instant, so the attempts   *)
(* ordered by time are a function of the instants.  Times are in ticks, 0  *)
(* is null.  The audit log, which nothing reads, is left out.              *)
(***************************************************************************)
EXTENDS Integers, FiniteSets

CONSTANTS
    Handlers,       \* register and login calls in flight at one time
    Threshold,      \* LockoutPolicy.threshold
    Window,         \* LockoutPolicy.windowMs, in ticks
    MaxTime         \* bound: instants

ASSUME PolicyAssumption == Threshold \in Nat \ {0} /\ Window \in Nat \ {0}
ASSUME MaxTimeAssumption == MaxTime \in Nat \ {0}
ASSUME HandlersAssumption == IsFiniteSet(Handlers)

VARIABLES
    now,            \* the clock
    status,         \* users.status, "NONE" without a row
    lockedUntil,    \* users.locked_until
    attempts,       \* login_attempts: the attempt started at an instant
    at,             \* at[h]: where handler h waits
    started,        \* started[h]: its "now"
    sawLocked,      \* handlers that read the row with status LOCKED
    until,          \* until[h]: the expiry it computed
    stale,          \* history: handlers that read the row before the last lock
    created,        \* history: registrations answered with 201
    forgone         \* history: failures whose lock was lost or cut short

row == <<status, lockedUntil>>
calls == <<at, started, sawLocked, until>>
loginVars == <<now, row, attempts, calls, stale, created, forgone>>

Instants == 1..MaxTime
Statuses == {"NONE", "PENDING_VERIFICATION", "ACTIVE", "LOCKED", "SUSPENDED"}
Marks == {"none", "bad", "ok"}
Steps == {"done", "insert", "check", "verify", "count", "lock", "clear", "issue"}

Goes(h, s) == at' = [at EXCEPT ![h] = s]

LoginInit ==
    /\ now = 1
    /\ status = "NONE"
    /\ lockedUntil = 0
    /\ attempts = [t \in Instants |-> "none"]
    /\ at = [h \in Handlers |-> "done"]
    /\ started = [h \in Handlers |-> 0]
    /\ sawLocked = {}
    /\ until = [h \in Handlers |-> 0]
    /\ stale = {}
    /\ created = 0
    /\ forgone = {}

-----------------------------------------------------------------------------
(***************************************************************************)
(* computeLockedUntil on the attempts recentForUser returns, those of the  *)
(* last Window ticks and any later ones.  The loop carries the failures of *)
(* the streak so far, oldest first of which only the last Threshold count, *)
(* and the expiry of the last lock.                                        *)
(***************************************************************************)
NthLatest(S, n) ==
    CHOOSE t \in S : Cardinality({u \in S : u >= t}) = n

Triggered(streak) ==
    /\ Cardinality(streak) >= Threshold
    /\ NthLatest(streak, 1) - NthLatest(streak, Threshold) <= Window

\* One turn of the loop, with the attempt of the instant t.
Scanned(before, t, since) ==
    LET streak == before.streak \cup {t} IN
    IF t < since \/ attempts[t] = "none" THEN before
    ELSE IF attempts[t] = "ok" THEN [before EXCEPT !.streak = {}]
    ELSE [streak |-> streak,
          lock |-> IF Triggered(streak) THEN t + Window ELSE before.lock]

LockScan(since) ==
    LET scan[t \in 0..MaxTime] ==
            IF t = 0 THEN [streak |-> {}, lock |-> 0] ELSE Scanned(scan[t - 1], t, since)
    IN  scan[MaxTime].lock

ComputeLockedUntil(n) == LockScan(n - Window)

\* Broken variants of Locked: the stored expiry is not looked at; neither is
\* the history.
LockedByHistory(n, stored) == n < ComputeLockedUntil(n)
LockedByFlag(n, stored) == n < stored

(***************************************************************************)
(* evaluateLockout: the later of the computed and the stored expiry.       *)
(***************************************************************************)
Locked(n, stored) ==
    \/ n < ComputeLockedUntil(n)
    \/ n < stored

(***************************************************************************)
(* The rule lockout.ts states: an account is locked, until Window after    *)
(* it, by a failure that ends Threshold failures in a row within Window.   *)
(***************************************************************************)
EndsStreak(t) ==
    /\ attempts[t] = "bad"
    /\ Threshold <= Cardinality({u \in Instants :
            /\ t - Window <= u /\ u <= t
            /\ attempts[u] = "bad"
            /\ \A v \in u..t : attempts[v] # "ok"})

\* Handler h is about to find, or to store, the lock of the failure at t.
Owes(h, t) ==
    \/ at[h] = "count" /\ t - Window <= started[h] /\ started[h] <= t
    \/ at[h] = "lock" /\ t + Window <= until[h]

-----------------------------------------------------------------------------
(***************************************************************************)
(* register, for a request that passes validateRegistration: findByEmail,  *)
(* and after the password is hashed the insert, which the unique index on  *)
(* the email refuses (an unexpected error, 500) when another was first.    *)
(***************************************************************************)
Register(h) ==
    /\ at[h] = "done"
    /\ status = "NONE"
    /\ Goes(h, "insert")
    /\ UNCHANGED <<now, row, attempts, started, sawLocked, until, stale, created, forgone>>

\* Broken variant of Insert: no unique index.
InsertAnyway(h) ==
    /\ at[h] = "insert"
    /\ status' = "PENDING_VERIFICATION"
    /\ created' = created + 1
    /\ Goes(h, "done")
    /\ UNCHANGED <<now, lockedUntil, attempts, started, sawLocked, until, stale, forgone>>

Insert(h) ==
    /\ at[h] = "insert"
    /\ status = "NONE"
    /\ status' = "PENDING_VERIFICATION"
    /\ created' = created + 1
    /\ Goes(h, "done")
    /\ UNCHANGED <<now, lockedUntil, attempts, started, sawLocked, until, stale, forgone>>

InsertRefused(h) ==
    /\ at[h] = "insert"
    /\ status # "NONE"
    /\ Goes(h, "done")
    /\ UNCHANGED <<now, row, attempts, started, sawLocked, until, stale, created, forgone>>

(***************************************************************************)
(* External: an operator verifies the account; no code of the repository   *)
(* does.  suspendUser is one UPDATE of the status, whatever it is.         *)
(***************************************************************************)
Activate ==
    /\ status = "PENDING_VERIFICATION"
    /\ status' = "ACTIVE"
    /\ UNCHANGED <<now, lockedUntil, attempts, calls, stale, created, forgone>>

UpdateStatusSuspended ==
    /\ status # "NONE"
    /\ status' = "SUSPENDED"
    /\ UNCHANGED <<now, lockedUntil, attempts, calls, stale, created, forgone>>

Tick ==
    /\ now < MaxTime
    /\ now' = now + 1
    /\ UNCHANGED <<row, attempts, calls, stale, created, forgone>>

(***************************************************************************)
(* login: the instant, and findByEmail.  Without a row it is answered 401. *)
(***************************************************************************)
Start(h) ==
    /\ at[h] = "done"
    /\ status # "NONE"
    /\ attempts[now] = "none"
    /\ \A g \in Handlers : at[g] \notin {"done", "insert"} => started[g] # now
    /\ started' = [started EXCEPT ![h] = now]
    /\ sawLocked' = IF status = "LOCKED" THEN sawLocked \cup {h} ELSE sawLocked \ {h}
    /\ until' = [until EXCEPT ![h] = lockedUntil]
    /\ stale' = stale \ {h}
    /\ Goes(h, IF status \in {"SUSPENDED", "PENDING_VERIFICATION"} THEN "done" ELSE "check")
    /\ UNCHANGED <<now, row, attempts, created, forgone>>

(***************************************************************************)
(* currentLockState: the attempts are read after the row.                  *)
(***************************************************************************)
Reject(h) ==
    /\ at[h] = "check"
    /\ Locked(started[h], until[h])
    /\ Goes(h, "done")
    /\ UNCHANGED <<now, row, attempts, started, sawLocked, until, stale, created, forgone>>

Pass(h) ==
    /\ at[h] = "check"
    /\ ~Locked(started[h], until[h])
    /\ Goes(h, "verify")
    /\ UNCHANGED <<now, row, attempts, started, sawLocked, until, stale, created, forgone>>

(***************************************************************************)
(* The password is verified, and the attempt recorded at its start.        *)
(***************************************************************************)
RecordFailure(h) ==
    /\ at[h] = "verify"
    /\ attempts' = [attempts EXCEPT ![started[h]] = "bad"]
    /\ Goes(h, "count")
    /\ UNCHANGED <<now, row, started, sawLocked, until, stale, created, forgone>>

RecordSuccess(h) ==
    /\ at[h] = "verify"
    /\ attempts' = [attempts EXCEPT ![started[h]] = "ok"]
    /\ Goes(h, IF h \in sawLocked THEN "clear" ELSE "issue")
    /\ UNCHANGED <<now, row, started, sawLocked, until, stale, created, forgone>>

\* Broken variant of Count: a row that was LOCKED is locked already.
CountUnlocked(h) ==
    /\ at[h] = "count"
    /\ LET lock == ComputeLockedUntil(started[h]) IN
        IF started[h] < lock /\ h \notin sawLocked
        THEN Goes(h, "lock") /\ until' = [until EXCEPT ![h] = lock]
        ELSE Goes(h, "done") /\ UNCHANGED until
    /\ UNCHANGED <<now, row, attempts, started, sawLocked, stale, created, forgone>>

(***************************************************************************)
(* computeLock, with this failure.                                         *)
(***************************************************************************)
Count(h) ==
    /\ at[h] = "count"
    /\ LET lock == ComputeLockedUntil(started[h]) IN
        IF started[h] < lock
        THEN Goes(h, "lock") /\ until' = [until EXCEPT ![h] = lock]
        ELSE Goes(h, "done") /\ UNCHANGED until
    /\ UNCHANGED <<now, row, attempts, started, sawLocked, stale, created, forgone>>

\* Broken variant of SetLockedUntil: the status follows the lock in any case.
SetLockedAlways(l) ==
    /\ lockedUntil' = l
    /\ status' = IF l = 0 THEN "ACTIVE" ELSE "LOCKED"

(***************************************************************************)
(* setLockedUntil: one UPDATE with a CASE on the status.                   *)
(***************************************************************************)
SetLockedUntil(l) ==
    /\ lockedUntil' = l
    /\ status' = IF l # 0 /\ status = "ACTIVE" THEN "LOCKED"
                 ELSE IF l = 0 /\ status = "LOCKED" THEN "ACTIVE"
                 ELSE status

\* History: what a login that read the row before the last lock undoes of it.
CutsShort(h) ==
    forgone' = IF h \notin stale THEN forgone
               ELSE forgone \cup {t \in Instants : /\ EndsStreak(t)
                                                   /\ t + Window <= lockedUntil
                                                   /\ lockedUntil' < t + Window}

Lock(h) ==
    /\ at[h] = "lock"
    /\ SetLockedUntil(until[h])
    /\ CutsShort(h)
    /\ stale' = {g \in Handlers \ {h} : at[g] \notin {"done", "insert"}}
    /\ Goes(h, "done")
    /\ UNCHANGED <<now, attempts, started, sawLocked, until, created>>

Clear(h) ==
    /\ at[h] = "clear"
    /\ SetLockedUntil(0)
    /\ CutsShort(h)
    /\ Goes(h, "issue")
    /\ UNCHANGED <<now, attempts, started, sawLocked, until, stale, created>>

(***************************************************************************)
(* issueTokenPair inserts a refresh token: see Session.                    *)
(***************************************************************************)
Issue(h) ==
    /\ at[h] = "issue"
    /\ Goes(h, "done")
    /\ UNCHANGED <<now, row, attempts, started, sawLocked, until, stale, created, forgone>>

(***************************************************************************)
(* A query fails, or the process dies: what was written stays.             *)
(***************************************************************************)
Fails(h) ==
    /\ at[h] # "done"
    /\ Goes(h, "done")
    /\ forgone' = forgone \cup {t \in Instants : EndsStreak(t) /\ Owes(h, t) /\ lockedUntil < t + Window}
    /\ UNCHANGED <<now, row, attempts, started, sawLocked, until, stale, created>>

Continue(h) ==
    \/ Insert(h) \/ InsertRefused(h)
    \/ Reject(h) \/ Pass(h) \/ RecordFailure(h) \/ RecordSuccess(h)
    \/ Count(h) \/ Lock(h) \/ Clear(h) \/ Issue(h)

LoginNext ==
    \/ Activate \/ UpdateStatusSuspended \/ Tick
    \/ \E h \in Handlers : Register(h) \/ Start(h) \/ Continue(h) \/ Fails(h)

LoginSpec == LoginInit /\ [][LoginNext]_loginVars

-----------------------------------------------------------------------------

(***************************************************************************)
(* The types; an email is registered once, however many requests race.     *)
(***************************************************************************)
LoginTypeOK ==
    /\ now \in 1..(MaxTime + 1)
    /\ status \in Statuses
    /\ lockedUntil \in 0..(MaxTime + Window)
    /\ attempts \in [Instants -> Marks]
    /\ at \in [Handlers -> Steps]
    /\ started \in [Handlers -> 0..MaxTime]
    /\ sawLocked \subseteq Handlers
    /\ until \in [Handlers -> 0..(MaxTime + Window)]
    /\ stale \subseteq Handlers
    /\ created \in 0..1
    /\ forgone \subseteq Instants

(***************************************************************************)
(* What computeLockedUntil finds from the attempts that recentForUser      *)
(* returns to a login of the instant n: a lock the rule asks for, and none *)
(* missing of the failures from n on.  Of an earlier failure part of the   *)
(* streak may be older than the query goes: then only the stored expiry    *)
(* knows of the lock.                                                      *)
(***************************************************************************)
LockMatchesRule ==
    \A n \in Instants :
        LET lock == ComputeLockedUntil(n) IN
        /\ lock # 0 => lock - Window \in Instants /\ EndsStreak(lock - Window)
        /\ \A t \in n..MaxTime : EndsStreak(t) => t + Window <= lock

(***************************************************************************)
(* The lock the rule asks for is the stored one for as long as it lasts,   *)
(* or a login that failed is about to store it.  It is lost when a query   *)
(* of such a login fails, and when a login that read the row before the    *)
(* lock writes behind it.                                                  *)
(***************************************************************************)
LockIsInForce ==
    \A t \in Instants :
        EndsStreak(t) /\ now < t + Window =>
            \/ t + Window <= lockedUntil
            \/ \E h \in Handlers : Owes(h, t)
            \/ t \in forgone

(***************************************************************************)
(* An email has one account; what the logins compute of its attempts,      *)
(* recorded in any order, follows the lockout rule, and so does the lock   *)
(* stored with it, but for a failed query and a login that was overtaken.  *)
(***************************************************************************)
LockIsSound ==
    /\ LoginTypeOK
    /\ LockMatchesRule
    /\ LockIsInForce

(***************************************************************************)
(* Concurrency does not open the lockout: failures in a row within Window  *)
(* are at most Threshold - 1, and one per login in flight.  (login checks  *)
(* before the password is verified, and counts after)  With Threshold 1 a  *)
(* second failure may end the Window of the first.                         *)
(***************************************************************************)
GuessesAreBounded ==
    Threshold > 1 =>
    \A t \in Instants :
        Cardinality({u \in Instants :
            /\ t - Window <= u /\ u <= t
            /\ attempts[u] = "bad"
            /\ \A v \in u..t : attempts[v] # "ok"})
        <= Threshold - 1 + Cardinality(Handlers)

(***************************************************************************)
(* A lock in force ends early only by a login that was in flight when the  *)
(* lock was stored; no login that began later shortens it, and none makes  *)
(* a suspended account usable again.                                       *)
(***************************************************************************)
Shortens == now < lockedUntil /\ lockedUntil' < lockedUntil

OnlyStaleLoginsShorten ==
    [][/\ Shortens => \E h \in stale : at[h] \in {"lock", "clear"} /\ at'[h] # at[h]
       /\ status = "SUSPENDED" => status' = "SUSPENDED"]_loginVars

(***************************************************************************)
(* "an account already flagged locked stays locked until its stored expiry *)
(* regardless of new history" (lockout.ts)                                 *)
(***************************************************************************)
LockIsKept == [][now < lockedUntil => lockedUntil' >= lockedUntil]_loginVars
=============================================================================
