--------------------------------- MODULE Login ---------------------------------
(***************************************************************************)
(* AuthService.login and refreshToken, for one account.                    *)
(*                                                                         *)
(* A login reads the row once and decides on that copy what it meets       *)
(* later: the lock, its expiry, the hash.  A wrong password is counted by  *)
(* a call nobody awaits, which reads the row again and writes the counter  *)
(* back.  A right one clears counter and lock, asks for the roles, stores  *)
(* a session in Redis and signs two tokens that name it.                   *)
(*                                                                         *)
(* Locks are numbered in the order in which they are set, and run out in   *)
(* that order: each lasts three minutes.  deleted_at is left out: nothing  *)
(* in the program gives it a value.                                        *)
(***************************************************************************)
EXTENDS Naturals, FiniteSets

CONSTANTS Handlers,      \* the logins in flight at the same time
          Sessions,      \* the values of uuidv4() that can be drawn
          NoSession,     \* what a payload without session_id carries
          DefaultName,   \* "USER", the role of a session that finds none
          SessionLife,   \* ticks a session stays in Redis (84600 s)
          AccessLife,    \* ticks an access token is valid (24 h)
          RefreshLife,   \* ticks a refresh token is valid (1 y)
          MaxWrong,      \* bound: wrong passwords
          MaxNow         \* bound: ticks

\* What is assumed of them (by Access).
LoginConstants == /\ NoSession \notin Sessions
                  /\ {SessionLife, AccessLife, RefreshLife} \subseteq Nat \ {0}
                  /\ {MaxWrong, MaxNow} \subseteq Nat

VARIABLES attempts,      \* users.failed_login_attempts, null read as 0
          lock,          \* users.locked_until: 0, or the number of the lock
          locks,         \* how many locks have been set
          ranOut,        \* the locks 1..ranOut are over
          due,           \* increments that have not read the row yet
          held,          \* [counter read -> increments that hold it]
          shadowed,      \* do class fields hide the columns of an instance?
          wrong,         \* history: the wrong passwords answered
          tally,         \* history: those answered since the last reset
          mixed,         \* history: has an increment met another one, a reset
                         \* or the end of the process since then?
          req,           \* [Handlers -> what the login is in the middle of]
          sessions,      \* Redis: [session |-> its record], expired ones gone
          tokens,        \* the tokens signed so far
          now,           \* ticks since the start
          rolesNow       \* what getRolePermissionByUserId returns now; not ours

counting == <<due, held, wrong, tally, mixed>>
account == <<attempts, lock, locks, ranOut, shadowed>>
loginVars == <<account, counting, req, sessions, tokens, now>>

Idle == [at |-> "idle"]
NoneHeld == [n \in 0..MaxWrong |-> 0]
Quiet == due = 0 /\ held = NoneHeld
Locked == lock > ranOut

\* createMember leaves the counter and the lock null.
Init == /\ attempts = 0 /\ lock = 0 /\ locks = 0 /\ ranOut = 0
        /\ shadowed \in BOOLEAN
        /\ due = 0 /\ held = NoneHeld
        /\ wrong = 0 /\ tally = 0 /\ mixed = FALSE
        /\ req = [h \in Handlers |-> Idle]
        /\ sessions = <<>> /\ tokens = {} /\ now = 0

-----------------------------------------------------------------------------
(* login                                                                   *)

\* The one read of the row.  A lock that is still on ends the request (410);
\* of one that is over the request remembers that it has to be reset.
Find_NoLockCheck(h) ==
    /\ req[h] = Idle
    /\ req' = [req EXCEPT ![h] = [at |-> IF lock = 0 THEN "compare" ELSE "expired",
                                  before |-> locks]]
    /\ UNCHANGED <<account, counting, sessions, tokens, now>>

Find(h) ==
    /\ req[h] = Idle
    /\ ~Locked
    /\ req' = [req EXCEPT ![h] = [at |-> IF lock = 0 THEN "compare" ELSE "expired",
                                  before |-> locks]]
    /\ UNCHANGED <<account, counting, sessions, tokens, now>>

\* An UPDATE by id: whatever has been written since the read is overwritten.
ResetFailedLogins_LockOnly ==
    /\ lock' = 0
    /\ tally' = 0
    /\ mixed' = ~Quiet
    /\ UNCHANGED <<attempts, locks, ranOut, shadowed, due, held, wrong>>

ResetFailedLogins ==
    /\ attempts' = 0
    /\ lock' = 0
    /\ tally' = 0
    /\ mixed' = ~Quiet
    /\ UNCHANGED <<locks, ranOut, shadowed, due, held, wrong>>

ResetExpired(h) ==
    /\ req[h].at = "expired"
    /\ ResetFailedLogins
    /\ req' = [req EXCEPT ![h].at = "compare"]
    /\ UNCHANGED <<sessions, tokens, now>>

\* comparePassword says no: 401, and an increment is on its way.
RefuseWrong(h) ==
    /\ req[h].at = "compare"
    /\ wrong < MaxWrong
    /\ wrong' = wrong + 1
    /\ tally' = tally + 1
    /\ due' = due + 1
    /\ mixed' = (mixed \/ ~Quiet)
    /\ req' = [req EXCEPT ![h] = Idle]
    /\ UNCHANGED <<account, held, sessions, tokens, now>>

\* comparePassword says yes.
Accept(h) ==
    /\ req[h].at = "compare"
    /\ req' = [req EXCEPT ![h].at = "right"]
    /\ UNCHANGED <<account, counting, sessions, tokens, now>>

ResetAccepted(h) ==
    /\ req[h].at = "right"
    /\ ResetFailedLogins
    /\ req' = [req EXCEPT ![h].at = "roles"]
    /\ UNCHANGED <<sessions, tokens, now>>

\* getRolePermissionByUserId, and USER for a user without any permission.
ReadRoles(h) ==
    /\ req[h].at = "roles"
    /\ req' = [req EXCEPT ![h] = [at |-> "store", before |-> req[h].before,
                                  roles |-> IF rolesNow = {} THEN {DefaultName} ELSE rolesNow]]
    /\ UNCHANGED <<account, counting, sessions, tokens, now>>

\* A SET of the key, new or not.
SetSession(s, record) ==
    [x \in DOMAIN sessions \cup {s} |-> IF x = s THEN record ELSE sessions[x]]

\* SET ... EX, then the two tokens, which need no server.
StoreSession_NoExpiry(h) ==
    \E s \in Sessions \ {t.session : t \in tokens} :
       /\ req[h].at = "store"
       /\ sessions' = SetSession(s, [roles |-> req[h].roles, until |-> MaxNow + AccessLife])
       /\ tokens' = tokens \cup {[kind |-> "access", session |-> s, until |-> now + AccessLife],
                                 [kind |-> "refresh", session |-> s, until |-> now + RefreshLife]}
       /\ req' = [req EXCEPT ![h] = Idle]
       /\ UNCHANGED <<account, counting, now>>

StoreSession(h) ==
    \E s \in Sessions \ {t.session : t \in tokens} :
       /\ req[h].at = "store"
       /\ sessions' = SetSession(s, [roles |-> req[h].roles, until |-> now + SessionLife])
       /\ tokens' = tokens \cup {[kind |-> "access", session |-> s, until |-> now + AccessLife],
                                 [kind |-> "refresh", session |-> s, until |-> now + RefreshLife]}
       /\ req' = [req EXCEPT ![h] = Idle]
       /\ UNCHANGED <<account, counting, now>>

-----------------------------------------------------------------------------
(* incrementFailedLogins, which runs beside the requests                   *)

ReadCounter ==
    /\ due > 0
    /\ ~shadowed
    /\ due' = due - 1
    /\ held' = [held EXCEPT ![attempts] = @ + 1]
    /\ UNCHANGED <<account, wrong, tally, mixed, req, sessions, tokens, now>>

\* The counter that was read decides on the lock, not the one that is there.
WriteCounter_EarlyLock(n) ==
    /\ held[n] > 0
    /\ held' = [held EXCEPT ![n] = @ - 1]
    /\ attempts' = n + 1
    /\ IF n >= 1 THEN lock' = locks + 1 /\ locks' = locks + 1
                 ELSE UNCHANGED <<lock, locks>>
    /\ UNCHANGED <<ranOut, shadowed, due, wrong, tally, mixed, req, sessions, tokens, now>>

WriteCounter(n) ==
    /\ held[n] > 0
    /\ held' = [held EXCEPT ![n] = @ - 1]
    /\ attempts' = n + 1
    /\ IF n >= 2 THEN lock' = locks + 1 /\ locks' = locks + 1
                 ELSE UNCHANGED <<lock, locks>>
    /\ UNCHANGED <<ranOut, shadowed, due, wrong, tally, mixed, req, sessions, tokens, now>>

\* The process dies with what it was doing.
Crash ==
    /\ due' = 0 /\ held' = NoneHeld
    /\ mixed' = (mixed \/ ~Quiet)
    /\ req' = [h \in Handlers |-> Idle]
    /\ UNCHANGED <<account, wrong, tally, sessions, tokens, now>>

\* Where class fields hide the columns, the counter read is undefined, its
\* successor NaN; PostgreSQL refuses it, and nobody catches the rejection.
CountingFails == shadowed /\ due > 0 /\ Crash

-----------------------------------------------------------------------------
(* refreshToken, and the passing of time                                   *)

\* The new token is signed from email and id, which no refresh token carries.
RefreshToken ==
    \E t \in tokens :
       /\ t.kind = "refresh" /\ now < t.until
       /\ tokens' = tokens \cup {[kind |-> "access", session |-> NoSession,
                                  until |-> now + AccessLife]}
       /\ UNCHANGED <<account, counting, req, sessions, now>>

LockRunsOut ==
    /\ Locked
    /\ ranOut' = ranOut + 1
    /\ UNCHANGED <<attempts, lock, locks, shadowed, counting, req, sessions, tokens, now>>

\* Hours pass: not while a session is on its way to Redis.
Tick ==
    /\ now < MaxNow
    /\ \A h \in Handlers : req[h].at # "store"
    /\ now' = now + 1
    /\ sessions' = [s \in {x \in DOMAIN sessions : sessions[x].until > now'} |-> sessions[s]]
    /\ UNCHANGED <<account, counting, req, tokens>>

Login(h) == \/ Find(h) \/ ResetExpired(h) \/ RefuseWrong(h) \/ Accept(h)
            \/ ResetAccepted(h) \/ ReadRoles(h) \/ StoreSession(h)

Next == \/ \E h \in Handlers : Login(h)
        \/ ReadCounter
        \/ \E n \in 0..MaxWrong : WriteCounter(n)
        \/ CountingFails \/ Crash
        \/ RefreshToken \/ LockRunsOut \/ Tick

-----------------------------------------------------------------------------
(* What holds                                                              *)

\* A lock that is on is lifted only by a request that found the account before
\* the lock was set: neither a reset of an earlier lock nor a right password
\* that is sent later opens it (resetFailedLogins writes by id alone).
LockIsRespected ==
    [][Locked /\ lock' = 0 => \E h \in Handlers : req[h] # Idle /\ req[h].before < lock]_loginVars

\* However increments, resets and requests overlap, the counter never runs ahead
\* of the wrong passwords, and a lock has a wrong password of its own beyond
\* the two that are let pass (maxAttempts).
NeverOvercounted ==
    /\ attempts + due <= wrong
    /\ locks > 0 => locks + 2 <= wrong - due

\* Wrong passwords that are counted one at a time, with no reset or end of the
\* process in between, lock the account at the third and not before.  (The
\* counter is read and written back: those that overlap can count as one.)
LockedAtTheThird ==
    ~mixed => /\ Quiet => attempts = tally
              /\ Quiet => (lock # 0 <=> tally >= 3)
              /\ \A n \in 0..MaxWrong : held[n] > 0 => n = tally - 1
=============================================================================
