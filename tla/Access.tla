--------------------------------- MODULE Access --------------------------------
(***************************************************************************)
(* Logins, the guards and the tables of roles together.  A login takes     *)
(* down the names of the roles the user has; a request with its token is   *)
(* judged later by what those names grant then.  The two parts share       *)
(* Redis, the signed tokens and the clock.                                 *)
(***************************************************************************)
EXTENDS Naturals, FiniteSets

CONSTANTS Handlers, Sessions, NoSession, DefaultName, SessionLife, AccessLife, RefreshLife,
          MaxWrong, MaxNow, Checks, Roles, Names, Permissions, Grants, Wanted, Seeds,
          MaxEdits,
          QuietWrong     \* bound: wrong passwords in a behaviour in which tables
                         \* change, guards run or hours pass

VARIABLES attempts, lock, locks, ranOut, due, held, shadowed, wrong, tally, mixed,
          req, sessions, tokens, now,
          name, granted, assigned, edits, check,
          lastHad        \* history: [name -> last tick at which the user had a role
                         \* of that name with a permission]

G == INSTANCE RoleGuard
L == INSTANCE Login WITH rolesNow <- G!RolesNow

ASSUME AccessAssumption == L!LoginConstants /\ G!GuardConstants

loginVars == <<attempts, lock, locks, ranOut, shadowed, due, held, wrong, tally, mixed,
               req, sessions, tokens, now>>
guardVars == <<name, granted, assigned, edits, check>>
vars == <<loginVars, guardVars, lastHad>>

Init == /\ L!Init /\ G!Init
        /\ lastHad = [n \in Names |-> 0]

\* What the user has at the start of a tick, or comes to have, is seen.
See == lastHad' = [n \in Names |-> IF n \in G!RolesNow \cup G!RolesNow' THEN now' ELSE lastHad[n]]

LoginStep == /\ \/ \E h \in Handlers : L!Login(h)
                \/ L!ReadCounter
                \/ \E n \in 0..MaxWrong : L!WriteCounter(n)
                \/ L!RefreshToken \/ L!LockRunsOut \/ L!Tick
             /\ UNCHANGED guardVars

GuardStep == /\ (\E c \in Checks : G!Guard(c)) \/ G!EditTables
             /\ UNCHANGED loginVars

Crash == (L!CountingFails \/ L!Crash) /\ G!Crash

Bounded == wrong <= QuietWrong \/ (edits = 0 /\ now = 0 /\ \A c \in Checks : check[c] = G!Idle)

Next == (LoginStep \/ GuardStep \/ Crash) /\ See /\ Bounded'

Spec == Init /\ [][Next]_vars

-----------------------------------------------------------------------------

\* The lock, as Login states it: a lock that is on is opened by no request that
\* found the account after it was set.
LockIsRespected == L!LockIsRespected

\* The counter never runs ahead of the wrong passwords (Login).
NeverOvercounted == L!NeverOvercounted

\* Wrong passwords counted one at a time lock at the third (Login).
LockedAtTheThird == L!LockedAtTheThird

\* A request passes on grants that were live while it was judged (RoleGuard).
PassesOnLiveGrants == G!PassesOnLiveGrants

\* A role that is taken from the user, renamed or deleted lives on in the user's
\* sessions, but no longer than a session stays in Redis.
RevokedForATimeOnly ==
    \A s \in DOMAIN sessions : \A n \in sessions[s].roles \ {DefaultName} :
       now < lastHad[n] + SessionLife
=============================================================================
