------------------------------- MODULE AccessProofs ------------------------------
(***************************************************************************)
(* Proofs about Access, for any number of logins, sessions, guarded        *)
(* requests, roles and permissions.                                        *)
(***************************************************************************)
EXTENDS Access, FiniteSetTheorems, TLAPS

-----------------------------------------------------------------------------
(* The invariant.                                                          *)

RoleNames == Names \cup {DefaultName}

LoginStates == {L!Idle} \cup [at : {"expired", "compare", "right", "roles"}, before : Nat]
                 \cup [at : {"store"}, before : Nat, roles : SUBSET RoleNames]

GrantRecords == [name : Names, resource : {Grants[p].resource : p \in Permissions},
                 action : {Grants[p].action : p \in Permissions}]

CheckStates == {G!Idle}
                 \cup [at : {"session"}, session : Sessions, seen : SUBSET GrantRecords]
                 \cup [at : {"roles", "passed"}, names : SUBSET RoleNames, left : SUBSET RoleNames,
                       found : SUBSET GrantRecords, seen : SUBSET GrantRecords]

CounterTypes == /\ attempts \in Nat /\ lock \in Nat /\ locks \in Nat /\ ranOut \in Nat
                /\ due \in Nat /\ wrong \in Nat /\ tally \in Nat
                /\ held \in [0..MaxWrong -> Nat]
                /\ mixed \in BOOLEAN

LoginTypes == /\ req \in [Handlers -> LoginStates]
              /\ DOMAIN sessions \subseteq Sessions
              /\ sessions \in [DOMAIN sessions -> [roles : SUBSET RoleNames, until : Nat]]
              /\ tokens \subseteq [kind : {"access", "refresh"}, until : Nat,
                                   session : Sessions \cup {NoSession}]
              /\ now \in Nat

TableTypes == /\ DOMAIN name \subseteq Roles /\ name \in [DOMAIN name -> Names]
              /\ granted \subseteq (DOMAIN name) \X Permissions
              /\ assigned \subseteq DOMAIN name
              /\ edits \in Nat

TypeOK == /\ CounterTypes /\ LoginTypes /\ TableTypes
          /\ check \in [Checks -> CheckStates]
          /\ lastHad \in [Names -> Nat]

\* A counter, read or written, is below the wrong passwords counted or lost.
CountsBehind == /\ wrong <= MaxWrong
                /\ attempts + due <= wrong
                /\ \A n \in 0..MaxWrong : held[n] > 0 => n + 1 + due <= wrong

\* The increments that hold a counter, as a set.
InHand == {p \in (0..MaxWrong) \X Nat : p[2] < held[p[1]]}

\* The wrong passwords that are spent on no lock and on no increment under way.
Spare == wrong - due - locks - Cardinality(InHand)

\* A counter of n has spared n of them, up to the two a lock is preceded by.
LocksAreEarned == /\ IsFiniteSet(InHand)
                  /\ Spare >= 0
                  /\ (attempts >= 1 \/ \E n \in 0..MaxWrong : n >= 1 /\ held[n] > 0) => Spare >= 1
                  /\ (attempts >= 2 \/ \E n \in 0..MaxWrong : n >= 2 /\ held[n] > 0) => Spare >= 2
                  /\ locks > 0 => Spare >= 2

\* Increments that meet nobody come one at a time.
OneAtATime ==
  ~mixed => /\ lock # 0 <=> attempts >= 3
            /\ \/ due = 0 /\ held = L!NoneHeld /\ attempts = tally
               \/ due = 1 /\ held = L!NoneHeld /\ attempts + 1 = tally
               \/ due = 0 /\ held = [L!NoneHeld EXCEPT ![attempts] = 1] /\ attempts + 1 = tally

\* Who is in the middle of a login came before a lock that is on.
CameBefore ==
  /\ lock <= locks
  /\ \A h \in Handlers : req[h] # L!Idle => /\ req[h].before <= locks
                                            /\ L!Locked => req[h].before < lock

\* A session lasts at most its life from when the user had the roles it names.
SessionsAreDated ==
  /\ \A n \in Names : lastHad[n] <= now
  /\ \A h \in Handlers : req[h].at = "store" =>
        \A n \in req[h].roles \ {DefaultName} : lastHad[n] >= now
  /\ \A s \in DOMAIN sessions : sessions[s].until > now
  /\ \A s \in DOMAIN sessions : \A n \in sessions[s].roles \ {DefaultName} :
        sessions[s].until <= lastHad[n] + SessionLife

\* What a guard has found was live while it looked, and belongs to its names.
FoundWasLive ==
  \A c \in Checks :
    /\ check[c] # G!Idle => G!Live \subseteq check[c].seen
    /\ check[c].at \in {"roles", "passed"} =>
         /\ check[c].found \subseteq check[c].seen
         /\ check[c].left \subseteq check[c].names
         /\ \A g \in check[c].found : g.name \in check[c].names
    /\ check[c].at = "passed" => G!Allowed(c)

IInv == /\ TypeOK /\ CountsBehind /\ LocksAreEarned /\ OneAtATime /\ CameBefore
        /\ SessionsAreDated /\ FoundWasLive

-----------------------------------------------------------------------------
(* The initial states.                                                     *)

LEMMA Initially == Init => IInv
<1> SUFFICES ASSUME Init PROVE IInv
  OBVIOUS
<1> USE AccessAssumption DEF Init, L!Init, L!LoginConstants
<1>1. CounterTypes /\ CountsBehind /\ OneAtATime
  BY DEF CounterTypes, CountsBehind, OneAtATime, L!NoneHeld
<1>2. LoginTypes
  BY DEF LoginTypes, LoginStates
<1>3. TableTypes /\ G!Init
  BY DEF TableTypes, G!Init, G!GuardConstants
<1>4. TypeOK
  BY <1>1, <1>2, <1>3 DEF TypeOK, CheckStates, G!Init
<1>5. InHand = {}
  BY DEF InHand, L!NoneHeld
<1>6. LocksAreEarned
  BY <1>5, FS_EmptySet DEF LocksAreEarned, Spare, L!NoneHeld
<1>7. CameBefore /\ SessionsAreDated
  BY DEF CameBefore, SessionsAreDated, L!Idle
<1>8. FoundWasLive
  BY <1>3 DEF FoundWasLive, G!Init, G!Idle
<1> QED  BY <1>1, <1>4, <1>6, <1>7, <1>8 DEF IInv

-----------------------------------------------------------------------------
(* The counter and the lock.                                               *)

counters == <<attempts, lock, locks, due, held, wrong, tally, mixed>>

\* The steps that touch the counter, and what they are within Access.
LEMMA CounterSteps ==
  ASSUME [Next]_vars
  PROVE  \/ UNCHANGED counters /\ (UNCHANGED ranOut \/ L!LockRunsOut)
         \/ L!ResetFailedLogins
         \/ \E h \in Handlers : L!RefuseWrong(h)
         \/ L!ReadCounter
         \/ \E n \in 0..MaxWrong : L!WriteCounter(n)
         \/ L!Crash
<1> USE DEF counters, loginVars, L!account, L!counting
<1>1. CASE UNCHANGED vars
  BY <1>1 DEF vars
<1>2. CASE GuardStep
  BY <1>2 DEF GuardStep
<1>3. CASE Crash
  BY <1>3 DEF Crash, L!CountingFails
<1>4. ASSUME NEW h \in Handlers, L!Login(h)
      PROVE  \/ UNCHANGED counters /\ UNCHANGED ranOut
             \/ L!ResetFailedLogins \/ L!RefuseWrong(h)
  BY <1>4 DEF L!Login, L!Find, L!ResetExpired, L!Accept, L!ResetAccepted, L!ReadRoles, L!StoreSession
<1>5. CASE L!RefreshToken \/ L!LockRunsOut \/ L!Tick
  BY <1>5 DEF L!RefreshToken, L!LockRunsOut, L!Tick
<1> QED  BY <1>1, <1>2, <1>3, <1>4, <1>5 DEF Next, LoginStep

LEMMA CounterTypesStay ==
  ASSUME CounterTypes, CountsBehind, [Next]_vars
  PROVE  CounterTypes'
<1> USE AccessAssumption DEF L!LoginConstants, CounterTypes
<1>1. L!NoneHeld \in [0..MaxWrong -> Nat]
  BY DEF L!NoneHeld
<1>2. CASE UNCHANGED counters /\ (UNCHANGED ranOut \/ L!LockRunsOut)
  BY <1>2 DEF counters, L!LockRunsOut
<1>3. CASE L!ResetFailedLogins
  BY <1>3 DEF L!ResetFailedLogins, L!Quiet
<1>4. ASSUME NEW h \in Handlers, L!RefuseWrong(h) PROVE CounterTypes'
  BY <1>4 DEF L!RefuseWrong, L!Quiet, L!account
<1>5. CASE L!ReadCounter
  <2>1. attempts \in 0..MaxWrong
    BY DEF CountsBehind
  <2>2. held' \in [0..MaxWrong -> Nat]
    BY <1>5, <2>1 DEF L!ReadCounter
  <2> QED  BY <1>5, <2>2 DEF L!ReadCounter, L!account
<1>6. ASSUME NEW n \in 0..MaxWrong, L!WriteCounter(n) PROVE CounterTypes'
  BY <1>6 DEF L!WriteCounter
<1>7. CASE L!Crash
  BY <1>1, <1>7 DEF L!Crash, L!Quiet, L!account
<1> QED  BY <1>2, <1>3, <1>4, <1>5, <1>6, <1>7, CounterSteps

LEMMA CountsStayBehind ==
  ASSUME CounterTypes, CountsBehind, [Next]_vars
  PROVE  CountsBehind'
<1> USE AccessAssumption DEF L!LoginConstants, CounterTypes, CountsBehind
<1>2. CASE UNCHANGED counters
  BY <1>2 DEF counters
<1>3. CASE L!ResetFailedLogins
  BY <1>3 DEF L!ResetFailedLogins
<1>4. ASSUME NEW h \in Handlers, L!RefuseWrong(h) PROVE CountsBehind'
  BY <1>4 DEF L!RefuseWrong, L!account
<1>5. CASE L!ReadCounter
  <2>1. /\ due' = due - 1 /\ due > 0 /\ wrong' = wrong /\ attempts' = attempts
        /\ held' = [held EXCEPT ![attempts] = @ + 1]
    BY <1>5 DEF L!ReadCounter, L!account
  <2>2. \A n \in 0..MaxWrong : held'[n] > 0 => n = attempts \/ held[n] > 0
    BY <2>1
  <2> QED  BY <2>1, <2>2
<1>6. ASSUME NEW n \in 0..MaxWrong, L!WriteCounter(n) PROVE CountsBehind'
  <2>1. /\ held[n] > 0 /\ due' = due /\ wrong' = wrong /\ attempts' = n + 1
        /\ held' = [held EXCEPT ![n] = @ - 1]
    BY <1>6 DEF L!WriteCounter
  <2>2. \A m \in 0..MaxWrong : held'[m] > 0 => held[m] > 0
    BY <2>1
  <2> QED  BY <2>1, <2>2
<1>7. CASE L!Crash
  BY <1>7 DEF L!Crash, L!account, L!NoneHeld
<1> QED  BY <1>2, <1>3, <1>4, <1>5, <1>6, <1>7, CounterSteps

LEMMA LocksStayEarned ==
  ASSUME CounterTypes, CountsBehind, LocksAreEarned, [Next]_vars
  PROVE  LocksAreEarned'
<1> USE AccessAssumption DEF L!LoginConstants, CounterTypes
<1>1. Cardinality(InHand) \in Nat
  BY FS_CardinalityType DEF LocksAreEarned
<1>2. CASE UNCHANGED counters
  BY <1>2 DEF counters, LocksAreEarned, Spare, InHand
<1>3. CASE L!ResetFailedLogins
  BY <1>1, <1>3 DEF L!ResetFailedLogins, LocksAreEarned, Spare, InHand
<1>4. ASSUME NEW h \in Handlers, L!RefuseWrong(h) PROVE LocksAreEarned'
  <2>1. /\ UNCHANGED <<attempts, locks, held>> /\ due' = due + 1 /\ wrong' = wrong + 1
        /\ InHand' = InHand
    BY <1>4 DEF L!RefuseWrong, L!account, InHand
  <2>2. Spare' = Spare
    BY <1>1, <2>1 DEF Spare
  <2> QED  BY <1>1, <2>1, <2>2 DEF LocksAreEarned
<1>5. CASE L!ReadCounter
  <2> DEFINE p == <<attempts, held[attempts]>>
  <2>1. /\ due' = due - 1 /\ UNCHANGED <<attempts, locks, wrong>>
        /\ held' = [held EXCEPT ![attempts] = @ + 1] /\ attempts \in 0..MaxWrong
    BY <1>5 DEF L!ReadCounter, L!account, CountsBehind
  <2>2. InHand' = InHand \cup {p} /\ p \notin InHand
    BY <2>1 DEF InHand
  <2>3. IsFiniteSet(InHand') /\ Cardinality(InHand') = Cardinality(InHand) + 1
    BY <2>2, FS_AddElement DEF LocksAreEarned
  <2>4. Spare' = Spare
    BY <1>1, <2>1, <2>3 DEF Spare
  <2>5. \A n \in 0..MaxWrong : held'[n] > 0 => n = attempts \/ held[n] > 0
    BY <2>1
  <2> QED  BY <1>1, <2>1, <2>3, <2>4, <2>5 DEF LocksAreEarned
<1>6. ASSUME NEW n \in 0..MaxWrong, L!WriteCounter(n) PROVE LocksAreEarned'
  <2> DEFINE p == <<n, held[n] - 1>>
  <2>1. /\ held[n] > 0 /\ UNCHANGED <<due, wrong>> /\ attempts' = n + 1
        /\ held' = [held EXCEPT ![n] = @ - 1]
        /\ locks' = IF n >= 2 THEN locks + 1 ELSE locks
    BY <1>6 DEF L!WriteCounter
  <2>2. InHand' = InHand \ {p} /\ p \in InHand
    <3>1. \A m \in 0..MaxWrong, k \in Nat :
             k < held'[m] <=> k < held[m] /\ ~ (m = n /\ k = held[n] - 1)
      BY <2>1
    <3>2. \A q \in (0..MaxWrong) \X Nat :
             q[2] < held'[q[1]] <=> q[2] < held[q[1]] /\ q # p
      BY <3>1
    <3> QED  BY <2>1, <3>2 DEF InHand
  <2> HIDE DEF p
  <2>3. IsFiniteSet(InHand') /\ Cardinality(InHand') = Cardinality(InHand) - 1
    BY <2>2, FS_RemoveElement, IsFiniteSet(InHand) DEF LocksAreEarned
  <2>4. Spare' = IF n >= 2 THEN Spare ELSE Spare + 1
    BY <1>1, <2>1, <2>3 DEF Spare
  <2>5. \A m \in 0..MaxWrong : held'[m] > 0 => held[m] > 0
    BY <2>1
  <2>6. Spare \in Int
    BY <1>1 DEF Spare
  <2> QED  BY <2>1, <2>3, <2>4, <2>5, <2>6 DEF LocksAreEarned
<1>7. CASE L!Crash
  <2>1. UNCHANGED <<attempts, locks, wrong>> /\ due' = 0 /\ held' = L!NoneHeld
    BY <1>7 DEF L!Crash, L!account
  <2>2. InHand' = {}
    BY <2>1 DEF InHand, L!NoneHeld
  <2>3. IsFiniteSet(InHand') /\ Cardinality(InHand') = 0
    BY <2>2, FS_EmptySet
  <2>4. Spare' >= Spare /\ Spare' \in Int
    BY <1>1, <2>1, <2>3 DEF Spare
  <2> QED  BY <1>1, <2>1, <2>3, <2>4 DEF LocksAreEarned, L!NoneHeld, Spare
<1> QED  BY <1>2, <1>3, <1>4, <1>5, <1>6, <1>7, CounterSteps

LEMMA StillOneAtATime ==
  ASSUME CounterTypes, CountsBehind, CameBefore, OneAtATime, [Next]_vars
  PROVE  OneAtATime'
<1> USE AccessAssumption DEF L!LoginConstants, CounterTypes
<1>1. \A n \in 0..MaxWrong : L!NoneHeld[n] = 0 /\ L!NoneHeld \in [0..MaxWrong -> Nat]
  BY DEF L!NoneHeld
<1>2. CASE UNCHANGED counters
  BY <1>2 DEF counters, OneAtATime
<1>3. CASE L!ResetFailedLogins
  <2>1. mixed' = ~L!Quiet /\ attempts' = 0 /\ lock' = 0 /\ tally' = 0 /\ UNCHANGED <<due, held>>
    BY <1>3 DEF L!ResetFailedLogins
  <2>2. ~mixed' => due = 0 /\ held = L!NoneHeld
    BY <2>1 DEF L!Quiet
  <2> QED  BY <2>1, <2>2 DEF OneAtATime
<1>4. ASSUME NEW h \in Handlers, L!RefuseWrong(h) PROVE OneAtATime'
  <2>1. /\ mixed' = (mixed \/ ~L!Quiet) /\ UNCHANGED <<attempts, lock, held>>
        /\ tally' = tally + 1 /\ due' = due + 1
    BY <1>4 DEF L!RefuseWrong, L!account
  <2>2. ~mixed' => ~mixed /\ due = 0 /\ held = L!NoneHeld
    BY <2>1 DEF L!Quiet
  <2>3. ~mixed' => attempts = tally /\ held # [L!NoneHeld EXCEPT ![attempts] = 1]
    BY <1>1, <2>2 DEF OneAtATime, CountsBehind
  <2> QED  BY <2>1, <2>2, <2>3 DEF OneAtATime
<1>5. CASE L!ReadCounter
  <2> SUFFICES ASSUME ~mixed' PROVE OneAtATime'
    BY DEF OneAtATime
  <2>1. /\ due' = due - 1 /\ due > 0 /\ UNCHANGED <<attempts, lock, tally, mixed>>
        /\ held' = [held EXCEPT ![attempts] = @ + 1] /\ attempts \in 0..MaxWrong
    BY <1>5 DEF L!ReadCounter, L!account, CountsBehind
  <2>2. due = 1 /\ held = L!NoneHeld /\ attempts + 1 = tally
    BY <2>1 DEF OneAtATime
  <2>3. held' = [L!NoneHeld EXCEPT ![attempts] = L!NoneHeld[attempts] + 1]
    BY <2>1, <2>2
  <2>4. L!NoneHeld[attempts] + 1 = 1
    BY <1>1, <2>1
  <2>5. held' = [L!NoneHeld EXCEPT ![attempts'] = 1]
    BY <2>1, <2>3, <2>4
  <2>6. due' = 0 /\ attempts' + 1 = tally'
    BY <2>1, <2>2
  <2>7. lock' # 0 <=> attempts' >= 3
    BY <2>1 DEF OneAtATime
  <2> QED  BY <2>5, <2>6, <2>7 DEF OneAtATime, L!NoneHeld
<1>6. ASSUME NEW n \in 0..MaxWrong, L!WriteCounter(n) PROVE OneAtATime'
  <2> SUFFICES ASSUME ~mixed' PROVE OneAtATime'
    BY DEF OneAtATime
  <2>1. /\ held[n] > 0 /\ UNCHANGED <<due, tally, mixed>> /\ attempts' = n + 1
        /\ held' = [held EXCEPT ![n] = @ - 1]
        /\ lock' = IF n >= 2 THEN locks + 1 ELSE lock
    BY <1>6 DEF L!WriteCounter
  <2>2. /\ held # L!NoneHeld
        /\ held = [L!NoneHeld EXCEPT ![attempts] = 1] => n = attempts
    BY <1>1, <2>1
  <2>3. /\ due = 0 /\ n = attempts /\ attempts + 1 = tally
        /\ held = [L!NoneHeld EXCEPT ![n] = 1]
    BY <2>1, <2>2 DEF OneAtATime
  <2>4. held' = L!NoneHeld
    BY <1>1, <2>1, <2>3
  <2>5. lock' # 0 <=> attempts' >= 3
    BY <2>1, <2>3 DEF OneAtATime
  <2> QED  BY <2>1, <2>3, <2>4, <2>5 DEF OneAtATime
<1>7. CASE L!Crash
  BY <1>7 DEF L!Crash, L!Quiet, L!account, OneAtATime
<1> QED  BY <1>2, <1>3, <1>4, <1>5, <1>6, <1>7, CounterSteps

-----------------------------------------------------------------------------
(* The requests and the lock.                                              *)

\* What a step does to the requests: one moves on, or all end.
LEMMA LoginSteps ==
  ASSUME [Next]_vars
  PROVE  \/ UNCHANGED <<req, sessions, now>>
         \/ \E h \in Handlers : L!Login(h)
         \/ L!Tick
         \/ L!Crash
<1> USE DEF loginVars, L!account, L!counting
<1>1. CASE UNCHANGED vars
  BY <1>1 DEF vars
<1>2. CASE GuardStep
  BY <1>2 DEF GuardStep
<1>3. CASE Crash
  BY <1>3 DEF Crash, L!CountingFails
<1>4. CASE L!ReadCounter \/ (\E n \in 0..MaxWrong : L!WriteCounter(n)) \/ L!RefreshToken \/ L!LockRunsOut
  BY <1>4 DEF L!ReadCounter, L!WriteCounter, L!RefreshToken, L!LockRunsOut
<1> QED  BY <1>1, <1>2, <1>3, <1>4 DEF Next, LoginStep

\* A request keeps what it found of the locks.
LEMMA RequestsRemember ==
  ASSUME CounterTypes, LoginTypes, [Next]_vars, NEW h \in Handlers, req'[h] # L!Idle
  PROVE  \/ req[h] # L!Idle /\ req'[h].before = req[h].before
         \/ req[h] = L!Idle /\ req'[h].before = locks /\ ~L!Locked /\ UNCHANGED <<lock, locks, ranOut>>
<1> USE DEF LoginTypes, LoginStates, L!Idle, L!account
<1>1. CASE UNCHANGED req
  BY <1>1
<1>2. CASE L!Crash
  BY <1>2 DEF L!Crash
<1>3. CASE L!Tick
  BY <1>3 DEF L!Tick
<1>4. ASSUME NEW g \in Handlers, L!Login(g)
      PROVE  \/ req[h] # L!Idle /\ req'[h].before = req[h].before
             \/ req[h] = L!Idle /\ req'[h].before = locks /\ ~L!Locked /\ UNCHANGED <<lock, locks, ranOut>>
  <2>1. CASE L!Find(g)
    BY <2>1 DEF L!Find
  <2>2. CASE L!ResetExpired(g)
    BY <2>2 DEF L!ResetExpired
  <2>3. CASE L!RefuseWrong(g)
    BY <2>3 DEF L!RefuseWrong
  <2>4. CASE L!Accept(g)
    BY <2>4 DEF L!Accept
  <2>5. CASE L!ResetAccepted(g)
    BY <2>5 DEF L!ResetAccepted
  <2>6. CASE L!ReadRoles(g)
    BY <2>6 DEF L!ReadRoles
  <2>7. CASE L!StoreSession(g)
    BY <2>7 DEF L!StoreSession
  <2> QED  BY <1>4, <2>1, <2>2, <2>3, <2>4, <2>5, <2>6, <2>7 DEF L!Login
<1> QED  BY <1>1, <1>2, <1>3, <1>4, LoginSteps

\* A lock is set anew, lifted, or left as it is.
LEMMA LockSteps ==
  ASSUME CounterTypes, [Next]_vars
  PROVE  /\ ranOut' >= ranOut /\ locks' >= locks
         /\ \/ UNCHANGED <<lock, locks>>
            \/ lock' = locks + 1 /\ locks' = locks + 1
            \/ lock' = 0 /\ locks' = locks
<1> USE DEF CounterTypes
<1>1. CASE UNCHANGED counters /\ (UNCHANGED ranOut \/ L!LockRunsOut)
  BY <1>1 DEF counters, L!LockRunsOut
<1>2. CASE L!ResetFailedLogins
  BY <1>2 DEF L!ResetFailedLogins
<1>3. ASSUME NEW h \in Handlers, L!RefuseWrong(h) PROVE UNCHANGED <<lock, locks, ranOut>>
  BY <1>3 DEF L!RefuseWrong, L!account
<1>4. CASE L!ReadCounter \/ L!Crash
  BY <1>4 DEF L!ReadCounter, L!Crash, L!account
<1>5. ASSUME NEW n \in 0..MaxWrong, L!WriteCounter(n)
      PROVE  /\ UNCHANGED ranOut
             /\ \/ UNCHANGED <<lock, locks>>
                \/ lock' = locks + 1 /\ locks' = locks + 1
  BY <1>5 DEF L!WriteCounter
<1> QED  BY <1>1, <1>2, <1>3, <1>4, <1>5, CounterSteps

LEMMA StillCameBefore ==
  ASSUME CounterTypes, CounterTypes', LoginTypes, LoginTypes', CameBefore, [Next]_vars
  PROVE  CameBefore'
<1>1. lock' <= locks'
  BY LockSteps DEF CameBefore, CounterTypes
<1>2. ASSUME NEW h \in Handlers, req'[h] # L!Idle
      PROVE  req'[h].before <= locks' /\ (L!Locked' => req'[h].before < lock')
  <2>1. req'[h].before \in Nat
    BY <1>2 DEF LoginTypes, LoginStates
  <2>2. CASE req[h] # L!Idle /\ req'[h].before = req[h].before
    <3>1. req[h].before <= locks /\ (L!Locked => req[h].before < lock)
      BY <2>2 DEF CameBefore
    <3> QED  BY <2>1, <2>2, <3>1, LockSteps DEF L!Locked, CounterTypes
  <2>3. CASE req'[h].before = locks /\ ~L!Locked /\ UNCHANGED <<lock, locks, ranOut>>
    BY <2>3 DEF L!Locked, CounterTypes
  <2> QED  BY <1>2, <2>2, <2>3, RequestsRemember
<1> QED  BY <1>1, <1>2 DEF CameBefore, L!Idle

-----------------------------------------------------------------------------
(* Sessions.                                                               *)

LEMMA RolesAreNames ==
  ASSUME TableTypes
  PROVE  G!RolesNow \subseteq Names
BY DEF TableTypes, G!RolesNow

LEMMA LoginTypesStay ==
  ASSUME CounterTypes, LoginTypes, TableTypes, [Next]_vars
  PROVE  LoginTypes'
<1> USE AccessAssumption DEF L!LoginConstants, L!account, L!counting
<1>1. req' \in [Handlers -> LoginStates]
  <2> USE DEF LoginTypes, LoginStates, L!Idle
  <2>1. CASE UNCHANGED req
    BY <2>1
  <2>2. CASE L!Crash
    BY <2>2 DEF L!Crash
  <2>3. CASE L!Tick
    BY <2>3 DEF L!Tick
  <2>4. ASSUME NEW h \in Handlers, L!Login(h) PROVE req' \in [Handlers -> LoginStates]
    <3>1. CASE L!Find(h)
      BY <3>1 DEF L!Find, CounterTypes
    <3>2. CASE L!ResetExpired(h) \/ L!Accept(h) \/ L!ResetAccepted(h)
      BY <3>2 DEF L!ResetExpired, L!Accept, L!ResetAccepted
    <3>3. CASE L!RefuseWrong(h) \/ L!StoreSession(h)
      BY <3>3 DEF L!RefuseWrong, L!StoreSession
    <3>4. CASE L!ReadRoles(h)
      <4> DEFINE r == [at |-> "store", before |-> req[h].before,
                       roles |-> IF G!RolesNow = {} THEN {DefaultName} ELSE G!RolesNow]
      <4>1. req' = [req EXCEPT ![h] = r] /\ req[h].at = "roles"
        BY <3>4 DEF L!ReadRoles
      <4>2. r \in LoginStates
        BY <4>1, RolesAreNames DEF RoleNames
      <4> QED  BY <4>1, <4>2
    <3> QED  BY <2>4, <3>1, <3>2, <3>3, <3>4 DEF L!Login
  <2> QED  BY <2>1, <2>2, <2>3, <2>4, LoginSteps
<1>2. now' \in Nat
  <2>1. \A h \in Handlers : L!Login(h) => now' = now
    BY DEF L!Login, L!Find, L!ResetExpired, L!RefuseWrong, L!Accept, L!ResetAccepted,
           L!ReadRoles, L!StoreSession
  <2>2. L!Crash \/ L!Tick => now' \in Nat
    BY DEF L!Crash, L!Tick, LoginTypes
  <2> QED  BY <2>1, <2>2, LoginSteps DEF LoginTypes
<1>3. /\ DOMAIN sessions' \subseteq Sessions
      /\ sessions' \in [DOMAIN sessions' -> [roles : SUBSET RoleNames, until : Nat]]
  <2>1. CASE UNCHANGED sessions
    BY <2>1 DEF LoginTypes
  <2>2. CASE L!Tick
    BY <2>2 DEF L!Tick, LoginTypes
  <2>3. ASSUME NEW h \in Handlers, L!StoreSession(h)
        PROVE  /\ DOMAIN sessions' \subseteq Sessions
               /\ sessions' \in [DOMAIN sessions' -> [roles : SUBSET RoleNames, until : Nat]]
    <3>1. PICK s \in Sessions : /\ req[h].at = "store"
            /\ sessions' = L!SetSession(s, [roles |-> req[h].roles, until |-> now + SessionLife])
      BY <2>3 DEF L!StoreSession
    <3>2. [roles |-> req[h].roles, until |-> now + SessionLife] \in [roles : SUBSET RoleNames, until : Nat]
      BY <3>1 DEF LoginTypes, LoginStates, L!Idle
    <3> QED  BY <3>1, <3>2 DEF LoginTypes, L!SetSession
  <2>4. \A h \in Handlers : L!Login(h) => L!StoreSession(h) \/ UNCHANGED sessions
    BY DEF L!Login, L!Find, L!ResetExpired, L!RefuseWrong, L!Accept, L!ResetAccepted,
           L!ReadRoles
  <2>5. L!Crash => UNCHANGED sessions
    BY DEF L!Crash
  <2> QED  BY <2>1, <2>2, <2>3, <2>4, <2>5, LoginSteps
<1>4. tokens' \subseteq [kind : {"access", "refresh"}, until : Nat, session : Sessions \cup {NoSession}]
  <2> USE DEF LoginTypes
  <2>1. ASSUME NEW h \in Handlers, L!Login(h)
        PROVE  tokens' \subseteq [kind : {"access", "refresh"}, until : Nat,
                                  session : Sessions \cup {NoSession}]
    BY <2>1 DEF L!Login, L!Find, L!ResetExpired, L!RefuseWrong, L!Accept, L!ResetAccepted,
                L!ReadRoles, L!StoreSession
  <2>2. CASE L!RefreshToken
    BY <2>2 DEF L!RefreshToken
  <2>3. CASE UNCHANGED tokens
    BY <2>3
  <2>4. L!Crash \/ L!Tick \/ L!LockRunsOut \/ L!ReadCounter \/ (\E n \in 0..MaxWrong : L!WriteCounter(n))
          => UNCHANGED tokens
    BY DEF L!Crash, L!Tick, L!LockRunsOut, L!ReadCounter, L!WriteCounter
  <2> QED  BY <2>1, <2>2, <2>3, <2>4 DEF Next, LoginStep, GuardStep, Crash, L!CountingFails, vars, loginVars
<1> QED  BY <1>1, <1>2, <1>3, <1>4 DEF LoginTypes

\* Tables change by the edits of RoleGuard only.
LEMMA TableSteps ==
  ASSUME [Next]_vars
  PROVE  \/ UNCHANGED guardVars
         \/ (\E c \in Checks : G!Guard(c)) /\ UNCHANGED <<name, granted, assigned, edits>>
         \/ G!EditTables /\ UNCHANGED loginVars
         \/ G!Crash
<1>1. \A c \in Checks : G!Guard(c) => UNCHANGED <<name, granted, assigned, edits>>
  BY DEF G!Guard, G!Authenticate, G!ReadSession, G!LookUp, G!Decide, G!Finish, G!tables
<1> QED  BY <1>1 DEF Next, LoginStep, GuardStep, Crash, vars, guardVars

LEMMA TableTypesStay ==
  ASSUME TableTypes, [Next]_vars
  PROVE  TableTypes'
<1> USE DEF TableTypes
<1>1. CASE UNCHANGED <<name, granted, assigned, edits>>
  BY <1>1
<1>2. ASSUME NEW r \in Roles, NEW n \in Names, G!RenameRole(r, n) PROVE TableTypes'
  BY <1>2 DEF G!RenameRole, G!Edit
<1>3. ASSUME NEW r \in Roles, G!DeleteRole(r) PROVE TableTypes'
  BY <1>3 DEF G!DeleteRole, G!Edit
<1>4. ASSUME NEW p \in Permissions, G!DeletePermission(p) PROVE TableTypes'
  BY <1>4 DEF G!DeletePermission, G!Edit
<1>5. ASSUME NEW S \in SUBSET Roles, G!AssignRoles(S) PROVE TableTypes'
  BY <1>5 DEF G!AssignRoles, G!Edit
<1> QED  BY <1>1, <1>2, <1>3, <1>4, <1>5, TableSteps DEF G!EditTables, guardVars, G!Crash, G!tables

LEMMA LastHadMoves ==
  ASSUME LoginTypes, LoginTypes', TableTypes, lastHad \in [Names -> Nat],
         \A n \in Names : lastHad[n] <= now, [Next]_vars
  PROVE  /\ lastHad' \in [Names -> Nat]
         /\ now <= now'
         /\ \A n \in Names : lastHad[n] <= lastHad'[n] /\ lastHad'[n] <= now'
         /\ now' = now => \A n \in G!RolesNow : lastHad'[n] >= now \/ UNCHANGED vars
<1>1. now <= now'
  <2>1. \A h \in Handlers : L!Login(h) => now' = now
    BY DEF L!Login, L!Find, L!ResetExpired, L!RefuseWrong, L!Accept, L!ResetAccepted,
           L!ReadRoles, L!StoreSession
  <2>2. L!Crash \/ L!Tick => now <= now'
    BY DEF L!Crash, L!Tick, LoginTypes
  <2> QED  BY <2>1, <2>2, LoginSteps DEF LoginTypes
<1>2. CASE UNCHANGED vars
  BY <1>1, <1>2 DEF vars, LoginTypes
<1>3. CASE See
  BY <1>1, <1>3, RolesAreNames DEF See, LoginTypes
<1> QED  BY <1>2, <1>3 DEF Next

LEMMA SessionsStayDated ==
  ASSUME LoginTypes, LoginTypes', TableTypes, lastHad \in [Names -> Nat], SessionsAreDated, [Next]_vars
  PROVE  SessionsAreDated'
<1> USE AccessAssumption DEF L!LoginConstants
<1>1. /\ now <= now' /\ lastHad' \in [Names -> Nat]
      /\ \A n \in Names : lastHad[n] <= lastHad'[n] /\ lastHad'[n] <= now'
      /\ now' = now => \A n \in G!RolesNow : lastHad'[n] >= now \/ UNCHANGED vars
  BY LastHadMoves DEF SessionsAreDated
<1>2. \A S \in SUBSET RoleNames : S \ {DefaultName} \subseteq Names
  BY DEF RoleNames
<1>3. ASSUME UNCHANGED <<req, sessions, now>> PROVE SessionsAreDated'
  BY <1>1, <1>2, <1>3 DEF SessionsAreDated, LoginTypes, LoginStates, L!Idle
<1>4. CASE L!Tick
  <2>1. /\ now' = now + 1 /\ UNCHANGED req /\ \A h \in Handlers : req[h].at # "store"
        /\ sessions' = [s \in {x \in DOMAIN sessions : sessions[x].until > now'} |-> sessions[s]]
    BY <1>4 DEF L!Tick
  <2> QED  BY <1>1, <1>2, <2>1 DEF SessionsAreDated, LoginTypes
<1>5. CASE L!Crash
  BY <1>1, <1>2, <1>5 DEF L!Crash, L!Idle, SessionsAreDated, LoginTypes
<1>6. ASSUME NEW h \in Handlers, L!Login(h) PROVE SessionsAreDated'
  <2>1. CASE L!Find(h) \/ L!ResetExpired(h) \/ L!RefuseWrong(h) \/ L!Accept(h) \/ L!ResetAccepted(h)
    <3>1. UNCHANGED <<sessions, now>>
      BY <2>1 DEF L!Find, L!ResetExpired, L!RefuseWrong, L!Accept, L!ResetAccepted
    <3>2. \A g \in Handlers : req'[g].at = "store" => req'[g] = req[g]
      <4> USE DEF LoginTypes, LoginStates, L!Idle
      <4>1. CASE L!Find(h)
        BY <4>1 DEF L!Find
      <4>2. CASE L!ResetExpired(h) \/ L!Accept(h)
        BY <4>2 DEF L!ResetExpired, L!Accept
      <4>3. CASE L!ResetAccepted(h)
        BY <4>3 DEF L!ResetAccepted
      <4>4. CASE L!RefuseWrong(h)
        BY <4>4 DEF L!RefuseWrong
      <4> QED  BY <2>1, <4>1, <4>2, <4>3, <4>4
    <3>3. \A g \in Handlers : req[g].at = "store" => req[g].roles \in SUBSET RoleNames
      BY DEF LoginTypes, LoginStates, L!Idle
    <3>4. \A g \in Handlers : req'[g].at = "store" =>
             \A n \in req'[g].roles \ {DefaultName} : lastHad'[n] >= now'
      BY <1>1, <1>2, <3>1, <3>2, <3>3 DEF SessionsAreDated, LoginTypes
    <3> QED  BY <1>1, <1>2, <3>1, <3>4 DEF SessionsAreDated, LoginTypes
  <2>2. CASE L!ReadRoles(h)
    <3>1. /\ UNCHANGED <<sessions, now>> /\ req[h].at = "roles" /\ req'[h].at = "store"
          /\ req'[h].roles = IF G!RolesNow = {} THEN {DefaultName} ELSE G!RolesNow
          /\ \A g \in Handlers \ {h} : req'[g] = req[g]
      BY <2>2 DEF L!ReadRoles, LoginTypes
    <3>2. \A n \in G!RolesNow : lastHad'[n] >= now'
      BY <1>1, <3>1 DEF vars, loginVars
    <3>3. \A g \in Handlers : req[g].at = "store" => req[g].roles \in SUBSET RoleNames
      BY DEF LoginTypes, LoginStates, L!Idle
    <3>4. \A g \in Handlers : req'[g].at = "store" =>
             \A n \in req'[g].roles \ {DefaultName} : lastHad'[n] >= now'
      BY <1>1, <1>2, <3>1, <3>2, <3>3 DEF SessionsAreDated, LoginTypes
    <3> QED  BY <1>1, <1>2, <3>1, <3>4 DEF SessionsAreDated, LoginTypes
  <2>3. CASE L!StoreSession(h)
    <3>1. PICK s \in Sessions : /\ req[h].at = "store"
            /\ sessions' = L!SetSession(s, [roles |-> req[h].roles, until |-> now + SessionLife])
            /\ req' = [req EXCEPT ![h] = L!Idle] /\ now' = now
      BY <2>3 DEF L!StoreSession
    <3>2. req[h].roles \in SUBSET RoleNames /\ \A n \in req[h].roles \ {DefaultName} : lastHad[n] >= now
      BY <3>1 DEF SessionsAreDated, LoginTypes, LoginStates, L!Idle
    <3>3. \A x \in DOMAIN sessions' : \/ x \in DOMAIN sessions /\ sessions'[x] = sessions[x]
            \/ sessions'[x] = [roles |-> req[h].roles, until |-> now + SessionLife]
      BY <3>1 DEF L!SetSession
    <3>4. ASSUME NEW x \in DOMAIN sessions'
          PROVE  /\ sessions'[x].until > now'
                 /\ \A n \in sessions'[x].roles \ {DefaultName} :
                       sessions'[x].until <= lastHad'[n] + SessionLife
      <4>1. CASE x \in DOMAIN sessions /\ sessions'[x] = sessions[x]
        BY <1>1, <1>2, <3>1, <4>1 DEF SessionsAreDated, LoginTypes
      <4>2. CASE sessions'[x] = [roles |-> req[h].roles, until |-> now + SessionLife]
        BY <1>1, <1>2, <3>1, <3>2, <4>2 DEF LoginTypes
      <4> QED  BY <3>3, <4>1, <4>2
    <3>5. \A g \in Handlers : req[g].at = "store" => req[g].roles \in SUBSET RoleNames
      BY DEF LoginTypes, LoginStates, L!Idle
    <3>6. \A g \in Handlers : req'[g].at = "store" =>
             \A n \in req'[g].roles \ {DefaultName} : lastHad'[n] >= now'
      BY <1>1, <1>2, <3>1, <3>5 DEF SessionsAreDated, LoginTypes, L!Idle
    <3> QED  BY <1>1, <3>4, <3>6 DEF SessionsAreDated
  <2> QED  BY <1>6, <2>1, <2>2, <2>3 DEF L!Login
<1> QED  BY <1>3, <1>4, <1>5, <1>6, LoginSteps

-----------------------------------------------------------------------------
(* The guards.                                                             *)

LEMMA LiveIsTyped ==
  ASSUME TableTypes
  PROVE  G!Live \subseteq GrantRecords
<1> SUFFICES ASSUME NEW g \in granted
             PROVE  [name |-> name[g[1]], resource |-> Grants[g[2]].resource,
                     action |-> Grants[g[2]].action] \in GrantRecords
  BY DEF G!Live
<1>1. g[1] \in DOMAIN name /\ g[2] \in Permissions
  BY DEF TableTypes
<1> QED  BY <1>1 DEF TableTypes, GrantRecords

\* What an edit of the tables does to the checks.
LEMMA EditsAreSeen ==
  ASSUME G!EditTables
  PROVE  check' = [c \in Checks |-> IF check[c] = G!Idle THEN G!Idle
                                    ELSE [check[c] EXCEPT !.seen = @ \cup G!Live']]
BY DEF G!EditTables, G!RenameRole, G!DeleteRole, G!DeletePermission, G!AssignRoles, G!Edit

LEMMA LiveStays ==
  ASSUME UNCHANGED <<name, granted>>
  PROVE  G!Live' = G!Live
BY DEF G!Live

\* The states of a guard, as a step finds them.
LEMMA CheckShapes ==
  ASSUME TypeOK, NEW c \in Checks
  PROVE  /\ check[c].at \in {"idle", "session", "roles", "passed"}
         /\ check[c].at = "idle" <=> check[c] = G!Idle
         /\ check[c].at = "session" =>
              check[c] \in [at : {"session"}, session : Sessions, seen : SUBSET GrantRecords]
         /\ check[c].at \in {"roles", "passed"} =>
              check[c] \in [at : {"roles", "passed"}, names : SUBSET RoleNames,
                            left : SUBSET RoleNames, found : SUBSET GrantRecords,
                            seen : SUBSET GrantRecords]
<1>1. check[c] \in CheckStates
  BY DEF TypeOK
<1>2. CASE check[c] = G!Idle
  BY <1>2 DEF G!Idle
<1>3. CASE check[c] \in [at : {"session"}, session : Sessions, seen : SUBSET GrantRecords]
  BY <1>3 DEF G!Idle
<1>4. CASE check[c] \in [at : {"roles", "passed"}, names : SUBSET RoleNames,
                         left : SUBSET RoleNames, found : SUBSET GrantRecords,
                         seen : SUBSET GrantRecords]
  BY <1>4 DEF G!Idle
<1> QED  BY <1>1, <1>2, <1>3, <1>4 DEF CheckStates

\* One guard moves on: what is to be shown of its new state.
GoodCheck(k, live) ==
  /\ k \in CheckStates
  /\ k # G!Idle => live \subseteq k.seen
  /\ k.at \in {"roles", "passed"} => /\ k.found \subseteq k.seen
                                     /\ k.left \subseteq k.names
                                     /\ \A g \in k.found : g.name \in k.names
  /\ k.at = "passed" => /\ \E g \in k.found : g.resource = Wanted.resource
                        /\ \E g \in k.found : g.action = Wanted.action

LEMMA GoodChecks ==
  (check \in [Checks -> CheckStates] /\ FoundWasLive)
     <=> (check \in [Checks -> CheckStates] /\ \A c \in Checks : GoodCheck(check[c], G!Live))
BY DEF FoundWasLive, GoodCheck, G!Allowed

LEMMA GuardMovesWell ==
  ASSUME TypeOK, NEW c \in Checks, GoodCheck(check[c], G!Live), G!Guard(c)
  PROVE  \E k : GoodCheck(k, G!Live) /\ check' = [check EXCEPT ![c] = k]
<1>1. CASE G!Authenticate(c)
  <2>1. PICK t \in tokens : /\ t.session # NoSession
           /\ check' = [check EXCEPT ![c] = [at |-> "session", session |-> t.session, seen |-> G!Live]]
    BY <1>1 DEF G!Authenticate
  <2>2. [at |-> "session", session |-> t.session, seen |-> G!Live]
           \in [at : {"session"}, session : Sessions, seen : SUBSET GrantRecords]
    BY <2>1, LiveIsTyped DEF TypeOK, LoginTypes
  <2> QED  BY <2>1, <2>2 DEF GoodCheck, CheckStates
<1>2. CASE G!ReadSession(c)
  <2> DEFINE k == IF check[c].session \in DOMAIN sessions
                  THEN [at |-> "roles", names |-> sessions[check[c].session].roles,
                        left |-> sessions[check[c].session].roles, found |-> {},
                        seen |-> check[c].seen]
                  ELSE G!Idle
  <2>1. check[c].at = "session" /\ check' = [check EXCEPT ![c] = k]
    BY <1>2 DEF G!ReadSession
  <2>2. check[c] \in [at : {"session"}, session : Sessions, seen : SUBSET GrantRecords]
    BY <2>1, CheckShapes
  <2>3. G!Live \subseteq check[c].seen
    BY <2>1 DEF GoodCheck, G!Idle
  <2>4. check[c].session \in DOMAIN sessions => sessions[check[c].session].roles \subseteq RoleNames
    BY DEF TypeOK, LoginTypes
  <2>5. GoodCheck(k, G!Live)
    <3>1. CASE check[c].session \in DOMAIN sessions
      BY <2>2, <2>3, <2>4, <3>1 DEF GoodCheck, CheckStates
    <3>2. CASE check[c].session \notin DOMAIN sessions
      BY <3>2 DEF GoodCheck, CheckStates, G!Idle
    <3> QED  BY <3>1, <3>2
  <2> QED  BY <2>1, <2>5
<1>3. CASE G!LookUp(c)
  <2>1. PICK n \in Names : /\ check[c].at = "roles" /\ n \in check[c].left
           /\ check' = [check EXCEPT ![c].left = @ \ {n},
                                     ![c].found = @ \cup {g \in G!Live : g.name = n}]
    BY <1>3 DEF G!LookUp
  <2> DEFINE k == [check[c] EXCEPT !.left = @ \ {n}, !.found = @ \cup {g \in G!Live : g.name = n}]
  <2>2. check[c] \in [at : {"roles", "passed"}, names : SUBSET RoleNames,
                      left : SUBSET RoleNames, found : SUBSET GrantRecords,
                      seen : SUBSET GrantRecords]
    BY <2>1, CheckShapes
  <2>3. /\ k \in [at : {"roles", "passed"}, names : SUBSET RoleNames, left : SUBSET RoleNames,
                  found : SUBSET GrantRecords, seen : SUBSET GrantRecords]
        /\ k.at = "roles" /\ k.names = check[c].names /\ k.seen = check[c].seen
        /\ k.left = check[c].left \ {n}
        /\ k.found = check[c].found \cup {g \in G!Live : g.name = n}
    BY <2>1, <2>2, LiveIsTyped DEF TypeOK
  <2>4. check' = [check EXCEPT ![c] = k]
    BY <2>1, <2>2 DEF TypeOK
  <2> HIDE DEF k
  <2>5. GoodCheck(k, G!Live)
    BY <2>1, <2>3 DEF GoodCheck, CheckStates, G!Idle
  <2> QED  BY <2>4, <2>5
<1>4. CASE G!Decide(c)
  <2> DEFINE k == IF G!Allowed(c) THEN [check[c] EXCEPT !.at = "passed"] ELSE G!Idle
  <2>1. check[c].at = "roles" /\ check' = [check EXCEPT ![c] = k]
    BY <1>4 DEF G!Decide, TypeOK
  <2>2. check[c] \in [at : {"roles", "passed"}, names : SUBSET RoleNames,
                      left : SUBSET RoleNames, found : SUBSET GrantRecords,
                      seen : SUBSET GrantRecords]
    BY <2>1, CheckShapes
  <2>3. ASSUME G!Allowed(c) PROVE GoodCheck(k, G!Live)
    <3>1. /\ k \in [at : {"roles", "passed"}, names : SUBSET RoleNames, left : SUBSET RoleNames,
                    found : SUBSET GrantRecords, seen : SUBSET GrantRecords]
          /\ k.at = "passed" /\ k.names = check[c].names /\ k.seen = check[c].seen
          /\ k.left = check[c].left /\ k.found = check[c].found
      BY <2>2, <2>3
    <3> HIDE DEF k
    <3> QED  BY <2>1, <2>3, <3>1 DEF GoodCheck, CheckStates, G!Idle, G!Allowed
  <2>4. ASSUME ~ G!Allowed(c) PROVE GoodCheck(k, G!Live)
    BY <2>1, <2>4 DEF GoodCheck, CheckStates, G!Idle
  <2> HIDE DEF k
  <2> QED  BY <2>1, <2>3, <2>4
<1>5. CASE G!Finish(c)
  BY <1>5 DEF G!Finish, GoodCheck, CheckStates, G!Idle
<1> QED  BY <1>1, <1>2, <1>3, <1>4, <1>5 DEF G!Guard

LEMMA FoundStaysLive ==
  ASSUME TypeOK, FoundWasLive, TableTypes', [Next]_vars
  PROVE  check' \in [Checks -> CheckStates] /\ FoundWasLive'
<1> SUFFICES check' \in [Checks -> CheckStates] /\ \A c \in Checks : GoodCheck(check'[c], G!Live')
  BY DEF FoundWasLive, GoodCheck, G!Allowed
<1>1. check \in [Checks -> CheckStates] /\ \A c \in Checks : GoodCheck(check[c], G!Live)
  BY GoodChecks DEF TypeOK
<1>2. CASE UNCHANGED guardVars
  BY <1>1, <1>2, LiveStays DEF guardVars
<1>3. ASSUME NEW c \in Checks, G!Guard(c), UNCHANGED <<name, granted, assigned, edits>>
      PROVE  check' \in [Checks -> CheckStates] /\ \A d \in Checks : GoodCheck(check'[d], G!Live')
  <2>1. PICK k : GoodCheck(k, G!Live) /\ check' = [check EXCEPT ![c] = k]
    BY <1>1, <1>3, GuardMovesWell
  <2>2. G!Live' = G!Live
    BY <1>3, LiveStays
  <2>3. k \in CheckStates
    BY <2>1 DEF GoodCheck
  <2> QED  BY <1>1, <2>1, <2>2, <2>3
<1>4. CASE G!EditTables /\ UNCHANGED loginVars
  <2> SUFFICES ASSUME NEW c \in Checks PROVE check'[c] \in CheckStates /\ GoodCheck(check'[c], G!Live')
    BY <1>4, EditsAreSeen
  <2>1. G!Live' \subseteq GrantRecords
    <3>1. ASSUME NEW g \in granted'
          PROVE  [name |-> name'[g[1]], resource |-> Grants[g[2]].resource,
                  action |-> Grants[g[2]].action] \in GrantRecords
      <4>1. g[1] \in DOMAIN name' /\ g[2] \in Permissions
        BY DEF TableTypes
      <4> QED  BY <4>1 DEF TableTypes, GrantRecords
    <3> QED  BY <3>1 DEF G!Live
  <2>2. CASE check[c] = G!Idle
    <3>1. check'[c] = G!Idle
      BY <1>4, <2>2, EditsAreSeen
    <3> QED  BY <3>1 DEF GoodCheck, CheckStates, G!Idle
  <2> DEFINE k == [check[c] EXCEPT !.seen = @ \cup G!Live']
  <2>3. CASE check[c].at = "session"
    <3>1. check[c] \in [at : {"session"}, session : Sessions, seen : SUBSET GrantRecords]
      BY <2>3, CheckShapes
    <3>2. check'[c] = k
      BY <1>4, <2>3, EditsAreSeen, CheckShapes
    <3>3. /\ k \in [at : {"session"}, session : Sessions, seen : SUBSET GrantRecords]
          /\ k.at = "session" /\ G!Live' \subseteq k.seen
      BY <2>1, <3>1
    <3> HIDE DEF k
    <3> QED  BY <3>2, <3>3 DEF GoodCheck, CheckStates
  <2>4. CASE check[c].at \in {"roles", "passed"}
    <3>1. check[c] \in [at : {"roles", "passed"}, names : SUBSET RoleNames,
                        left : SUBSET RoleNames, found : SUBSET GrantRecords,
                        seen : SUBSET GrantRecords]
      BY <2>4, CheckShapes
    <3>2. check'[c] = k
      BY <1>4, <2>4, EditsAreSeen, CheckShapes
    <3>3. /\ k \in [at : {"roles", "passed"}, names : SUBSET RoleNames, left : SUBSET RoleNames,
                    found : SUBSET GrantRecords, seen : SUBSET GrantRecords]
          /\ k.at = check[c].at /\ k.names = check[c].names /\ k.left = check[c].left
          /\ k.found = check[c].found /\ k.seen = check[c].seen \cup G!Live'
      BY <2>1, <3>1
    <3>4. GoodCheck(check[c], G!Live)
      BY <1>1
    <3> HIDE DEF k
    <3> QED  BY <2>4, <3>2, <3>3, <3>4 DEF GoodCheck, CheckStates
  <2> QED  BY <2>2, <2>3, <2>4, CheckShapes
<1>5. CASE G!Crash
  <2>1. check' = [c \in Checks |-> G!Idle]
    BY <1>5 DEF G!Crash
  <2> QED  BY <2>1 DEF GoodCheck, CheckStates, G!Idle
<1> QED  BY <1>2, <1>3, <1>4, <1>5, TableSteps

-----------------------------------------------------------------------------
(* Theorems.                                                               *)

LEMMA Preserved == IInv /\ [Next]_vars => IInv'
<1> SUFFICES ASSUME IInv, [Next]_vars PROVE IInv'
  OBVIOUS
<1>1. /\ TypeOK /\ CountsBehind /\ LocksAreEarned /\ OneAtATime /\ CameBefore
      /\ SessionsAreDated /\ FoundWasLive
      /\ CounterTypes /\ LoginTypes /\ TableTypes /\ lastHad \in [Names -> Nat]
  BY DEF IInv, TypeOK
<1>2. CounterTypes' /\ CountsBehind' /\ LocksAreEarned' /\ OneAtATime'
  BY <1>1, CounterTypesStay, CountsStayBehind, LocksStayEarned, StillOneAtATime
<1>3. LoginTypes' /\ TableTypes'
  BY <1>1, LoginTypesStay, TableTypesStay
<1>4. CameBefore'
  BY <1>1, <1>2, <1>3, StillCameBefore
<1>5. lastHad' \in [Names -> Nat]
  BY <1>1, <1>3, LastHadMoves DEF SessionsAreDated
<1>6. SessionsAreDated'
  BY <1>1, <1>3, SessionsStayDated
<1>7. check' \in [Checks -> CheckStates] /\ FoundWasLive'
  BY <1>1, <1>3, FoundStaysLive
<1> QED  BY <1>2, <1>3, <1>4, <1>5, <1>6, <1>7 DEF IInv, TypeOK

LEMMA Invariance == Spec => []IInv
BY Initially, Preserved, PTL DEF Spec

\* The variables of Access keep their types.
THEOREM TypeCorrect == Spec => []TypeOK
<1>1. IInv => TypeOK
  BY DEF IInv
<1> QED  BY <1>1, Invariance, PTL

\* The counter of failed logins never runs ahead of the wrong passwords, and a
\* lock is set by one of its own beyond the two that are let pass.
THEOREM NeverOvercountedHolds == Spec => []NeverOvercounted
<1>1. IInv => NeverOvercounted
  <2> SUFFICES ASSUME IInv PROVE NeverOvercounted
    OBVIOUS
  <2>1. Cardinality(InHand) \in Nat
    BY FS_CardinalityType DEF IInv, LocksAreEarned
  <2> QED  BY <2>1 DEF IInv, TypeOK, CounterTypes, CountsBehind, LocksAreEarned, Spare,
                       NeverOvercounted, L!NeverOvercounted
<1> QED  BY <1>1, Invariance, PTL

\* Wrong passwords that are counted one at a time lock the account at the third
\* and not before.
THEOREM LockedAtTheThirdHolds == Spec => []LockedAtTheThird
<1>1. IInv => LockedAtTheThird
  <2> SUFFICES ASSUME IInv, ~mixed
               PROVE  /\ L!Quiet => attempts = tally
                      /\ L!Quiet => (lock # 0 <=> tally >= 3)
                      /\ \A n \in 0..MaxWrong : held[n] > 0 => n = tally - 1
    BY DEF LockedAtTheThird, L!LockedAtTheThird
  <2> USE DEF L!NoneHeld
  <2>1. attempts \in 0..MaxWrong /\ MaxWrong \in Nat
    BY AccessAssumption DEF IInv, TypeOK, CounterTypes, CountsBehind, L!LoginConstants
  <2>2. CASE due = 0 /\ held = L!NoneHeld /\ attempts = tally
    BY <2>1, <2>2 DEF IInv, OneAtATime
  <2>3. CASE due = 1 /\ held = L!NoneHeld /\ attempts + 1 = tally
    BY <2>3 DEF L!Quiet
  <2>4. CASE due = 0 /\ held = [L!NoneHeld EXCEPT ![attempts] = 1] /\ attempts + 1 = tally
    <3>1. held[attempts] = 1 /\ \A n \in 0..MaxWrong : held[n] > 0 => n = attempts
      BY <2>1, <2>4
    <3>2. ~ L!Quiet
      BY <2>1, <3>1 DEF L!Quiet
    <3> QED  BY <2>1, <2>4, <3>1, <3>2
  <2> QED  BY <2>2, <2>3, <2>4 DEF IInv, OneAtATime
<1> QED  BY <1>1, Invariance, PTL

\* A lock that is on is opened by no request that found the account after it was
\* set.
THEOREM LockIsRespectedHolds == Spec => LockIsRespected
<1>1. ASSUME IInv, [Next]_vars, L!Locked, lock' = 0
      PROVE  \E h \in Handlers : req[h] # L!Idle /\ req[h].before < lock
  <2> USE DEF IInv, TypeOK, CounterTypes
  <2>1. lock # 0
    BY <1>1 DEF L!Locked
  <2>2. ASSUME NEW h \in Handlers, L!ResetExpired(h) \/ L!ResetAccepted(h)
        PROVE  req[h] # L!Idle /\ req[h].before < lock
    BY <1>1, <2>2 DEF L!ResetExpired, L!ResetAccepted, L!Idle, CameBefore
  <2>3. ASSUME NEW h \in Handlers, L!Login(h) PROVE L!ResetExpired(h) \/ L!ResetAccepted(h)
    BY <1>1, <2>1, <2>3 DEF L!Login, L!Find, L!RefuseWrong, L!Accept, L!ReadRoles, L!StoreSession,
                            L!account
  <2>4. ASSUME NEW n \in 0..MaxWrong, L!WriteCounter(n) PROVE FALSE
    BY <1>1, <2>1, <2>4 DEF L!WriteCounter
  <2>5. ~ (L!ReadCounter \/ L!RefreshToken \/ L!LockRunsOut \/ L!Tick \/ L!Crash)
    BY <1>1, <2>1 DEF L!ReadCounter, L!RefreshToken, L!LockRunsOut, L!Tick, L!Crash, L!account
  <2> QED  BY <1>1, <2>1, <2>2, <2>3, <2>4, <2>5
           DEF Next, LoginStep, GuardStep, Crash, L!CountingFails, vars, loginVars
<1>2. IInv /\ [Next]_vars =>
        [L!Locked /\ lock' = 0 => \E h \in Handlers : req[h] # L!Idle /\ req[h].before < lock]_(L!loginVars)
  BY <1>1
<1> QED  BY <1>2, Invariance, PTL DEF Spec, LockIsRespected, L!LockIsRespected

\* A request passes only on permissions that role names of its session granted
\* while it was judged.
THEOREM PassesOnLiveGrantsHolds == Spec => []PassesOnLiveGrants
<1>1. IInv => PassesOnLiveGrants
  BY DEF IInv, FoundWasLive, PassesOnLiveGrants, G!PassesOnLiveGrants, G!Allowed
<1> QED  BY <1>1, Invariance, PTL

\* A role that was taken away is in no session for longer than a session lives.
THEOREM RevokedForATimeOnlyHolds == Spec => []RevokedForATimeOnly
<1>1. IInv => RevokedForATimeOnly
  <2> SUFFICES ASSUME IInv, NEW s \in DOMAIN sessions, NEW n \in sessions[s].roles \ {DefaultName}
               PROVE  now < lastHad[n] + SessionLife
    BY DEF RevokedForATimeOnly
  <2>1. n \in Names
    BY DEF IInv, TypeOK, LoginTypes, RoleNames
  <2> QED  BY <2>1, AccessAssumption DEF IInv, TypeOK, LoginTypes, SessionsAreDated, L!LoginConstants
<1> QED  BY <1>1, Invariance, PTL
=============================================================================
