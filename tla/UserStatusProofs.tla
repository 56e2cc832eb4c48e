---------------------------- MODULE UserStatusProofs ----------------------------
(***************************************************************************)
(* UserStatus, for any users and any number of overlapping requests.       *)
(***************************************************************************)
EXTENDS UserStatus, TLAPS

\* A request that nobody overtook still sees the status it read.
Fresh == \A h \in Handlers : req[h] # Idle /\ h \notin overtaken
                             => status[req[h].user] = req[h].seen

\* A request in flight was validated against what it read.
Validated == \A h \in Handlers : req[h] # Idle =>
                \/ req[h].at # "restoring" /\ req[h].seen \in Lifecycle!Allowed[req[h].target]
                \/ req[h].at = "restoring" /\ req[h].seen = "archived"
                                           /\ req[h].target = "pending"

\* A request past its audit hook has its row in the log.
AboutToCommit == \A h \in Handlers : req[h].at = "logged"
                    => <<req[h].user, req[h].target>> \in logged

\* Who holds which row takes no part in it: the lock only delays a request.
IInv == TypeOK /\ Fresh /\ Validated /\ AboutToCommit /\ StatusIsLogged

\* The statuses the code writes by name.
LEMMA StatusNames == "pending" \in Status /\ "archived" \in Status
  BY DEF Status, Lifecycle!Status

\* Idle is no request: it has another "at".
LEMMA IdleIsNoRequest == Idle \notin Request /\ Idle.at = "idle"
  BY DEF Idle, Request

\* The invariant holds of the accounts as they are created.
LEMMA InitIInv == Init => IInv
  <1> SUFFICES ASSUME Init PROVE IInv
    OBVIOUS
  <1>1. TypeOK
    BY StatusNames DEF Init, TypeOK
  <1>2. Fresh /\ Validated /\ AboutToCommit
    BY DEF Init, Fresh, Validated, AboutToCommit, Idle
  <1>3. StatusIsLogged
    BY DEF Init, StatusIsLogged
  <1> QED BY <1>1, <1>2, <1>3 DEF IInv

\* What Unlocked(h) leaves are row locks.
LEMMA UnlockedRows ==
  ASSUME NEW h \in Handlers, TypeOK
  PROVE  Unlocked(h) \in [Users -> Handlers \cup {NoHandler}]
  BY DEF Unlocked, TypeOK

\* Every step keeps the invariant.
LEMMA NextIInv == IInv /\ [Next]_vars => IInv'
  <1> SUFFICES ASSUME IInv, [Next]_vars PROVE IInv'
    OBVIOUS
  <1> USE IdleIsNoRequest, StatusNames DEF IInv
  <1>1. ASSUME NEW h \in Handlers, NEW u \in Users, FindArchived(h, u)
        PROVE  IInv'
    <2> DEFINE r == [at |-> "restoring", user |-> u, target |-> "pending", seen |-> "archived"]
    <2>1. r \in Request
      BY DEF Request
    <2>2. TypeOK'
      BY <1>1, <2>1 DEF FindArchived, TypeOK
    <2>3. Fresh' /\ Validated' /\ AboutToCommit' /\ StatusIsLogged'
      BY <1>1, <2>1 DEF FindArchived, TypeOK, Fresh, Validated, AboutToCommit, StatusIsLogged
    <2> QED BY <2>2, <2>3
  <1>2. ASSUME NEW h \in Handlers, NEW u \in Users, NEW target \in Status,
               Validate(h, u, target)
        PROVE  IInv'
    <2> DEFINE r == [at |-> "validated", user |-> u, target |-> target, seen |-> status[u]]
    <2>1. r \in Request
      BY DEF Request, TypeOK
    <2>2. TypeOK'
      BY <1>2, <2>1 DEF Validate, TypeOK
    <2>3. Fresh' /\ Validated' /\ AboutToCommit' /\ StatusIsLogged'
      BY <1>2, <2>1 DEF Validate, TypeOK, Fresh, Validated, AboutToCommit, StatusIsLogged
    <2> QED BY <2>2, <2>3
  <1>3. ASSUME NEW h \in Handlers, Save(h)
        PROVE  IInv'
    <2>1. req[h] \in Request /\ req'[h] = [req[h] EXCEPT !.at = "written"]
      BY <1>3 DEF Save, TypeOK
    <2>2. /\ req'[h] \in Request
          /\ req'[h].at = "written" /\ req'[h].user = req[h].user
          /\ req'[h].target = req[h].target /\ req'[h].seen = req[h].seen
      BY <2>1 DEF Request
    <2>3. \A k \in Handlers \ {h} : req'[k] = req[k]
      BY <1>3 DEF Save, TypeOK
    <2>4. TypeOK'
      BY <1>3, <2>1, <2>2 DEF Save, TypeOK, Request
    <2>5. Fresh' /\ Validated' /\ AboutToCommit' /\ StatusIsLogged'
      BY <1>3, <2>1, <2>2, <2>3 DEF Save, Fresh, Validated, AboutToCommit, StatusIsLogged
    <2> QED BY <2>4, <2>5
  <1>4. ASSUME NEW h \in Handlers, LogUpdate(h)
        PROVE  IInv'
    <2>1. req[h] \in Request /\ req'[h] = [req[h] EXCEPT !.at = "logged"]
      BY <1>4 DEF LogUpdate, TypeOK
    <2>2. /\ req'[h] \in Request
          /\ req'[h].at = "logged" /\ req'[h].user = req[h].user
          /\ req'[h].target = req[h].target /\ req'[h].seen = req[h].seen
      BY <2>1 DEF Request
    <2>3. \A k \in Handlers \ {h} : req'[k] = req[k]
      BY <1>4 DEF LogUpdate, TypeOK
    <2>4. TypeOK'
      BY <1>4, <2>1, <2>2 DEF LogUpdate, TypeOK, Request
    <2>5. Fresh' /\ Validated' /\ AboutToCommit' /\ StatusIsLogged'
      BY <1>4, <2>1, <2>2, <2>3 DEF LogUpdate, Fresh, Validated, AboutToCommit, StatusIsLogged
    <2> QED BY <2>4, <2>5
  <1>5. ASSUME NEW h \in Handlers, Commit(h)
        PROVE  IInv'
    <2>1. req[h] \in Request /\ req[h].user \in Users /\ req[h].target \in Status
      BY <1>5 DEF Commit, TypeOK, Request
    <2>2. req'[h] = Idle /\ \A k \in Handlers \ {h} : req'[k] = req[k]
      BY <1>5 DEF Commit, TypeOK
    <2>3. TypeOK'
      BY <1>5, <2>1, UnlockedRows DEF Commit, TypeOK, Rivals
    <2>4. Fresh'
      BY <1>5, <2>1, <2>2 DEF Commit, TypeOK, Fresh, Rivals, Request
    <2>5. Validated' /\ AboutToCommit'
      BY <1>5, <2>2 DEF Commit, Validated, AboutToCommit
    <2>6. StatusIsLogged'
      BY <1>5, <2>1 DEF Commit, TypeOK, AboutToCommit, StatusIsLogged
    <2> QED BY <2>3, <2>4, <2>5, <2>6
  <1>6. ASSUME NEW h \in Handlers, Restore(h)
        PROVE  IInv'
    <2>1. req[h] \in Request /\ req[h].user \in Users
      BY <1>6 DEF Restore, TypeOK, Request
    <2>2. req'[h] = Idle /\ \A k \in Handlers \ {h} : req'[k] = req[k]
      BY <1>6 DEF Restore, TypeOK
    <2>3. TypeOK'
      BY <1>6, <2>1 DEF Restore, TypeOK, Rivals
    <2>4. Fresh'
      BY <1>6, <2>1, <2>2 DEF Restore, TypeOK, Fresh, Rivals, Request
    <2>5. Validated' /\ AboutToCommit'
      BY <1>6, <2>2 DEF Restore, Validated, AboutToCommit
    <2>6. StatusIsLogged'
      BY <1>6, <2>1 DEF Restore, TypeOK, StatusIsLogged
    <2> QED BY <2>3, <2>4, <2>5, <2>6
  <1>7. ASSUME NEW h \in Handlers, Fail(h)
        PROVE  IInv'
    <2>1. req'[h] = Idle /\ \A k \in Handlers \ {h} : req'[k] = req[k]
      BY <1>7 DEF Fail, TypeOK
    <2>2. TypeOK'
      BY <1>7, UnlockedRows DEF Fail, TypeOK
    <2>3. Fresh' /\ Validated' /\ AboutToCommit' /\ StatusIsLogged'
      BY <1>7, <2>1 DEF Fail, Fresh, Validated, AboutToCommit, StatusIsLogged
    <2> QED BY <2>2, <2>3
  <1>8. CASE Crash
    <2>1. TypeOK'
      BY <1>8 DEF Crash, TypeOK
    <2>2. Fresh' /\ Validated' /\ AboutToCommit' /\ StatusIsLogged'
      BY <1>8 DEF Crash, Fresh, Validated, AboutToCommit, StatusIsLogged
    <2> QED BY <2>1, <2>2
  <1>9. CASE UNCHANGED vars
    BY <1>9 DEF vars, TypeOK, Fresh, Validated, AboutToCommit, StatusIsLogged
  <1> QED
    BY <1>1, <1>2, <1>3, <1>4, <1>5, <1>6, <1>7, <1>8, <1>9 DEF Next, Step

\* The inductive invariant holds in every reachable state.
THEOREM Invariance == Spec => []IInv
  BY InitIInv, NextIInv, PTL DEF Spec

\* For any users and requests, statuses, locks and requests in flight have the
\* types of UserService: whatever fails or dies.
THEOREM TypeCorrect == Spec => []TypeOK
  BY Invariance, PTL DEF IInv

\* Every status but PENDING that a user has, has its audit row.
THEOREM StatusIsLoggedHolds == Spec => []StatusIsLogged
  BY Invariance, PTL DEF IInv

\* A request that nobody overtook moves its user along a legal transition.
THEOREM LegalUnlessOvertakenHolds == Spec => LegalUnlessOvertaken
  <1> DEFINE Legal(h) == LET u == req[h].user
                         IN  \/ status[u] \in Lifecycle!Allowed[status'[u]]
                             \/ status[u] = "archived" /\ status'[u] = "pending"
  <1>1. ASSUME IInv, [Next]_vars, NEW h \in Handlers,
               req[h] # Idle, h \notin overtaken,
               status'[req[h].user] # status[req[h].user], req'[h] = Idle
        PROVE  Legal(h)
    <2>1. req[h] \in Request /\ status[req[h].user] = req[h].seen
      BY <1>1 DEF IInv, TypeOK, Fresh
    <2>2. Commit(h) \/ Restore(h)
      <3>1. \E k \in Handlers : Commit(k) \/ Restore(k)
        BY <1>1 DEF Next, Step, vars, FindArchived, Validate, Save, LogUpdate, Fail, Crash
      <3>2. PICK k \in Handlers : Commit(k) \/ Restore(k)
        BY <3>1
      <3>3. req' = [req EXCEPT ![k] = Idle]
        BY <3>2 DEF Commit, Restore
      <3>4. k = h
        BY <1>1, <3>3 DEF IInv, TypeOK
      <3> QED BY <3>2, <3>4
    <2>3. CASE Commit(h)
      BY <1>1, <2>1, <2>3 DEF Commit, IInv, TypeOK, Validated, Request
    <2>4. CASE Restore(h)
      BY <1>1, <2>1, <2>4 DEF Restore, IInv, TypeOK, Validated, Request
    <2> QED BY <2>2, <2>3, <2>4
  <1>2. IInv /\ [Next]_vars
        => [\A h \in Handlers :
              /\ req[h] # Idle
              /\ h \notin overtaken
              /\ status'[req[h].user] # status[req[h].user]
              /\ req'[h] = Idle
              => Legal(h)]_vars
    BY <1>1
  <1> QED
    BY <1>2, Invariance, PTL DEF Spec, LegalUnlessOvertaken

\* Served one request at a time, the service implements the account lifecycle:
\* each of its steps is a step of it, or leaves the statuses alone.
THEOREM SerialServiceIsLifecycle ==
  ASSUME \A h, k \in Handlers : h = k
  PROVE  Spec => LifecycleSpec
  <1> DEFINE Alone == overtaken = {}
  <1>1. Init => Lifecycle!Init /\ Alone
    BY DEF Init, Lifecycle!Init
  <1>2. Alone /\ IInv /\ [Next]_vars => Alone'
    <2>1. \A h \in Handlers : Rivals(h, req[h].user) = {}
      BY DEF Rivals
    <2> QED BY <2>1 DEF Next, Step, vars, FindArchived, Validate, Save, LogUpdate,
                        Commit, Restore, Fail, Crash
  <1>3. Alone /\ IInv /\ [Next]_vars => [Lifecycle!Next]_status
    <2> SUFFICES ASSUME Alone, IInv, [Next]_vars PROVE [Lifecycle!Next]_status
      OBVIOUS
    <2> USE DEF IInv
    <2>1. ASSUME NEW h \in Handlers, Commit(h) PROVE Lifecycle!Next
      <3>1. /\ req[h] \in Request /\ req[h].at = "logged"
            /\ status[req[h].user] = req[h].seen
        BY <2>1, IdleIsNoRequest DEF Commit, TypeOK, Fresh
      <3>2. /\ req[h].user \in Users /\ req[h].target \in Lifecycle!Status
            /\ req[h].seen \in Lifecycle!Allowed[req[h].target]
        BY <3>1, IdleIsNoRequest DEF Request, Status, Validated
      <3>3. Lifecycle!Change(req[h].user, req[h].target)
        BY <2>1, <3>1, <3>2 DEF Commit, Lifecycle!Change
      <3> QED BY <3>2, <3>3 DEF Lifecycle!Next
    <2>2. ASSUME NEW h \in Handlers, Restore(h) PROVE Lifecycle!Next
      <3>1. /\ req[h] \in Request /\ req[h].at = "restoring"
            /\ status[req[h].user] = req[h].seen
        BY <2>2, IdleIsNoRequest DEF Restore, TypeOK, Fresh
      <3>2. req[h].user \in Users /\ req[h].seen = "archived"
        BY <3>1, IdleIsNoRequest DEF Request, Validated
      <3>3. Lifecycle!Restore(req[h].user)
        BY <2>2, <3>1, <3>2 DEF Restore, Lifecycle!Restore
      <3> QED BY <3>2, <3>3 DEF Lifecycle!Next
    <2> QED BY <2>1, <2>2 DEF Next, Step, vars, FindArchived, Validate, Save,
                              LogUpdate, Fail, Crash
  <1> QED BY <1>1, <1>2, <1>3, Invariance, PTL DEF Spec, LifecycleSpec, Lifecycle!Spec
=============================================================================
