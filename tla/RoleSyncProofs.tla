------------------------------ MODULE RoleSyncProofs -----------------------------
(***************************************************************************)
(* Proofs about RoleSync, for any users, roles and number of overlapping   *)
(* updates.                                                                *)
(***************************************************************************)
EXTENDS RoleSync, TLAPS

\* The request has read the rows of its user.
HasRead(h) == tx[h].at \in {"read", "deleted", "inserted"}

\* The part of the diff a request is still to apply, or has applied in its
\* transaction.
ToDelete(h) == IF tx[h].at = "read" THEN tx[h].del ELSE tx[h].gone
ToInsert(h) == IF tx[h].at = "inserted" THEN tx[h].new ELSE tx[h].ins

\* Requests are for users, and have no rows in hand before they have read.
Sensible ==
  \A h \in Handlers :
    /\ tx[h].at # "idle" => tx[h].user \in Users
    /\ HasRead(h) => tx[h].lists
    /\ tx[h].at \in {"begun", "updated"} => tx[h].gone = {} /\ tx[h].new = {}
                                         /\ tx[h].added = {} /\ tx[h].dropped = {}

\* Two requests never hold the row of one user.
OneLock == \A h \in Handlers, g \in Handlers : g \in Rivals(h) /\ HasLock(h) => ~ HasLock(g)

\* The diff still accounts for the committed rows, but for what others have
\* committed since it was computed.
DiffIsValid(h) ==
  /\ ToDelete(h) \cap tx[h].want = {}
  /\ ToInsert(h) \subseteq tx[h].want
  /\ roles[tx[h].user] \ tx[h].want \subseteq ToDelete(h) \cup tx[h].added
  /\ tx[h].want \ roles[tx[h].user] \subseteq ToInsert(h) \cup tx[h].dropped

DiffsAreValid == \A h \in Handlers : HasRead(h) => DiffIsValid(h)

\* Only a request without the row lock commits beside one that has it.
LockKeepsOut ==
  \A h \in Handlers : HasRead(h) /\ tx[h].changes /\ ~ tx[h].unlocked =>
    tx[h].added = {} /\ tx[h].dropped = {}

IInv == TypeOK /\ Sensible /\ OneLock /\ DiffsAreValid /\ LockKeepsOut

LEMMA Initially == Init => IInv
<1> SUFFICES ASSUME Init PROVE IInv
  OBVIOUS
<1>1. Idle \in Request
  BY DEF Idle, Request, Stage
<1>2. \A h \in Handlers : tx[h].at = "idle" /\ ~ tx[h].changes
  BY DEF Init, Idle
<1> QED  BY <1>1, <1>2 DEF Init, IInv, TypeOK, Sensible, OneLock, DiffsAreValid, LockKeepsOut, HasRead, HasLock

-----------------------------------------------------------------------------
(* The actions that commit nothing change one request.                     *)

LEMMA Alone ==
  ASSUME IInv, NEW h \in Handlers, NEW r \in Request,
         tx' = [tx EXCEPT ![h] = r], UNCHANGED roles,
         r.at # "idle" => r.user \in Users,
         r.at \in {"read", "deleted", "inserted"} => r.lists,
         r.at \in {"begun", "updated"} => /\ r.gone = {} /\ r.new = {}
                                          /\ r.added = {} /\ r.dropped = {},
         HasLock(h)' => \A g \in Rivals(h)' : ~ HasLock(g),
         HasRead(h)' => DiffIsValid(h)',
         HasRead(h)' /\ r.changes /\ ~ r.unlocked => r.added = {} /\ r.dropped = {}
  PROVE  IInv'
<1>1. tx'[h] = r /\ \A g \in Handlers \ {h} : tx'[g] = tx[g]
  BY DEF IInv, TypeOK
<1>2. TypeOK'
  BY DEF IInv, TypeOK
<1>3. Sensible'
  BY <1>1 DEF IInv, Sensible, HasRead
<1>4. OneLock'
  BY <1>1 DEF IInv, OneLock, HasLock, Rivals
<1>5. DiffsAreValid'
  BY <1>1 DEF IInv, DiffsAreValid, DiffIsValid, HasRead, ToDelete, ToInsert
<1>6. LockKeepsOut'
  BY <1>1 DEF IInv, LockKeepsOut, HasRead
<1> QED  BY <1>2, <1>3, <1>4, <1>5, <1>6 DEF IInv

LEMMA BeginPreserves ==
  ASSUME IInv, NEW h \in Handlers, NEW u \in Users, NEW lists \in BOOLEAN,
         NEW want \in SUBSET Roles, NEW changes \in BOOLEAN, Begin(h, u, lists, want, changes)
  PROVE  IInv'
<1> DEFINE r == [Idle EXCEPT !.at = "begun", !.user = u, !.lists = lists, !.want = want,
                             !.changes = changes]
<1>1. /\ r \in Request /\ r.at = "begun" /\ r.user = u /\ r.gone = {} /\ r.new = {}
      /\ r.added = {} /\ r.dropped = {}
  BY DEF Request, Stage, Idle
<1>2. tx' = [tx EXCEPT ![h] = r] /\ UNCHANGED roles
  BY DEF Begin
<1> HIDE DEF r
<1>3. tx'[h] = r
  BY <1>2 DEF IInv, TypeOK
<1>4. ~ HasLock(h)' /\ ~ HasRead(h)'
  BY <1>1, <1>3 DEF HasLock, HasRead
<1> QED  BY <1>1, <1>2, <1>4, Alone

LEMMA UpdateUserPreserves ==
  ASSUME IInv, NEW h \in Handlers, UpdateUser(h)
  PROVE  IInv'
<1> DEFINE r == [tx[h] EXCEPT !.at = "updated"]
<1>1. /\ r \in Request /\ r.at = "updated" /\ r.user = tx[h].user
      /\ r.changes = tx[h].changes /\ r.gone = tx[h].gone /\ r.new = tx[h].new
      /\ r.added = tx[h].added /\ r.dropped = tx[h].dropped
  BY DEF IInv, TypeOK, Request, Stage
<1>2. tx' = [tx EXCEPT ![h] = r] /\ UNCHANGED roles /\ tx[h].at = "begun"
  BY DEF UpdateUser
<1> HIDE DEF r
<1>3. tx'[h] = r /\ \A g \in Handlers \ {h} : tx'[g] = tx[g]
  BY <1>2 DEF IInv, TypeOK
<1>4. HasLock(h)' => \A g \in Rivals(h)' : ~ HasLock(g)
  BY <1>1, <1>3 DEF UpdateUser, HasLock, Rivals
<1>5. ~ HasRead(h)'
  BY <1>1, <1>3 DEF HasRead
<1>6. r.user \in Users /\ r.gone = {} /\ r.new = {} /\ r.added = {} /\ r.dropped = {}
  BY <1>1, <1>2 DEF IInv, Sensible
<1> QED  BY <1>1, <1>2, <1>4, <1>5, <1>6, Alone
LEMMA ReadRolesPreserves ==
  ASSUME IInv, NEW h \in Handlers, ReadRoles(h)
  PROVE  IInv'
<1> DEFINE r == [tx[h] EXCEPT !.at = "read", !.ins = tx[h].want \ roles[tx[h].user],
                             !.del = roles[tx[h].user] \ tx[h].want]
<1>1. /\ r \in Request /\ r.at = "read" /\ r.user = tx[h].user /\ r.want = tx[h].want
      /\ r.changes = tx[h].changes /\ r.lists = tx[h].lists /\ r.unlocked = tx[h].unlocked
      /\ r.added = tx[h].added /\ r.dropped = tx[h].dropped
      /\ r.ins = tx[h].want \ roles[tx[h].user] /\ r.del = roles[tx[h].user] \ tx[h].want
  <2>1. tx[h] \in Request
    BY DEF IInv, TypeOK
  <2> QED  BY <2>1 DEF Request, Stage, IInv, TypeOK, Sensible, ReadRoles
<1>2. tx' = [tx EXCEPT ![h] = r] /\ UNCHANGED roles /\ tx[h].at = "updated" /\ tx[h].lists
  BY DEF ReadRoles, IInv, Sensible, HasRead
<1> HIDE DEF r
<1>3. tx'[h] = r /\ \A g \in Handlers \ {h} : tx'[g] = tx[g]
  BY <1>2 DEF IInv, TypeOK
<1>4. HasLock(h)' => \A g \in Rivals(h)' : ~ HasLock(g)
  <2> SUFFICES ASSUME HasLock(h)', NEW g \in Rivals(h)'  PROVE ~ HasLock(g)
    OBVIOUS
  <2>1. HasLock(h) /\ g \in Rivals(h)
    BY <1>1, <1>2, <1>3 DEF HasLock, Rivals
  <2> QED  BY <2>1 DEF IInv, OneLock, Rivals
<1>5. DiffIsValid(h)'
  BY <1>1, <1>2, <1>3 DEF DiffIsValid, ToDelete, ToInsert
<1>6. r.changes /\ ~ r.unlocked => r.added = {} /\ r.dropped = {}
  BY <1>1, <1>2 DEF IInv, Sensible
<1>7. r.user \in Users
  BY <1>1, <1>2 DEF IInv, Sensible
<1> QED  BY <1>1, <1>2, <1>4, <1>5, <1>6, <1>7, Alone

LEMMA DeleteRolesPreserves ==
  ASSUME IInv, NEW h \in Handlers, DeleteRoles(h)
  PROVE  IInv'
<1> DEFINE r == [tx[h] EXCEPT !.at = "deleted", !.gone = tx[h].del \cap roles[tx[h].user]]
<1>1. /\ r \in Request /\ r.at = "deleted" /\ r.user = tx[h].user /\ r.want = tx[h].want
      /\ r.changes = tx[h].changes /\ r.lists = tx[h].lists /\ r.unlocked = tx[h].unlocked
      /\ r.added = tx[h].added /\ r.dropped = tx[h].dropped
      /\ r.ins = tx[h].ins /\ r.gone = tx[h].del \cap roles[tx[h].user]
  <2>1. tx[h] \in Request
    BY DEF IInv, TypeOK
  <2> QED  BY <2>1 DEF Request, Stage
<1>2. tx' = [tx EXCEPT ![h] = r] /\ UNCHANGED roles /\ tx[h].at = "read" /\ tx[h].lists
  BY DEF DeleteRoles, IInv, Sensible, HasRead
<1> HIDE DEF r
<1>3. tx'[h] = r /\ \A g \in Handlers \ {h} : tx'[g] = tx[g]
  BY <1>2 DEF IInv, TypeOK
<1>4. HasLock(h)' => \A g \in Rivals(h)' : ~ HasLock(g)
  <2> SUFFICES ASSUME HasLock(h)', NEW g \in Rivals(h)'  PROVE ~ HasLock(g)
    OBVIOUS
  <2>1. HasLock(h) /\ g \in Rivals(h)
    BY <1>1, <1>2, <1>3 DEF HasLock, Rivals
  <2> QED  BY <2>1 DEF IInv, OneLock, Rivals
<1>5. DiffIsValid(h)'
  <2>1. DiffIsValid(h) /\ ToDelete(h) = tx[h].del /\ ToInsert(h) = tx[h].ins
    BY <1>2 DEF IInv, DiffsAreValid, HasRead, ToDelete, ToInsert
  <2> QED  BY <1>1, <1>2, <1>3, <2>1 DEF DiffIsValid, ToDelete, ToInsert
<1>6. r.changes /\ ~ r.unlocked => r.added = {} /\ r.dropped = {}
  BY <1>1, <1>2 DEF IInv, LockKeepsOut, HasRead
<1>7. r.user \in Users
  BY <1>1, <1>2 DEF IInv, Sensible
<1> QED  BY <1>1, <1>2, <1>4, <1>5, <1>6, <1>7, Alone

LEMMA InsertRolesPreserves ==
  ASSUME IInv, NEW h \in Handlers, InsertRoles(h)
  PROVE  IInv'
<1> DEFINE r == [tx[h] EXCEPT !.at = "inserted", !.new = tx[h].ins]
<1>1. /\ r \in Request /\ r.at = "inserted" /\ r.user = tx[h].user /\ r.want = tx[h].want
      /\ r.changes = tx[h].changes /\ r.lists = tx[h].lists /\ r.unlocked = tx[h].unlocked
      /\ r.added = tx[h].added /\ r.dropped = tx[h].dropped
      /\ r.gone = tx[h].gone /\ r.new = tx[h].ins
  <2>1. tx[h] \in Request
    BY DEF IInv, TypeOK
  <2> QED  BY <2>1 DEF Request, Stage
<1>2. tx' = [tx EXCEPT ![h] = r] /\ UNCHANGED roles /\ tx[h].at = "deleted" /\ tx[h].lists
  BY DEF InsertRoles, IInv, Sensible, HasRead
<1> HIDE DEF r
<1>3. tx'[h] = r /\ \A g \in Handlers \ {h} : tx'[g] = tx[g]
  BY <1>2 DEF IInv, TypeOK
<1>4. HasLock(h)' => \A g \in Rivals(h)' : ~ HasLock(g)
  <2> SUFFICES ASSUME HasLock(h)', NEW g \in Rivals(h)'  PROVE ~ HasLock(g)
    OBVIOUS
  <2>1. HasLock(h) /\ g \in Rivals(h)
    BY <1>1, <1>2, <1>3 DEF HasLock, Rivals
  <2> QED  BY <2>1 DEF IInv, OneLock, Rivals
<1>5. DiffIsValid(h)'
  <2>1. DiffIsValid(h) /\ ToDelete(h) = tx[h].gone /\ ToInsert(h) = tx[h].ins
    BY <1>2 DEF IInv, DiffsAreValid, HasRead, ToDelete, ToInsert
  <2> QED  BY <1>1, <1>2, <1>3, <2>1 DEF DiffIsValid, ToDelete, ToInsert
<1>6. r.changes /\ ~ r.unlocked => r.added = {} /\ r.dropped = {}
  BY <1>1, <1>2 DEF IInv, LockKeepsOut, HasRead
<1>7. r.user \in Users
  BY <1>1, <1>2 DEF IInv, Sensible
<1> QED  BY <1>1, <1>2, <1>4, <1>5, <1>6, <1>7, Alone

LEMMA FailPreserves ==
  ASSUME IInv, NEW h \in Handlers, Fail(h)
  PROVE  IInv'
<1>1. Idle \in Request /\ Idle.at = "idle"
  BY DEF Idle, Request, Stage
<1>2. tx' = [tx EXCEPT ![h] = Idle] /\ UNCHANGED roles /\ tx'[h] = Idle
  BY DEF Fail, IInv, TypeOK
<1>3. ~ HasLock(h)' /\ ~ HasRead(h)'
  BY <1>1, <1>2 DEF HasLock, HasRead
<1> QED  BY <1>1, <1>2, <1>3, Alone
-----------------------------------------------------------------------------
(* A commit changes the rows of its user, and the history of its rivals.   *)

LEMMA CommitPreserves ==
  ASSUME IInv, NEW h \in Handlers, Commit(h)
  PROVE  IInv'
<1> DEFINE u == tx[h].user
           want == tx[h].want
           counts(g) == g \in Rivals(h) /\ tx[h].lists /\ HasRead(g)
           rec(g) == [tx[g] EXCEPT !.added = @ \cup want, !.dropped = @ \cup (Roles \ want),
                                   !.unlocked = @ \/ ~ tx[h].changes]
<1>1. /\ Idle \in Request /\ Idle.at = "idle"
      /\ \A g \in Handlers : tx[g] \in Request
  BY DEF Idle, Request, Stage, IInv, TypeOK
<1>2. u \in Users /\ want \subseteq Roles
  BY <1>1 DEF Commit, IsDone, IInv, Sensible, Request
<1>3. \A g \in Handlers :
        /\ rec(g) \in Request
        /\ rec(g).at = tx[g].at /\ rec(g).user = tx[g].user /\ rec(g).lists = tx[g].lists
        /\ rec(g).want = tx[g].want /\ rec(g).changes = tx[g].changes
        /\ rec(g).ins = tx[g].ins /\ rec(g).del = tx[g].del
        /\ rec(g).gone = tx[g].gone /\ rec(g).new = tx[g].new
        /\ rec(g).added = tx[g].added \cup want
        /\ rec(g).dropped = tx[g].dropped \cup (Roles \ want)
        /\ rec(g).unlocked = (tx[g].unlocked \/ ~ tx[h].changes)
  BY <1>1, <1>2 DEF Request
<1>4. /\ tx'[h] = Idle
      /\ \A g \in Handlers \ {h} : tx'[g] = IF counts(g) THEN rec(g) ELSE tx[g]
  BY DEF Commit, Recorded, HasRead
<1>5. tx' \in [Handlers -> Request]
  <2>1. tx' = [Recorded(h) EXCEPT ![h] = Idle] /\ Recorded(h) = [g \in Handlers |-> Recorded(h)[g]]
    BY DEF Commit, Recorded
  <2>2. \A g \in Handlers : tx'[g] \in Request
    BY <1>1, <1>3, <1>4
  <2> QED  BY <2>1, <2>2
<1>6. Result(h) \subseteq Roles
  BY <1>1, <1>2 DEF Result, IInv, TypeOK, Request
<1>7. /\ roles' \in [Users -> SUBSET Roles]
      /\ roles'[u] = Result(h) /\ \A v \in Users \ {u} : roles'[v] = roles[v]
  BY <1>2, <1>6 DEF Commit, IInv, TypeOK
<1> HIDE DEF rec
<1>8. \A g \in Handlers : tx'[g].at # "idle" =>
        /\ g # h /\ tx'[g].at = tx[g].at /\ tx'[g].user = tx[g].user /\ tx'[g].lists = tx[g].lists
        /\ tx'[g].want = tx[g].want /\ tx'[g].changes = tx[g].changes
        /\ tx'[g].ins = tx[g].ins /\ tx'[g].del = tx[g].del
        /\ tx'[g].gone = tx[g].gone /\ tx'[g].new = tx[g].new
  BY <1>1, <1>3, <1>4
<1>9. Sensible'
  <2> SUFFICES ASSUME NEW g \in Handlers, tx'[g].at # "idle"
               PROVE  /\ tx'[g].user \in Users
                      /\ HasRead(g)' => tx'[g].lists
                      /\ tx'[g].at \in {"begun", "updated"} =>
                           /\ tx'[g].gone = {} /\ tx'[g].new = {}
                           /\ tx'[g].added = {} /\ tx'[g].dropped = {}
    BY DEF Sensible, HasRead
  <2>1. tx'[g].at \in {"begun", "updated"} => tx'[g] = tx[g]
    BY <1>4, <1>8 DEF HasRead
  <2> QED  BY <1>8, <2>1 DEF IInv, Sensible, HasRead
<1>10. OneLock'
  BY <1>8 DEF IInv, OneLock, HasLock, Rivals
<1>11. tx[h].lists => HasRead(h) /\ ToDelete(h) = tx[h].gone /\ ToInsert(h) = tx[h].new /\ DiffIsValid(h)
  BY DEF Commit, IsDone, HasRead, ToDelete, ToInsert, IInv, DiffsAreValid
<1>12. ~ tx[h].lists => Result(h) = roles[u]
  BY DEF Commit, IsDone, IInv, Sensible, HasRead, Result
<1>13. DiffsAreValid'
  <2> SUFFICES ASSUME NEW g \in Handlers, HasRead(g)'  PROVE DiffIsValid(g)'
    BY DEF DiffsAreValid
  <2>1. HasRead(g) /\ g # h /\ tx'[g].user = tx[g].user /\ tx'[g].want = tx[g].want
    BY <1>8 DEF HasRead
  <2>2. ToDelete(g)' = ToDelete(g) /\ ToInsert(g)' = ToInsert(g)
    BY <1>8, <2>1 DEF HasRead, ToDelete, ToInsert
  <2>3. DiffIsValid(g) /\ tx[g].user \in Users /\ tx[g].want \subseteq Roles
    BY <1>1, <2>1 DEF IInv, DiffsAreValid, Sensible, HasRead, Request
  <2>4. CASE counts(g)
    <3>1. /\ tx'[g].added = tx[g].added \cup want
          /\ tx'[g].dropped = tx[g].dropped \cup (Roles \ want)
          /\ tx[g].user = u
      BY <1>3, <1>4, <2>1, <2>4 DEF Rivals
    <3>2. roles'[u] = (roles[u] \ tx[h].gone) \cup tx[h].new
      BY <1>7 DEF Result
    <3>3. tx[h].gone \cap want = {} /\ tx[h].new \subseteq want
      BY <1>11, <2>4 DEF DiffIsValid
    <3> HIDE DEF want, u
    <3> QED  BY <2>1, <2>2, <2>3, <3>1, <3>2, <3>3 DEF DiffIsValid
  <2>5. CASE ~ counts(g)
    <3>1. tx'[g] = tx[g]
      BY <1>4, <2>1, <2>5
    <3>2. roles'[tx[g].user] = roles[tx[g].user]
      BY <1>7, <1>12, <2>1, <2>3, <2>5 DEF Rivals
    <3> QED  BY <2>2, <2>3, <3>1, <3>2 DEF DiffIsValid
  <2> QED  BY <2>4, <2>5
<1>14. LockKeepsOut'
  <2> SUFFICES ASSUME NEW g \in Handlers, HasRead(g)', tx'[g].changes, ~ tx'[g].unlocked
               PROVE  tx'[g].added = {} /\ tx'[g].dropped = {}
    BY DEF LockKeepsOut
  <2>1. HasRead(g) /\ g # h /\ tx[g].changes
    BY <1>8 DEF HasRead
  <2>2. ~ counts(g)
    <3> SUFFICES ASSUME counts(g)  PROVE FALSE
      OBVIOUS
    <3>1. tx[h].changes
      BY <1>3, <1>4, <2>1
    <3>2. HasLock(h) /\ HasLock(g)
      BY <1>11, <2>1, <3>1 DEF HasLock, HasRead
    <3> QED  BY <3>2 DEF IInv, OneLock
  <2>3. tx'[g] = tx[g]
    BY <1>4, <2>1, <2>2
  <2> QED  BY <2>1, <2>3 DEF IInv, LockKeepsOut
<1> QED  BY <1>5, <1>7, <1>9, <1>10, <1>13, <1>14 DEF IInv, TypeOK

LEMMA Preserved == IInv /\ [Next]_vars => IInv'
<1> SUFFICES ASSUME IInv, [Next]_vars  PROVE IInv'
  OBVIOUS
<1>1. CASE Next
  BY <1>1, BeginPreserves, UpdateUserPreserves, ReadRolesPreserves, DeleteRolesPreserves,
     InsertRolesPreserves, CommitPreserves, FailPreserves DEF Next
<1>2. CASE UNCHANGED vars
  BY <1>2 DEF vars, IInv, TypeOK, Sensible, OneLock, DiffsAreValid, DiffIsValid, LockKeepsOut,
              HasRead, HasLock, Rivals, ToDelete, ToInsert
<1> QED  BY <1>1, <1>2

LEMMA Invariant == Spec => []IInv
  BY Initially, Preserved, PTL DEF Spec

\* What a commit leaves, read off the invariant.
LEMMA CommitLeaves ==
  ASSUME IInv, NEW h \in Handlers, Commits(h), tx[h].lists
  PROVE  /\ Result(h) \subseteq tx[h].want \cup tx[h].added
         /\ tx[h].want \ tx[h].dropped \subseteq Result(h)
         /\ tx[h].changes /\ ~ tx[h].unlocked => Result(h) = tx[h].want
<1>1. HasRead(h) /\ ToDelete(h) = tx[h].gone /\ ToInsert(h) = tx[h].new /\ DiffIsValid(h)
  BY DEF Commits, IsDone, HasRead, ToDelete, ToInsert, IInv, DiffsAreValid
<1>2. tx[h].changes /\ ~ tx[h].unlocked => tx[h].added = {} /\ tx[h].dropped = {}
  BY <1>1 DEF IInv, LockKeepsOut
<1> QED  BY <1>1, <1>2 DEF DiffIsValid, Result

\* For any users, roles and number of requests, the requests and the rows of
\* user_roles have the types of UserService.update, failures included.
THEOREM TypeCorrect == Spec => []TypeOK
  BY Invariant, PTL DEF IInv

\* However many updates of a user overlap, what one of them leaves deviates from
\* its list only by roles on which an overlapping one has decided otherwise.
THEOREM OnlyOverlapsMixHolds == Spec => OnlyOverlapsMix
<1>1. IInv /\ [Next]_vars =>
        [\A h \in Handlers : Commits(h) /\ tx[h].lists =>
           /\ Result(h) \subseteq tx[h].want \cup tx[h].added
           /\ tx[h].want \ tx[h].dropped \subseteq Result(h)]_vars
  BY CommitLeaves
<1> QED  BY <1>1, Invariant, PTL DEF Spec, OnlyOverlapsMix

\* However many updates of a user overlap, the lock on the row of the user makes
\* those that change a column replace the roles by their lists one after the other.
THEOREM LockedUpdateReplacesHolds == Spec => LockedUpdateReplaces
<1>1. IInv /\ [Next]_vars =>
        [\A h \in Handlers : Commits(h) /\ tx[h].lists /\ tx[h].changes /\ ~ tx[h].unlocked =>
           roles'[tx[h].user] = tx[h].want]_vars
  BY CommitLeaves DEF Commits
<1> QED  BY <1>1, Invariant, PTL DEF Spec, LockedUpdateReplaces
=============================================================================
