--------------------------------- MODULE RoleSync --------------------------------
(***************************************************************************)
(* UserService.update: the columns of a user and, when the request lists   *)
(* roles, the rows of user_roles, which it brings to the list by a diff    *)
(* against the rows it reads, in one transaction at READ COMMITTED.        *)
(*                                                                         *)
(* Of the columns only this is kept: whether the request changes one, for  *)
(* then the UPDATE locks the row of the user until the transaction ends,   *)
(* and a request without a change sends no UPDATE at all.  A statement     *)
(* that meets the lock of another transaction is evaluated when the lock   *)
(* is free.                                                                *)
(***************************************************************************)
EXTENDS FiniteSets

CONSTANTS Users, Roles, Handlers,
          None            \* no user

ASSUME NoneIsNoUser == None \notin Users

VARIABLES roles,          \* the committed rows of user_roles
          tx              \* what each request is in the middle of

vars == <<roles, tx>>

\* A request: its user, whether it lists roles and which, whether it changes a
\* column of the user; the diff it has computed; the rows it has deleted and
\* inserted but not committed.  The rest is history, counted from the read of the
\* rows: the roles that commits of others wanted, those they did not want, and
\* whether one of them held no row lock.
Stage == {"idle", "begun", "updated", "read", "deleted", "inserted"}

Request == [at : Stage, user : Users \cup {None}, lists : BOOLEAN, want : SUBSET Roles,
            changes : BOOLEAN, ins : SUBSET Roles, del : SUBSET Roles,
            gone : SUBSET Roles, new : SUBSET Roles,
            added : SUBSET Roles, dropped : SUBSET Roles, unlocked : BOOLEAN]

Idle == [at |-> "idle", user |-> None, lists |-> FALSE, want |-> {}, changes |-> FALSE,
         ins |-> {}, del |-> {}, gone |-> {}, new |-> {},
         added |-> {}, dropped |-> {}, unlocked |-> FALSE]

TypeOK == /\ roles \in [Users -> SUBSET Roles]
          /\ tx \in [Handlers -> Request]

\* A user has the one role that the creation has assigned.
Init == /\ roles \in [Users -> {{r} : r \in Roles}]
        /\ tx = [h \in Handlers |-> Idle]

\* The other requests for the user of h.
Rivals(h) == {g \in Handlers \ {h} : tx[g].user = tx[h].user}

\* The request g has the row of its user locked.
HasLock(g) == tx[g].changes /\ tx[g].at \in {"updated", "read", "deleted", "inserted"}

\* findByPk finds the user, and the transaction is opened.
Begin(h, u, lists, want, changes) ==
  /\ tx[h].at = "idle"
  /\ lists \/ want = {}
  /\ tx' = [tx EXCEPT ![h] = [Idle EXCEPT !.at = "begun", !.user = u, !.lists = lists,
                                          !.want = want, !.changes = changes]]
  /\ UNCHANGED roles

\* entity.update.
UpdateUser_OutsideTransaction(h) ==
  /\ tx[h].at = "begun"
  /\ tx' = [tx EXCEPT ![h].at = "updated"]
  /\ UNCHANGED roles

UpdateUser(h) ==
  /\ tx[h].at = "begun"
  /\ tx[h].changes => \A g \in Rivals(h) : ~ HasLock(g)
  /\ tx' = [tx EXCEPT ![h].at = "updated"]
  /\ UNCHANGED roles

\* findAll of the rows of the user, and the two filters of the diff.
ReadRoles_EmptyListIsNone(h) ==
  /\ tx[h].at = "updated"
  /\ tx[h].lists
  /\ LET current == roles[tx[h].user]
     IN  tx' = [tx EXCEPT ![h].at = "read",
                          ![h].ins = tx[h].want \ current,
                          ![h].del = IF tx[h].want = {} THEN {} ELSE current \ tx[h].want]
  /\ UNCHANGED roles

ReadRoles(h) ==
  /\ tx[h].at = "updated"
  /\ tx[h].lists
  /\ LET current == roles[tx[h].user]
     IN  tx' = [tx EXCEPT ![h].at = "read",
                          ![h].ins = tx[h].want \ current,
                          ![h].del = current \ tx[h].want]
  /\ UNCHANGED roles

\* destroy: of the rows to delete, those that are still there.
DeleteRoles(h) ==
  /\ tx[h].at = "read"
  /\ \A g \in Rivals(h) : tx[g].gone \cap tx[h].del = {}
  /\ tx' = [tx EXCEPT ![h].at = "deleted", ![h].gone = tx[h].del \cap roles[tx[h].user]]
  /\ UNCHANGED roles

\* bulkCreate: it waits for a row of the same key that another transaction has
\* inserted or deleted, and fails on one that is there.
InsertRoles(h) ==
  /\ tx[h].at = "deleted"
  /\ \A g \in Rivals(h) : (tx[g].new \cup tx[g].gone) \cap tx[h].ins = {}
  /\ tx[h].ins \cap roles[tx[h].user] = {}
  /\ tx' = [tx EXCEPT ![h].at = "inserted", ![h].new = tx[h].ins]
  /\ UNCHANGED roles

\* A request has had all its statements, and the rows as its commit leaves them.
IsDone(h) == tx[h].at = "inserted" \/ (tx[h].at = "updated" /\ ~ tx[h].lists)

Result(h) == (roles[tx[h].user] \ tx[h].gone) \cup tx[h].new

\* The history of the requests that have read the rows which h has changed.
Recorded(h) ==
  [g \in Handlers |->
     IF g \in Rivals(h) /\ tx[h].lists /\ tx[g].at \in {"read", "deleted", "inserted"}
     THEN [tx[g] EXCEPT !.added = @ \cup tx[h].want,
                        !.dropped = @ \cup (Roles \ tx[h].want),
                        !.unlocked = @ \/ ~ tx[h].changes]
     ELSE tx[g]]

Commit(h) ==
  /\ IsDone(h)
  /\ roles' = [roles EXCEPT ![tx[h].user] = Result(h)]
  /\ tx' = [Recorded(h) EXCEPT ![h] = Idle]

\* A statement fails: a row that is there already, a role that does not exist, a
\* circle of locks, the end of the process.  The transaction is rolled back.
Fail_NotRolledBack(h) ==
  /\ tx[h].at # "idle"
  /\ tx' = [tx EXCEPT ![h].at = "failed"]
  /\ UNCHANGED roles

Fail(h) ==
  /\ tx[h].at # "idle"
  /\ tx' = [tx EXCEPT ![h] = Idle]
  /\ UNCHANGED roles

Next == \E h \in Handlers :
          \/ \E u \in Users, want \in SUBSET Roles, lists, changes \in BOOLEAN :
               Begin(h, u, lists, want, changes)
          \/ UpdateUser(h)
          \/ ReadRoles(h)
          \/ DeleteRoles(h)
          \/ InsertRoles(h)
          \/ Commit(h)
          \/ Fail(h)

Spec == Init /\ [][Next]_vars

-----------------------------------------------------------------------------
(* Properties.                                                             *)

Commits(h) == IsDone(h) /\ tx'[h].at = "idle" /\ roles'[tx[h].user] = Result(h)

\* What a commit leaves is the list of its request, except for the roles that a
\* request committed in between has wanted, or not wanted: two overlapping updates
\* of a user mix their lists, and do nothing worse.
OnlyOverlapsMix ==
  [][\A h \in Handlers : Commits(h) /\ tx[h].lists =>
       /\ Result(h) \subseteq tx[h].want \cup tx[h].added
       /\ tx[h].want \ tx[h].dropped \subseteq Result(h)]_vars

\* The row lock keeps the lists apart: an update that changes a column of the user
\* leaves its own list, unless an update that changes none has come in between.
LockedUpdateReplaces ==
  [][\A h \in Handlers : Commits(h) /\ tx[h].lists /\ tx[h].changes /\ ~ tx[h].unlocked =>
       roles'[tx[h].user] = tx[h].want]_vars
=============================================================================
