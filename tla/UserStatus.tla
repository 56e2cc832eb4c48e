------------------------------- MODULE UserStatus -------------------------------
(***************************************************************************)
(* UserService.changeUserStatus and UserService.restoreUser, served by     *)
(* concurrent request handlers of one Node.js process over PostgreSQL at   *)
(* its default isolation level, READ COMMITTED.                            *)
(*                                                                         *)
(* A handler reads the user without a lock, decides, and only then opens   *)
(* the transaction that writes; every `await` between the two is a point   *)
(* where the other handlers run.  status holds the committed column: an    *)
(* UPDATE inside an open transaction shows only as the row lock it takes.  *)
(* A request that returns or throws before it writes anything changes      *)
(* nothing, and is not a step of its own.                                  *)
(***************************************************************************)
EXTENDS FiniteSets

CONSTANTS Users,      \* the rows of the table users
          Handlers,   \* the requests in flight at the same time
          NoHandler   \* the holder of a row that nobody has locked

ASSUME NoHandlerIsNoHandler == NoHandler \notin Handlers

VARIABLES status,     \* [Users -> Status], users.status as committed
          holder,     \* [Users -> Handlers \cup {NoHandler}], the row locks
          logged,     \* the rows of audit_logs: <<user, status written>>
          req,        \* [Handlers -> what the handler is in the middle of]
          overtaken   \* history: the handlers whose user was changed by
                      \* another one since they read it

vars == <<status, holder, logged, req, overtaken>>

Lifecycle == INSTANCE AccountLifecycle WITH Users <- Users, status <- status
Status == Lifecycle!Status

Idle == [at |-> "idle"]

\* A request between its read and its end: how far it is, the user it names,
\* the status it writes and the status it read.
Request == [at : {"validated", "written", "logged", "restoring"},
            user : Users, target : Status, seen : Status]

TypeOK == /\ status \in [Users -> Status]
          /\ holder \in [Users -> Handlers \cup {NoHandler}]
          /\ logged \in SUBSET (Users \X Status)
          /\ req \in [Handlers -> Request \cup {Idle}]
          /\ overtaken \in SUBSET Handlers

\* createMember inserts every account as PENDING.
Init == /\ status = [u \in Users |-> "pending"]
        /\ holder = [u \in Users |-> NoHandler]
        /\ logged = {}
        /\ req = [h \in Handlers |-> Idle]
        /\ overtaken = {}

-----------------------------------------------------------------------------
(* The two reads, and what is decided on them before the next await.       *)

\* changeUserStatus up to sequelize.transaction(): findByPk, the early return
\* for an unchanged status, the choice of a strategy and validateTransition.
Validate_NoCheck(h, u, target) ==
    /\ req[h] = Idle
    /\ target # status[u]
    /\ req' = [req EXCEPT ![h] = [at |-> "validated", user |-> u,
                                  target |-> target, seen |-> status[u]]]
    /\ overtaken' = overtaken \ {h}
    /\ UNCHANGED <<status, holder, logged>>

Validate(h, u, target) ==
    /\ req[h] = Idle
    /\ target # status[u]
    /\ status[u] \in Lifecycle!Allowed[target]
    /\ req' = [req EXCEPT ![h] = [at |-> "validated", user |-> u,
                                  target |-> target, seen |-> status[u]]]
    /\ overtaken' = overtaken \ {h}
    /\ UNCHANGED <<status, holder, logged>>

\* restoreUser's findOne: only an ARCHIVED user is found.
FindArchived(h, u) ==
    /\ req[h] = Idle
    /\ status[u] = "archived"
    /\ req' = [req EXCEPT ![h] = [at |-> "restoring", user |-> u,
                                  target |-> "pending", seen |-> "archived"]]
    /\ overtaken' = overtaken \ {h}
    /\ UNCHANGED <<status, holder, logged>>

-----------------------------------------------------------------------------
(* The writes.                                                             *)

Unlocked(h) == [u \in Users |-> IF holder[u] = h THEN NoHandler ELSE holder[u]]

\* The other handlers that are in the middle of a request for user u.
Rivals(h, u) == {k \in Handlers \ {h} : req[k] # Idle /\ req[k].user = u}

\* user.save({ transaction }): UPDATE users ... WHERE id, which waits for the
\* transaction that has the row, and never looks at the status again.
Save(h) ==
    /\ req[h].at = "validated"
    /\ holder[req[h].user] = NoHandler
    /\ holder' = [holder EXCEPT ![req[h].user] = h]
    /\ req' = [req EXCEPT ![h].at = "written"]
    /\ UNCHANGED <<status, logged, overtaken>>

\* The AfterUpdate hook that save() awaits: it inserts its audit row on a
\* connection of its own, outside the transaction.
LogUpdate_Skipped(h) ==
    /\ req[h].at = "written"
    /\ req' = [req EXCEPT ![h].at = "logged"]
    /\ UNCHANGED <<status, holder, logged, overtaken>>

LogUpdate(h) ==
    /\ req[h].at = "written"
    /\ logged' = logged \cup {<<req[h].user, req[h].target>>}
    /\ req' = [req EXCEPT ![h].at = "logged"]
    /\ UNCHANGED <<status, holder, overtaken>>

\* transaction.commit(), which frees the row.
Commit(h) ==
    /\ req[h].at = "logged"
    /\ status' = [status EXCEPT ![req[h].user] = req[h].target]
    /\ holder' = Unlocked(h)
    /\ req' = [req EXCEPT ![h] = Idle]
    /\ overtaken' = overtaken \cup Rivals(h, req[h].user)
    /\ UNCHANGED logged

\* restoreUser's UPDATE ... WHERE id: one statement, its own transaction, and a
\* static Model.update, for which Sequelize runs no AfterUpdate hook.
Restore_NotInEnum(h) ==
    /\ req[h].at = "restoring"
    /\ holder[req[h].user] = NoHandler
    /\ status' = [status EXCEPT ![req[h].user] = "restored"]
    /\ req' = [req EXCEPT ![h] = Idle]
    /\ overtaken' = overtaken \cup Rivals(h, req[h].user)
    /\ UNCHANGED <<holder, logged>>

Restore(h) ==
    /\ req[h].at = "restoring"
    /\ holder[req[h].user] = NoHandler
    /\ status' = [status EXCEPT ![req[h].user] = "pending"]
    /\ req' = [req EXCEPT ![h] = Idle]
    /\ overtaken' = overtaken \cup Rivals(h, req[h].user)
    /\ UNCHANGED <<holder, logged>>

\* A statement, the audit insert or the commit fails: catch rolls back.
Fail_NoRollback(h) ==
    /\ req[h] # Idle
    /\ req' = [req EXCEPT ![h] = Idle]
    /\ UNCHANGED <<status, holder, logged, overtaken>>

Fail(h) ==
    /\ req[h] # Idle
    /\ holder' = Unlocked(h)
    /\ req' = [req EXCEPT ![h] = Idle]
    /\ UNCHANGED <<status, logged, overtaken>>

\* The process dies and is restarted; PostgreSQL rolls its transactions back.
Crash ==
    /\ \E h \in Handlers : req[h] # Idle
    /\ holder' = [u \in Users |-> NoHandler]
    /\ req' = [h \in Handlers |-> Idle]
    /\ UNCHANGED <<status, logged, overtaken>>

Step(h) == Save(h) \/ LogUpdate(h) \/ Commit(h) \/ Restore(h)

Next == \/ \E h \in Handlers :
             \/ \E u \in Users : FindArchived(h, u)
             \/ \E u \in Users, target \in Status : Validate(h, u, target)
             \/ Step(h)
             \/ Fail(h)
        \/ Crash

Spec == Init /\ [][Next]_vars

\* The event loop resumes every settled await, and PostgreSQL queues the
\* waiters of a row lock in order of arrival, so that a waiting statement is
\* not passed over for ever: strong fairness for the two that wait.
FairSpec == /\ Spec
            /\ \A h \in Handlers : /\ WF_vars(LogUpdate(h) \/ Commit(h))
                                   /\ SF_vars(Save(h))
                                   /\ SF_vars(Restore(h))

-----------------------------------------------------------------------------
(* Properties.                                                             *)

\* What a request writes is a legal move from the status the user really has,
\* unless another request changed that user after this one read it: the check
\* made before the transaction is sound for requests that do not overlap.
LegalUnlessOvertaken ==
    [][\A h \in Handlers :
         /\ req[h] # Idle
         /\ h \notin overtaken
         /\ status'[req[h].user] # status[req[h].user]
         /\ req'[h] = Idle
         => LET u == req[h].user
            IN  \/ status[u] \in Lifecycle!Allowed[status'[u]]
                \/ status[u] = "archived" /\ status'[u] = "pending"]_vars

\* Whatever failed or crashed on the way, a status other than PENDING that a
\* user has is one for which the audit hook has left a row.
StatusIsLogged ==
    \A u \in Users : status[u] # "pending" => <<u, status[u]>> \in logged

\* With one request at a time the service is the account lifecycle.
LifecycleSpec == Lifecycle!Spec

\* Every request that starts ends: no handler waits for a row for ever.
RequestsEnd == \A h \in Handlers : req[h] # Idle ~> req[h] = Idle
=============================================================================
