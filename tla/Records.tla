--------------------------------- MODULE Records --------------------------------
(***************************************************************************)
(* The records that BaseService and BaseRepository keep alone (roles and   *)
(* permissions; getById also for users), and what their clients are told.  *)
(* No call runs in a transaction: each statement, and the audit row that a *)
(* hook of the model inserts after it, commits for itself.  An error goes  *)
(* through BaseResponseInterceptor and then through AllExceptionsFilter.   *)
(* The lists and their cache are ListCache's.                              *)
(***************************************************************************)
EXTENDS Naturals, FiniteSets

CONSTANTS Clients,       \* the requests in flight at the same time
          Ids,           \* the ids that create draws, each once
          Names,         \* values of the unique column
          NoName         \* the row is not there

VARIABLES row,           \* [Ids -> Names, or NoName]
          born,          \* ids that were drawn
          audit,         \* rows of audit_logs: <<action, id>>
          call,          \* [Clients -> the call a request is in the middle of]
          told,          \* [Clients -> the last answer, and what the call did]
          deletions      \* history: [Ids -> deletions answered with success]

recordVars == <<row, born, audit, call, told, deletions>>

Idle == [at |-> "idle"]
NoAnswer == [status |-> 0, changed |-> FALSE, done |-> <<>>]

Init == /\ row = [i \in Ids |-> NoName]
        /\ born = {} /\ audit = {}
        /\ call = [c \in Clients |-> Idle]
        /\ told = [c \in Clients |-> NoAnswer]
        /\ deletions = [i \in Ids |-> 0]

-----------------------------------------------------------------------------
(* Errors on their way out.  A database error has a parent with a code, an *)
(* error of Redis or of the code itself has none.                          *)

\* Codes of the interceptor's list (23505 unique, 22001 too long, ...), and
\* others (40P01 deadlock, or no code when the connection or the pool failed).
Listed == {"unique", "too long"}
Http(status) == [kind |-> "http", status |-> status]
Database(code) == [kind |-> "database", code |-> code]
TypeError == [kind |-> "TypeError"]
Plain == [kind |-> "error"]

\* An error without parent makes the interceptor itself fail on err.parent.code.
Intercept_AllConflicts(e) ==
    CASE e.kind = "http"      -> e
      [] e.kind = "TypeError" -> Http(400)
      [] e.kind = "error"     -> TypeError
      [] OTHER                -> Http(409)

Intercept(e) ==
    CASE e.kind = "http"      -> e
      [] e.kind = "TypeError" -> Http(400)
      [] e.kind = "error"     -> TypeError
      [] OTHER                -> Http(IF e.code \in Listed THEN 409 ELSE 500)

Filter(e) ==
    CASE e.kind = "http"                            -> e.status
      [] e.kind = "database" /\ e.code = "unique"   -> 409
      [] e.kind = "TypeError"                       -> 400
      [] OTHER                                      -> 500

StatusOf(e) == Filter(Intercept(e))

-----------------------------------------------------------------------------

\* The call ends, and its client is told.  changed: has it changed the row?
\* done: the creation or deletion it is told to have happened.
Tell(c, op, id, status, changed) ==
    /\ told' = [told EXCEPT ![c] = [status |-> status, changed |-> changed,
                       done |-> IF op \in {"CREATE", "DELETE"} /\ status \in {201, 204}
                                THEN <<op, id>> ELSE <<>>]]
    /\ call' = [call EXCEPT ![c] = Idle]
    /\ deletions' = IF op = "DELETE" /\ status = 204
                    THEN [deletions EXCEPT ![id] = @ + 1] ELSE deletions

Goto(c, s) == call' = [call EXCEPT ![c] = s] /\ told' = [told EXCEPT ![c] = NoAnswer]

Taken(name) == \E i \in Ids : row[i] = name

\* POST: repository.create, an INSERT.
Create(c) ==
    \E id \in Ids \ born, name \in Names :
       /\ call[c] = Idle
       /\ born' = born \cup {id}
       /\ IF Taken(name)
          THEN Tell(c, "CREATE", id, StatusOf(Database("unique")), FALSE) /\ UNCHANGED row
          ELSE /\ row' = [row EXCEPT ![id] = name]
               /\ Goto(c, [at |-> "log", op |-> "CREATE", id |-> id, deleted |-> 0])
               /\ UNCHANGED deletions
       /\ UNCHANGED audit

\* PATCH: findByPk; a row that is not there is answered like a success.
Find(c) ==
    \E id \in born, name \in Names :
       /\ call[c] = Idle
       /\ IF row[id] = NoName
          THEN Tell(c, "UPDATE", id, 204, FALSE)
          ELSE Goto(c, [at |-> "save", op |-> "UPDATE", id |-> id, name |-> name])
               /\ UNCHANGED deletions
       /\ UNCHANGED <<row, born, audit>>

\* entity.save(): an UPDATE that may find no row any more.  What it throws is
\* caught and logged, and the client is told nothing of it.
Save(c) ==
    LET id == call[c].id   name == call[c].name IN
    /\ call[c].at = "save"
    /\ IF Taken(name) /\ row[id] # name
       THEN Tell(c, "UPDATE", id, 204, FALSE) /\ UNCHANGED row
       ELSE /\ row' = IF row[id] = NoName THEN row ELSE [row EXCEPT ![id] = name]
            /\ Goto(c, [at |-> "log", op |-> "UPDATE", id |-> id, deleted |-> 0])
            /\ UNCHANGED deletions
    /\ UNCHANGED <<born, audit>>

\* DELETE: destroy with individualHooks finds the rows first ...
FindVictim(c) ==
    \E id \in born :
       /\ call[c] = Idle
       /\ Goto(c, [at |-> "destroy", op |-> "DELETE", id |-> id, found |-> row[id] # NoName])
       /\ UNCHANGED <<row, born, audit, deletions>>

\* ... and counts those that its DELETE statement takes away.
Destroy_CountsFound(c) ==
    LET id == call[c].id IN
    /\ call[c].at = "destroy"
    /\ row' = [row EXCEPT ![id] = NoName]
    /\ IF call[c].found
       THEN /\ Goto(c, [at |-> "log", op |-> "DELETE", id |-> id, deleted |-> 1])
            /\ UNCHANGED deletions
       ELSE Tell(c, "DELETE", id, StatusOf(Http(404)), FALSE)
    /\ UNCHANGED <<born, audit>>

Destroy(c) ==
    LET id == call[c].id   deleted == IF row[id] = NoName THEN 0 ELSE 1 IN
    /\ call[c].at = "destroy"
    /\ row' = [row EXCEPT ![id] = NoName]
    /\ IF call[c].found
       THEN /\ Goto(c, [at |-> "log", op |-> "DELETE", id |-> id, deleted |-> deleted])
            /\ UNCHANGED deletions
       ELSE Tell(c, "DELETE", id, StatusOf(Http(404)), FALSE)
    /\ UNCHANGED <<born, audit>>

\* What the call answers when it has gone through.
Success(op, deleted) == CASE op = "CREATE" -> 201
                          [] op = "UPDATE" -> 204
                          [] OTHER -> IF deleted = 0 THEN StatusOf(Http(404)) ELSE 204

\* logCreate, logUpdate, logDelete
Log(c) ==
    LET k == call[c] IN
    /\ k.at = "log"
    /\ audit' = audit \cup {<<k.op, k.id>>}
    /\ Tell(c, k.op, k.id, Success(k.op, k.deleted), k.op # "DELETE" \/ k.deleted = 1)
    /\ UNCHANGED <<row, born>>

\* The audit row is refused: the change before it stays.
LogFails_Ignored(c) ==
    LET k == call[c] IN
    /\ k.at = "log"
    /\ Tell(c, k.op, k.id, Success(k.op, k.deleted), k.op # "DELETE" \/ k.deleted = 1)
    /\ UNCHANGED <<row, born, audit>>

LogFails(c) ==
    LET k == call[c] IN
    /\ k.at = "log"
    /\ Tell(c, k.op, k.id, IF k.op = "UPDATE" THEN 204 ELSE StatusOf(Database("none")),
            k.op # "DELETE" \/ k.deleted = 1)
    /\ UNCHANGED <<row, born, audit>>

\* A statement before the change fails, by its data or with its connection, or
\* Redis does (the detail cache is read first, and nothing ever fills it).
Fails(c) ==
    \E e \in {Database("too long"), Database("none"), Plain} :
       /\ call[c] = Idle
       /\ told' = [told EXCEPT ![c] = [NoAnswer EXCEPT !.status = StatusOf(e)]]
       /\ UNCHANGED <<row, born, audit, call, deletions>>

\* GET by id: one query.
Get(c) ==
    \E id \in Ids :
       /\ call[c] = Idle
       /\ Tell(c, "GET", id, IF row[id] = NoName THEN StatusOf(Http(404)) ELSE 200, FALSE)
       /\ UNCHANGED <<row, born, audit>>

Crash ==
    /\ \E c \in Clients : call[c] # Idle
    /\ call' = [c \in Clients |-> Idle]
    /\ told' = [c \in Clients |-> NoAnswer]
    /\ UNCHANGED <<row, born, audit, deletions>>

Next == \/ \E c \in Clients : \/ Create(c) \/ Find(c) \/ Save(c) \/ FindVictim(c) \/ Destroy(c)
                              \/ Log(c) \/ LogFails(c) \/ Fails(c) \/ Get(c)
        \/ Crash

-----------------------------------------------------------------------------

\* Nothing that a client is told with a 4xx has changed a row, so that the call
\* may be repeated; and of several requests that delete a row one is told so.
AnswersAreTrue ==
    /\ \A c \in Clients : told[c].status \in 400..499 => ~told[c].changed
    /\ \A id \in Ids : deletions[id] <= 1 /\ (deletions[id] = 1 => row[id] = NoName)

\* A creation or deletion that is answered with success has its audit row,
\* although the change is committed before that row is even tried.
DoneIsLogged ==
    \A c \in Clients : told[c].done # <<>> => told[c].done \in audit
=============================================================================
