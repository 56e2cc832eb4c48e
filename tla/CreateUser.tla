------------------------------- MODULE CreateUser ------------------------------
(***************************************************************************)
(* CreateUserUseCase.execute over a pool of connections.  The transaction  *)
(* of a request keeps one connection from its start to its end.  The       *)
(* statements that the code does not pass the transaction to (the checks   *)
(* of e-mail and phone, the look-up of the default role, and the audit row *)
(* that a hook writes after every insert) each borrow another one for the  *)
(* moment they take.  Who finds none waits until the pool gives up on him. *)
(*                                                                         *)
(* A member is identified by the three values the table keeps unique.      *)
(***************************************************************************)
EXTENDS Naturals, Sequences, FiniteSets

CONSTANTS Handlers,      \* the requests in flight at the same time
          Members,       \* members to be: [email, phone, name]
          PoolSize       \* connections of the pool (the default of Sequelize is 5)

\* What is assumed of them (by Registration).
CreateConstants == PoolSize \in Nat \ {0}

VARIABLES free,          \* idle connections
          rows,          \* committed rows: <<table, member>>
          draft,         \* [Handlers -> rows of its open transaction]
          logged,        \* rows of audit_logs: <<table, member>>
          creating       \* [Handlers -> what the request is in the middle of]

createVars == <<free, rows, draft, logged, creating>>

Idle == [at |-> 0]

\* What a request does, in order: createMember, resolveRoleId, assignRole and
\* attachMemberToTree.  The last step is the commit.
Steps == <<"email", "phone", "users", "log users", "default role",
           "user_roles", "log user_roles", "nodes", "log nodes",
           "couples", "log couples", "commit">>

Tables == {"users", "user_roles", "nodes", "couples"}
LogOf == [users |-> "log users", user_roles |-> "log user_roles",
          nodes |-> "log nodes", couples |-> "log couples"]
Borrowing == {"email", "phone", "default role"} \cup {LogOf[t] : t \in Tables}

\* resolveRoleId returns a role that is given, attachMemberToTree does nothing
\* without a parent.
Skips(d) == (IF d.role THEN {"default role"} ELSE {})
              \cup (IF d.parent THEN {} ELSE {"nodes", "log nodes", "couples", "log couples"})

StepOf(h) == Steps[creating[h].at]
Open(h) == creating[h] # Idle
Who(h) == creating[h].who

Same(m1, m2) == m1.email = m2.email \/ m1.phone = m2.phone \/ m1.name = m2.name

Init == /\ free = PoolSize
        /\ rows = {} /\ logged = {}
        /\ draft = [h \in Handlers |-> {}]
        /\ creating = [h \in Handlers |-> Idle]

-----------------------------------------------------------------------------

Begin(h) ==
    \E m \in Members, role, parent \in BOOLEAN :
       /\ ~Open(h)
       /\ free > 0
       /\ free' = free - 1
       /\ creating' = [creating EXCEPT ![h] = [at |-> 1, who |-> m, role |-> role,
                                               parent |-> parent]]
       /\ UNCHANGED <<rows, draft, logged>>

Advance(h) ==
    creating' = [creating EXCEPT ![h].at = CHOOSE i \in DOMAIN Steps :
                     /\ i > @ /\ Steps[i] \notin Skips(creating[h])
                     /\ \A j \in DOMAIN Steps : j > @ /\ j < i => Steps[j] \in Skips(creating[h])]

\* Is what the statement of this step asks for, or writes, committed already?
Taken(h) == \E r \in rows : /\ r[1] = "users"
                            /\ CASE StepOf(h) = "email" -> r[2].email = Who(h).email
                                 [] StepOf(h) = "phone" -> r[2].phone = Who(h).phone
                                 [] OTHER -> Same(r[2], Who(h))

\* ensureUniqueContact, in two queries on what is committed.
CheckContact(h) ==
    /\ Open(h) /\ StepOf(h) \in {"email", "phone"}
    /\ free > 0
    /\ ~Taken(h)
    /\ Advance(h)
    /\ UNCHANGED <<free, rows, draft, logged>>

Waits(h) == \E g \in Handlers \ {h} : \E r \in draft[g] : r[1] = "users" /\ Same(r[2], Who(h))

\* An INSERT waits for a transaction that has inserted the same key, and fails
\* on a committed one.
Insert_NoUniqueColumn(h) ==
    /\ Open(h) /\ StepOf(h) \in Tables
    /\ draft' = [draft EXCEPT ![h] = @ \cup {<<StepOf(h), Who(h)>>}]
    /\ Advance(h)
    /\ UNCHANGED <<free, rows, logged>>

Insert_RoleOutside(h) ==
    /\ Open(h) /\ StepOf(h) \in Tables
    /\ StepOf(h) = "users" => ~Taken(h) /\ ~Waits(h)
    /\ IF StepOf(h) = "user_roles"
       THEN rows' = rows \cup {<<StepOf(h), Who(h)>>} /\ UNCHANGED draft
       ELSE draft' = [draft EXCEPT ![h] = @ \cup {<<StepOf(h), Who(h)>>}] /\ UNCHANGED rows
    /\ Advance(h)
    /\ UNCHANGED <<free, logged>>

Insert(h) ==
    /\ Open(h) /\ StepOf(h) \in Tables
    /\ StepOf(h) = "users" => ~Taken(h) /\ ~Waits(h)
    /\ draft' = [draft EXCEPT ![h] = @ \cup {<<StepOf(h), Who(h)>>}]
    /\ Advance(h)
    /\ UNCHANGED <<free, rows, logged>>

\* The AfterCreate hook, which is not given the transaction.
LogCreate(h) ==
    \E t \in Tables :
       /\ Open(h) /\ StepOf(h) = LogOf[t]
       /\ free > 0
       /\ logged' = logged \cup {<<t, Who(h)>>}
       /\ Advance(h)
       /\ UNCHANGED <<free, rows, draft>>

FindDefaultRole(h) ==
    /\ Open(h) /\ StepOf(h) = "default role"
    /\ free > 0
    /\ Advance(h)
    /\ UNCHANGED <<free, rows, draft, logged>>

\* The transaction ends, and its connection goes back to the pool.
End(h) == /\ free' = free + 1
          /\ draft' = [draft EXCEPT ![h] = {}]
          /\ creating' = [creating EXCEPT ![h] = Idle]
          /\ UNCHANGED logged

Commit(h) ==
    /\ Open(h) /\ StepOf(h) = "commit"
    /\ rows' = rows \cup draft[h]
    /\ End(h)

\* A contact that is taken (409), a key that another request has committed
\* meanwhile, a role, parent or place that is not there, a lost connection.
Fail(h) ==
    /\ Open(h)
    /\ End(h)
    /\ UNCHANGED rows

\* The pool gives up on a request that has found no idle connection for as long
\* as acquire allows (one minute by default).
TimeOut_Never(h) == FALSE /\ UNCHANGED createVars

TimeOut(h) ==
    /\ Open(h) /\ StepOf(h) \in Borrowing
    /\ free = 0
    /\ End(h)
    /\ UNCHANGED rows

\* The key is committed by another request: the statement cannot succeed any more.
Refuse(h) ==
    /\ Open(h) /\ StepOf(h) \in {"email", "phone", "users"}
    /\ StepOf(h) \in Borrowing => free > 0
    /\ Taken(h)
    /\ End(h)
    /\ UNCHANGED rows

Work(h) == CheckContact(h) \/ Insert(h) \/ LogCreate(h) \/ FindDefaultRole(h) \/ Commit(h)

Next == \E h \in Handlers : Begin(h) \/ Work(h) \/ Refuse(h) \/ TimeOut(h) \/ Fail(h)

\* The event loop resumes what can run, and the pool and PostgreSQL serve those
\* who wait in the order of their arrival; the timer of the pool fires.
Fairness == \A h \in Handlers : /\ SF_createVars(Work(h))
                                /\ SF_createVars(Refuse(h))
                                /\ WF_createVars(TimeOut(h))

-----------------------------------------------------------------------------

\* Whatever two requests see when they check, no two members share an e-mail, a
\* phone number or an ascii name: the unique columns decide.
ContactsAreUnique ==
    \A r1, r2 \in rows : r1[1] = "users" /\ r2[1] = "users" /\ Same(r1[2], r2[2]) => r1 = r2

\* No failure, timeout or overlap leaves half a member: whoever is committed has
\* a role, a node exactly if he has a couple, and an audit row for each.
MembersAreWhole ==
    \A r \in rows : /\ <<"users", r[2]>> \in rows
                    /\ <<"user_roles", r[2]>> \in rows
                    /\ <<"nodes", r[2]>> \in rows <=> <<"couples", r[2]>> \in rows
                    /\ r \in logged

\* Every request ends, although requests that hold all connections of the pool
\* each wait for one more.
CreationsEnd == \A h \in Handlers : Open(h) ~> ~Open(h)
=============================================================================
