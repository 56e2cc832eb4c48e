------------------------------- MODULE RoleGuard -------------------------------
(***************************************************************************)
(* JWTAuthGuard and RbacGuard, which decide on a request by its token, the *)
(* session the token names and the roles that are in the tables now, and   *)
(* the handlers that change those tables meanwhile: PATCH and DELETE of    *)
(* roles and permissions, and the role list of a user.                     *)
(*                                                                         *)
(* The guard reads the session once and then the permissions of one role   *)
(* name after the other, so that a decision is made of several moments.    *)
(* No route declares RbacGuard at present; the guard is modelled for       *)
(* routes that ask for one resource and one action.                        *)
(***************************************************************************)
EXTENDS Naturals, FiniteSets

CONSTANTS Checks,        \* the guarded requests in flight at the same time
          NoSession,     \* what a payload without session_id carries
          Roles,         \* ids of the table roles
          Names,         \* names a role can have
          Permissions,   \* ids of the table permissions
          Grants,        \* [Permissions -> [resource, action]]
          Wanted,        \* the resource and the action of the route
          Seeds,         \* what the tables can hold at the start
          MaxEdits       \* bound: changes of the tables

\* What is assumed of them (by Access): the foreign keys hold at the start.
GuardConstants ==
    /\ MaxEdits \in Nat
    /\ \A s \in Seeds : /\ DOMAIN s.name \subseteq Roles /\ s.name \in [DOMAIN s.name -> Names]
                       /\ s.granted \subseteq (DOMAIN s.name) \X Permissions
                       /\ s.assigned \subseteq DOMAIN s.name

VARIABLES name,          \* [existing roles -> Names]
          granted,       \* rows of role_permissions: <<role, permission>>
          assigned,      \* the roles of the user, rows of user_roles
          edits,         \* changes made so far
          check,         \* [Checks -> what the guard is in the middle of]
          sessions,      \* Redis, as Login has it; read only
          tokens,        \* the tokens signed, as Login has it; read only
          now            \* as Login has it; read only

tables == <<name, granted, assigned, edits>>
guardVars == <<tables, check>>

Idle == [at |-> "idle"]

\* The rows RbacService.getPermissionsByRole can meet: what a role name grants.
Live == {[name |-> name[g[1]], resource |-> Grants[g[2]].resource,
          action |-> Grants[g[2]].action] : g \in granted}

\* UserService.getRolePermissionByUserId, of which login keeps the role names.
RolesNow == {name[r] : r \in {x \in assigned : \E p \in Permissions : <<x, p>> \in granted}}

\* Seeded roles, permissions and assignments.
Init == /\ \E s \in Seeds : name = s.name /\ granted = s.granted /\ assigned = s.assigned
        /\ edits = 0
        /\ check = [c \in Checks |-> Idle]

-----------------------------------------------------------------------------
(* The guards                                                              *)

\* JWTAuthGuard: signature and age, by the secret of access tokens.  Then
\* RbacGuard asks for session_id: without it the request is refused (401).
Authenticate(c) ==
    \E t \in tokens :
       /\ check[c] = Idle
       /\ t.kind = "access" /\ now < t.until
       /\ t.session # NoSession
       /\ check' = [check EXCEPT ![c] = [at |-> "session", session |-> t.session,
                                         seen |-> Live]]
       /\ UNCHANGED tables

\* A session that is gone makes JSON.parse(null).roles throw: the test for it
\* comes one line later.
ReadSession(c) ==
    /\ check[c].at = "session"
    /\ check' = [check EXCEPT ![c] =
          IF check[c].session \in DOMAIN sessions
          THEN [at |-> "roles", names |-> sessions[check[c].session].roles,
                left |-> sessions[check[c].session].roles, found |-> {}, seen |-> check[c].seen]
          ELSE Idle]
    /\ UNCHANGED tables

\* getPermissionsByRole for the next role name of the session.
LookUp_AllNames(c) ==
    \E n \in Names :
       /\ check[c].at = "roles" /\ n \in check[c].left
       /\ check' = [check EXCEPT ![c].left = @ \ {n}, ![c].found = @ \cup Live]
       /\ UNCHANGED tables

LookUp(c) ==
    \E n \in Names :
       /\ check[c].at = "roles" /\ n \in check[c].left
       /\ check' = [check EXCEPT ![c].left = @ \ {n},
                                 ![c].found = @ \cup {g \in Live : g.name = n}]
       /\ UNCHANGED tables

\* hasResource and hasAction, each on its own; otherwise 403.
Allowed(c) == /\ \E g \in check[c].found : g.resource = Wanted.resource
              /\ \E g \in check[c].found : g.action = Wanted.action

Decide(c) ==
    /\ check[c].at = "roles" /\ check[c].left = {}
    /\ check' = [check EXCEPT ![c] = IF Allowed(c) THEN [@ EXCEPT !.at = "passed"] ELSE Idle]
    /\ UNCHANGED tables

\* The handler of the route has run.
Finish(c) ==
    /\ check[c].at = "passed"
    /\ check' = [check EXCEPT ![c] = Idle]
    /\ UNCHANGED tables

-----------------------------------------------------------------------------
(* The tables.  Each change is one statement; the foreign keys cascade.    *)

Edit == /\ edits < MaxEdits
        /\ edits' = edits + 1
        /\ check' = [c \in Checks |-> IF check[c] = Idle THEN Idle
                                      ELSE [check[c] EXCEPT !.seen = @ \cup Live']]

\* PATCH roles/:id.  No constraint keeps two roles from having one name.
RenameRole(r, n) ==
    /\ r \in DOMAIN name
    /\ name' = [name EXCEPT ![r] = n]
    /\ UNCHANGED <<granted, assigned>>
    /\ Edit

\* DELETE roles/:id
DeleteRole(r) ==
    /\ r \in DOMAIN name
    /\ name' = [x \in DOMAIN name \ {r} |-> name[x]]
    /\ granted' = {g \in granted : g[1] # r}
    /\ assigned' = assigned \ {r}
    /\ Edit

\* DELETE permissions/:id.  (PATCH reaches neither resource nor action.)
DeletePermission(p) ==
    /\ granted' = {g \in granted : g[2] # p}
    /\ UNCHANGED <<name, assigned>>
    /\ Edit

\* UserService.update with a list of roles.
AssignRoles(S) ==
    /\ assigned' = S \cap DOMAIN name
    /\ UNCHANGED <<name, granted>>
    /\ Edit

\* A process that dies takes its checks along.
Crash == /\ check' = [c \in Checks |-> Idle]
         /\ UNCHANGED tables

Guard(c) == Authenticate(c) \/ ReadSession(c) \/ LookUp(c) \/ Decide(c) \/ Finish(c)

EditTables == \/ \E r \in Roles, n \in Names : RenameRole(r, n)
              \/ \E r \in Roles : DeleteRole(r)
              \/ \E p \in Permissions : DeletePermission(p)
              \/ \E S \in SUBSET Roles : AssignRoles(S)

-----------------------------------------------------------------------------

\* A request passes only on permissions that role names of its session granted
\* at some moment between its arrival and the decision, one for the resource
\* and one for the action, which may be different permissions: never on what
\* had been revoked before it arrived, and never on another role's permission.
PassesOnLiveGrants ==
    \A c \in Checks : check[c].at = "passed" =>
       \E g1, g2 \in check[c].seen : /\ {g1.name, g2.name} \subseteq check[c].names
                                     /\ g1.resource = Wanted.resource
                                     /\ g2.action = Wanted.action
=============================================================================
