--------------------------------- MODULE Schema ---------------------------------
(***************************************************************************)
(* The tables of the database.  Two programs make them: the migrations of  *)
(* sequelize-cli, and the start of the application (synchronize: true),    *)
(* which creates from the models every table that is not there.  Neither   *)
(* changes the columns of a table it finds.                                *)
(*                                                                         *)
(* A migration is a sequence of statements, each of its own transaction,   *)
(* after which the command writes its name to SequelizeMeta: it can be cut *)
(* between any two.  Of a column is kept its name and whether a row must   *)
(* bring a value for it.                                                   *)
(***************************************************************************)
EXTENDS Naturals, Sequences, FiniteSets, SequencesExt

CONSTANTS MaxCuts,      \* bound: how often a command is cut
          MaxUndos      \* bound: how often db:migrate:undo is started

-----------------------------------------------------------------------------
(* Columns and keys.                                                       *)

Stamps == {"created_at", "updated_at", "created_by", "updated_by"}

UsersColumns ==
  {"id", "fullname", "other_name", "ascii_name", "password_hash", "email", "phone", "gender",
   "age", "life_status", "biography", "address", "burial_place", "birth_date",
   "year_of_death", "is_root", "status", "avatar_file_id", "failed_login_attempts",
   "last_failed_login_at", "locked_until", "deleted_at", "deleted_by"} \cup Stamps
RolesColumns == {"id", "name", "ascii_name", "description"} \cup Stamps
PermissionsColumns == {"id", "action", "resource"} \cup Stamps
RolePermissionsColumns == {"permission_id", "role_id"} \cup Stamps
BranchesColumns == {"id", "name", "description", "parent_branch_id", "sort_order"} \cup Stamps
NodesColumns == {"id", "user_id", "generation_order", "father_id", "mother_id",
                 "parent_branch_id", "child_order"} \cup Stamps
ContactsColumns == {"id", "fullName", "email", "phone", "description"} \cup Stamps
CouplesColumns == {"id", "user_id", "node_id", "couple_order", "marriage_date",
                   "marriage_status", "marriage_date_type", "divorce_date"} \cup Stamps
ConfigurationsColumns == {"id", "key", "value", "description", "type", "is_active"} \cup Stamps
MenusColumns == {"id", "name", "ascii_name", "father_id", "type", "couple_order", "sort",
                 "link", "is_active"} \cup Stamps
UserRolesColumns == {"id", "user_id", "role_id"} \cup Stamps

\* What createTable of a migration declares: the columns, those that are NOT NULL
\* without a default, and the tables that foreign keys refer to.
Migrated ==
  [users |-> [columns |-> UsersColumns, refs |-> {},
              needs |-> {"email", "phone", "gender", "life_status"}],
   roles |-> [columns |-> RolesColumns, needs |-> {"name"}, refs |-> {}],
   permissions |-> [columns |-> PermissionsColumns, needs |-> {"action", "resource"},
                    refs |-> {}],
   role_permissions |-> [columns |-> RolePermissionsColumns,
                         needs |-> {"permission_id", "role_id"},
                         refs |-> {"permissions", "roles"}],
   branches |-> [columns |-> BranchesColumns, needs |-> {"name"}, refs |-> {}],
   nodes |-> [columns |-> NodesColumns, needs |-> {"generation_order"},
              refs |-> {"users", "branches"}],
   contacts |-> [columns |-> ContactsColumns, refs |-> {},
                 needs |-> {"fullName", "email", "phone", "description"}],
   couples |-> [columns |-> CouplesColumns, refs |-> {"users", "nodes"},
                needs |-> {"user_id", "node_id", "couple_order", "marriage_date",
                           "marriage_status", "marriage_date_type"}],
   configurations |-> [columns |-> ConfigurationsColumns, needs |-> {"key", "value", "type"},
                       refs |-> {}],
   menus |-> [columns |-> MenusColumns, refs |-> {},
              needs |-> {"name", "ascii_name", "type", "couple_order", "sort", "link"}],
   user_roles |-> [columns |-> UserRolesColumns, needs |-> {"user_id", "role_id"},
                   refs |-> {"users", "roles"}]]

\* The models that forFeature registers, as sync declares them.
UserModel ==
  [columns |-> UsersColumns, needs |-> {"ascii_name", "phone", "is_root", "status"},
   refs |-> {}]
RolesModel_ColumnAdded ==
  [columns |-> {"id", "name", "alias", "description"} \cup Stamps, needs |-> {}, refs |-> {}]

RolesModel == [columns |-> {"id", "name", "description"} \cup Stamps, needs |-> {}, refs |-> {}]
PermissionsModel ==
  [columns |-> {"id", "name", "action", "resource"} \cup Stamps, needs |-> {}, refs |-> {}]
RolePermissionsModel ==
  [columns |-> {"role_id", "permission_id"} \cup Stamps,
   needs |-> {"role_id", "permission_id"}, refs |-> {"roles", "permissions"}]
UserRolesModel ==
  [columns |-> {"id", "user_id", "role_id"} \cup Stamps, needs |-> {"user_id", "role_id"},
   refs |-> {"users", "roles"}]
NodeModel ==
  [columns |-> {"id", "user_id", "parent_branch_id", "father_id", "mother_id",
                "child_order", "generation_order"} \cup Stamps,
   needs |-> {"user_id", "generation_order"}, refs |-> {"users"}]
CoupleModel ==
  [columns |-> {"id", "user_id", "node_id", "couple_order", "marriage_date",
                "marriage_status", "marriage_date_type", "divorce_date"} \cup Stamps,
   needs |-> {"user_id", "node_id", "couple_order"}, refs |-> {"users", "nodes"}]
AuditLogModel ==
  [columns |-> {"id", "table_name", "record_id", "action", "old_data", "new_data", "diff",
                "changed_fields"} \cup Stamps,
   needs |-> {"table_name", "action"}, refs |-> {}]

Modelled ==
  [users |-> UserModel, roles |-> RolesModel, permissions |-> PermissionsModel,
   role_permissions |-> RolePermissionsModel, user_roles |-> UserRolesModel,
   nodes |-> NodeModel, couples |-> CoupleModel, audit_logs |-> AuditLogModel]

Tables == DOMAIN Migrated \cup DOMAIN Modelled

-----------------------------------------------------------------------------
(* What the services send: the columns their queries name beside those of  *)
(* the model, and the columns every insert of theirs brings (of a member,  *)
(* one with all the optional fields that the table may ask for).           *)

Named == [nodes |-> {"user_id", "father_id", "status"},
          couples |-> {"user_id", "node_id", "status"},
          users |-> {"email", "phone"}, roles |-> {"name"}, user_roles |-> {"user_id"}]

Brings == [users |-> {"fullname", "ascii_name", "email", "password_hash", "is_root", "status",
                      "phone", "gender", "life_status"},
           roles |-> {"name"}, permissions |-> {"action", "resource"},
           user_roles |-> {"user_id", "role_id"},
           nodes |-> {"user_id", "father_id", "child_order"},
           couples |-> {"user_id", "node_id", "couple_order"},
           audit_logs |-> {"table_name", "record_id", "action"}]

-----------------------------------------------------------------------------
(* The migrations, in the order of their file names.                       *)

Order_NodesFirst ==
  <<"users", "roles", "permissions", "role_permissions", "nodes", "branches", "contacts",
    "couples", "configurations", "files", "menus", "user_roles">>

Order ==
  <<"users", "roles", "permissions", "role_permissions", "branches", "nodes", "contacts",
    "couples", "configurations", "files", "menus", "user_roles">>

Migrations == ToSet(Order)

\* The keys that addIndex and addConstraint make, after createTable: the name of
\* the key and its columns.
Keys ==
  [users |-> <<[name |-> "idx_users_ascii_name", on |-> {"ascii_name"}],
               [name |-> "idx_users_phone", on |-> {"phone"}],
               [name |-> "idx_users_email", on |-> {"email"}]>>,
   roles |-> <<[name |-> "idx_roles_ascii_name", on |-> {"ascii_name"}]>>,
   nodes |-> <<[name |-> "idx_nodes_father_id", on |-> {"father_id"}],
               [name |-> "idx_nodes_user_id", on |-> {"user_id"}]>>,
   contacts |-> <<[name |-> "idx_contacts_node_id", on |-> {"fullName"}]>>,
   couples |-> <<[name |-> "idx_couples_node_id", on |-> {"node_id"}]>>,
   configurations |-> <<[name |-> "idx_configurations_key", on |-> {"key"}]>>,
   menus |-> <<[name |-> "idx_menus_ascii_name", on |-> {"ascii_name"}]>>,
   user_roles |-> <<[name |-> "uk_user_roles_user_id_role_id", on |-> {"user_id", "role_id"}]>>]

KeysOf(m) == IF m \in DOMAIN Keys THEN Keys[m] ELSE <<>>

\* The migration of files makes nothing.
Statements(m) ==
  IF m \notin DOMAIN Migrated THEN <<>>
  ELSE <<[does |-> "table", name |-> m, on |-> {}]>>
       \o [i \in 1 .. Len(KeysOf(m)) |->
             [does |-> "key", name |-> KeysOf(m)[i].name, on |-> KeysOf(m)[i].on]]

VARIABLES
  maker,      \* who made each table: "none", "migration" or "model"
  keys,       \* the names of the keys there are, by table
  recorded,   \* SequelizeMeta
  command,    \* the command of sequelize-cli that runs, and how far it is
  syncing,    \* the tables that the start of the application has still to look at
  cuts, undos,
  cutUndo,    \* history: the migrations whose undo was cut
  disturbed   \* history: a command was cut, or the application made a table

vars == <<maker, keys, recorded, command, syncing, cuts, undos, cutUndo, disturbed>>

\* A command: up or undo, the migration it is at, its next statement, whether it
\* has come to an error.
Nothing == [does |-> "nothing", at |-> Order[1], next |-> 1, failed |-> FALSE]

Init == /\ maker = [t \in Tables |-> "none"]
        /\ keys = [t \in Tables |-> {}]
        /\ recorded = {}
        /\ command = Nothing
        /\ syncing = {}
        /\ cuts = 0 /\ undos = 0
        /\ cutUndo = {} /\ disturbed = FALSE

Exists(t) == maker[t] # "none"

\* A table as it is declared by its maker.
Declared(t) == IF maker[t] = "model" THEN Modelled[t] ELSE Migrated[t]

\* The migrations of a set in the order in which they run.
Before(m, n) == \E j \in DOMAIN Order : Order[j] = n /\ \E i \in 1 .. j - 1 : Order[i] = m
Firsts(S) == {m \in S : \A k \in S : ~ Before(k, m)}
Lasts(S) == {m \in S : \A k \in S : ~ Before(m, k)}

\* db:migrate goes on with the first migration that is not recorded, db:migrate:undo
\* with the last that is.
StartUp ==
  /\ command.does = "nothing"
  /\ \E m \in Firsts(Migrations \ recorded) :
       command' = [Nothing EXCEPT !.does = "up", !.at = m]
  /\ UNCHANGED <<maker, keys, recorded, syncing, cuts, undos, cutUndo, disturbed>>

StartUndo ==
  /\ command.does = "nothing"
  /\ undos < MaxUndos
  /\ undos' = undos + 1
  /\ \E m \in Lasts(recorded) : command' = [Nothing EXCEPT !.does = "undo", !.at = m]
  /\ UNCHANGED <<maker, keys, recorded, syncing, cuts, cutUndo, disturbed>>

Running == command.does # "nothing" /\ ~ command.failed
NextStatement == Statements(command.at)[command.next]
HasStatement == command.next <= Len(Statements(command.at))
Advanced == [command EXCEPT !.next = @ + 1]
Broken == [command EXCEPT !.failed = TRUE]

\* CREATE TABLE IF NOT EXISTS: a table that is there is left as it is.  The tables
\* it refers to must be there.
CreateTable ==
  /\ Running /\ command.does = "up" /\ HasStatement
  /\ NextStatement.does = "table"
  /\ LET t == NextStatement.name
     IN  IF Exists(t)
         THEN command' = Advanced /\ UNCHANGED maker
         ELSE IF \A r \in Migrated[t].refs : Exists(r)
         THEN command' = Advanced /\ maker' = [maker EXCEPT ![t] = "migration"]
         ELSE command' = Broken /\ UNCHANGED maker
  /\ UNCHANGED <<keys, recorded, syncing, cuts, undos, cutUndo, disturbed>>

\* addIndex and addConstraint fail on a name that is taken, and on a column that
\* the table does not have.
AddKey ==
  /\ Running /\ command.does = "up" /\ HasStatement
  /\ NextStatement.does = "key"
  /\ LET t == command.at
         s == NextStatement
     IN  IF Exists(t) /\ s.name \notin keys[t] /\ s.on \subseteq Declared(t).columns
         THEN command' = Advanced /\ keys' = [keys EXCEPT ![t] = @ \cup {s.name}]
         ELSE command' = Broken /\ UNCHANGED keys
  /\ UNCHANGED <<maker, recorded, syncing, cuts, undos, cutUndo, disturbed>>

\* The migration has run: its name is written, and the command goes on.
Record_BeforeKeys ==
  /\ Running /\ command.does = "up" /\ command.next = 2
  /\ recorded' = recorded \cup {command.at}
  /\ command' = IF HasStatement THEN Advanced ELSE Nothing
  /\ UNCHANGED <<maker, keys, syncing, cuts, undos, cutUndo, disturbed>>

Record ==
  /\ Running /\ command.does = "up" /\ ~ HasStatement
  /\ recorded' = recorded \cup {command.at}
  /\ \/ recorded' = Migrations /\ command' = Nothing
     \/ \E m \in Firsts(Migrations \ recorded') :
          command' = [Nothing EXCEPT !.does = "up", !.at = m]
  /\ UNCHANGED <<maker, keys, syncing, cuts, undos, cutUndo, disturbed>>

\* A table that a foreign key of another refers to is not dropped.
Drop ==
  /\ Running /\ command.does = "undo" /\ command.next = 1
  /\ LET t == command.at
         held == \E u \in Tables \ {t} : Exists(u) /\ t \in Declared(u).refs
     IN  IF t \notin Tables
         THEN command' = Advanced /\ UNCHANGED <<maker, keys>>
         ELSE IF held
         THEN command' = Broken /\ UNCHANGED <<maker, keys>>
         ELSE /\ command' = Advanced
              /\ maker' = [maker EXCEPT ![t] = "none"]
              /\ keys' = [keys EXCEPT ![t] = {}]
  /\ UNCHANGED <<recorded, syncing, cuts, undos, cutUndo, disturbed>>

Unrecord ==
  /\ Running /\ command.does = "undo" /\ command.next = 2
  /\ recorded' = recorded \ {command.at}
  /\ cutUndo' = cutUndo \ {command.at}
  /\ command' = Nothing
  /\ UNCHANGED <<maker, keys, syncing, cuts, undos, disturbed>>

\* The command reports its error and ends.
Report ==
  /\ command.failed
  /\ command' = Nothing
  /\ UNCHANGED <<maker, keys, recorded, syncing, cuts, undos, cutUndo, disturbed>>

\* The command is killed, or loses the database.
Cut ==
  /\ Running /\ cuts < MaxCuts
  /\ cuts' = cuts + 1
  /\ disturbed' = TRUE
  /\ cutUndo' = IF command.does = "undo" THEN cutUndo \cup {command.at} ELSE cutUndo
  /\ command' = Nothing
  /\ UNCHANGED <<maker, keys, recorded, syncing, undos>>

\* The application starts: sync takes the models in the order of their references,
\* creates a table that is not there, and then the keys that the model declares.
StartApplication ==
  /\ syncing = {}
  /\ syncing' = DOMAIN Modelled
  /\ UNCHANGED <<maker, keys, recorded, command, cuts, undos, cutUndo, disturbed>>

ModelKeys(t) == IF t = "user_roles" THEN {"user_roles_user_id_role_id"} ELSE {}

SyncTable(t) ==
  /\ t \in syncing
  /\ Modelled[t].refs \cap syncing = {}
  /\ IF Exists(t) \/ \A r \in Modelled[t].refs : Exists(r)
     THEN /\ syncing' = syncing \ {t}
          /\ maker' = [maker EXCEPT ![t] = IF Exists(t) THEN @ ELSE "model"]
          /\ keys' = [keys EXCEPT ![t] = @ \cup ModelKeys(t)]
          /\ disturbed' = (disturbed \/ (~ Exists(t) /\ t \in DOMAIN Migrated))
     ELSE syncing' = {} /\ UNCHANGED <<maker, keys, disturbed>>
  /\ UNCHANGED <<recorded, command, cuts, undos, cutUndo>>

Next == \/ StartUp \/ StartUndo
        \/ CreateTable \/ AddKey \/ Record
        \/ Drop \/ Unrecord
        \/ Report \/ Cut
        \/ StartApplication
        \/ \E t \in DOMAIN Modelled : SyncTable(t)

Spec == Init /\ [][Next]_vars

-----------------------------------------------------------------------------
(* Properties.                                                             *)

\* The files are in an order in which they run: a command comes to an error only
\* after another was cut, or after the application has made a table of theirs.
OnlyDisturbedCommandsFail == command.failed => disturbed

\* What SequelizeMeta says is so: the table of a recorded migration is there with
\* every key of it, unless its undo was cut before the name was removed.
RecordedIsComplete ==
  \A m \in recorded \ cutUndo :
    (m \in DOMAIN Migrated /\ ~ (command.does = "undo" /\ command.at = m)) =>
      /\ Exists(m)
      /\ {KeysOf(m)[i].name : i \in DOMAIN KeysOf(m)} \subseteq keys[m]

\* The statements of the services work on a table: it has the columns of the model,
\* which every query lists, and those the queries name, and asks for no value
\* that an insert may leave out.
Works(t) ==
  LET named == IF t \in DOMAIN Named THEN Named[t] ELSE {}
  IN  /\ Modelled[t].columns \cup named \subseteq Declared(t).columns
      /\ t \in DOMAIN Brings => Declared(t).needs \cup Modelled[t].needs \subseteq Brings[t]

\* Migrations and models agree where it matters, whichever of them has made a
\* table: except for nodes and couples, which lack the column status and ask for
\* values that no insert brings (generation_order; of a migrated couples table, what
\* is known of the marriage), and for permissions, whose model has a column that the
\* migration does not create.
OnlyKnownDrift ==
  \A t \in DOMAIN Modelled : Exists(t) /\ ~ Works(t) =>
    t \in {"nodes", "couples"} \/ (t = "permissions" /\ maker[t] = "migration")
=============================================================================
