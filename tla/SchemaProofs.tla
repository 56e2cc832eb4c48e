------------------------------- MODULE SchemaProofs -------------------------------
(***************************************************************************)
(* Schema, for any number of commands, cuts and starts of the application. *)
(***************************************************************************)
EXTENDS Schema, TLAPS

LEMMA OneLongSequence ==
  ASSUME NEW k
  PROVE  <<k>> \in Seq({k})
  OBVIOUS

LEMMA KeysAreSequences ==
  ASSUME NEW m
  PROVE  \E S : KeysOf(m) \in Seq(S)
  <1> DEFINE T == DOMAIN Keys
  <1>1. T = {"users", "roles", "nodes", "contacts", "couples", "configurations", "menus",
             "user_roles"}
    BY DEF Keys
  <1>2. CASE m \notin T
    BY <1>2 DEF KeysOf
  <1>3. CASE m \in T
    <2>1. KeysOf(m) = Keys[m]
      BY <1>3 DEF KeysOf
    <2>2. CASE m = "users"
      <3>1. PICK a, b, c : Keys["users"] = <<a, b, c>>
        BY DEF Keys
      <3>2. <<a, b, c>> \in Seq({a, b, c})
        OBVIOUS
      <3> QED BY <2>1, <2>2, <3>1, <3>2
    <2>3. CASE m = "roles"
      BY <2>1, <2>3, OneLongSequence DEF Keys
    <2>4. CASE m = "nodes"
      <3>1. PICK a, b : Keys["nodes"] = <<a, b>>
        BY DEF Keys
      <3>2. <<a, b>> \in Seq({a, b})
        OBVIOUS
      <3> QED BY <2>1, <2>4, <3>1, <3>2
    <2>5. CASE m = "contacts"
      BY <2>1, <2>5, OneLongSequence DEF Keys
    <2>6. CASE m = "couples"
      BY <2>1, <2>6, OneLongSequence DEF Keys
    <2>7. CASE m = "configurations"
      BY <2>1, <2>7, OneLongSequence DEF Keys
    <2>8. CASE m = "menus"
      BY <2>1, <2>8, OneLongSequence DEF Keys
    <2>9. CASE m = "user_roles"
      BY <2>1, <2>9, OneLongSequence DEF Keys
    <2> QED BY <1>1, <1>3, <2>2, <2>3, <2>4, <2>5, <2>6, <2>7, <2>8, <2>9
  <1> QED BY <1>2, <1>3

\* The statements of a migration: its table, and then its keys in their order.
LEMMA HowMany ==
  ASSUME NEW m
  PROVE  /\ Len(KeysOf(m)) \in Nat
         /\ m \notin DOMAIN Migrated => Len(Statements(m)) = 0
         /\ m \in DOMAIN Migrated => Len(Statements(m)) = Len(KeysOf(m)) + 1
  <1>1. PICK S : KeysOf(m) \in Seq(S)
    BY KeysAreSequences
  <1> QED BY <1>1 DEF Statements

LEMMA FieldsOf ==
  ASSUME NEW d, NEW n, NEW o, NEW s, s = [does |-> d, name |-> n, on |-> o]
  PROVE  s.does = d /\ s.name = n /\ s.on = o
  OBVIOUS

LEMMA FirstStatement ==
  ASSUME NEW m \in DOMAIN Migrated
  PROVE  Statements(m)[1].does = "table" /\ Statements(m)[1].name = m
  <1>1. PICK S : KeysOf(m) \in Seq(S)
    BY KeysAreSequences
  <1>2. Statements(m)[1] = [does |-> "table", name |-> m, on |-> {}]
    BY <1>1 DEF Statements
  <1> QED BY <1>2

LEMMA LaterStatement ==
  ASSUME NEW m \in DOMAIN Migrated, NEW i \in 1 .. Len(KeysOf(m))
  PROVE  /\ Statements(m)[i + 1].does = "key"
         /\ Statements(m)[i + 1].name = KeysOf(m)[i].name
         /\ Statements(m)[i + 1].on = KeysOf(m)[i].on
  <1> DEFINE head == [does |-> "table", name |-> m, on |-> {}]
             key(j) == [does |-> "key", name |-> KeysOf(m)[j].name, on |-> KeysOf(m)[j].on]
             n == Len(KeysOf(m))
             tail == [j \in 1 .. n |-> key(j)]
  <1>1. Statements(m) = <<head>> \o tail /\ n \in Nat
    BY HowMany DEF Statements
  <1> HIDE DEF n, key, head
  <1>2. \A j \in 1 .. n : (<<head>> \o tail)[j + 1] = key(j)
    BY <1>1
  <1> DEFINE s == Statements(m)[i + 1]
             k == KeysOf(m)[i]
  <1>3. s = [does |-> "key", name |-> k.name, on |-> k.on]
    BY <1>1, <1>2, Zenon DEF n, key
  <1> HIDE DEF s, k
  <1>4. s.does = "key" /\ s.name = k.name /\ s.on = k.on
    BY <1>3, FieldsOf
  <1> QED BY <1>4 DEF s, k

LEMMA OneOfThem ==
  ASSUME NEW m, NEW n \in Nat \ {0}, n <= Len(Statements(m))
  PROVE  /\ m \in DOMAIN Migrated
         /\ n = 1 \/ (n - 1 \in 1 .. Len(KeysOf(m)) /\ n = (n - 1) + 1)
  BY HowMany

\* What a command takes from the kind of its next statement.
LEMMA NextIsTable ==
  ASSUME NEW m, NEW n \in Nat \ {0}, n <= Len(Statements(m)), Statements(m)[n].does = "table"
  PROVE  m \in DOMAIN Migrated /\ n = 1 /\ Statements(m)[n].name = m
  <1>1. m \in DOMAIN Migrated
    BY OneOfThem, Zenon
  <1>2. n = 1 \/ (n - 1 \in 1 .. Len(KeysOf(m)) /\ n = (n - 1) + 1)
    BY OneOfThem, Zenon
  <1>3. CASE n = 1
    <2>1. Statements(m)[n].name = m
      BY <1>1, <1>3, FirstStatement, Zenon
    <2> QED BY <1>1, <1>3, <2>1
  <1>4. CASE n - 1 \in 1 .. Len(KeysOf(m)) /\ n = (n - 1) + 1
    <2>1. Statements(m)[n].does = "key"
      BY <1>1, <1>4, LaterStatement, Zenon
    <2> QED BY <2>1
  <1> QED BY <1>2, <1>3, <1>4

LEMMA NextIsKey ==
  ASSUME NEW m, NEW n \in Nat \ {0}, n <= Len(Statements(m)), Statements(m)[n].does = "key"
  PROVE  /\ m \in DOMAIN Migrated
         /\ n - 1 \in 1 .. Len(KeysOf(m))
         /\ Statements(m)[n].name = KeysOf(m)[n - 1].name
         /\ Statements(m)[n].on = KeysOf(m)[n - 1].on
  <1>1. m \in DOMAIN Migrated
    BY OneOfThem, Zenon
  <1>2. n = 1 \/ (n - 1 \in 1 .. Len(KeysOf(m)) /\ n = (n - 1) + 1)
    BY OneOfThem, Zenon
  <1>3. CASE n = 1
    <2>1. Statements(m)[n].does = "table"
      BY <1>1, <1>3, FirstStatement, Zenon
    <2> QED BY <2>1
  <1>4. CASE n - 1 \in 1 .. Len(KeysOf(m)) /\ n = (n - 1) + 1
    <2>1. /\ Statements(m)[n].name = KeysOf(m)[n - 1].name
          /\ Statements(m)[n].on = KeysOf(m)[n - 1].on
      BY <1>1, <1>4, LaterStatement, Zenon
    <2> QED BY <1>1, <1>4, <2>1
  <1> QED BY <1>2, <1>3, <1>4

-----------------------------------------------------------------------------
(* RecordedIsComplete.                                                     *)

\* With made the makers of the tables and have the keys there are: a table is
\* there, what a migration makes is, what its statements before the n-th make is.
There(made, t) == made[t] # "none"

Complete(made, have, m) ==
  There(made, m) /\ \A i \in 1 .. Len(KeysOf(m)) : KeysOf(m)[i].name \in have[m]

Done(made, have, m, n) ==
  /\ n > 1 => There(made, m)
  /\ \A i \in 1 .. Len(KeysOf(m)) : i + 1 < n => KeysOf(m)[i].name \in have[m]

LEMMA NothingDone ==
  ASSUME NEW made, NEW have, NEW m
  PROVE  Done(made, have, m, 1)
  BY DEF Done

LEMMA TableDone ==
  ASSUME NEW made, NEW have, NEW m, There(made, m)
  PROVE  Done(made, have, m, 2)
  BY DEF Done

LEMMA KeyDone ==
  ASSUME NEW made, NEW have, NEW more, NEW m, NEW n \in Nat, n - 1 \in 1 .. Len(KeysOf(m)),
         Done(made, have, m, n), There(made, m),
         more[m] = have[m] \cup {KeysOf(m)[n - 1].name}
  PROVE  Done(made, more, m, n + 1)
  BY DEF Done

LEMMA AllDone ==
  ASSUME NEW made, NEW have, NEW m \in DOMAIN Migrated, NEW n \in Nat,
         ~ (n <= Len(Statements(m))), Done(made, have, m, n)
  PROVE  Complete(made, have, m)
  BY HowMany DEF Done, Complete

\* Tables and keys that are there stay there.
Grows(t) == There(maker, t) => There(maker', t) /\ keys[t] \subseteq keys'[t]

LEMMA GrowingStaysDone ==
  ASSUME NEW m, Grows(m), NEW n \in Nat
  PROVE  /\ Complete(maker, keys, m) => Complete(maker', keys', m)
         /\ Done(maker, keys, m, n) => Done(maker', keys', m, n)
  <1>1. Complete(maker, keys, m) => Complete(maker', keys', m)
    BY DEF Grows, Complete
  <1>2. Done(maker, keys, m, n) => Done(maker', keys', m, n)
    <2>1. CASE There(maker, m)
      BY <2>1 DEF Grows, Done
    <2>2. CASE ~ There(maker, m)
      <3>1. ASSUME Done(maker, keys, m, n), NEW i \in 1 .. Len(KeysOf(m)), i + 1 < n PROVE FALSE
        BY <2>2, <3>1 DEF Done
      <3> QED BY <2>2, <3>1 DEF Done
    <2> QED BY <2>1, <2>2
  <1> QED BY <1>1, <1>2

Shape(r) == /\ r = [does |-> r.does, at |-> r.at, next |-> r.next, failed |-> r.failed]
            /\ r.next \in Nat \ {0}

WellFormed ==
  /\ maker \in [Tables -> {"none", "migration", "model"}]
  /\ keys = [t \in Tables |-> keys[t]]
  /\ Shape(command)

\* What a command has done of its migration: of an undo, nothing before its second
\* statement, and so when it fails.
Progress(r) ==
  /\ r.does = "up" /\ r.at \in DOMAIN Migrated => Done(maker, keys, r.at, r.next)
  /\ r.does = "undo" /\ r.failed => r.next = 1

\* A recorded migration is complete, but for one whose undo is under way.
Undone(r, m) == r.does = "undo" /\ r.at = m /\ r.next # 1
StaysComplete(r) ==
  \A m \in recorded \ cutUndo :
    m \in DOMAIN Migrated /\ ~ Undone(r, m) => Complete(maker, keys, m)

RInv == WellFormed /\ Progress(command) /\ StaysComplete(command)

LEMMA MigratedAreTables == DOMAIN Migrated \subseteq Tables
  BY DEF Tables

LEMMA InitRInv == Init => RInv
  <1> SUFFICES ASSUME Init PROVE RInv
    OBVIOUS
  <1>1. /\ maker \in [Tables -> {"none", "migration", "model"}]
        /\ keys = [t \in Tables |-> keys[t]]
    BY DEF Init
  <1>2. /\ command = [does |-> "nothing", at |-> command.at, next |-> 1, failed |-> FALSE]
        /\ command.does = "nothing" /\ command.next = 1
    BY DEF Init, Nothing
  <1>3. WellFormed
    BY <1>1, <1>2 DEF WellFormed, Shape
  <1> QED BY <1>2, <1>3 DEF Init, RInv, Progress, StaysComplete

\* The commands that the actions make.
LEMMA NothingIs ==
  Shape(Nothing) /\ Nothing.next = 1 /\ Nothing.does = "nothing" /\ ~ Nothing.failed
  <1> DEFINE x == "nothing"
             y == Order[1]
  <1>1. Nothing = [does |-> x, at |-> y, next |-> 1, failed |-> FALSE]
    BY DEF Nothing
  <1> HIDE DEF x, y
  <1>2. Shape(Nothing) /\ Nothing.next = 1 /\ Nothing.does = x /\ ~ Nothing.failed
    BY <1>1 DEF Shape
  <1> QED BY <1>2 DEF x

Started(does, at) == [Nothing EXCEPT !.does = does, !.at = at]

LEMMA StartedIs ==
  ASSUME NEW does, NEW at, NEW r, r = Started(does, at)
  PROVE  Shape(r) /\ r.next = 1 /\ r.does = does /\ r.at = at /\ ~ r.failed
  BY NothingIs DEF Shape, Started

LEMMA AdvancedIs ==
  ASSUME Shape(command), NEW r, r = Advanced
  PROVE  Shape(r) /\ r.next = command.next + 1 /\ r.does = command.does /\ r.at = command.at
         /\ r.failed = command.failed
  BY DEF Advanced, Shape

LEMMA BrokenIs ==
  ASSUME Shape(command), NEW r, r = Broken
  PROVE  Shape(r) /\ r.next = command.next /\ r.does = command.does /\ r.at = command.at
  BY DEF Broken, Shape

\* A command that starts: it has done nothing yet, and there was none.
LEMMA StartKeepsRInv ==
  ASSUME RInv, UNCHANGED <<maker, keys, recorded, cutUndo>>,
         command.does = "nothing" \/ command.failed,
         Shape(command'), command'.next = 1
  PROVE  RInv'
  <1>1. WellFormed'
    BY DEF RInv, WellFormed
  <1>2. Progress(command)'
    BY NothingDone DEF Progress
  <1>3. \A m : ~ Undone(command, m)
    BY DEF RInv, Progress, Undone
  <1>4. StaysComplete(command)'
    BY <1>3 DEF RInv, StaysComplete
  <1> QED BY <1>1, <1>2, <1>4 DEF RInv

LEMMA StartUpKeepsRInv == RInv /\ (StartUp \/ StartUndo \/ Report) => RInv'
  <1> SUFFICES ASSUME RInv, StartUp \/ StartUndo \/ Report PROVE RInv'
    OBVIOUS
  <1>1. /\ UNCHANGED <<maker, keys, recorded, cutUndo>>
        /\ command.does = "nothing" \/ command.failed
    BY DEF StartUp, StartUndo, Report
  <1>2. Shape(command') /\ command'.next = 1
    <2>1. \/ command' = Nothing
          \/ \E does, at : command' = Started(does, at)
      BY DEF StartUp, StartUndo, Report, Started
    <2>2. ASSUME NEW does, NEW at, command' = Started(does, at)
          PROVE  Shape(command') /\ command'.next = 1
      BY <2>2, StartedIs
    <2> QED BY <2>1, <2>2, NothingIs
  <1> QED BY <1>1, <1>2, StartKeepsRInv

\* A step that only adds tables and keys, and writes no name.
LEMMA GrowingKeepsRInv ==
  ASSUME RInv, UNCHANGED <<recorded, cutUndo>>, \A t \in Tables : Grows(t), WellFormed',
         Progress(command)', \A m : Undone(command, m) => Undone(command', m)
  PROVE  RInv'
  <1>1. StaysComplete(command)'
    <2> SUFFICES ASSUME NEW m \in recorded \ cutUndo, m \in DOMAIN Migrated, ~ Undone(command', m)
                 PROVE  Complete(maker', keys', m)
      BY DEF StaysComplete
    <2>1. Complete(maker, keys, m)
      BY DEF RInv, StaysComplete
    <2> QED BY <2>1, GrowingStaysDone, MigratedAreTables
  <1> QED BY <1>1 DEF RInv

LEMMA SameGrows ==
  ASSUME UNCHANGED <<maker, keys>>, NEW t
  PROVE  Grows(t)
  BY DEF Grows

LEMMA CreateTableKeepsRInv == RInv /\ CreateTable => RInv'
  <1> SUFFICES ASSUME RInv, CreateTable PROVE RInv'
    OBVIOUS
  <1> DEFINE t == command.at
             n == command.next
  <1>1. /\ command.does = "up" /\ UNCHANGED <<keys, recorded, cutUndo>>
        /\ n <= Len(Statements(t)) /\ Statements(t)[n].does = "table"
    BY DEF CreateTable, HasStatement, NextStatement
  <1>2. Shape(command) /\ n \in Nat \ {0}
    BY DEF RInv, WellFormed, Shape
  <1>3. t \in DOMAIN Migrated /\ n = 1 /\ NextStatement.name = t
    BY <1>1, <1>2, NextIsTable, Zenon DEF NextStatement
  <1>4. t \in Tables
    BY <1>3, MigratedAreTables
  <1>5. \A m : ~ Undone(command, m)
    BY <1>1 DEF Undone
  <1>6. CASE command' = Broken /\ UNCHANGED maker
    <2>1. Shape(command') /\ command'.does = "up" /\ command'.next = 1
      BY <1>1, <1>2, <1>3, <1>6, BrokenIs
    <2>2. WellFormed' /\ Progress(command)'
      BY <1>1, <1>6, <2>1, NothingDone DEF RInv, WellFormed, Progress
    <2> QED BY <1>1, <1>5, <1>6, <2>2, SameGrows, GrowingKeepsRInv
  <1>7. ASSUME command' = Advanced, maker' \in [Tables -> {"none", "migration", "model"}],
               There(maker', t), \A u \in Tables : There(maker, u) => There(maker', u)
        PROVE  RInv'
    <2>1. Shape(command') /\ command'.does = "up" /\ command'.next = 2 /\ command'.at = t
      <3>1. 1 + 1 = 2
        OBVIOUS
      <3> QED BY <1>1, <1>2, <1>3, <1>7, <3>1, AdvancedIs
    <2>2. WellFormed'
      BY <1>1, <1>7, <2>1 DEF RInv, WellFormed
    <2>3. Progress(command)'
      BY <1>7, <2>1, TableDone DEF Progress
    <2>4. \A u \in Tables : Grows(u)
      BY <1>1, <1>7 DEF Grows
    <2> QED BY <1>1, <1>5, <2>2, <2>3, <2>4, GrowingKeepsRInv
  <1>8. CASE command' = Advanced /\ UNCHANGED maker /\ Exists(t)
    BY <1>7, <1>8 DEF Exists, There, RInv, WellFormed
  <1>9. CASE command' = Advanced /\ maker' = [maker EXCEPT ![t] = "migration"]
    BY <1>4, <1>7, <1>9 DEF There, RInv, WellFormed
  <1> QED BY <1>3, <1>6, <1>8, <1>9 DEF CreateTable

LEMMA AddKeyKeepsRInv == RInv /\ AddKey => RInv'
  <1> SUFFICES ASSUME RInv, AddKey PROVE RInv'
    OBVIOUS
  <1> DEFINE t == command.at
             n == command.next
  <1>1. /\ command.does = "up" /\ UNCHANGED <<maker, recorded, cutUndo>>
        /\ n <= Len(Statements(t)) /\ Statements(t)[n].does = "key"
    BY DEF AddKey, HasStatement, NextStatement
  <1>2. Shape(command) /\ n \in Nat \ {0}
    BY DEF RInv, WellFormed, Shape
  <1>3. /\ t \in DOMAIN Migrated
        /\ n - 1 \in 1 .. Len(KeysOf(t))
        /\ NextStatement.name = KeysOf(t)[n - 1].name
    BY <1>1, <1>2, NextIsKey, Zenon DEF NextStatement
  <1>4. t \in Tables
    BY <1>3, MigratedAreTables
  <1>5. \A m : ~ Undone(command, m)
    BY <1>1 DEF Undone
  <1>6. Done(maker, keys, t, n)
    BY <1>1, <1>3 DEF RInv, Progress
  <1>7. CASE command' = Broken /\ UNCHANGED keys
    <2>1. /\ Shape(command') /\ command'.does = "up" /\ command'.next = n /\ command'.at = t
      BY <1>1, <1>2, <1>7, BrokenIs
    <2>2. WellFormed' /\ Progress(command)'
      BY <1>1, <1>6, <1>7, <2>1 DEF RInv, WellFormed, Progress
    <2> QED BY <1>1, <1>5, <1>7, <2>2, SameGrows, GrowingKeepsRInv
  <1>8. CASE /\ Exists(t) /\ command' = Advanced
             /\ keys' = [keys EXCEPT ![t] = @ \cup {NextStatement.name}]
    <2>1. Shape(command') /\ command'.does = "up" /\ command'.next = n + 1 /\ command'.at = t
      BY <1>1, <1>2, <1>8, AdvancedIs
    <2>2. keys = [u \in Tables |-> keys[u]]
      BY DEF RInv, WellFormed
    <2>3. /\ keys' = [u \in Tables |-> keys'[u]]
          /\ keys'[t] = keys[t] \cup {KeysOf(t)[n - 1].name}
          /\ \A u \in Tables : keys[u] \subseteq keys'[u]
      BY <1>3, <1>4, <1>8, <2>2
    <2>4. There(maker, t)
      BY <1>8 DEF Exists, There
    <2>5. Done(maker, keys', t, n + 1)
      BY <1>2, <1>3, <1>6, <2>3, <2>4, KeyDone, Zenon
    <2>6. WellFormed'
      BY <1>1, <2>1, <2>3 DEF RInv, WellFormed
    <2>7. Progress(command)'
      BY <1>1, <2>1, <2>5 DEF Progress
    <2>8. \A u \in Tables : Grows(u)
      BY <1>1, <2>3 DEF Grows
    <2> QED BY <1>1, <1>5, <2>6, <2>7, <2>8, GrowingKeepsRInv
  <1> QED BY <1>7, <1>8 DEF AddKey

LEMMA RecordKeepsRInv == RInv /\ Record => RInv'
  <1> SUFFICES ASSUME RInv, Record PROVE RInv'
    OBVIOUS
  <1> DEFINE t == command.at
             n == command.next
  <1>1. /\ command.does = "up" /\ UNCHANGED <<maker, keys, cutUndo>>
        /\ ~ (n <= Len(Statements(t)))
        /\ recorded' = recorded \cup {t}
    BY DEF Record, HasStatement
  <1>2. n \in Nat
    BY DEF RInv, WellFormed, Shape
  <1>3. t \in DOMAIN Migrated => Complete(maker, keys, t)
    <2>1. t \in DOMAIN Migrated => Done(maker, keys, t, n)
      BY <1>1 DEF RInv, Progress
    <2> QED BY <1>1, <1>2, <2>1, AllDone, Zenon
  <1>4. \A m : ~ Undone(command, m)
    BY <1>1 DEF Undone
  <1>5. Shape(command') /\ command'.next = 1
    <2>1. \/ command' = Nothing
          \/ \E does, at : command' = Started(does, at)
      BY DEF Record, Started
    <2>2. ASSUME NEW does, NEW at, command' = Started(does, at)
          PROVE  Shape(command') /\ command'.next = 1
      BY <2>2, StartedIs
    <2> QED BY <2>1, <2>2, NothingIs
  <1>6. WellFormed' /\ Progress(command)'
    BY <1>1, <1>5, NothingDone DEF RInv, WellFormed, Progress
  <1>7. StaysComplete(command)'
    BY <1>1, <1>3, <1>4 DEF RInv, StaysComplete
  <1> QED BY <1>6, <1>7 DEF RInv

LEMMA DropKeepsRInv == RInv /\ Drop => RInv'
  <1> SUFFICES ASSUME RInv, Drop PROVE RInv'
    OBVIOUS
  <1> DEFINE t == command.at
  <1>1. command.does = "undo" /\ command.next = 1 /\ ~ command.failed /\ UNCHANGED <<recorded, cutUndo>>
    BY DEF Drop, Running
  <1>2. Shape(command)
    BY DEF RInv, WellFormed
  <1>3. \A m : ~ Undone(command, m)
    BY <1>1 DEF Undone
  <1>4. \A m \in DOMAIN Migrated : m \in recorded \ cutUndo => Complete(maker, keys, m)
    BY <1>3 DEF RInv, StaysComplete
  <1>5. CASE command' = Broken /\ UNCHANGED <<maker, keys>>
    <2>1. Shape(command') /\ command'.does = "undo" /\ command'.next = 1
      BY <1>1, <1>2, <1>5, BrokenIs
    <2>2. WellFormed' /\ Progress(command)'
      BY <1>5, <2>1 DEF RInv, WellFormed, Progress
    <2> QED BY <1>1, <1>4, <1>5, <2>2 DEF RInv, StaysComplete
  <1>6. CASE /\ command' = Advanced
             /\ \/ t \notin Tables /\ UNCHANGED <<maker, keys>>
                \/ /\ t \in Tables
                   /\ maker' = [maker EXCEPT ![t] = "none"]
                   /\ keys' = [keys EXCEPT ![t] = {}]
    <2>1. /\ Shape(command') /\ command'.does = "undo" /\ command'.next # 1
          /\ command'.at = t /\ ~ command'.failed
      <3>1. 1 + 1 # 1
        OBVIOUS
      <3> QED BY <1>1, <1>2, <1>6, <3>1, AdvancedIs
    <2>2. keys = [u \in Tables |-> keys[u]] /\ maker \in [Tables -> {"none", "migration", "model"}]
      BY DEF RInv, WellFormed
    <2>3. /\ maker' \in [Tables -> {"none", "migration", "model"}]
          /\ \A u \in Tables \ {t} : maker'[u] = maker[u]
      BY <1>6, <2>2
    <2>4. /\ keys' = [u \in Tables |-> keys'[u]]
          /\ \A u \in Tables \ {t} : keys'[u] = keys[u]
      BY <1>6, <2>2
    <2>5. WellFormed' /\ Progress(command)'
      BY <2>1, <2>3, <2>4 DEF WellFormed, Progress
    <2>6. StaysComplete(command)'
      <3> SUFFICES ASSUME NEW m \in recorded \ cutUndo, m \in DOMAIN Migrated, ~ Undone(command', m)
                   PROVE  Complete(maker', keys', m)
        BY <1>1 DEF StaysComplete
      <3>1. m # t /\ m \in Tables
        BY <2>1, MigratedAreTables DEF Undone
      <3> QED BY <1>4, <2>3, <2>4, <3>1 DEF Complete, There
    <2> QED BY <2>5, <2>6 DEF RInv
  <1> QED BY <1>5, <1>6 DEF Drop

LEMMA EndKeepsRInv == RInv /\ (Unrecord \/ Cut) => RInv'
  <1> SUFFICES ASSUME RInv, Unrecord \/ Cut PROVE RInv'
    OBVIOUS
  <1>1. /\ UNCHANGED <<maker, keys>> /\ command' = Nothing
        /\ \A m : m \in recorded' \ cutUndo' =>
              m \in recorded \ cutUndo /\ ~ (command.does = "undo" /\ command.at = m)
    BY DEF Unrecord, Cut
  <1>2. WellFormed' /\ Progress(command)'
    BY <1>1, NothingIs DEF RInv, WellFormed, Progress
  <1>3. StaysComplete(command)'
    BY <1>1 DEF RInv, StaysComplete, Undone
  <1> QED BY <1>2, <1>3 DEF RInv

LEMMA SyncKeepsRInv ==
  ASSUME RInv, NEW t \in DOMAIN Modelled, SyncTable(t)
  PROVE  RInv'
  <1>1. UNCHANGED <<recorded, command, cutUndo>> /\ t \in Tables
    BY DEF SyncTable, Tables
  <1>2. keys = [u \in Tables |-> keys[u]] /\ maker \in [Tables -> {"none", "migration", "model"}]
    BY DEF RInv, WellFormed
  <1>3. CASE UNCHANGED <<maker, keys>>
    BY <1>1, <1>3 DEF RInv, WellFormed, Progress, StaysComplete
  <1>4. CASE /\ maker' = [maker EXCEPT ![t] = IF Exists(t) THEN @ ELSE "model"]
             /\ keys' = [keys EXCEPT ![t] = @ \cup ModelKeys(t)]
    <2>1. /\ keys' = [u \in Tables |-> keys'[u]]
          /\ \A u \in Tables : keys[u] \subseteq keys'[u]
      BY <1>1, <1>2, <1>4
    <2>2. /\ maker' \in [Tables -> {"none", "migration", "model"}]
          /\ \A u \in Tables : There(maker, u) => There(maker', u)
      BY <1>1, <1>2, <1>4 DEF Exists, There
    <2>3. \A u \in Tables : Grows(u)
      BY <2>1, <2>2 DEF Grows
    <2>4. WellFormed'
      BY <1>1, <2>1, <2>2 DEF RInv, WellFormed
    <2>5. Progress(command)'
      <3>1. command.next \in Nat
        BY DEF RInv, WellFormed, Shape
      <3>2. command.at \in DOMAIN Migrated /\ Done(maker, keys, command.at, command.next)
            => Done(maker', keys', command.at, command.next)
        BY <2>3, <3>1, GrowingStaysDone, MigratedAreTables
      <3> QED BY <1>1, <3>2 DEF RInv, Progress
    <2> QED BY <1>1, <2>3, <2>4, <2>5, GrowingKeepsRInv
  <1> QED BY <1>3, <1>4 DEF SyncTable

LEMMA NextRInv == RInv /\ [Next]_vars => RInv'
  <1>1. RInv /\ (StartApplication \/ UNCHANGED vars) => RInv'
    BY DEF StartApplication, vars, RInv, WellFormed, Progress, StaysComplete
  <1> QED BY <1>1, StartUpKeepsRInv, CreateTableKeepsRInv, AddKeyKeepsRInv, RecordKeepsRInv,
             DropKeepsRInv, EndKeepsRInv, SyncKeepsRInv DEF Next

THEOREM MigrationInvariance == Spec => []RInv
  BY InitRInv, NextRInv, PTL DEF Spec

\* Whatever is cut, undone or made by the application meanwhile, a name in
\* SequelizeMeta stands for a table with all its keys, or for an undo that was cut.
THEOREM RecordedIsCompleteHolds == Spec => []RecordedIsComplete
  <1>1. RInv => RecordedIsComplete
    <2> SUFFICES ASSUME RInv, NEW m \in recorded \ cutUndo, m \in DOMAIN Migrated,
                        ~ (command.does = "undo" /\ command.at = m)
                 PROVE  Exists(m) /\ {KeysOf(m)[i].name : i \in DOMAIN KeysOf(m)} \subseteq keys[m]
      BY DEF RecordedIsComplete
    <2>1. Complete(maker, keys, m)
      BY DEF RInv, StaysComplete, Undone
    <2>2. PICK S : KeysOf(m) \in Seq(S)
      BY KeysAreSequences
    <2>3. DOMAIN KeysOf(m) = 1 .. Len(KeysOf(m))
      BY <2>2
    <2> QED BY <2>1, <2>3 DEF Complete, There, Exists
  <1> QED BY <1>1, MigrationInvariance, PTL

-----------------------------------------------------------------------------
(* OnlyKnownDrift.                                                         *)

\* A migration makes the tables it declares and no other.
Makers == \A t \in Tables : maker[t] = "migration" => t \in DOMAIN Migrated

LEMMA NextMakers == RInv /\ Makers /\ [Next]_vars => Makers'
  <1> SUFFICES ASSUME RInv, Makers, [Next]_vars PROVE Makers'
    OBVIOUS
  <1>1. maker \in [Tables -> {"none", "migration", "model"}]
    BY DEF RInv, WellFormed
  <1>2. CASE UNCHANGED maker
    BY <1>2 DEF Makers
  <1>3. CASE CreateTable
    <2>1. /\ command.next <= Len(Statements(command.at))
          /\ Statements(command.at)[command.next].does = "table"
      BY <1>3 DEF CreateTable, HasStatement, NextStatement
    <2>2. command.next \in Nat \ {0}
      BY DEF RInv, WellFormed, Shape
    <2>3. NextStatement.name \in DOMAIN Migrated
      BY <2>1, <2>2, NextIsTable, Zenon DEF NextStatement
    <2> QED BY <1>1, <1>3, <2>3 DEF Makers, CreateTable
  <1>4. CASE Drop
    BY <1>1, <1>4 DEF Makers, Drop
  <1>5. ASSUME NEW t \in DOMAIN Modelled, SyncTable(t) PROVE Makers'
    BY <1>1, <1>5 DEF Makers, SyncTable, Exists
  <1>6. CASE \/ StartUp \/ StartUndo \/ AddKey \/ Record \/ Unrecord \/ Report \/ Cut
             \/ StartApplication \/ UNCHANGED vars
    BY <1>2, <1>6 DEF StartUp, StartUndo, AddKey, Record, Unrecord, Report, Cut,
                      StartApplication, vars
  <1> QED BY <1>3, <1>4, <1>5, <1>6 DEF Next

\* What the services need of a table is in its declaration d.
Serves(d, t) ==
  /\ Modelled[t].columns \subseteq d.columns
  /\ t \in DOMAIN Named => Named[t] \subseteq d.columns
  /\ t \in DOMAIN Brings => d.needs \subseteq Brings[t] /\ Modelled[t].needs \subseteq Brings[t]

LEMMA ServingWorks ==
  ASSUME NEW t, Serves(Declared(t), t)
  PROVE  Works(t)
  BY DEF Works, Serves

\* The tables on which migrations and models agree.
LEMMA UsersServe == Serves(Modelled["users"], "users") /\ Serves(Migrated["users"], "users")
  BY DEF Serves, Modelled, Migrated, UserModel, UsersColumns, Named, Brings

LEMMA RolesServe == Serves(Modelled["roles"], "roles") /\ Serves(Migrated["roles"], "roles")
  BY DEF Serves, Modelled, Migrated, RolesModel, RolesColumns, Named, Brings

LEMMA RolePermissionsServe ==
  /\ Serves(Modelled["role_permissions"], "role_permissions")
  /\ Serves(Migrated["role_permissions"], "role_permissions")
  BY DEF Serves, Modelled, Migrated, RolePermissionsModel, RolePermissionsColumns, Named, Brings

LEMMA UserRolesServe ==
  /\ Serves(Modelled["user_roles"], "user_roles")
  /\ Serves(Migrated["user_roles"], "user_roles")
  BY DEF Serves, Modelled, Migrated, UserRolesModel, UserRolesColumns, Named, Brings

LEMMA PermissionsServe == Serves(Modelled["permissions"], "permissions")
  BY DEF Serves, Modelled, PermissionsModel, Named, Brings

LEMMA AuditLogsServe == Serves(Modelled["audit_logs"], "audit_logs")
  BY DEF Serves, Modelled, AuditLogModel, Named, Brings

\* A table of another maker than the application is one of the migrations.
LEMMA DeclaredIs ==
  ASSUME WellFormed, Makers, NEW t \in Tables, Exists(t)
  PROVE  \/ Declared(t) = Modelled[t] /\ maker[t] = "model"
         \/ Declared(t) = Migrated[t] /\ maker[t] = "migration" /\ t \in DOMAIN Migrated
  BY DEF WellFormed, Makers, Exists, Declared

\* In whatever order migrations and starts of the application make the tables, no
\* table falls short of what the services ask but the three that are known to.
THEOREM OnlyKnownDriftHolds == Spec => []OnlyKnownDrift
  <1>1. Init => Makers
    BY DEF Init, Makers
  <1>2. RInv /\ Makers => OnlyKnownDrift
    <2> SUFFICES ASSUME RInv, Makers, NEW t \in DOMAIN Modelled, Exists(t), ~ Works(t)
                 PROVE  t \in {"nodes", "couples"} \/ (t = "permissions" /\ maker[t] = "migration")
      BY DEF OnlyKnownDrift
    <2>1. ~ Serves(Declared(t), t)
      BY ServingWorks
    <2>2. t \in Tables /\ WellFormed
      BY DEF Tables, RInv
    <2>3. CASE t \in {"users", "roles", "role_permissions", "user_roles"}
      BY <2>1, <2>2, <2>3, DeclaredIs, UsersServe, RolesServe, RolePermissionsServe, UserRolesServe
    <2>4. CASE t = "permissions"
      BY <2>1, <2>2, <2>4, DeclaredIs, PermissionsServe
    <2>5. CASE t = "audit_logs"
      <3>1. t \notin DOMAIN Migrated
        BY <2>5 DEF Migrated
      <3> QED BY <2>1, <2>2, <2>5, <3>1, DeclaredIs, AuditLogsServe
    <2>6. t \in {"users", "roles", "permissions", "role_permissions", "user_roles", "nodes",
                 "couples", "audit_logs"}
      BY DEF Modelled
    <2> QED BY <2>3, <2>4, <2>5, <2>6
  <1> QED BY <1>1, <1>2, NextMakers, MigrationInvariance, PTL DEF Spec

-----------------------------------------------------------------------------
(* OnlyDisturbedCommandsFail.                                              *)

\* The keys that the statements from the n-th on make are not there yet.
NoneYet(have, m, n) ==
  \A i \in 1 .. Len(KeysOf(m)) : n <= i + 1 => KeysOf(m)[i].name \notin have[m]

\* As long as nothing is cut and the application makes no table of theirs, the
\* migrations that are recorded are the first ones, up is at the next of them and
\* undo at the last, and their tables are there and no others.
MetaInOrder ==
  /\ recorded \subseteq Migrations
  /\ \A k \in Migrations, m \in recorded : Before(k, m) => k \in recorded

CommandInOrder(r) ==
  /\ ~ r.failed
  /\ r.does = "up" => /\ r.at \in Migrations \ recorded
                      /\ \A k \in Migrations : Before(k, r.at) => k \in recorded
                      /\ r.at \in DOMAIN Migrated => NoneYet(keys, r.at, r.next)
  /\ r.does = "undo" => /\ r.at \in recorded
                        /\ \A k \in recorded : ~ Before(r.at, k)
                        /\ r.next # 1 /\ r.at \in DOMAIN Migrated => ~ Exists(r.at)

TablesInOrder(r) ==
  \A t \in DOMAIN Migrated : Exists(t) =>
    maker[t] = "migration" /\ (t \in recorded \/ (r.does = "up" /\ r.at = t /\ r.next # 1))

Orderly == cutUndo = {} /\ MetaInOrder /\ CommandInOrder(command) /\ TablesInOrder(command)

KeysNeedTables == \A t \in Tables : ~ Exists(t) => keys[t] = {}

UInv == KeysNeedTables /\ (disturbed \/ Orderly)

\* The migration of a table comes after those of the tables it refers to.
LEMMA Positions ==
  /\ Order[1] = "users" /\ Order[2] = "roles" /\ Order[3] = "permissions"
  /\ Order[4] = "role_permissions" /\ Order[5] = "branches" /\ Order[6] = "nodes"
  /\ Order[8] = "couples" /\ Order[12] = "user_roles"
  BY DEF Order

LEMMA OrderIsLong == DOMAIN Order = 1 .. 12
  BY DEF Order

LEMMA EarlierIsBefore ==
  ASSUME NEW j \in 1 .. 12, NEW i \in 1 .. j - 1
  PROVE  Order[i] \in Migrations /\ Before(Order[i], Order[j])
  <1>1. i \in DOMAIN Order /\ j \in DOMAIN Order
    BY OrderIsLong
  <1>2. Migrations = {Order[k] : k \in DOMAIN Order}
    BY DEF Migrations, ToSet
  <1> QED BY <1>1, <1>2 DEF Before

LEMMA BeforeOf ==
  /\ Before(Order[2], Order[4]) /\ Before(Order[3], Order[4])
  /\ Before(Order[1], Order[6]) /\ Before(Order[5], Order[6])
  /\ Before(Order[1], Order[8]) /\ Before(Order[6], Order[8])
  /\ Before(Order[1], Order[12]) /\ Before(Order[2], Order[12])
  /\ {Order[1], Order[2], Order[3], Order[5], Order[6]} \subseteq Migrations
  <1>1. /\ 2 \in 1 .. 4 - 1 /\ 3 \in 1 .. 4 - 1 /\ 4 \in 1 .. 12
        /\ 1 \in 1 .. 6 - 1 /\ 5 \in 1 .. 6 - 1 /\ 6 \in 1 .. 12
        /\ 1 \in 1 .. 8 - 1 /\ 6 \in 1 .. 8 - 1 /\ 8 \in 1 .. 12
        /\ 1 \in 1 .. 12 - 1 /\ 2 \in 1 .. 12 - 1 /\ 12 \in 1 .. 12
    OBVIOUS
  <1> QED BY <1>1, EarlierIsBefore, Zenon

LEMMA RefsComeBefore ==
  ASSUME NEW m \in DOMAIN Migrated, NEW r \in Migrated[m].refs
  PROVE  r \in DOMAIN Migrated /\ r \in Migrations /\ Before(r, m)
  <1>1. \/ m = "role_permissions" /\ r \in {"permissions", "roles"}
        \/ m = "nodes" /\ r \in {"users", "branches"}
        \/ m = "couples" /\ r \in {"users", "nodes"}
        \/ m = "user_roles" /\ r \in {"users", "roles"}
    BY DEF Migrated
  <1>2. r \in DOMAIN Migrated
    BY <1>1 DEF Migrated
  <1> QED BY <1>1, <1>2, Positions, BeforeOf, Zenon

\* Of the keys of a migration, every one is on columns that the table has, no two
\* have a name in common, and none has a name that the application makes.
Fits(k, t) == k.on \subseteq Migrated[t].columns /\ k.name \notin ModelKeys(t)
AllFit(s, t) == /\ \A i \in 1 .. Len(s) : Fits(s[i], t)
                /\ \A i, j \in 1 .. Len(s) : s[i].name = s[j].name => i = j

LEMMA NoKeyFits ==
  ASSUME NEW t
  PROVE  AllFit(<<>>, t)
  BY DEF AllFit

LEMMA OneKeyFits ==
  ASSUME NEW t, NEW a, Fits(a, t)
  PROVE  AllFit(<<a>>, t)
  BY DEF AllFit

LEMMA TwoKeysFit ==
  ASSUME NEW t, NEW a, NEW b, Fits(a, t), Fits(b, t), a.name # b.name
  PROVE  AllFit(<<a, b>>, t)
  BY DEF AllFit

LEMMA ThreeKeysFit ==
  ASSUME NEW t, NEW a, NEW b, NEW c, Fits(a, t), Fits(b, t), Fits(c, t),
         a.name # b.name, a.name # c.name, b.name # c.name
  PROVE  AllFit(<<a, b, c>>, t)
  BY DEF AllFit

LEMMA KeysFit ==
  ASSUME NEW m \in DOMAIN Migrated
  PROVE  AllFit(KeysOf(m), m)
  <1>1. m \in DOMAIN Keys => KeysOf(m) = Keys[m]
    BY DEF KeysOf
  <1>2. CASE m = "users"
    <2>1. PICK a, b, c : /\ Keys["users"] = <<a, b, c>>
                        /\ a.name = "idx_users_ascii_name" /\ a.on = {"ascii_name"}
                        /\ b.name = "idx_users_phone" /\ b.on = {"phone"}
                        /\ c.name = "idx_users_email" /\ c.on = {"email"}
      BY DEF Keys
    <2>2. Fits(a, "users") /\ Fits(b, "users") /\ Fits(c, "users")
      BY <2>1 DEF Fits, Migrated, UsersColumns, ModelKeys
    <2>3. a.name # b.name /\ a.name # c.name /\ b.name # c.name
      BY <2>1
    <2>4. AllFit(<<a, b, c>>, "users")
      BY <2>2, <2>3, ThreeKeysFit
    <2>5. m \in DOMAIN Keys
      BY <1>2 DEF Keys
    <2> QED BY <1>1, <1>2, <2>1, <2>4, <2>5
  <1>3. CASE m = "roles"
    <2>1. PICK a : Keys["roles"] = <<a>> /\ Fits(a, "roles")
      BY DEF Keys, Fits, Migrated, RolesColumns, ModelKeys
    <2>2. m \in DOMAIN Keys
      BY <1>3 DEF Keys
    <2> QED BY <1>1, <1>3, <2>1, <2>2, OneKeyFits
  <1>4. CASE m = "permissions"
    <2>1. m \notin DOMAIN Keys
      BY <1>4 DEF Keys
    <2> QED BY <2>1, NoKeyFits DEF KeysOf
  <1>5. CASE m = "role_permissions"
    <2>1. m \notin DOMAIN Keys
      BY <1>5 DEF Keys
    <2> QED BY <2>1, NoKeyFits DEF KeysOf
  <1>6. CASE m = "branches"
    <2>1. m \notin DOMAIN Keys
      BY <1>6 DEF Keys
    <2> QED BY <2>1, NoKeyFits DEF KeysOf
  <1>7. CASE m = "nodes"
    <2>1. PICK a, b : /\ Keys["nodes"] = <<a, b>>
                     /\ a.name = "idx_nodes_father_id" /\ a.on = {"father_id"}
                     /\ b.name = "idx_nodes_user_id" /\ b.on = {"user_id"}
      BY DEF Keys
    <2>2. Fits(a, "nodes") /\ Fits(b, "nodes")
      BY <2>1 DEF Fits, Migrated, NodesColumns, ModelKeys
    <2>3. a.name # b.name
      BY <2>1
    <2>4. AllFit(<<a, b>>, "nodes")
      BY <2>2, <2>3, TwoKeysFit
    <2>5. m \in DOMAIN Keys
      BY <1>7 DEF Keys
    <2> QED BY <1>1, <1>7, <2>1, <2>4, <2>5
  <1>8. CASE m = "contacts"
    <2>1. PICK a : Keys["contacts"] = <<a>> /\ Fits(a, "contacts")
      BY DEF Keys, Fits, Migrated, ContactsColumns, ModelKeys
    <2>2. m \in DOMAIN Keys
      BY <1>8 DEF Keys
    <2> QED BY <1>1, <1>8, <2>1, <2>2, OneKeyFits
  <1>9. CASE m = "couples"
    <2>1. PICK a : Keys["couples"] = <<a>> /\ Fits(a, "couples")
      BY DEF Keys, Fits, Migrated, CouplesColumns, ModelKeys
    <2>2. m \in DOMAIN Keys
      BY <1>9 DEF Keys
    <2> QED BY <1>1, <1>9, <2>1, <2>2, OneKeyFits
  <1>10. CASE m = "configurations"
    <2>1. PICK a : Keys["configurations"] = <<a>> /\ Fits(a, "configurations")
      BY DEF Keys, Fits, Migrated, ConfigurationsColumns, ModelKeys
    <2>2. m \in DOMAIN Keys
      BY <1>10 DEF Keys
    <2> QED BY <1>1, <1>10, <2>1, <2>2, OneKeyFits
  <1>11. CASE m = "menus"
    <2>1. PICK a : Keys["menus"] = <<a>> /\ Fits(a, "menus")
      BY DEF Keys, Fits, Migrated, MenusColumns, ModelKeys
    <2>2. m \in DOMAIN Keys
      BY <1>11 DEF Keys
    <2> QED BY <1>1, <1>11, <2>1, <2>2, OneKeyFits
  <1>12. CASE m = "user_roles"
    <2>1. PICK a : Keys["user_roles"] = <<a>> /\ Fits(a, "user_roles")
      BY DEF Keys, Fits, Migrated, UserRolesColumns, ModelKeys
    <2>2. m \in DOMAIN Keys
      BY <1>12 DEF Keys
    <2> QED BY <1>1, <1>12, <2>1, <2>2, OneKeyFits
  <1>13. m \in {"users", "roles", "permissions", "role_permissions", "branches", "nodes", "contacts",
               "couples", "configurations", "menus", "user_roles"}
    BY DEF Migrated
  <1> QED BY <1>2, <1>3, <1>4, <1>5, <1>6, <1>7, <1>8, <1>9, <1>10, <1>11, <1>12, <1>13

\* As long as all is orderly, the tables of the recorded migrations are there while
\* no undo is under way, and every table is as its migration declares it.
LEMMA RecordedAreThere ==
  ASSUME RInv, Orderly, command.does # "undo", NEW m \in recorded, m \in DOMAIN Migrated
  PROVE  Exists(m)
  BY DEF RInv, Orderly, StaysComplete, Undone, Complete, There, Exists

LEMMA DeclaredByMigration ==
  ASSUME Orderly, NEW m \in DOMAIN Migrated, Exists(m)
  PROVE  Declared(m) = Migrated[m]
  BY DEF Orderly, TablesInOrder, Declared

LEMMA OthersAreApart ==
  ASSUME RInv, Makers, NEW u \in Tables, u \notin DOMAIN Migrated, Exists(u)
  PROVE  Declared(u).refs = {}
  <1>1. u = "audit_logs"
    BY DEF Tables, Migrated, Modelled
  <1>2. maker[u] = "model"
    BY DEF RInv, WellFormed, Makers, Exists
  <1>3. Declared(u) = AuditLogModel
    BY <1>1, <1>2 DEF Declared, Modelled
  <1> QED BY <1>3 DEF AuditLogModel

\* What up takes for granted of the migration it starts with.
LEMMA FirstIsInOrder ==
  ASSUME NEW m \in Firsts(Migrations \ recorded'), command' = Started("up", m),
         m \in DOMAIN Migrated => keys'[m] = {}
  PROVE  CommandInOrder(command)'
  <1>1. command'.does = "up" /\ command'.at = m /\ ~ command'.failed
    BY StartedIs
  <1>2. m \in Migrations \ recorded' /\ \A k \in Migrations : Before(k, m) => k \in recorded'
    BY DEF Firsts
  <1>3. m \in DOMAIN Migrated => NoneYet(keys', m, command'.next)
    BY DEF NoneYet
  <1> QED BY <1>1, <1>2, <1>3 DEF CommandInOrder

LEMMA StartIsOrderly == RInv /\ KeysNeedTables /\ Orderly /\ (StartUp \/ StartUndo) => Orderly'
  <1> SUFFICES ASSUME RInv, KeysNeedTables, Orderly, StartUp \/ StartUndo PROVE Orderly'
    OBVIOUS
  <1>1. UNCHANGED <<maker, keys, recorded, cutUndo>> /\ command.does = "nothing"
    BY DEF StartUp, StartUndo
  <1>2. cutUndo' = {} /\ MetaInOrder'
    BY <1>1 DEF Orderly, MetaInOrder
  <1>3. \A t \in DOMAIN Migrated : Exists(t) => maker[t] = "migration" /\ t \in recorded
    BY <1>1 DEF Orderly, TablesInOrder
  <1>4. TablesInOrder(command)'
    BY <1>1, <1>3 DEF TablesInOrder, Exists
  <1>5. CommandInOrder(command)'
    <2>1. CASE StartUp
      <3>1. PICK m \in Firsts(Migrations \ recorded) : command' = Started("up", m)
        BY <2>1 DEF StartUp, Started
      <3>2. m \in DOMAIN Migrated => ~ Exists(m)
        BY <1>3 DEF Firsts
      <3>3. m \in DOMAIN Migrated => keys'[m] = {}
        BY <1>1, <3>2, MigratedAreTables DEF KeysNeedTables
      <3> QED BY <1>1, <3>1, <3>3, FirstIsInOrder
    <2>2. CASE StartUndo
      <3>1. PICK m \in Lasts(recorded) : command' = Started("undo", m)
        BY <2>2 DEF StartUndo, Started
      <3>2. command'.does = "undo" /\ command'.at = m /\ command'.next = 1 /\ ~ command'.failed
        BY <3>1, StartedIs
      <3> QED BY <1>1, <3>2 DEF CommandInOrder, Lasts
    <2> QED BY <2>1, <2>2
  <1> QED BY <1>2, <1>4, <1>5 DEF Orderly

LEMMA CreateTableIsOrderly == RInv /\ KeysNeedTables /\ Orderly /\ CreateTable => Orderly'
  <1> SUFFICES ASSUME RInv, KeysNeedTables, Orderly, CreateTable PROVE Orderly'
    OBVIOUS
  <1> DEFINE t == command.at
             n == command.next
  <1>1. /\ command.does = "up" /\ UNCHANGED <<keys, recorded, cutUndo>> /\ ~ command.failed
        /\ n <= Len(Statements(t)) /\ Statements(t)[n].does = "table"
    BY DEF CreateTable, HasStatement, NextStatement, Running
  <1>2. Shape(command) /\ n \in Nat \ {0}
    BY DEF RInv, WellFormed, Shape
  <1>3. t \in DOMAIN Migrated /\ n = 1 /\ NextStatement.name = t
    BY <1>1, <1>2, NextIsTable, Zenon DEF NextStatement
  <1>4. t \in Migrations \ recorded /\ \A k \in Migrations : Before(k, t) => k \in recorded
    BY <1>1 DEF Orderly, CommandInOrder
  <1>5. ~ Exists(t)
    BY <1>3, <1>4 DEF Orderly, TablesInOrder
  <1>6. \A r \in Migrated[t].refs : Exists(r)
    BY <1>1, <1>3, <1>4, RefsComeBefore, RecordedAreThere
  <1>7. command' = Advanced /\ maker' = [maker EXCEPT ![t] = "migration"]
    BY <1>3, <1>5, <1>6 DEF CreateTable
  <1>8. command'.does = "up" /\ command'.at = t /\ ~ command'.failed /\ command'.next # 1
    <2>1. 1 + 1 # 1
      OBVIOUS
    <2> QED BY <1>1, <1>2, <1>3, <1>7, <2>1, AdvancedIs
  <1>9. NoneYet(keys', t, command'.next)
    BY <1>1, <1>3, <1>5, MigratedAreTables DEF KeysNeedTables, NoneYet
  <1>10. CommandInOrder(command)'
    BY <1>1, <1>4, <1>8, <1>9 DEF CommandInOrder
  <1>11. TablesInOrder(command)'
    <2>1. maker \in [Tables -> {"none", "migration", "model"}] /\ t \in Tables
      BY <1>3, MigratedAreTables DEF RInv, WellFormed
    <2>2. \A u \in DOMAIN Migrated \ {t} : maker'[u] = maker[u]
      BY <1>7, <2>1, MigratedAreTables
    <2>3. maker'[t] = "migration"
      BY <1>7, <2>1
    <2> QED BY <1>1, <1>8, <2>2, <2>3 DEF Orderly, TablesInOrder, Exists
  <1> QED BY <1>1, <1>10, <1>11 DEF Orderly, MetaInOrder

LEMMA AddKeyIsOrderly == RInv /\ Orderly /\ AddKey => Orderly'
  <1> SUFFICES ASSUME RInv, Orderly, AddKey PROVE Orderly'
    OBVIOUS
  <1> DEFINE t == command.at
             n == command.next
             s == KeysOf(t)
  <1>1. /\ command.does = "up" /\ UNCHANGED <<maker, recorded, cutUndo>> /\ ~ command.failed
        /\ n <= Len(Statements(t)) /\ Statements(t)[n].does = "key"
    BY DEF AddKey, HasStatement, NextStatement, Running
  <1>2. Shape(command) /\ n \in Nat \ {0}
    BY DEF RInv, WellFormed, Shape
  <1>3. /\ t \in DOMAIN Migrated
        /\ n - 1 \in 1 .. Len(s)
        /\ NextStatement.name = s[n - 1].name
        /\ NextStatement.on = s[n - 1].on
    BY <1>1, <1>2, NextIsKey, Zenon DEF NextStatement
  <1>4. Exists(t)
    <2>1. Done(maker, keys, t, n)
      BY <1>1, <1>3 DEF RInv, Progress
    <2>2. n > 1
      BY <1>2, <1>3
    <2> QED BY <2>1, <2>2, Zenon DEF Done, There, Exists
  <1>5. NoneYet(keys, t, n)
    BY <1>1, <1>3 DEF Orderly, CommandInOrder
  <1>6. AllFit(s, t)
    BY <1>3, KeysFit
  <1>7. s[n - 1].name \notin keys[t]
    <2>1. n <= (n - 1) + 1
      BY <1>2
    <2> QED BY <1>3, <1>5, <2>1, Zenon DEF NoneYet
  <1>8. s[n - 1].on \subseteq Declared(t).columns
    <2>1. Declared(t) = Migrated[t]
      BY <1>3, <1>4, DeclaredByMigration
    <2> QED BY <1>3, <1>6, <2>1, Zenon DEF AllFit, Fits
  <1>9. command' = Advanced /\ keys' = [keys EXCEPT ![t] = @ \cup {s[n - 1].name}]
    BY <1>3, <1>4, <1>7, <1>8 DEF AddKey
  <1>10. /\ command'.does = "up" /\ command'.at = t /\ ~ command'.failed
         /\ command'.next = n + 1
    BY <1>1, <1>2, <1>9, AdvancedIs
  <1>11. NoneYet(keys', t, n + 1)
    <2>1. keys'[t] = keys[t] \cup {s[n - 1].name}
      <3>1. keys = [u \in Tables |-> keys[u]] /\ t \in Tables
        BY <1>3, MigratedAreTables DEF RInv, WellFormed
      <3> QED BY <1>9, <3>1
    <2> QED BY <1>2, <1>3, <1>5, <1>6, <2>1 DEF NoneYet, AllFit
  <1>12. CommandInOrder(command)'
    BY <1>1, <1>10, <1>11 DEF Orderly, CommandInOrder
  <1>13. TablesInOrder(command)'
    <2>1. command'.next # 1
      BY <1>2, <1>10
    <2> QED BY <1>1, <1>10, <2>1 DEF Orderly, TablesInOrder, Exists
  <1> QED BY <1>1, <1>12, <1>13 DEF Orderly, MetaInOrder

LEMMA RecordIsOrderly == RInv /\ KeysNeedTables /\ Orderly /\ Record => Orderly'
  <1> SUFFICES ASSUME RInv, KeysNeedTables, Orderly, Record PROVE Orderly'
    OBVIOUS
  <1> DEFINE t == command.at
  <1>1. /\ command.does = "up" /\ UNCHANGED <<maker, keys, cutUndo>>
        /\ recorded' = recorded \cup {t}
    BY DEF Record
  <1>2. t \in Migrations \ recorded /\ \A k \in Migrations : Before(k, t) => k \in recorded
    BY <1>1 DEF Orderly, CommandInOrder
  <1>3. MetaInOrder'
    BY <1>1, <1>2 DEF Orderly, MetaInOrder
  <1>4. \A u \in DOMAIN Migrated : Exists(u) => maker[u] = "migration" /\ u \in recorded'
    BY <1>1 DEF Orderly, TablesInOrder
  <1>5. TablesInOrder(command)'
    BY <1>1, <1>4 DEF TablesInOrder, Exists
  <1>6. CommandInOrder(command)'
    <2>1. CASE command' = Nothing
      BY <2>1, NothingIs DEF CommandInOrder
    <2>2. CASE \E m \in Firsts(Migrations \ recorded') : command' = Started("up", m)
      <3>1. PICK m \in Firsts(Migrations \ recorded') : command' = Started("up", m)
        BY <2>2
      <3>2. m \in DOMAIN Migrated => ~ Exists(m)
        BY <1>4 DEF Firsts
      <3>3. m \in DOMAIN Migrated => keys'[m] = {}
        BY <1>1, <3>2, MigratedAreTables DEF KeysNeedTables
      <3> QED BY <3>1, <3>3, FirstIsInOrder
    <2> QED BY <2>1, <2>2 DEF Record, Started
  <1> QED BY <1>1, <1>3, <1>5, <1>6 DEF Orderly

\* The last migration is dropped: no table refers to its table any more.
LEMMA DropIsOrderly == RInv /\ Makers /\ Orderly /\ Drop => Orderly'
  <1> SUFFICES ASSUME RInv, Makers, Orderly, Drop PROVE Orderly'
    OBVIOUS
  <1> DEFINE t == command.at
  <1>1. command.does = "undo" /\ command.next = 1 /\ ~ command.failed /\ UNCHANGED <<recorded, cutUndo>>
    BY DEF Drop, Running
  <1>2. t \in recorded /\ \A k \in recorded : ~ Before(t, k)
    BY <1>1 DEF Orderly, CommandInOrder
  <1>3. Shape(command) /\ maker \in [Tables -> {"none", "migration", "model"}]
    BY DEF RInv, WellFormed
  <1>4. ASSUME NEW u \in Tables, Exists(u) PROVE t \notin Declared(u).refs
    <2>1. CASE u \in DOMAIN Migrated
      <3>1. Declared(u) = Migrated[u] /\ u \in recorded
        BY <1>1, <1>4, <2>1, DeclaredByMigration DEF Orderly, TablesInOrder
      <3> QED BY <1>2, <2>1, <3>1, RefsComeBefore
    <2>2. CASE u \notin DOMAIN Migrated
      BY <1>4, <2>2, OthersAreApart
    <2> QED BY <2>1, <2>2
  <1>5. /\ command' = Advanced
        /\ \/ t \notin Tables /\ UNCHANGED maker
           \/ t \in Tables /\ maker' = [maker EXCEPT ![t] = "none"]
    <2>1. ~ \E u \in Tables \ {t} : Exists(u) /\ t \in Declared(u).refs
      BY <1>4
    <2> QED BY <2>1 DEF Drop
  <1>6. command'.does = "undo" /\ command'.at = t /\ ~ command'.failed
    BY <1>1, <1>3, <1>5, AdvancedIs
  <1>7. /\ \A u \in Tables \ {t} : maker'[u] = maker[u]
        /\ t \in Tables => maker'[t] = "none"
    BY <1>3, <1>5
  <1>8. CommandInOrder(command)'
    BY <1>1, <1>2, <1>6, <1>7, MigratedAreTables DEF CommandInOrder, Exists
  <1>9. TablesInOrder(command)'
    BY <1>1, <1>7, MigratedAreTables DEF Orderly, TablesInOrder, Exists
  <1> QED BY <1>1, <1>8, <1>9 DEF Orderly, MetaInOrder

LEMMA UnrecordIsOrderly == RInv /\ Orderly /\ Unrecord => Orderly'
  <1> SUFFICES ASSUME RInv, Orderly, Unrecord PROVE Orderly'
    OBVIOUS
  <1> DEFINE t == command.at
  <1>1. /\ command.does = "undo" /\ command.next # 1 /\ UNCHANGED <<maker, keys>>
        /\ recorded' = recorded \ {t} /\ cutUndo' = cutUndo \ {t} /\ command' = Nothing
    BY DEF Unrecord, Running
  <1>2. /\ \A k \in recorded : ~ Before(t, k)
        /\ t \in DOMAIN Migrated => ~ Exists(t)
    BY <1>1 DEF Orderly, CommandInOrder
  <1>3. MetaInOrder'
    BY <1>1, <1>2 DEF Orderly, MetaInOrder
  <1>4. TablesInOrder(command)'
    BY <1>1, <1>2 DEF Orderly, TablesInOrder, Exists
  <1>5. CommandInOrder(command)'
    BY <1>1, NothingIs DEF CommandInOrder
  <1> QED BY <1>1, <1>3, <1>4, <1>5 DEF Orderly

LEMMA SyncIsOrderly ==
  ASSUME RInv, Orderly, NEW t \in DOMAIN Modelled, SyncTable(t), ~ disturbed'
  PROVE  Orderly'
  <1>1. UNCHANGED <<recorded, command, cutUndo>> /\ t \in Tables
    BY DEF SyncTable, Tables
  <1>2. CASE UNCHANGED <<maker, keys>>
    BY <1>1, <1>2 DEF Orderly, MetaInOrder, CommandInOrder, TablesInOrder, Exists
  <1>3. CASE /\ maker' = [maker EXCEPT ![t] = IF Exists(t) THEN @ ELSE "model"]
             /\ keys' = [keys EXCEPT ![t] = @ \cup ModelKeys(t)]
             /\ ~ (~ Exists(t) /\ t \in DOMAIN Migrated)
    <2>1. keys = [u \in Tables |-> keys[u]] /\ maker \in [Tables -> {"none", "migration", "model"}]
      BY DEF RInv, WellFormed
    <2>2. \A u \in DOMAIN Migrated : maker'[u] = maker[u]
      BY <1>1, <1>3, <2>1, MigratedAreTables
    <2>3. \A u \in DOMAIN Migrated : keys'[u] \subseteq keys[u] \cup ModelKeys(u)
      BY <1>1, <1>3, <2>1, MigratedAreTables
    <2>4. ASSUME NEW m \in DOMAIN Migrated, NEW n, NoneYet(keys, m, n)
          PROVE  NoneYet(keys', m, n)
      <3>1. \A i \in 1 .. Len(KeysOf(m)) : KeysOf(m)[i].name \notin ModelKeys(m)
        BY KeysFit DEF AllFit, Fits
      <3> QED BY <2>3, <2>4, <3>1 DEF NoneYet
    <2>5. CommandInOrder(command)'
      BY <1>1, <2>2, <2>4 DEF Orderly, CommandInOrder, Exists
    <2>6. TablesInOrder(command)'
      BY <1>1, <2>2 DEF Orderly, TablesInOrder, Exists
    <2> QED BY <1>1, <2>5, <2>6 DEF Orderly, MetaInOrder
  <1> QED BY <1>2, <1>3 DEF SyncTable

LEMMA NextOrderly ==
  ASSUME RInv, Makers, KeysNeedTables, Orderly, [Next]_vars, ~ disturbed'
  PROVE  Orderly'
  <1>1. ASSUME StartApplication \/ UNCHANGED vars PROVE Orderly'
    BY <1>1 DEF StartApplication, vars, Orderly, MetaInOrder, CommandInOrder, TablesInOrder, Exists
  <1>2. ~ Report
    BY DEF Report, Orderly, CommandInOrder
  <1>3. ~ Cut
    BY DEF Cut
  <1> QED BY <1>1, <1>2, <1>3, StartIsOrderly, CreateTableIsOrderly, AddKeyIsOrderly, RecordIsOrderly,
             DropIsOrderly, UnrecordIsOrderly, SyncIsOrderly DEF Next

LEMMA NextKeysNeedTables == RInv /\ KeysNeedTables /\ [Next]_vars => KeysNeedTables'
  <1> SUFFICES ASSUME RInv, KeysNeedTables, [Next]_vars PROVE KeysNeedTables'
    OBVIOUS
  <1>1. keys = [u \in Tables |-> keys[u]] /\ maker \in [Tables -> {"none", "migration", "model"}]
    BY DEF RInv, WellFormed
  <1>2. CASE UNCHANGED <<maker, keys>>
    BY <1>2 DEF KeysNeedTables, Exists
  <1>3. CASE CreateTable
    BY <1>1, <1>3 DEF CreateTable, KeysNeedTables, Exists
  <1>4. CASE AddKey
    BY <1>1, <1>4 DEF AddKey, KeysNeedTables, Exists
  <1>5. CASE Drop
    BY <1>1, <1>5 DEF Drop, KeysNeedTables, Exists
  <1>6. ASSUME NEW t \in DOMAIN Modelled, SyncTable(t) PROVE KeysNeedTables'
    BY <1>1, <1>6 DEF SyncTable, KeysNeedTables, Exists
  <1>7. CASE \/ StartUp \/ StartUndo \/ Record \/ Unrecord \/ Report \/ Cut
             \/ StartApplication \/ UNCHANGED vars
    BY <1>2, <1>7 DEF StartUp, StartUndo, Record, Unrecord, Report, Cut, StartApplication, vars
  <1> QED BY <1>3, <1>4, <1>5, <1>6, <1>7 DEF Next

LEMMA OnceDisturbed == disturbed /\ [Next]_vars => disturbed'
  BY DEF Next, vars, StartUp, StartUndo, CreateTable, AddKey, Record, Drop, Unrecord, Report, Cut,
         StartApplication, SyncTable

\* The migrations and their undoing run in their order without an error, as often
\* as it is asked for, unless a command was cut or the application was first.
THEOREM OnlyDisturbedCommandsFailHolds == Spec => []OnlyDisturbedCommandsFail
  <1>1. Init => Makers /\ UInv
    <2> SUFFICES ASSUME Init PROVE Makers /\ UInv
      OBVIOUS
    <2>1. \A t \in Tables : ~ Exists(t) /\ keys[t] = {}
      BY DEF Init, Exists
    <2>2. Makers /\ KeysNeedTables
      BY DEF Init, Makers, KeysNeedTables
    <2>3. CommandInOrder(command)
      BY NothingIs DEF Init, CommandInOrder
    <2>4. TablesInOrder(command)
      BY <2>1, MigratedAreTables DEF TablesInOrder
    <2> QED BY <2>2, <2>3, <2>4 DEF Init, UInv, Orderly, MetaInOrder
  <1>2. RInv /\ Makers /\ UInv /\ [Next]_vars => Makers' /\ UInv'
    BY NextMakers, NextOrderly, NextKeysNeedTables, OnceDisturbed DEF UInv
  <1>3. UInv => OnlyDisturbedCommandsFail
    BY DEF UInv, Orderly, CommandInOrder, OnlyDisturbedCommandsFail
  <1> QED BY <1>1, <1>2, <1>3, MigrationInvariance, PTL DEF Spec
=============================================================================
