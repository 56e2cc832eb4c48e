------------------------------ MODULE ServicesProofs -----------------------------
(***************************************************************************)
(* Proofs about Services: of the generic records, for any number of        *)
(* clients, ids and names; of the walk over the pages of a list, for any   *)
(* members, page size and limit on the pages; and of the linked lists, for *)
(* any data and any size.                                                  *)
(***************************************************************************)
EXTENDS Services, FiniteSetTheorems, SequenceTheorems, TLAPS

-----------------------------------------------------------------------------
(* The invariant.                                                          *)

Ops == {"CREATE", "UPDATE", "DELETE"}

CallStates == {Record!Idle} \cup [at : {"save"}, op : {"UPDATE"}, id : Ids, name : Names]
                \cup [at : {"destroy"}, op : {"DELETE"}, id : Ids, found : BOOLEAN]
                \cup [at : {"log"}, op : Ops, id : Ids, deleted : {0, 1}]

Answers == [status : Nat, changed : BOOLEAN, done : {<<>>} \cup (Ops \X Ids)]

Types == /\ row \in [Ids -> Names \cup {NoName}]
         /\ born \subseteq Ids
         /\ call \in [Clients -> CallStates]
         /\ deletions \in [Ids -> Nat]
         /\ told \in [Clients -> Answers]

\* A call that has taken the row away, and is to say so.
Took(c, id) == call[c].at = "log" /\ call[c].op = "DELETE" /\ call[c].id = id
                 /\ call[c].deleted = 1

\* A row goes once: one call takes it away, before or after it has been told.
GoesOnce ==
  \A id \in Ids :
    /\ deletions[id] \in {0, 1}
    /\ deletions[id] = 1 => row[id] = NoName /\ id \in born /\ \A c \in Clients : ~ Took(c, id)
    /\ \A c \in Clients : Took(c, id) => row[id] = NoName /\ id \in born
    /\ \A c, d \in Clients : Took(c, id) /\ Took(d, id) => c = d

\* A call that ends has its id among those drawn.
DrawnFirst == \A c \in Clients : call[c] # Record!Idle => call[c].id \in born

ToldTrue ==
  \A c \in Clients : /\ told[c].status \in 400..499 => ~ told[c].changed
                     /\ told[c].done # <<>> => told[c].done \in audit

RecordInv == Types /\ GoesOnce /\ DrawnFirst /\ ToldTrue

-----------------------------------------------------------------------------
(* What is answered to what.                                               *)

LEMMA StatusesAre ==
  /\ Record!StatusOf(Record!Http(404)) = 404
  /\ Record!StatusOf(Record!Database("unique")) = 409
  /\ Record!StatusOf(Record!Database("none")) = 500
<1>1. Record!StatusOf(Record!Http(404)) = 404
  BY DEF Record!StatusOf, Record!Filter, Record!Intercept, Record!Http
<1>2. Record!Intercept(Record!Database("unique")) = Record!Http(409)
  BY DEF Record!Intercept, Record!Http, Record!Database, Record!Listed
<1>3. Record!Intercept(Record!Database("none")) = Record!Http(500)
  BY DEF Record!Intercept, Record!Http, Record!Database, Record!Listed
<1>4. Record!Filter(Record!Http(409)) = 409 /\ Record!Filter(Record!Http(500)) = 500
  BY DEF Record!Filter, Record!Http
<1> QED  BY <1>1, <1>2, <1>3, <1>4 DEF Record!StatusOf

LEMMA FailuresAre ==
  \A e \in {Record!Database("too long"), Record!Database("none"), Record!Plain} :
     Record!StatusOf(e) \in Nat
<1>1. Record!Intercept(Record!Database("too long")) = Record!Http(409)
  BY DEF Record!Intercept, Record!Http, Record!Database, Record!Listed
<1>2. Record!Filter(Record!Http(409)) = 409
  BY DEF Record!Filter, Record!Http
<1>3. Record!Intercept(Record!Plain) = Record!TypeError
  BY DEF Record!Intercept, Record!TypeError, Record!Plain
<1>4. Record!Filter(Record!TypeError) = 400
  BY DEF Record!Filter, Record!TypeError
<1>5. 400 \in Nat /\ 409 \in Nat /\ 500 \in Nat
  OBVIOUS
<1>6. Record!StatusOf(Record!Database("too long")) \in Nat
  <2> DEFINE n == 409
  <2>1. n \in Nat
    OBVIOUS
  <2>2. Record!StatusOf(Record!Database("too long")) = n
    BY <1>1, <1>2, Zenon DEF Record!StatusOf
  <2> HIDE DEF n
  <2> QED  BY <2>1, <2>2, Zenon
<1>7. Record!StatusOf(Record!Plain) \in Nat
  BY <1>3, <1>4, <1>5 DEF Record!StatusOf
<1>8. Record!StatusOf(Record!Database("none")) \in Nat
  BY <1>5, StatusesAre
<1> QED  BY <1>6, <1>7, <1>8, Zenon

LEMMA StatusOnly ==
  ASSUME NEW S, NEW a \in [status : Nat, changed : BOOLEAN, done : S], NEW s \in Nat,
         NEW t, t = [a EXCEPT !.status = s]
  PROVE  /\ t \in [status : Nat, changed : BOOLEAN, done : S]
         /\ t.changed = a.changed /\ t.done = a.done
OBVIOUS

LEMMA CallIs ==
  ASSUME NEW k \in CallStates
  PROVE  /\ k.at \in {"idle", "save", "destroy", "log"}
         /\ k.at = "idle" <=> k = Record!Idle
         /\ k.at = "save" => k.op = "UPDATE" /\ k.id \in Ids /\ k.name \in Names
         /\ k.at = "destroy" => k.op = "DELETE" /\ k.id \in Ids /\ k.found \in BOOLEAN
         /\ k.at = "log" => k.op \in Ops /\ k.id \in Ids /\ k.deleted \in {0, 1}
<1>1. \/ k = Record!Idle
      \/ k \in [at : {"save"}, op : {"UPDATE"}, id : Ids, name : Names]
      \/ k \in [at : {"destroy"}, op : {"DELETE"}, id : Ids, found : BOOLEAN]
      \/ k \in [at : {"log"}, op : Ops, id : Ids, deleted : {0, 1}]
  BY DEF CallStates
<1>2. CASE k = Record!Idle
  BY <1>2 DEF Record!Idle
<1>3. CASE k \in [at : {"save"}, op : {"UPDATE"}, id : Ids, name : Names]
  BY <1>3 DEF Record!Idle
<1>4. CASE k \in [at : {"destroy"}, op : {"DELETE"}, id : Ids, found : BOOLEAN]
  BY <1>4 DEF Record!Idle
<1>5. CASE k \in [at : {"log"}, op : Ops, id : Ids, deleted : {0, 1}]
  BY <1>5 DEF Record!Idle
<1> QED  BY <1>1, <1>2, <1>3, <1>4, <1>5, Zenon

LEMMA IdleIs == Record!Idle \in CallStates /\ Record!Idle.at = "idle"
BY DEF CallStates, Record!Idle

\* One call changes.
LEMMA OneCall ==
  ASSUME call \in [Clients -> CallStates], NEW c \in Clients, NEW k \in CallStates,
         call' = [call EXCEPT ![c] = k]
  PROVE  /\ call' \in [Clients -> CallStates]
         /\ call'[c] = k
         /\ \A d \in Clients : d # c => call'[d] = call[d]
OBVIOUS

\* A deletion is counted.
LEMMA Counted ==
  ASSUME NEW S, NEW f \in [S -> Nat], NEW i \in S, NEW g, g = [f EXCEPT ![i] = @ + 1]
  PROVE  /\ g \in [S -> Nat]
         /\ f[i] = 0 => g[i] = 1
         /\ \A j \in S : j # i => g[j] = f[j]
OBVIOUS

LEMMA StillNumbers ==
  ASSUME deletions \in [Ids -> Nat],
         \/ UNCHANGED deletions
         \/ \E id \in Ids : deletions' = [deletions EXCEPT ![id] = @ + 1]
  PROVE  deletions' \in [Ids -> Nat]
OBVIOUS

LEMMA ZeroOrOne == 0 # 1 /\ 0 <= 1 /\ 1 <= 1
OBVIOUS

LEMMA NotRefused == \A s \in {0, 200, 201, 204, 500} : s \notin 400..499 /\ s \in Nat
OBVIOUS

-----------------------------------------------------------------------------
(* Every step.                                                             *)

TakesAway(k, id) == k.at = "log" /\ k.op = "DELETE" /\ k.id = id /\ k.deleted = 1

\* What all steps of a call have in common: k is where it goes, t what it is told.
LEMMA StepKeeps ==
  ASSUME RecordInv, NEW c \in Clients, NEW k \in CallStates, NEW t \in Answers,
         call' = [call EXCEPT ![c] = k], told' = [told EXCEPT ![c] = t],
         row' \in [Ids -> Names \cup {NoName}],
         \A id \in born : row[id] = NoName => row'[id] = NoName,
         born \subseteq born', born' \subseteq Ids,
         audit \subseteq audit',
         \/ UNCHANGED deletions
         \/ \E id \in Ids : deletions' = [deletions EXCEPT ![id] = @ + 1] /\ Took(c, id),
         \A id \in Ids : TakesAway(k, id) =>
            row[id] # NoName /\ id \in born /\ row'[id] = NoName,
         k # Record!Idle => k.id \in born',
         t.status \in 400..499 => ~ t.changed,
         t.done # <<>> => t.done \in audit'
  PROVE  RecordInv'
<1>1. /\ call' \in [Clients -> CallStates]
      /\ call'[c] = k
      /\ \A d \in Clients : d # c => call'[d] = call[d]
  BY OneCall DEF RecordInv, Types
<1>2. /\ told' \in [Clients -> Answers]
      /\ told'[c] = t
      /\ \A d \in Clients : d # c => told'[d] = told[d]
  BY DEF RecordInv, Types
<1>3. deletions' \in [Ids -> Nat]
  <2>1. deletions \in [Ids -> Nat]
    BY DEF RecordInv, Types
  <2>2. \/ UNCHANGED deletions
        \/ \E id \in Ids : deletions' = [deletions EXCEPT ![id] = @ + 1]
    OBVIOUS
  <2> QED  BY <2>1, <2>2, StillNumbers
<1>4. Types'
  BY <1>1, <1>2, <1>3 DEF RecordInv, Types
<1>5. DrawnFirst'
  BY <1>1 DEF RecordInv, DrawnFirst
<1>6. ToldTrue'
  <2> SUFFICES ASSUME NEW d \in Clients
               PROVE  /\ told'[d].status \in 400..499 => ~ told'[d].changed
                      /\ told'[d].done # <<>> => told'[d].done \in audit'
    BY DEF ToldTrue
  <2>1. CASE d = c
    BY <1>2, <2>1
  <2>2. CASE d # c
    BY <1>2, <2>2 DEF RecordInv, ToldTrue
  <2> QED  BY <2>1, <2>2
<1>7. \A id \in Ids : /\ Took(c, id)' <=> TakesAway(k, id)
                      /\ \A d \in Clients : d # c => (Took(d, id)' <=> Took(d, id))
  BY <1>1 DEF Took, TakesAway
<1>8. ASSUME NEW id \in Ids
      PROVE  /\ deletions'[id] \in {0, 1}
             /\ deletions'[id] = 1 =>
                   row'[id] = NoName /\ id \in born' /\ \A d \in Clients : ~ Took(d, id)'
             /\ \A d \in Clients : Took(d, id)' => row'[id] = NoName /\ id \in born'
             /\ \A d, e \in Clients : Took(d, id)' /\ Took(e, id)' => d = e
  <2>1. deletions \in [Ids -> Nat]
    BY DEF RecordInv, Types
  <2>2. deletions[id] = 0 \/ deletions[id] = 1
    BY DEF RecordInv, GoesOnce
  <2>3. TakesAway(k, id) => deletions[id] = 0 /\ \A d \in Clients : ~ Took(d, id)
    BY <2>2 DEF RecordInv, GoesOnce
  <2>4. \/ deletions'[id] = deletions[id]
        \/ deletions[id] = 0 /\ deletions'[id] = 1 /\ Took(c, id) /\ ~ TakesAway(k, id)
    <3>1. CASE UNCHANGED deletions
      BY <3>1
    <3>2. ASSUME NEW i \in Ids, deletions' = [deletions EXCEPT ![i] = @ + 1], Took(c, i)
          PROVE  \/ deletions'[id] = deletions[id]
                 \/ deletions[id] = 0 /\ deletions'[id] = 1 /\ Took(c, id) /\ ~ TakesAway(k, id)
      <4>1. CASE i = id
        <5>1. deletions[id] = 0
          BY <2>2, <3>2, <4>1 DEF RecordInv, GoesOnce
        <5>2. deletions'[id] = 1
          BY <2>1, <3>2, <4>1, <5>1, Counted
        <5> QED  BY <2>3, <3>2, <4>1, <5>1, <5>2
      <4>2. CASE i # id
        BY <2>1, <3>2, <4>2, Counted
      <4> QED  BY <4>1, <4>2
    <3> QED  BY <3>1, <3>2
  <2>5. \A d \in Clients : Took(d, id) => row[id] = NoName /\ id \in born
    BY DEF RecordInv, GoesOnce
  <2>6. \A d, e \in Clients : Took(d, id) /\ Took(e, id) => d = e
    BY DEF RecordInv, GoesOnce
  <2>7. deletions[id] = 1 => row[id] = NoName /\ id \in born /\ \A d \in Clients : ~ Took(d, id)
    BY DEF RecordInv, GoesOnce
  <2>8. CASE TakesAway(k, id)
    <3>1. deletions'[id] = 0
      BY <2>3, <2>4, <2>8
    <3>2. row'[id] = NoName /\ id \in born'
      BY <2>8
    <3>3. \A d \in Clients : Took(d, id)' => d = c
      BY <1>7, <2>3, <2>8
    <3> QED  BY <3>1, <3>2, <3>3, ZeroOrOne
  <2>9. CASE ~ TakesAway(k, id)
    <3>1. ~ Took(c, id)'
      BY <1>7, <2>9
    <3>2. \A d \in Clients : Took(d, id)' => d # c /\ Took(d, id)
      BY <1>7, <3>1
    <3>3. deletions'[id] = 1 => \A d \in Clients : ~ Took(d, id)'
      BY <2>4, <2>6, <2>7, <3>2
    <3>4. deletions'[id] = 1 => row[id] = NoName /\ id \in born
      BY <2>4, <2>5, <2>7
    <3>5. deletions'[id] \in {0, 1}
      BY <2>2, <2>4
    <3> QED  BY <2>5, <2>6, <3>2, <3>3, <3>4, <3>5
  <2> QED  BY <2>8, <2>9
<1>9. GoesOnce'
  BY <1>8 DEF GoesOnce
<1> QED  BY <1>4, <1>5, <1>6, <1>9 DEF RecordInv

-----------------------------------------------------------------------------
(* The answers of a call, by the way it ends.                              *)

LEMMA NoAnswerIs ==
  /\ Record!NoAnswer \in Answers
  /\ Record!NoAnswer.status \notin 400..499
  /\ Record!NoAnswer.done = <<>>
<1>1. Record!NoAnswer = [status |-> 0, changed |-> FALSE, done |-> <<>>]
  BY DEF Record!NoAnswer
<1>2. Record!NoAnswer \in Answers
  BY <1>1, NotRefused DEF Answers
<1> QED  BY <1>1, <1>2, NotRefused

\* A call goes on: nothing is told.
LEMMA GoesOn ==
  ASSUME RecordInv, NEW c \in Clients, NEW k \in CallStates,
         Record!Goto(c, k), UNCHANGED deletions,
         row' \in [Ids -> Names \cup {NoName}],
         \A id \in born : row[id] = NoName => row'[id] = NoName,
         born \subseteq born', born' \subseteq Ids, UNCHANGED audit,
         \A id \in Ids : TakesAway(k, id) =>
            row[id] # NoName /\ id \in born /\ row'[id] = NoName,
         k # Record!Idle => k.id \in born'
  PROVE  RecordInv'
<1>1. /\ call' = [call EXCEPT ![c] = k]
      /\ told' = [told EXCEPT ![c] = Record!NoAnswer]
  BY DEF Record!Goto
<1> QED  BY <1>1, NoAnswerIs, StepKeeps

\* No row comes back, and no id is forgotten.
RowsKept == /\ row' \in [Ids -> Names \cup {NoName}]
            /\ \A i \in born : row[i] = NoName => row'[i] = NoName
            /\ born \subseteq born' /\ born' \subseteq Ids

\* An answer that refuses tells of a call that has changed nothing.
TellsTrue(status, changed) == status \in 400..499 => ~ changed

\* Success is told of what is logged, a deletion by who made it.
TellsDone(c, op, id, status) ==
  /\ op \in {"CREATE", "DELETE"} /\ status \in {201, 204} => <<op, id>> \in audit'
  /\ op = "DELETE" /\ status = 204 => Took(c, id)

\* A call ends: its answer is true, and a deletion is answered by who made it.
LEMMA Ends ==
  ASSUME RecordInv, NEW c \in Clients, NEW op \in Ops \cup {"GET"}, NEW id \in Ids,
         NEW status \in Nat, NEW changed \in BOOLEAN,
         Record!Tell(c, op, id, status, changed),
         RowsKept, audit \subseteq audit',
         TellsTrue(status, changed), TellsDone(c, op, id, status)
  PROVE  RecordInv'
<1> DEFINE done == IF op \in {"CREATE", "DELETE"} /\ status \in {201, 204}
                   THEN <<op, id>> ELSE <<>>
           t == [status |-> status, changed |-> changed, done |-> done]
<1>1. /\ call' = [call EXCEPT ![c] = Record!Idle]
      /\ told' = [told EXCEPT ![c] = t]
      /\ deletions' = IF op = "DELETE" /\ status = 204
                      THEN [deletions EXCEPT ![id] = @ + 1] ELSE deletions
  BY DEF Record!Tell
<1>2. done \in {<<>>} \cup (Ops \X Ids)
  BY DEF Ops
<1>3. done # <<>> => done \in audit'
  BY DEF TellsDone
<1>4. /\ t \in Answers
      /\ t.status = status /\ t.changed = changed /\ t.done = done
  <2> HIDE DEF done
  <2> QED  BY <1>2 DEF Answers
<1>5. \/ UNCHANGED deletions
      \/ \E i \in Ids : deletions' = [deletions EXCEPT ![i] = @ + 1] /\ Took(c, i)
  BY <1>1, Zenon DEF TellsDone
<1>6. \A i \in Ids : ~ TakesAway(Record!Idle, i)
  BY IdleIs DEF TakesAway
<1>7. /\ t.status \in 400..499 => ~ t.changed
      /\ t.done # <<>> => t.done \in audit'
  BY <1>3, <1>4 DEF TellsTrue
<1>8. /\ row' \in [Ids -> Names \cup {NoName}]
      /\ \A i \in born : row[i] = NoName => row'[i] = NoName
      /\ born \subseteq born' /\ born' \subseteq Ids
  BY DEF RowsKept
<1> HIDE DEF t, done
<1> QED  BY <1>8, <1>1, <1>4, <1>5, <1>6, <1>7, IdleIs, StepKeeps

\* A call ends that is not told of a creation or a deletion.
LEMMA EndsPlainly ==
  ASSUME RecordInv, NEW c \in Clients, NEW op \in Ops \cup {"GET"}, NEW id \in Ids,
         NEW status \in Nat, NEW changed \in BOOLEAN,
         Record!Tell(c, op, id, status, changed),
         RowsKept, UNCHANGED audit, TellsTrue(status, changed),
         op \notin {"CREATE", "DELETE"} \/ status \notin {201, 204}
  PROVE  RecordInv'
<1>1. TellsDone(c, op, id, status)
  BY Zenon DEF TellsDone
<1>2. audit \subseteq audit'
  OBVIOUS
<1> QED  BY <1>1, <1>2, Ends

-----------------------------------------------------------------------------
(* The steps.                                                              *)

LEMMA RowOf ==
  ASSUME RecordInv
  PROVE  /\ row \in [Ids -> Names \cup {NoName}]
         /\ born \subseteq Ids
         /\ \A c \in Clients : call[c] \in CallStates
BY DEF RecordInv, Types

LEMMA CreateKeeps ==
  ASSUME RecordInv, NEW c \in Clients, Record!Create(c)
  PROVE  RecordInv'
<1>1. PICK id \in Ids \ born, name \in Names :
        /\ born' = born \cup {id}
        /\ IF Record!Taken(name)
           THEN Record!Tell(c, "CREATE", id, Record!StatusOf(Record!Database("unique")), FALSE)
                  /\ UNCHANGED row
           ELSE /\ row' = [row EXCEPT ![id] = name]
                /\ Record!Goto(c, [at |-> "log", op |-> "CREATE", id |-> id, deleted |-> 0])
                /\ UNCHANGED deletions
        /\ UNCHANGED audit
  BY DEF Record!Create
<1>2. CASE Record!Taken(name)
  <2> DEFINE op == "CREATE"
             status == 409
  <2>1. Record!Tell(c, op, id, status, FALSE)
    BY <1>1, <1>2, StatusesAre
  <2>2. RowsKept /\ UNCHANGED audit
    BY <1>1, <1>2, RowOf DEF RowsKept
  <2>3. op \in Ops \cup {"GET"} /\ id \in Ids /\ FALSE \in BOOLEAN
    BY Zenon DEF Ops
  <2>4. status \in Nat /\ status \notin {201, 204}
    OBVIOUS
  <2>5. TellsTrue(status, FALSE)
    BY DEF TellsTrue
  <2> HIDE DEF op, status
  <2> QED  BY <2>1, <2>2, <2>3, <2>4, <2>5, EndsPlainly
<1>3. CASE ~ Record!Taken(name)
  <2> DEFINE k == [at |-> "log", op |-> "CREATE", id |-> id, deleted |-> 0]
  <2>1. row' = [row EXCEPT ![id] = name] /\ Record!Goto(c, k) /\ UNCHANGED deletions
    BY <1>1, <1>3
  <2>2. k \in CallStates /\ k.id = id /\ \A i \in Ids : ~ TakesAway(k, i)
    BY DEF CallStates, Ops, TakesAway
  <2>3. /\ row' \in [Ids -> Names \cup {NoName}]
        /\ \A i \in born : row'[i] = row[i]
    BY <2>1, RowOf
  <2> HIDE DEF k
  <2> QED  BY <1>1, <2>1, <2>2, <2>3, GoesOn, RowOf
<1> QED  BY <1>2, <1>3

\* An update that has changed nothing is answered like one that has.
LEMMA UpdateEnds ==
  ASSUME RecordInv, NEW c \in Clients, NEW id \in Ids,
         Record!Tell(c, "UPDATE", id, 204, FALSE), UNCHANGED <<row, born, audit>>
  PROVE  RecordInv'
<1>1. 204 \in Nat /\ FALSE \in BOOLEAN
  OBVIOUS
<1>2. "UPDATE" \in Ops \cup {"GET"} /\ "UPDATE" \notin {"CREATE", "DELETE"}
  BY DEF Ops
<1>3. RowsKept /\ UNCHANGED audit
  BY RowOf DEF RowsKept
<1>4. TellsTrue(204, FALSE)
  BY DEF TellsTrue
<1> QED  BY <1>1, <1>2, <1>3, <1>4, EndsPlainly

LEMMA FindKeeps ==
  ASSUME RecordInv, NEW c \in Clients, Record!Find(c)
  PROVE  RecordInv'
<1>1. PICK id \in born, name \in Names :
        /\ IF row[id] = NoName
           THEN Record!Tell(c, "UPDATE", id, 204, FALSE)
           ELSE Record!Goto(c, [at |-> "save", op |-> "UPDATE", id |-> id, name |-> name])
                  /\ UNCHANGED deletions
        /\ UNCHANGED <<row, born, audit>>
  BY DEF Record!Find
<1>2. CASE row[id] = NoName
  BY <1>1, <1>2, UpdateEnds, RowOf
<1>3. CASE row[id] # NoName
  <2> DEFINE k == [at |-> "save", op |-> "UPDATE", id |-> id, name |-> name]
  <2>1. Record!Goto(c, k) /\ UNCHANGED deletions
    BY <1>1, <1>3
  <2>2. k \in CallStates /\ k.id = id /\ \A i \in Ids : ~ TakesAway(k, i)
    BY RowOf DEF CallStates, TakesAway
  <2> HIDE DEF k
  <2> QED  BY <1>1, <2>1, <2>2, GoesOn, RowOf
<1> QED  BY <1>2, <1>3

LEMMA SaveKeeps ==
  ASSUME RecordInv, NEW c \in Clients, Record!Save(c)
  PROVE  RecordInv'
<1> DEFINE id == call[c].id
           name == call[c].name
<1>1. /\ call[c].at = "save"
      /\ IF Record!Taken(name) /\ row[id] # name
         THEN Record!Tell(c, "UPDATE", id, 204, FALSE) /\ UNCHANGED row
         ELSE /\ row' = IF row[id] = NoName THEN row ELSE [row EXCEPT ![id] = name]
              /\ Record!Goto(c, [at |-> "log", op |-> "UPDATE", id |-> id, deleted |-> 0])
              /\ UNCHANGED deletions
      /\ UNCHANGED <<born, audit>>
  BY DEF Record!Save
<1>2. id \in Ids /\ name \in Names /\ id \in born
  BY <1>1, RowOf, CallIs, IdleIs DEF RecordInv, DrawnFirst
<1> HIDE DEF id, name
<1>3. CASE Record!Taken(name) /\ row[id] # name
  BY <1>1, <1>2, <1>3, UpdateEnds
<1>4. CASE ~ (Record!Taken(name) /\ row[id] # name)
  <2> DEFINE k == [at |-> "log", op |-> "UPDATE", id |-> id, deleted |-> 0]
  <2>1. /\ row' = IF row[id] = NoName THEN row ELSE [row EXCEPT ![id] = name]
        /\ Record!Goto(c, k) /\ UNCHANGED deletions
    BY <1>1, <1>4
  <2>2. k \in CallStates /\ k.id = id /\ \A i \in Ids : ~ TakesAway(k, i)
    BY <1>2 DEF CallStates, Ops, TakesAway
  <2>3. /\ row' \in [Ids -> Names \cup {NoName}]
        /\ \A i \in born : row[i] = NoName => row'[i] = NoName
    BY <1>2, <2>1, RowOf
  <2> HIDE DEF k
  <2> QED  BY <1>1, <1>2, <2>1, <2>2, <2>3, GoesOn, RowOf
<1> QED  BY <1>3, <1>4

LEMMA FindVictimKeeps ==
  ASSUME RecordInv, NEW c \in Clients, Record!FindVictim(c)
  PROVE  RecordInv'
<1>1. PICK id \in born :
        /\ Record!Goto(c, [at |-> "destroy", op |-> "DELETE", id |-> id,
                           found |-> row[id] # NoName])
        /\ UNCHANGED <<row, born, audit, deletions>>
  BY DEF Record!FindVictim
<1> DEFINE k == [at |-> "destroy", op |-> "DELETE", id |-> id, found |-> row[id] # NoName]
<1>2. k \in CallStates /\ k.id = id
  <2> DEFINE b == row[id] # NoName
  <2>1. b \in BOOLEAN /\ id \in Ids
    BY RowOf
  <2> HIDE DEF b
  <2> QED  BY <2>1 DEF CallStates
<1>3. \A i \in Ids : ~ TakesAway(k, i)
  BY DEF TakesAway
<1>4. Record!Goto(c, k)
  BY <1>1
<1> HIDE DEF k
<1> QED  BY <1>1, <1>2, <1>3, <1>4, GoesOn, RowOf

LEMMA DestroyKeeps ==
  ASSUME RecordInv, NEW c \in Clients, Record!Destroy(c)
  PROVE  RecordInv'
<1> DEFINE id == call[c].id
           deleted == IF row[id] = NoName THEN 0 ELSE 1
           k == [at |-> "log", op |-> "DELETE", id |-> id, deleted |-> deleted]
<1>1. /\ call[c].at = "destroy"
      /\ row' = [row EXCEPT ![id] = NoName]
      /\ IF call[c].found
         THEN Record!Goto(c, k) /\ UNCHANGED deletions
         ELSE Record!Tell(c, "DELETE", id, Record!StatusOf(Record!Http(404)), FALSE)
      /\ UNCHANGED <<born, audit>>
  BY DEF Record!Destroy
<1>2. id \in Ids /\ id \in born
  BY <1>1, RowOf, CallIs, IdleIs DEF RecordInv, DrawnFirst
<1> HIDE DEF id
<1>3. /\ row' \in [Ids -> Names \cup {NoName}]
      /\ \A i \in born : row[i] = NoName => row'[i] = NoName
      /\ row'[id] = NoName
  BY <1>1, <1>2, RowOf
<1>4. CASE call[c].found
  <2>1. deleted \in {0, 1} /\ (deleted = 1 => row[id] # NoName)
    OBVIOUS
  <2> HIDE DEF deleted
  <2>2. k \in CallStates /\ k.id = id
    BY <1>2, <2>1 DEF CallStates, Ops
  <2>3. \A i \in Ids : TakesAway(k, i) => i = id /\ row[id] # NoName
    BY <2>1 DEF TakesAway
  <2>4. Record!Goto(c, k) /\ UNCHANGED deletions
    BY <1>1, <1>4
  <2> HIDE DEF k
  <2> QED  BY <1>1, <1>2, <1>3, <2>2, <2>3, <2>4, GoesOn, RowOf
<1>5. CASE ~ call[c].found
  <2> DEFINE op == "DELETE"
             status == 404
  <2>1. Record!Tell(c, op, id, status, FALSE)
    BY <1>1, <1>5, StatusesAre
  <2>2. RowsKept /\ UNCHANGED audit
    BY <1>1, <1>3, RowOf DEF RowsKept
  <2>3. op \in Ops \cup {"GET"} /\ id \in Ids /\ FALSE \in BOOLEAN
    BY <1>2, Zenon DEF Ops
  <2>4. status \in Nat /\ status \notin {201, 204}
    OBVIOUS
  <2>5. TellsTrue(status, FALSE)
    BY DEF TellsTrue
  <2> HIDE DEF op, status
  <2> QED  BY <2>1, <2>2, <2>3, <2>4, <2>5, EndsPlainly
<1> QED  BY <1>4, <1>5

\* A call that is being logged.
LEMMA Logged ==
  ASSUME RecordInv, NEW c \in Clients, call[c].at = "log"
  PROVE  /\ call[c].op \in Ops /\ call[c].id \in Ids /\ call[c].deleted \in {0, 1}
         /\ call[c].op = "DELETE" /\ call[c].deleted = 1 => Took(c, call[c].id)
BY RowOf, CallIs DEF Took

LEMMA LogKeeps ==
  ASSUME RecordInv, NEW c \in Clients, Record!Log(c)
  PROVE  RecordInv'
<1> DEFINE op == call[c].op
           id == call[c].id
           deleted == call[c].deleted
           status == Record!Success(op, deleted)
           changed == op # "DELETE" \/ deleted = 1
<1>1. /\ call[c].at = "log"
      /\ audit' = audit \cup {<<op, id>>}
      /\ Record!Tell(c, op, id, status, changed)
      /\ UNCHANGED <<row, born>>
  BY DEF Record!Log
<1>2. /\ op \in Ops /\ id \in Ids /\ deleted \in {0, 1}
      /\ op = "DELETE" /\ deleted = 1 => Took(c, id)
  BY <1>1, Logged
<1> HIDE DEF op, id, deleted
<1>3. \/ status = 404 /\ op = "DELETE" /\ deleted = 0
      \/ status \in {201, 204} /\ (op = "DELETE" => deleted = 1)
  BY <1>2, StatusesAre DEF Record!Success, Ops
<1>4. 404 \in Nat /\ 404 # 204 /\ 201 \in Nat /\ 204 \in Nat /\ 0 # 1
  OBVIOUS
<1>5. changed \in BOOLEAN
  OBVIOUS
<1>6. status \in Nat
  BY <1>3, <1>4
<1>7. TellsTrue(status, changed)
  BY <1>3, <1>4, NotRefused DEF TellsTrue
<1>8. TellsDone(c, op, id, status)
  BY <1>1, <1>2, <1>3, <1>4 DEF TellsDone
<1>9. RowsKept /\ audit \subseteq audit'
  BY <1>1, RowOf DEF RowsKept
<1> HIDE DEF status, changed
<1> QED  BY <1>1, <1>2, <1>5, <1>6, <1>7, <1>8, <1>9, Ends

LEMMA LogFailsKeeps ==
  ASSUME RecordInv, NEW c \in Clients, Record!LogFails(c)
  PROVE  RecordInv'
<1> DEFINE op == call[c].op
           id == call[c].id
           status == IF op = "UPDATE" THEN 204
                     ELSE Record!StatusOf(Record!Database("none"))
           changed == op # "DELETE" \/ call[c].deleted = 1
<1>1. /\ call[c].at = "log"
      /\ Record!Tell(c, op, id, status, changed)
      /\ UNCHANGED <<row, born, audit>>
  BY DEF Record!LogFails
<1>2. op \in Ops /\ id \in Ids
  BY <1>1, Logged
<1> HIDE DEF op, id
<1>3. \/ status = 204 /\ op = "UPDATE"
      \/ status = 500
  BY StatusesAre
<1>4. 500 \notin {201, 204}
  OBVIOUS
<1>5. changed \in BOOLEAN
  OBVIOUS
<1>6. status \in Nat /\ status \notin 400..499
  BY <1>3, NotRefused
<1>7. op \notin {"CREATE", "DELETE"} \/ status \notin {201, 204}
  BY <1>3, <1>4
<1>9. RowsKept /\ UNCHANGED audit
  BY <1>1, RowOf DEF RowsKept
<1>10. TellsTrue(status, changed)
  BY <1>6 DEF TellsTrue
<1> HIDE DEF status, changed
<1> QED  BY <1>1, <1>2, <1>5, <1>6, <1>7, <1>9, <1>10, EndsPlainly

LEMMA GetKeeps ==
  ASSUME RecordInv, NEW c \in Clients, Record!Get(c)
  PROVE  RecordInv'
<1>1. PICK id \in Ids :
        /\ Record!Tell(c, "GET", id,
              IF row[id] = NoName THEN Record!StatusOf(Record!Http(404)) ELSE 200, FALSE)
        /\ UNCHANGED <<row, born, audit>>
  BY DEF Record!Get
<1> DEFINE status == IF row[id] = NoName THEN Record!StatusOf(Record!Http(404)) ELSE 200
<1>2. 404 \in Nat /\ 200 \in Nat
  OBVIOUS
<1>3. status \in Nat
  BY <1>2, StatusesAre
<1>4. Record!Tell(c, "GET", id, status, FALSE)
  BY <1>1
<1>5. RowsKept /\ UNCHANGED audit
  BY <1>1, RowOf DEF RowsKept
<1>6. TellsTrue(status, FALSE)
  BY DEF TellsTrue
<1>7. "GET" \notin {"CREATE", "DELETE"}
  OBVIOUS
<1> HIDE DEF status
<1> QED  BY <1>1, <1>3, <1>4, <1>5, <1>6, <1>7, EndsPlainly

\* A call fails before it has begun: its client is told, and no more.
LEMMA FailsKeeps ==
  ASSUME RecordInv, NEW c \in Clients, Record!Fails(c)
  PROVE  RecordInv'
<1>1. PICK e \in {Record!Database("too long"), Record!Database("none"), Record!Plain} :
        /\ call[c] = Record!Idle
        /\ told' = [told EXCEPT ![c] = [Record!NoAnswer EXCEPT !.status = Record!StatusOf(e)]]
        /\ UNCHANGED <<row, born, audit, call, deletions>>
  BY DEF Record!Fails
<1> DEFINE status == Record!StatusOf(e)
           none == Record!NoAnswer
           t == [none EXCEPT !.status = status]
<1>2. status \in Nat /\ none \in Answers /\ none.changed = FALSE /\ none.done = <<>>
  BY FailuresAre, NoAnswerIs DEF Record!NoAnswer
<1>3. told' = [told EXCEPT ![c] = t]
  BY <1>1
<1> HIDE DEF status, none
<1>4. t \in Answers /\ t.changed = none.changed /\ t.done = none.done
  BY <1>2, StatusOnly DEF Answers
<1>5. t \in Answers /\ t.changed = FALSE /\ t.done = <<>>
  BY <1>2, <1>4
<1> HIDE DEF t
<1>6. call' = [call EXCEPT ![c] = Record!Idle]
  BY <1>1 DEF RecordInv, Types
<1>7. \A id \in Ids : ~ TakesAway(Record!Idle, id)
  BY IdleIs DEF TakesAway
<1>8. /\ row' \in [Ids -> Names \cup {NoName}] /\ born' \subseteq Ids
      /\ \A id \in born : row[id] = NoName => row'[id] = NoName
      /\ born \subseteq born' /\ audit \subseteq audit' /\ UNCHANGED deletions
  BY <1>1, RowOf
<1> QED  BY <1>3, <1>5, <1>6, <1>7, <1>8, IdleIs, StepKeeps

LEMMA CrashKeeps ==
  ASSUME RecordInv, Record!Crash
  PROVE  RecordInv'
<1>1. /\ call' = [c \in Clients |-> Record!Idle]
      /\ told' = [c \in Clients |-> Record!NoAnswer]
      /\ UNCHANGED <<row, born, audit, deletions>>
  BY DEF Record!Crash
<1>2. Types'
  BY <1>1, IdleIs, NoAnswerIs DEF RecordInv, Types
<1>3. \A c \in Clients, id \in Ids : ~ Took(c, id)'
  BY <1>1, IdleIs DEF Took
<1>4. GoesOnce'
  BY <1>1, <1>3 DEF RecordInv, GoesOnce
<1>5. DrawnFirst'
  BY <1>1 DEF DrawnFirst
<1>6. ToldTrue'
  BY <1>1, NoAnswerIs DEF ToldTrue
<1> QED  BY <1>2, <1>4, <1>5, <1>6 DEF RecordInv

LEMMA InitHolds == Init => RecordInv
<1> SUFFICES ASSUME Init  PROVE RecordInv
  OBVIOUS
<1>1. /\ row = [i \in Ids |-> NoName]
      /\ born = {} /\ audit = {}
      /\ call = [c \in Clients |-> Record!Idle]
      /\ told = [c \in Clients |-> Record!NoAnswer]
      /\ deletions = [i \in Ids |-> 0]
  BY DEF Init, Record!Init
<1>2. 0 \in Nat /\ 0 # 1
  OBVIOUS
<1>3. Types
  BY <1>1, <1>2, IdleIs, NoAnswerIs DEF Types
<1>4. \A c \in Clients, id \in Ids : ~ Took(c, id)
  BY <1>1, IdleIs DEF Took
<1>5. GoesOnce
  BY <1>1, <1>2, <1>4 DEF GoesOnce
<1>6. DrawnFirst
  BY <1>1 DEF DrawnFirst
<1>7. ToldTrue
  BY <1>1, NoAnswerIs DEF ToldTrue
<1> QED  BY <1>3, <1>5, <1>6, <1>7 DEF RecordInv

LEMMA StutterKeeps ==
  ASSUME RecordInv, UNCHANGED recordVars
  PROVE  RecordInv'
BY DEF recordVars, RecordInv, Types, GoesOnce, DrawnFirst, ToldTrue, Took

LEMMA NextKeeps == RecordInv /\ [Next]_vars => RecordInv'
<1> SUFFICES ASSUME RecordInv, [Next]_vars  PROVE RecordInv'
  OBVIOUS
<1>1. ASSUME RecordStep  PROVE RecordInv'
  <2>1. Record!Next
    BY <1>1 DEF RecordStep
  <2>2. CASE Record!Crash
    BY <2>2, CrashKeeps
  <2>3. ASSUME NEW c \in Clients,
               \/ Record!Create(c) \/ Record!Find(c) \/ Record!Save(c)
               \/ Record!FindVictim(c) \/ Record!Destroy(c) \/ Record!Log(c)
               \/ Record!LogFails(c) \/ Record!Fails(c) \/ Record!Get(c)
        PROVE  RecordInv'
    BY <2>3, CreateKeeps, FindKeeps, SaveKeeps, FindVictimKeeps, DestroyKeeps, LogKeeps,
       LogFailsKeeps, FailsKeeps, GetKeeps
  <2> QED  BY <2>1, <2>2, <2>3 DEF Record!Next
<1>2. CASE SearchStep \/ RateStep \/ ListStep \/ UNCHANGED vars
  <2>1. UNCHANGED recordVars
    BY <1>2 DEF SearchStep, RateStep, ListStep, vars
  <2> QED  BY <2>1, StutterKeeps
<1> QED  BY <1>1, <1>2 DEF Next

-----------------------------------------------------------------------------
(* The theorems.                                                           *)

\* The invariant of the records holds, whatever the other parts are.
THEOREM RecordInvHolds == Spec => []RecordInv
BY InitHolds, NextKeeps, PTL DEF Spec

\* No client that is refused by a 4xx has changed a record; and of the clients
\* that delete one record at the same time, each finding it there, one is told
\* that it is gone (base.repository.ts delete, and the interceptor and filter).
THEOREM AnswersAreTrueHolds == Spec => []AnswersAreTrue
<1>1. RecordInv => AnswersAreTrue
  <2> SUFFICES ASSUME RecordInv  PROVE AnswersAreTrue
    OBVIOUS
  <2>1. \A c \in Clients : told[c].status \in 400..499 => ~ told[c].changed
    BY DEF RecordInv, ToldTrue
  <2>2. \A id \in Ids : /\ deletions[id] \in {0, 1}
                        /\ deletions[id] = 1 => row[id] = NoName
    BY DEF RecordInv, GoesOnce
  <2>3. \A id \in Ids : deletions[id] <= 1 /\ (deletions[id] = 1 => row[id] = NoName)
    BY <2>2, ZeroOrOne
  <2> QED  BY <2>1, <2>3 DEF AnswersAreTrue, Record!AnswersAreTrue
<1> QED  BY <1>1, RecordInvHolds, PTL

\* A creation or deletion that is answered with success has its audit row, of
\* the hook that runs after the change is committed (base.service.ts create and
\* delete, audit-log.hook.ts).
THEOREM DoneIsLoggedHolds == Spec => []DoneIsLogged
<1>1. RecordInv => DoneIsLogged
  BY DEF RecordInv, ToldTrue, DoneIsLogged, Record!DoneIsLogged
<1> QED  BY <1>1, RecordInvHolds, PTL

-----------------------------------------------------------------------------
(* The walk over the pages of a list.                                      *)

\* What MemberSearch says of finite sets is what the theorems say.
LEMMA SameSets == \A S : /\ Search!IsFiniteSet(S) <=> IsFiniteSet(S)
                         /\ Search!Cardinality(S) = Cardinality(S)
  BY DEF Search!IsFiniteSet, IsFiniteSet, Search!Cardinality, Cardinality

LEMMA Constants ==
  /\ Members \subseteq Nat /\ IsFiniteSet(Members) /\ Roles \in [Members -> Nat]
  /\ Limit \in Nat \ {0} /\ LastPage \in Nat
  BY ServicesAssumption, SameSets DEF Search!SearchConstants

LEMMA Offsets ==
  /\ \A p \in Nat \ {0} : /\ Search!Offset(p) \in Nat
                          /\ Search!Offset(p + 1) = Search!Offset(p) + Limit
                          /\ Search!Offset(p + 1) = p * Limit
  /\ \A p, q \in Nat \ {0} : p < q => Search!Offset(p + 1) <= Search!Offset(q)
  <1>1. ASSUME NEW p \in Nat \ {0}
        PROVE  /\ Search!Offset(p) \in Nat
               /\ Search!Offset(p + 1) = Search!Offset(p) + Limit
               /\ Search!Offset(p + 1) = p * Limit
    <2>1. p - 1 \in Nat /\ (p + 1) - 1 = p /\ Limit \in Nat
      BY Constants
    <2>2. (p - 1) * Limit \in Nat /\ p * Limit = (p - 1) * Limit + Limit
      BY <2>1
    <2> QED BY <2>1, <2>2 DEF Search!Offset
  <1>2. ASSUME NEW p \in Nat \ {0}, NEW q \in Nat \ {0}, p < q
        PROVE  Search!Offset(p + 1) <= Search!Offset(q)
    <2>1. PICK d \in Nat : q - 1 = p + d
      <3>1. q - 1 - p \in Nat /\ q - 1 = p + (q - 1 - p)
        BY <1>2
      <3> QED BY <3>1
    <2>2. (p + d) * Limit = p * Limit + d * Limit /\ d * Limit \in Nat /\ p * Limit \in Nat
      BY Constants
    <2>3. Search!Offset(q) = p * Limit + d * Limit /\ Search!Offset(p + 1) = p * Limit
      BY <1>1, <2>1, <2>2 DEF Search!Offset
    <2> QED BY <2>2, <2>3
  <1> QED BY <1>1, <1>2

LEMMA PartOf ==
  ASSUME NEW S, NEW s \in Seq(S), NEW a \in Nat, NEW e \in Nat, a <= e, e <= Len(s)
  PROVE  /\ SubSeq(s, a + 1, e) \in Seq(S)
         /\ DOMAIN SubSeq(s, a + 1, e) = 1 .. e - a
         /\ \A i \in 1 .. e - a : SubSeq(s, a + 1, e)[i] = s[a + i]
  OBVIOUS

Precedes(q, k, m) == IF Search!OrderOf(q).direction = "ASC" THEN k < m ELSE k > m
Ahead(q, S, m) == {k \in S : Precedes(q, k, m)}
Rank(q, S, m) == Cardinality(Ahead(q, S, m))

LEMMA RankIsNat ==
  ASSUME NEW q, NEW S \in SUBSET Members, NEW m
  PROVE  Rank(q, S, m) \in Nat
  <1>1. IsFiniteSet(Ahead(q, S, m))
    BY Constants, FS_Subset DEF Ahead
  <1> QED BY <1>1, FS_CardinalityType DEF Rank

LEMMA RankGrows ==
  ASSUME NEW q, NEW S \in SUBSET Members, NEW T \in SUBSET S, NEW m
  PROVE  Rank(q, T, m) <= Rank(q, S, m)
  <1>1. Ahead(q, T, m) \subseteq Ahead(q, S, m) /\ IsFiniteSet(Ahead(q, S, m))
    BY Constants, FS_Subset DEF Ahead
  <1> QED BY <1>1, FS_Subset DEF Rank

LEMMA RankIsWithin ==
  ASSUME NEW q, NEW S \in SUBSET Members, NEW m \in S
  PROVE  Rank(q, S, m) < Cardinality(S) /\ Cardinality(S) \in Nat
  <1>1. IsFiniteSet(S) /\ Cardinality(S) \in Nat
    BY Constants, FS_Subset, FS_CardinalityType
  <1>2. Ahead(q, S, m) \subseteq S \ {m}
    BY Constants DEF Ahead, Precedes
  <1>3. IsFiniteSet(S \ {m}) /\ Cardinality(S \ {m}) = Cardinality(S) - 1
    BY <1>1, FS_RemoveElement
  <1>4. Rank(q, S, m) <= Cardinality(S \ {m})
    BY <1>2, <1>3, FS_Subset DEF Rank
  <1> QED BY <1>1, <1>3, <1>4, RankIsNat

\* In an order without ties a member stands where as many precede it.
LEMMA PlaceIsRank ==
  ASSUME shown \subseteq Members, NEW q, Search!Unique(q), NEW s \in Search!Orderings(q)
  PROVE  /\ s \in Seq(shown) /\ Len(s) = Cardinality(shown) /\ Len(s) \in Nat
         /\ DOMAIN s = 1 .. Len(s)
         /\ \A i \in 1 .. Len(s) : Rank(q, shown, s[i]) = i - 1
         /\ \A m \in shown : \E i \in 1 .. Len(s) : s[i] = m
  <1> DEFINE n == Cardinality(shown)
  <1>1. IsFiniteSet(shown) /\ n \in Nat
    BY Constants, FS_Subset, FS_CardinalityType
  <1>2. /\ s \in [1 .. n -> shown]
        /\ \A i, j \in 1 .. n : i # j => s[i] # s[j]
    BY SameSets DEF Search!Orderings, Search!SetToSeqs
  <1>3. s \in Seq(shown) /\ Len(s) = n /\ DOMAIN s = 1 .. n
    BY <1>1, <1>2
  <1>4. \A i, j \in 1 .. n : i < j => Precedes(q, s[i], s[j])
    <2>1. ASSUME NEW i \in 1 .. n, NEW j \in 1 .. n, i < j PROVE Precedes(q, s[i], s[j])
      <3>1. s[i] \in Nat /\ s[j] \in Nat /\ s[i] # s[j]
        <4>1. i # j /\ s[i] \in shown /\ s[j] \in shown
          BY <1>1, <1>2, <2>1
        <4> QED BY <1>2, <4>1, Constants
      <3>2. /\ Search!Value(s[i], Search!OrderOf(q).column) = s[i]
            /\ Search!Value(s[j], Search!OrderOf(q).column) = s[j]
        BY DEF Search!Unique, Search!Value
      <3>3. IF Search!OrderOf(q).direction = "ASC" THEN s[i] <= s[j] ELSE s[i] >= s[j]
        BY <1>3, <2>1, <3>2 DEF Search!Orderings
      <3> QED BY <3>1, <3>3 DEF Precedes
    <2> QED BY <2>1
  <1>5. \A m \in shown : \E i \in 1 .. n : s[i] = m
    <2>1. s \in Injection(1 .. n, shown)
      BY <1>2 DEF Injection, IsInjective
    <2>2. Cardinality(1 .. n) = n
      BY <1>1, FS_Interval
    <2>3. s \in Surjection(1 .. n, shown)
      BY <1>1, <2>1, <2>2, FS_Injection
    <2> QED BY <2>3 DEF Surjection
  <1>6. ASSUME NEW i \in 1 .. n PROVE Rank(q, shown, s[i]) = i - 1
    <2> DEFINE A == Ahead(q, shown, s[i])
               f == [j \in 1 .. i - 1 |-> s[j]]
    <2>1. i - 1 \in Nat /\ \A j \in 1 .. i - 1 : j \in 1 .. n /\ j < i
      BY <1>1
    <2>2. \A j \in 1 .. i - 1 : s[j] \in A
      BY <1>2, <1>4, <2>1 DEF Ahead
    <2>3. f \in [1 .. i - 1 -> A]
      BY <2>2
    <2>4. \A a, b \in 1 .. i - 1 : f[a] = f[b] => a = b
      BY <1>2, <2>1
    <2>5. ASSUME NEW k \in A PROVE \E j \in 1 .. i - 1 : f[j] = k
      <3>1. PICK j \in 1 .. n : s[j] = k
        BY <1>5 DEF Ahead
      <3>2. Precedes(q, s[j], s[i]) /\ s[i] \in Nat /\ s[j] \in Nat
        BY <1>2, <3>1, Constants DEF Ahead
      <3>3. j # i
        BY <3>2 DEF Precedes
      <3>4. ~ (i < j)
        <4>1. i < j => Precedes(q, s[i], s[j])
          BY <1>4
        <4> QED BY <3>2, <4>1 DEF Precedes
      <3>5. j \in 1 .. i - 1
        BY <1>1, <3>3, <3>4
      <3> QED BY <3>1, <3>5
    <2>6. f \in Bijection(1 .. i - 1, A)
      BY <2>3, <2>4, <2>5 DEF Bijection, Injection, IsInjective, Surjection
    <2>7. ExistsBijection(1 .. i - 1, A)
      BY <2>6 DEF ExistsBijection
    <2> QED BY <2>1, <2>7, FS_CountingElements DEF Rank
  <1> QED BY <1>1, <1>3, <1>5, <1>6


OnPage(r) == {r[i] : i \in DOMAIN r}

\* Counted from o.
LEMMA Between ==
  ASSUME NEW o \in Nat, NEW k \in Nat, NEW e \in Nat, o <= k - 1, k <= e
  PROVE  k - o \in 1 .. e - o /\ o + (k - o) = k
  OBVIOUS


\* A page shows those whose rank falls on it.
LEMMA PageIsRanks ==
  ASSUME shown \subseteq Members, NEW q, Search!Unique(q), NEW s \in Search!Orderings(q),
         NEW p \in Nat \ {0}
  PROVE  OnPage(Search!PageOf(s, p)) =
           {m \in shown : /\ Search!Offset(p) <= Rank(q, shown, m)
                          /\ Rank(q, shown, m) < Search!Offset(p + 1)}
  <1> DEFINE o == Search!Offset(p)
             r == Search!PageOf(s, p)
             here == {m \in shown : o <= Rank(q, shown, m)
                                      /\ Rank(q, shown, m) < Search!Offset(p + 1)}
  <1>1. o \in Nat /\ Search!Offset(p + 1) = o + Limit /\ Limit \in Nat \ {0}
    BY Offsets, Constants
  <1>2. /\ s \in Seq(shown) /\ Len(s) \in Nat
        /\ DOMAIN s = 1 .. Len(s)
        /\ \A i \in 1 .. Len(s) : Rank(q, shown, s[i]) = i - 1
        /\ \A m \in shown : \E i \in 1 .. Len(s) : s[i] = m
    BY PlaceIsRank
  <1>3. CASE o >= Len(s)
    <2>1. r = <<>>
      BY <1>3 DEF Search!PageOf
    <2>2. OnPage(r) = {}
      BY <2>1 DEF OnPage
    <2>3. ASSUME NEW m \in shown PROVE Rank(q, shown, m) < o
      BY <1>1, <1>2, <1>3
    <2>4. here = {}
      BY <1>1, <2>3, RankIsNat
    <2> QED BY <2>2, <2>4
  <1>4. CASE ~ (o >= Len(s))
    <2> DEFINE e == IF Len(s) <= o + Limit THEN Len(s) ELSE o + Limit
    <2>1. Search!Min({Len(s), o + Limit}) = e
      BY <1>1, <1>2 DEF Search!Min
    <2>2. r = SubSeq(s, o + 1, e)
      BY <1>4, <2>1 DEF Search!PageOf
    <2>0. o \in Nat /\ Limit \in Nat \ {0} /\ Len(s) \in Nat /\ ~ (o >= Len(s))
      BY <1>1, <1>2, <1>4
    <2> HIDE DEF o
    <2>3. o < e /\ e \in Nat /\ e <= Len(s)
      BY <2>0
    <2>7. \A i \in 1 .. e - o : o + i \in 1 .. Len(s) /\ o + i <= e
      <3> HIDE DEF e
      <3> QED BY <2>0, <2>3
    <2>4. DOMAIN r = 1 .. e - o /\ \A i \in 1 .. e - o : r[i] = s[o + i] /\ o + i \in 1 .. Len(s)
      <3>1. o <= e /\ e \in Nat /\ e <= Len(s) /\ o \in Nat
        BY <2>0, <2>3
      <3>2. s \in Seq(shown)
        BY <1>2
      <3> HIDE DEF e, r
      <3>3. DOMAIN r = 1 .. e - o /\ \A i \in 1 .. e - o : r[i] = s[o + i]
        BY <2>2, <3>1, <3>2, PartOf
      <3> QED BY <2>7, <3>3
    <2>5. ASSUME NEW i \in 1 .. e - o PROVE r[i] \in here
      <3>1. r[i] = s[o + i] /\ o + i \in 1 .. Len(s) /\ o + i <= e
        BY <2>4, <2>7
      <3>2. s[o + i] \in shown /\ Rank(q, shown, s[o + i]) = (o + i) - 1
        BY <1>2, <3>1
      <3>3. o <= (o + i) - 1 /\ (o + i) - 1 < o + Limit
        <4>1. e <= o + Limit /\ i \in Nat \ {0} /\ o + i <= e /\ e \in Nat
          BY <2>0, <2>3, <3>1
        <4> HIDE DEF e
        <4> QED BY <2>0, <4>1
      <3> QED BY <1>1, <3>1, <3>2, <3>3
    <2>6. ASSUME NEW m \in here PROVE \E i \in 1 .. e - o : r[i] = m
      <3>1. PICK k \in 1 .. Len(s) : s[k] = m
        BY <1>2
      <3>2. k - 1 = Rank(q, shown, m)
        BY <1>2, <3>1
      <3>3. o <= k - 1 /\ k - 1 < o + Limit
        BY <1>1, <3>2
      <3>4. k - o \in 1 .. e - o /\ o + (k - o) = k
        <4>1. k \in Nat /\ k <= Len(s) /\ k <= o + Limit
          BY <2>0, <3>3
        <4>2. k <= e
          BY <4>1
        <4>3. e \in Nat
          BY <2>3
        <4> HIDE DEF e
        <4> QED BY <2>0, <3>3, <4>1, <4>2, <4>3, Between
      <3> QED BY <2>4, <3>1, <3>4
    <2>8. OnPage(r) = here
      <3> HIDE DEF r, here, e
      <3> QED BY <2>4, <2>5, <2>6 DEF OnPage
    <2> QED BY <2>8 DEF o
  <1> QED BY <1>1, <1>2, <1>3, <1>4

\* Whatever the order, a page shows members.
LEMMA PageIsShown ==
  ASSUME shown \subseteq Members, NEW q, NEW s \in Search!Orderings(q), NEW p \in Nat \ {0}
  PROVE  OnPage(Search!PageOf(s, p)) \subseteq shown
  <1> DEFINE n == Cardinality(shown)
             o == Search!Offset(p)
  <1>1. n \in Nat
    BY Constants, FS_Subset, FS_CardinalityType
  <1>2. s \in [1 .. n -> shown]
    BY SameSets DEF Search!Orderings, Search!SetToSeqs
  <1>3. s \in Seq(shown) /\ Len(s) = n
    BY <1>1, <1>2
  <1>4. o \in Nat /\ Limit \in Nat
    BY Offsets, Constants
  <1>5. CASE o >= Len(s)
    BY <1>5 DEF Search!PageOf, OnPage
  <1>6. CASE ~ (o >= Len(s))
    <2> DEFINE e == IF Len(s) <= o + Limit THEN Len(s) ELSE o + Limit
    <2>1. Search!Min({Len(s), o + Limit}) = e
      BY <1>1, <1>3, <1>4 DEF Search!Min
    <2>2. Search!PageOf(s, p) = SubSeq(s, o + 1, e)
      BY <1>6, <2>1 DEF Search!PageOf
    <2>3. o <= e /\ e \in Nat /\ e <= Len(s)
      BY <1>1, <1>3, <1>4, <1>6
    <2> HIDE DEF e, o
    <2>4. SubSeq(s, o + 1, e) \in Seq(shown)
      BY <1>3, <1>4, <2>3, PartOf
    <2> QED BY <2>2, <2>4 DEF OnPage
  <1> QED BY <1>5, <1>6

\* The total promises a page for everybody: a member is at least one row.
LEMMA CountsAll ==
  ASSUME shown \subseteq Members, NEW q
  PROVE  /\ Search!Count(q) \in Nat /\ Cardinality(shown) \in Nat
         /\ Search!Count(q) >= Cardinality(shown)
  <1>1. IsFiniteSet(shown) /\ Cardinality(shown) \in Nat
    BY Constants, FS_Subset, FS_CardinalityType
  <1>2. Search!Count(q) = Cardinality(IF q.list = "nodes" \/ q.role THEN shown ELSE Search!Joined)
    BY SameSets DEF Search!Count
  <1> DEFINE J == Search!Joined
             Of(m) == {m} \X ({1} \cup 1 .. Roles[m])
  <1>3. IsFiniteSet(J)
    <2> DEFINE f == [m \in shown |-> Of(m)]
               All == {f[m] : m \in shown}
    <2>1. IsFiniteSet(All)
      <3>1. f \in Surjection(shown, All)
        BY DEF Surjection
      <3> QED BY <1>1, <3>1, FS_Surjection
    <2>2. ASSUME NEW m \in shown PROVE IsFiniteSet(Of(m))
      <3>1. Roles[m] \in Nat
        BY Constants
      <3>2. IsFiniteSet({m}) /\ IsFiniteSet({1})
        BY FS_Singleton
      <3> DEFINE k == Roles[m]
      <3> HIDE DEF k
      <3>3. k \in Int
        BY <3>1 DEF k
      <3>4. IsFiniteSet(1 .. k)
        BY <3>3, FS_Interval
      <3>5. IsFiniteSet({1} \cup 1 .. k)
        BY <3>2, <3>4, FS_Union
      <3> QED BY <3>2, <3>5, FS_Product DEF k
    <2>3. \A A \in All : IsFiniteSet(A)
      BY <2>2
    <2>4. J = UNION All
      BY DEF Search!Joined
    <2> HIDE DEF All
    <2> QED BY <2>1, <2>3, <2>4, FS_UNION
  <1>4. Cardinality(shown) <= Cardinality(J)
    <2> DEFINE f == [m \in shown |-> <<m, 1>>]
    <2>1. \A m \in shown : <<m, 1>> \in J
      BY DEF Search!Joined
    <2>2. f \in Injection(shown, J)
      BY <2>1 DEF Injection, IsInjective
    <2> QED BY <1>3, <2>2, FS_Injection
  <1>5. Cardinality(J) \in Nat
    BY <1>3, FS_CardinalityType
  <1> QED BY <1>1, <1>2, <1>4, <1>5

-----------------------------------------------------------------------------

Seen(m) == \E p \in 1 .. page : <<p, m>> \in seen
PageEnd == Search!Offset(page + 1)

WalkTypes ==
  /\ shown \subseteq Members /\ asked \in Requests /\ page \in Nat \ {0}
  /\ waiting \subseteq {"rows", "count"} /\ at \in {"query", "done"} /\ total \in Nat
  /\ "rows" \in waiting => OnPage(rows) = {}
  /\ OnPage(rows) \subseteq Members
  /\ seen \subseteq (IF at = "query" THEN 1 .. page - 1 ELSE 1 .. page) \X Members

\* While nobody comes, ranks only fall: who was on a page stays before its end, and
\* is on no later one.
Behind ==
  /\ \A s \in seen : Rank(asked, shown, s[2]) < Search!Offset(s[1] + 1)
  /\ \A m \in OnPage(rows) : /\ Rank(asked, shown, m) < PageEnd
                             /\ \A s \in seen : s[2] # m
  /\ \A s, t \in seen : s[2] = t[2] => s = t

\* While nobody leaves, ranks only rise: who has not been shown is still ahead.
Reached ==
  /\ stayed \subseteq shown
  /\ at = "query" => \A m \in stayed :
       \/ Seen(m)
       \/ "rows" \in waiting /\ Search!Offset(page) <= Rank(asked, shown, m)
       \/ "rows" \notin waiting /\ (m \in OnPage(rows) \/ PageEnd <= Rank(asked, shown, m))
  /\ at = "query" /\ "count" \notin waiting /\ ~ torn =>
       IF "rows" \in waiting THEN Cardinality(shown) <= total
       ELSE \A m \in stayed : Seen(m) \/ m \in OnPage(rows) \/ PageEnd < total
  /\ "count" \notin waiting /\ stayed # {} => total # 0
  /\ at = "done" /\ ~ torn => \A m \in stayed :
       Seen(m) \/ (asked.list = "users" /\ LastPage <= page /\ PageEnd <= Rank(asked, shown, m))

WalkInv == /\ WalkTypes
           /\ Search!Unique(asked) /\ ~ came => Behind
           /\ Search!Unique(asked) /\ ~ left => Reached

LEMMA InitWalkInv == Search!Init => WalkInv
  <1> SUFFICES ASSUME Search!Init PROVE WalkInv
    OBVIOUS
  <1>1. /\ shown \subseteq Members /\ asked \in Requests
        /\ page = 1 /\ rows = <<>> /\ total = 0 /\ waiting = {"rows", "count"}
        /\ seen = {} /\ at = "query" /\ stayed = shown
    BY DEF Search!Init, Search!Both
  <1>2. OnPage(rows) = {}
    BY <1>1 DEF OnPage
  <1>3. WalkTypes
    BY <1>1, <1>2 DEF WalkTypes
  <1>4. Behind
    BY <1>1, <1>2 DEF Behind
  <1>5. Search!Offset(1) = 0
    BY Constants DEF Search!Offset
  <1>6. \A m \in stayed : Search!Offset(page) <= Rank(asked, shown, m)
    BY <1>1, <1>5, RankIsNat
  <1>7. Reached
    BY <1>1, <1>6 DEF Reached
  <1> QED BY <1>3, <1>4, <1>7 DEF WalkInv

LEMMA QueryRowsKeepsWalkInv == WalkInv /\ Search!QueryRows => WalkInv'
  <1> SUFFICES ASSUME WalkInv, Search!QueryRows PROVE WalkInv'
    OBVIOUS
  <1>1. /\ at = "query" /\ "rows" \in waiting /\ waiting' = waiting \ {"rows"}
        /\ UNCHANGED <<shown, asked, page, total, seen, at, stayed, came, left, torn>>
    BY DEF Search!QueryRows
  <1>2. PICK s \in Search!Orderings(asked) : rows' = Search!PageOf(s, page)
    BY DEF Search!QueryRows
  <1>3. WalkTypes
    BY DEF WalkInv
  <1>4. shown \subseteq Members /\ page \in Nat \ {0}
    BY <1>3 DEF WalkTypes
  <1>5. OnPage(rows') \subseteq shown
    BY <1>2, <1>4, PageIsShown
  <1>6. WalkTypes'
    BY <1>1, <1>3, <1>5 DEF WalkTypes, OnPage
  <1>7. Search!Unique(asked)' = Search!Unique(asked) /\ PageEnd' = PageEnd
    BY <1>1 DEF Search!Unique, PageEnd
  <1>8. Search!Unique(asked) =>
          OnPage(rows') = {m \in shown : /\ Search!Offset(page) <= Rank(asked, shown, m)
                                         /\ Rank(asked, shown, m) < PageEnd}
    BY <1>2, <1>4, PageIsRanks DEF PageEnd
  <1>9. ASSUME Search!Unique(asked), Behind PROVE Behind'
    <2>1. ASSUME NEW m \in OnPage(rows'), NEW t \in seen PROVE t[2] # m
      <3>1. t[1] \in Nat \ {0} /\ t[1] < page
        BY <1>1, <1>3, <1>4 DEF WalkTypes
      <3>2. Rank(asked, shown, t[2]) < Search!Offset(page)
        <4>1. Search!Offset(t[1] + 1) <= Search!Offset(page)
          BY <1>4, <3>1, Offsets
        <4>2. Rank(asked, shown, t[2]) < Search!Offset(t[1] + 1)
          BY <1>9 DEF Behind
        <4>3. Search!Offset(t[1] + 1) \in Nat /\ Search!Offset(page) \in Nat
          BY <1>4, <3>1, Offsets
        <4>4. Rank(asked, shown, t[2]) \in Nat
          BY <1>4, RankIsNat
        <4> QED BY <4>1, <4>2, <4>3, <4>4
      <3>3. Search!Offset(page) <= Rank(asked, shown, m)
        BY <1>8, <1>9
      <3>4. Rank(asked, shown, m) \in Nat /\ Search!Offset(page) \in Nat
        BY <1>4, RankIsNat, Offsets
      <3> QED BY <3>2, <3>3, <3>4
    <2>2. \A m \in OnPage(rows') : Rank(asked, shown, m) < PageEnd
      BY <1>8, <1>9
    <2> QED BY <1>1, <1>7, <1>9, <2>1, <2>2 DEF Behind, OnPage
  <1>10. ASSUME Search!Unique(asked), Reached PROVE Reached'
    <2>1. ASSUME NEW m \in stayed
          PROVE  Seen(m) \/ m \in OnPage(rows') \/ PageEnd <= Rank(asked, shown, m)
      <3>1. Seen(m) \/ Search!Offset(page) <= Rank(asked, shown, m)
        BY <1>1, <1>10 DEF Reached
      <3>2. m \in shown
        BY <1>10 DEF Reached
      <3>3. Rank(asked, shown, m) \in Nat /\ PageEnd \in Nat
        BY <1>4, RankIsNat, Offsets DEF PageEnd
      <3> QED BY <1>8, <1>10, <3>1, <3>2, <3>3
    <2>2. ASSUME NEW m \in stayed, "count" \notin waiting, ~ torn
          PROVE  Seen(m) \/ m \in OnPage(rows') \/ PageEnd < total
      <3>1. Cardinality(shown) <= total /\ m \in shown
        BY <1>1, <1>10, <2>2 DEF Reached
      <3>2. Rank(asked, shown, m) < Cardinality(shown) /\ Cardinality(shown) \in Nat
        BY <1>4, <3>1, RankIsWithin
      <3>3. Rank(asked, shown, m) \in Nat /\ PageEnd \in Nat /\ total \in Nat
        BY <1>3, <1>4, RankIsNat, Offsets DEF PageEnd, WalkTypes
      <3> QED BY <2>1, <3>1, <3>2, <3>3
    <2>3. OnPage(rows)' = OnPage(rows') /\ \A m : Seen(m)' = Seen(m)
      BY <1>1 DEF OnPage, Seen
    <2>4. \A m : Rank(asked, shown, m)' = Rank(asked, shown, m)
      BY <1>1 DEF Rank, Ahead, Precedes
    <2> QED BY <1>1, <1>7, <1>10, <2>1, <2>2, <2>3, <2>4 DEF Reached
  <1> QED BY <1>1, <1>6, <1>7, <1>9, <1>10 DEF WalkInv

LEMMA QueryCountKeepsWalkInv == WalkInv /\ Search!QueryCount => WalkInv'
  <1> SUFFICES ASSUME WalkInv, Search!QueryCount PROVE WalkInv'
    OBVIOUS
  <1>1. /\ at = "query" /\ "count" \in waiting /\ waiting' = waiting \ {"count"}
        /\ total' = Search!Count(asked)
        /\ UNCHANGED <<shown, asked, page, rows, seen, at, stayed, came, left, torn>>
    BY DEF Search!QueryCount
  <1>2. WalkTypes
    BY DEF WalkInv
  <1>3. shown \subseteq Members /\ page \in Nat \ {0}
    BY <1>2 DEF WalkTypes
  <1>4. total' \in Nat /\ Cardinality(shown) \in Nat /\ Cardinality(shown) <= total'
    BY <1>1, <1>3, CountsAll
  <1>5. WalkTypes'
    BY <1>1, <1>2, <1>4 DEF WalkTypes, OnPage
  <1>6. Search!Unique(asked)' = Search!Unique(asked) /\ PageEnd' = PageEnd
    BY <1>1 DEF Search!Unique, PageEnd
  <1>7. Behind => Behind'
    BY <1>1 DEF Behind, OnPage, PageEnd, Rank, Ahead, Precedes
  <1>8. ASSUME Reached PROVE Reached'
    <2>1. ASSUME NEW m \in stayed, "rows" \notin waiting
          PROVE  Seen(m) \/ m \in OnPage(rows) \/ PageEnd < total'
      <3>1. Seen(m) \/ m \in OnPage(rows) \/ PageEnd <= Rank(asked, shown, m)
        BY <1>1, <1>8, <2>1 DEF Reached
      <3>2. Rank(asked, shown, m) < Cardinality(shown)
        BY <1>3, <1>8, RankIsWithin DEF Reached
      <3>3. Rank(asked, shown, m) \in Nat /\ PageEnd \in Nat
        BY <1>3, RankIsNat, Offsets DEF PageEnd
      <3> QED BY <1>4, <3>1, <3>2, <3>3
    <2>2. stayed # {} => total' # 0
      <3>1. ASSUME NEW m \in stayed PROVE total' # 0
        <4>1. Rank(asked, shown, m) < Cardinality(shown) /\ Rank(asked, shown, m) \in Nat
          BY <1>3, <1>8, RankIsWithin, RankIsNat DEF Reached
        <4> QED BY <1>4, <4>1
      <3> QED BY <3>1
    <2>3. OnPage(rows)' = OnPage(rows) /\ \A m : Seen(m)' = Seen(m)
      BY <1>1 DEF OnPage, Seen
    <2>4. \A m : Rank(asked, shown, m)' = Rank(asked, shown, m)
      BY <1>1 DEF Rank, Ahead, Precedes
    <2> QED BY <1>1, <1>4, <1>6, <1>8, <2>1, <2>2, <2>3, <2>4 DEF Reached
  <1> QED BY <1>1, <1>5, <1>6, <1>7, <1>8 DEF WalkInv

LEMMA AnswerKeepsWalkInv == WalkInv /\ Search!Answer => WalkInv'
  <1> SUFFICES ASSUME WalkInv, Search!Answer PROVE WalkInv'
    OBVIOUS
  <1> DEFINE listed == IF total = 0 THEN {} ELSE OnPage(rows)
             more == page * Limit < total /\ (asked.list = "users" => page < LastPage)
  <1>1. /\ at = "query" /\ waiting = {} /\ waiting' = {"rows", "count"}
        /\ rows' = <<>> /\ total' = 0
        /\ IF more THEN page' = page + 1 /\ at' = at ELSE at' = "done" /\ page' = page
        /\ UNCHANGED <<shown, asked, stayed, came, left, torn>>
    BY DEF Search!Answer, Search!Both
  <1>2. seen' = seen \cup {<<page, m>> : m \in listed}
    BY DEF Search!Answer, OnPage
  <1>3. WalkTypes
    BY DEF WalkInv
  <1>4. shown \subseteq Members /\ page \in Nat \ {0} /\ listed \subseteq Members
        /\ seen \subseteq (1 .. page - 1) \X Members
    BY <1>1, <1>3 DEF WalkTypes
  <1>5. /\ PageEnd \in Nat /\ PageEnd = page * Limit
        /\ page' \in {page, page + 1}
        /\ at' = "query" => page' = page + 1 /\ Search!Offset(page') = PageEnd
    BY <1>1, <1>4, Offsets DEF PageEnd
  <1>6. OnPage(rows') = {}
    BY <1>1 DEF OnPage
  <1>7. seen' \subseteq (1 .. page) \X Members
    BY <1>2, <1>4
  <1>8. WalkTypes'
    <2>1. page' \in Nat \ {0} /\ at' \in {"query", "done"}
      BY <1>1, <1>4
    <2>2. seen' \subseteq (IF at' = "query" THEN 1 .. page' - 1 ELSE 1 .. page') \X Members
      <3>1. CASE more
        <4>1. page' = page + 1 /\ at' = "query" /\ page' - 1 = page
          BY <1>1, <1>4, <3>1
        <4> QED BY <1>7, <4>1
      <3>2. CASE ~ more
        BY <1>1, <1>7, <3>2
      <3> QED BY <3>1, <3>2
    <2> QED BY <1>1, <1>3, <1>6, <2>1, <2>2 DEF WalkTypes, OnPage
  <1>9. Search!Unique(asked)' = Search!Unique(asked)
    BY <1>1 DEF Search!Unique
  <1>10. \A m : Rank(asked, shown, m)' = Rank(asked, shown, m)
    BY <1>1 DEF Rank, Ahead, Precedes
  <1>11. ASSUME Behind PROVE Behind'
    <2>1. ASSUME NEW m \in listed
          PROVE  Rank(asked, shown, m) < PageEnd /\ \A s \in seen : s[2] # m
      BY <1>11 DEF Behind
    <2>2. ASSUME NEW s \in seen' PROVE Rank(asked, shown, s[2]) < Search!Offset(s[1] + 1)
      <3>1. CASE s \in seen
        BY <1>11, <3>1 DEF Behind
      <3>2. CASE s \notin seen
        <4>1. PICK m \in listed : s = <<page, m>>
          BY <1>2, <3>2
        <4> QED BY <2>1, <4>1 DEF PageEnd
      <3> QED BY <3>1, <3>2
    <2>3. ASSUME NEW s \in seen', NEW t \in seen', s[2] = t[2] PROVE s = t
      <3>1. CASE s \in seen /\ t \in seen
        BY <1>11, <2>3, <3>1 DEF Behind
      <3>2. CASE s \notin seen
        <4>1. PICK m \in listed : s = <<page, m>>
          BY <1>2, <3>2
        <4>2. t \notin seen
          BY <2>1, <2>3, <4>1
        <4>3. PICK k \in listed : t = <<page, k>>
          BY <1>2, <4>2
        <4> QED BY <2>3, <4>1, <4>3
      <3>3. CASE t \notin seen
        <4>1. PICK m \in listed : t = <<page, m>>
          BY <1>2, <3>3
        <4>2. s \notin seen
          BY <2>1, <2>3, <4>1
        <4>3. PICK k \in listed : s = <<page, k>>
          BY <1>2, <4>2
        <4> QED BY <2>3, <4>1, <4>3
      <3> QED BY <3>1, <3>2, <3>3
    <2> QED BY <1>6, <1>10, <2>2, <2>3 DEF Behind, OnPage
  <1>12. ASSUME Reached PROVE Reached'
    <2>1. ASSUME NEW m \in stayed PROVE total # 0
      BY <1>1, <1>12 DEF Reached
    <2>2. ASSUME NEW m, Seen(m) \/ m \in listed PROVE Seen(m)'
      <3>1. PICK p \in 1 .. page : <<p, m>> \in seen'
        <4>1. CASE Seen(m)
          BY <1>2, <4>1 DEF Seen
        <4>2. CASE m \in listed
          BY <1>2, <1>4, <4>2
        <4> QED BY <2>2, <4>1, <4>2
      <3>2. p \in 1 .. page'
        BY <1>4, <1>5
      <3> QED BY <3>1, <3>2 DEF Seen
    <2>3. ASSUME NEW m \in stayed
          PROVE  Seen(m)' \/ PageEnd <= Rank(asked, shown, m)
      <3>1. Seen(m) \/ m \in OnPage(rows) \/ PageEnd <= Rank(asked, shown, m)
        BY <1>1, <1>12 DEF Reached
      <3> QED BY <2>1, <2>2, <3>1
    <2>4. ASSUME NEW m \in stayed, at' = "done", ~ torn
          PROVE  \/ Seen(m)'
                 \/ asked.list = "users" /\ LastPage <= page /\ PageEnd <= Rank(asked, shown, m)
      <3>1. Seen(m)' \/ PageEnd < total
        <4>1. Seen(m) \/ m \in OnPage(rows) \/ PageEnd < total
          BY <1>1, <1>12, <2>4 DEF Reached
        <4> QED BY <2>1, <2>2, <4>1
      <3>2. ~ more
        BY <1>1, <2>4
      <3>3. CASE PageEnd < total
        <4>1. asked.list = "users" /\ ~ (page < LastPage)
          BY <1>5, <3>2, <3>3
        <4>2. LastPage <= page
          BY <1>4, <4>1, Constants
        <4> QED BY <2>3, <4>1, <4>2
      <3> QED BY <3>1, <3>3
    <2>5. at' = "done" => PageEnd' = PageEnd
      BY <1>1 DEF PageEnd
    <2>6. \A m \in stayed : Rank(asked, shown, m)' = Rank(asked, shown, m)
      BY <1>10
    <2>7. at' = "query" => Search!Offset(page)' = PageEnd
      BY <1>5
    <2>8. /\ stayed' = stayed /\ shown' = shown /\ torn' = torn
          /\ asked' = asked /\ "rows" \in waiting' /\ "count" \in waiting'
      BY <1>1
    <2>9. stayed \subseteq shown
      BY <1>12 DEF Reached
    <2>10. ASSUME at' = "done", ~ torn', NEW m \in stayed'
           PROVE  \/ Seen(m)'
                  \/ /\ asked'.list = "users" /\ LastPage <= page'
                     /\ PageEnd' <= Rank(asked, shown, m)'
      <3>1. page' = page
        BY <1>1, <2>10
      <3> QED BY <2>4, <2>5, <2>8, <2>10, <1>10, <3>1
    <2>11. ASSUME at' = "query", NEW m \in stayed'
           PROVE  Seen(m)' \/ Search!Offset(page)' <= Rank(asked, shown, m)'
      BY <2>3, <2>7, <2>8, <2>11, <1>10
    <2>12. at' = "query" \/ at' = "done"
      BY <1>1
    <2> QED BY <2>8, <2>9, <2>10, <2>11 DEF Reached
  <1> QED BY <1>1, <1>8, <1>9, <1>11, <1>12 DEF WalkInv

LEMMA ComeInKeepsWalkInv ==
  ASSUME WalkInv, NEW k \in Members, Search!ComeIn(k)
  PROVE  WalkInv'
  <1>1. /\ at = "query" /\ shown' = shown \cup {k} /\ came' = TRUE
        /\ torn' = (torn \/ waiting \notin {{}, {"rows", "count"}})
        /\ UNCHANGED <<asked, page, rows, total, waiting, seen, at, stayed, left>>
    BY DEF Search!ComeIn, Search!Both
  <1>2. WalkTypes
    BY DEF WalkInv
  <1>3. shown \in SUBSET shown' /\ shown' \in SUBSET Members /\ page \in Nat \ {0}
    BY <1>1, <1>2 DEF WalkTypes
  <1>4. WalkTypes'
    BY <1>1, <1>2, <1>3 DEF WalkTypes, OnPage
  <1>5. Search!Unique(asked)' = Search!Unique(asked)
    BY <1>1 DEF Search!Unique
  <1>6. ASSUME Reached PROVE Reached'
    <2>1. ASSUME NEW m
          PROVE  /\ Rank(asked, shown, m)' \in Nat /\ Rank(asked, shown, m) \in Nat
                 /\ Rank(asked, shown, m) <= Rank(asked, shown, m)'
      <3>1. Rank(asked, shown, m)' = Rank(asked, shown', m)
        BY <1>1 DEF Rank, Ahead, Precedes
      <3> QED BY <1>3, <3>1, RankGrows, RankIsNat
    <2>2. PageEnd \in Nat /\ Search!Offset(page) \in Nat
      BY <1>3, Offsets DEF PageEnd
    <2>3. /\ PageEnd' = PageEnd /\ Search!Offset(page)' = Search!Offset(page)
          /\ OnPage(rows)' = OnPage(rows) /\ \A m : Seen(m)' = Seen(m)
          /\ stayed' = stayed /\ waiting' = waiting /\ total' = total /\ at' = "query"
      BY <1>1 DEF PageEnd, OnPage, Seen
    <2>4. stayed \subseteq shown'
      BY <1>1, <1>6 DEF Reached
    <2>5. ASSUME NEW m \in stayed
          PROVE  \/ Seen(m)
                 \/ "rows" \in waiting /\ Search!Offset(page) <= Rank(asked, shown, m)'
                 \/ /\ "rows" \notin waiting
                    /\ m \in OnPage(rows) \/ PageEnd <= Rank(asked, shown, m)'
      <3>1. \/ Seen(m)
            \/ "rows" \in waiting /\ Search!Offset(page) <= Rank(asked, shown, m)
            \/ "rows" \notin waiting /\ (m \in OnPage(rows) \/ PageEnd <= Rank(asked, shown, m))
        BY <1>1, <1>6 DEF Reached
      <3>2. \A a \in Nat : a <= Rank(asked, shown, m) => a <= Rank(asked, shown, m)'
        BY <2>1
      <3> QED BY <2>2, <3>1, <3>2
    <2>6. ASSUME "count" \notin waiting, ~ torn'
          PROVE  /\ "rows" \notin waiting
                 /\ \A m \in stayed : Seen(m) \/ m \in OnPage(rows) \/ PageEnd < total
      <3>1. waiting = {}
        BY <1>1, <2>6
      <3> QED BY <1>1, <1>6, <2>6, <3>1 DEF Reached
    <2>7. "count" \notin waiting /\ stayed # {} => total # 0
      BY <1>6 DEF Reached
    <2> QED BY <2>3, <2>4, <2>5, <2>6, <2>7 DEF Reached
  <1> QED BY <1>1, <1>4, <1>5, <1>6 DEF WalkInv

LEMMA LeaveKeepsWalkInv ==
  ASSUME WalkInv, NEW k \in Members, Search!Leave(k)
  PROVE  WalkInv'
  <1>1. /\ at = "query" /\ shown' = shown \ {k} /\ left' = TRUE
        /\ UNCHANGED <<asked, page, rows, total, waiting, seen, at, came, torn>>
    BY DEF Search!Leave
  <1>2. WalkTypes
    BY DEF WalkInv
  <1>3. shown \in SUBSET Members /\ shown' \in SUBSET shown /\ page \in Nat \ {0}
    BY <1>1, <1>2 DEF WalkTypes
  <1>4. WalkTypes'
    BY <1>1, <1>2, <1>3 DEF WalkTypes, OnPage
  <1>5. Search!Unique(asked)' = Search!Unique(asked)
    BY <1>1 DEF Search!Unique
  <1>6. ASSUME Behind PROVE Behind'
    <2>1. ASSUME NEW m, NEW a \in Nat, Rank(asked, shown, m) < a
          PROVE  Rank(asked, shown, m)' < a
      <3>1. Rank(asked, shown, m)' = Rank(asked, shown', m)
        BY <1>1 DEF Rank, Ahead, Precedes
      <3>2. Rank(asked, shown', m) <= Rank(asked, shown, m)
        BY <1>3, RankGrows
      <3>3. Rank(asked, shown', m) \in Nat /\ Rank(asked, shown, m) \in Nat
        BY <1>3, RankIsNat
      <3> QED BY <2>1, <3>1, <3>2, <3>3
    <2>2. PageEnd \in Nat /\ PageEnd' = PageEnd /\ OnPage(rows)' = OnPage(rows) /\ seen' = seen
      BY <1>1, <1>3, Offsets DEF PageEnd, OnPage
    <2>3. ASSUME NEW s \in seen PROVE Search!Offset(s[1] + 1) \in Nat
      <3>1. s[1] \in Nat \ {0}
        BY <1>1, <1>2, <1>3 DEF WalkTypes
      <3> QED BY <3>1, Offsets
    <2>4. \A s \in seen : Rank(asked, shown, s[2])' < Search!Offset(s[1] + 1)
      BY <1>6, <2>1, <2>3 DEF Behind
    <2>5. \A m \in OnPage(rows) : /\ Rank(asked, shown, m)' < PageEnd
                                  /\ \A s \in seen : s[2] # m
      BY <1>6, <2>1, <2>2 DEF Behind
    <2> QED BY <1>6, <2>2, <2>4, <2>5 DEF Behind
  <1> QED BY <1>1, <1>4, <1>5, <1>6 DEF WalkInv

LEMMA NextWalkInv == WalkInv /\ [Next]_vars => WalkInv'
  <1>1. CASE SearchStep
    BY <1>1, QueryRowsKeepsWalkInv, QueryCountKeepsWalkInv, AnswerKeepsWalkInv,
       ComeInKeepsWalkInv, LeaveKeepsWalkInv DEF SearchStep, Search!Next
  <1>2. ASSUME WalkInv, RecordStep \/ RateStep \/ ListStep \/ UNCHANGED vars PROVE WalkInv'
    <2>1. UNCHANGED searchVars
      BY <1>2 DEF RecordStep, RateStep, ListStep, vars
    <2>2. UNCHANGED <<shown, asked, page, rows, total, waiting, seen, at, stayed, came, left, torn>>
      BY <2>1 DEF searchVars
    <2>3. /\ Search!Unique(asked)' = Search!Unique(asked) /\ OnPage(rows)' = OnPage(rows)
          /\ Search!Offset(page)' = Search!Offset(page) /\ PageEnd' = PageEnd
          /\ \A m : Seen(m)' = Seen(m) /\ Rank(asked, shown, m)' = Rank(asked, shown, m)
      BY <2>2 DEF Search!Unique, OnPage, PageEnd, Seen, Rank, Ahead, Precedes
    <2>4. WalkTypes'
      BY <1>2, <2>2, <2>3 DEF WalkInv, WalkTypes
    <2>5. Behind => Behind'
      BY <2>2, <2>3 DEF Behind
    <2>6. Reached => Reached'
      BY <2>2, <2>3 DEF Reached
    <2> QED BY <1>2, <2>2, <2>3, <2>4, <2>5, <2>6 DEF WalkInv
  <1> QED BY <1>1, <1>2 DEF Next

LEMMA WalkTells == WalkInv => PagesTellTheList
  <1> SUFFICES ASSUME WalkInv PROVE Search!WalkMissesNobody /\ Search!NobodyTwice
    BY DEF PagesTellTheList
  <1>1. shown \subseteq Members /\ page \in Nat \ {0}
    BY DEF WalkInv, WalkTypes
  <1>2. Search!NobodyTwice
    BY DEF WalkInv, Behind, Search!NobodyTwice
  <1>3. ASSUME at = "done", ~ left, ~ torn, Search!Unique(asked),
               asked.list = "users" => Cardinality(shown) <= LastPage * Limit,
               NEW m \in stayed
        PROVE  Seen(m)
    <2>1. stayed \subseteq shown
      BY <1>3 DEF WalkInv, Reached
    <2>2. ~ (LastPage <= page /\ PageEnd <= Rank(asked, shown, m) /\ asked.list = "users")
      <3> SUFFICES ASSUME LastPage <= page, PageEnd <= Rank(asked, shown, m),
                          Cardinality(shown) <= LastPage * Limit
                   PROVE  FALSE
        BY <1>3
      <3>1. PageEnd = page * Limit /\ PageEnd \in Nat
        BY <1>1, Offsets DEF PageEnd
      <3>2. LastPage * Limit <= page * Limit /\ LastPage * Limit \in Nat
        <4>1. PICK d \in Nat : page = LastPage + d
          <5>1. page - LastPage \in Nat /\ page = LastPage + (page - LastPage)
            BY <1>1, Constants
          <5> QED BY <5>1
        <4>2. (LastPage + d) * Limit = LastPage * Limit + d * Limit
              /\ d * Limit \in Nat /\ LastPage * Limit \in Nat
          BY Constants
        <4> QED BY <4>1, <4>2
      <3>3. Rank(asked, shown, m) < Cardinality(shown) /\ Cardinality(shown) \in Nat
        BY <1>1, <2>1, RankIsWithin
      <3>4. Rank(asked, shown, m) \in Nat
        BY <1>1, RankIsNat
      <3> QED BY <3>1, <3>2, <3>3, <3>4
    <2>3. \/ Seen(m)
          \/ asked.list = "users" /\ LastPage <= page /\ PageEnd <= Rank(asked, shown, m)
      BY <1>3 DEF WalkInv, Reached
    <2> QED BY <2>2, <2>3
  <1>4. Search!WalkMissesNobody
    BY <1>3, SameSets DEF Search!WalkMissesNobody, Seen
  <1> QED BY <1>2, <1>4

\* A client who reads a list page by page meets everybody who stays, though others
\* come, and meets nobody twice, though others go, unless the order has ties, the
\* list is longer than the pages it may ask for, or a page is torn by a newcomer.
THEOREM PagesTellTheListHolds == Spec => []PagesTellTheList
  <1>1. Init => WalkInv
    BY InitWalkInv DEF Init
  <1> QED BY <1>1, NextWalkInv, WalkTells, PTL DEF Spec
-----------------------------------------------------------------------------
(***************************************************************************)
(* The linked lists tell the sequences that DequeSpec keeps.               *)
(***************************************************************************)

\* A set of numbers that is not empty has a least one.
LEMMA LeastElement ==
  ASSUME NEW T \in SUBSET Nat, T # {}
  PROVE  \E k \in T : \A j \in T : k <= j
  <1> DEFINE less == OpToRel(<, Nat)
  <1>1. IsWellFoundedOn(less, Nat)
    BY NatLessThanWellFounded
  <1> HIDE DEF less
  <1>2. PICK k \in T : \A j \in T : <<j, k>> \notin less
    BY <1>1, WFMin
  <1>3. ASSUME NEW j \in T PROVE k <= j
    <2>1. <<j, k>> \notin OpToRel(<, Nat)
      BY <1>2 DEF less
    <2>2. ~ (j < k)
      BY <2>1 DEF OpToRel
    <2> QED BY <2>2
  <1> QED BY <1>3

\* Induction, for a set of numbers.
LEMMA AllNumbers ==
  ASSUME NEW T \in SUBSET Nat, 0 \in T, \A d \in Nat : d \in T => d + 1 \in T
  PROVE  T = Nat
  <1> DEFINE Rest == Nat \ T
  <1> SUFFICES ASSUME Rest # {} PROVE FALSE
    OBVIOUS
  <1>1. PICK k \in Rest : \A j \in Rest : k <= j
    BY LeastElement
  <1>2. k - 1 \in Nat /\ (k - 1) + 1 = k /\ ~ (k <= k - 1)
    BY <1>1
  <1>3. k - 1 \in T
    BY <1>1, <1>2
  <1> QED BY <1>1, <1>2, <1>3

-----------------------------------------------------------------------------
(* The linked lists.                                                       *)

\* The fields of a list.
Chains == [head : Nat, tail : Nat, size : Nat, next : Seq(Nat), prev : Seq(Nat),
           data : Seq(Data)]

\* p goes through the numbers up to k, in some order.
Order(p, k) == p \in [1 .. k -> 1 .. k] /\ \A i, j \in 1 .. k : p[i] = p[j] => i = j

\* From head to tail the k nodes are those of p, in that order: next leads along
\* p, prev (where there is one) against it.
Leads(two, k, head, tail, next, prev, p) ==
  /\ Order(p, k)
  /\ k = 0 => head = 0 /\ tail = 0
  /\ k # 0 => head = p[1] /\ tail = p[k]
  /\ \A i \in 1 .. k : next[p[i]] = IF i < k THEN p[i + 1] ELSE 0
  /\ two => \A i \in 1 .. k : prev[p[i]] = IF 1 < i THEN p[i - 1] ELSE 0

\* Only the doubly linked list keeps prev.
Doubly(kind) == kind = "doubly"

\* A list whose nodes are one chain, along p.
IsChain(kind, l, p) ==
  /\ l \in Chains
  /\ Len(l.next) = l.size /\ Len(l.prev) = l.size /\ Len(l.data) = l.size
  /\ Leads(Doubly(kind), l.size, l.head, l.tail, l.next, l.prev, p)

\* What a list holds, along p.
Content(l, p) == [i \in 1 .. l.size |-> l.data[p[i]]]

\* A way that starts at the first of k nodes, and is led from each to the next.
Way(q, k, start, link) ==
  /\ k \in Nat /\ q \in [1 .. k -> Nat \ {0}]
  /\ start = IF k = 0 THEN 0 ELSE q[1]
  /\ \A i \in 1 .. k : link[q[i]] = IF i < k THEN q[i + 1] ELSE 0

\* display goes that way.
LEMMA WalkIs ==
  ASSUME NEW l, NEW q, NEW start, NEW link, Way(q, l.size, start, link)
  PROVE  List!Walk(start, link, l) = Content(l, q)
  <1> DEFINE n == l.size
             Eq(f) == f = [i \in 0 .. l.size |-> IF i = 0 THEN start
                                                ELSE IF f[i - 1] = 0 THEN 0 ELSE link[f[i - 1]]]
             w == [i \in 0 .. n |-> IF i < n THEN q[i + 1] ELSE 0]
             b == CHOOSE f : Eq(f)
  <1>1. n \in Nat /\ q \in [1 .. n -> Nat \ {0}] /\ start = IF n = 0 THEN 0 ELSE q[1]
    BY DEF Way
  <1>0. \A i \in 1 .. n : link[q[i]] = IF i < n THEN q[i + 1] ELSE 0
    BY DEF Way
  <1>2. ASSUME NEW i \in 1 .. n
        PROVE  w[i] = IF w[i - 1] = 0 THEN 0 ELSE link[w[i - 1]]
    <2>1. i - 1 \in 0 .. n /\ i - 1 < n /\ (i - 1) + 1 = i /\ i \in 0 .. n
      BY <1>1
    <2>2. w[i - 1] = q[i] /\ q[i] # 0
      BY <1>1, <2>1
    <2>3. link[q[i]] = IF i < n THEN q[i + 1] ELSE 0
      BY <1>0
    <2>4. w[i] = IF i < n THEN q[i + 1] ELSE 0
      BY <2>1
    <2> QED BY <2>2, <2>3, <2>4
  <1>3. w[0] = start
    BY <1>1
  <1>4. Eq(w)
    <2>1. w = [i \in 0 .. n |-> w[i]]
      OBVIOUS
    <2>2. ASSUME NEW i \in 0 .. n
          PROVE  w[i] = IF i = 0 THEN start ELSE IF w[i - 1] = 0 THEN 0 ELSE link[w[i - 1]]
      <3> HIDE DEF w
      <3>1. CASE i = 0
        BY <1>3, <3>1
      <3>2. CASE i # 0
        <4>1. i \in 1 .. n
          BY <1>1, <3>2
        <4> QED BY <1>2, <3>2, <4>1
      <3> QED BY <3>1, <3>2
    <2> HIDE DEF w
    <2> QED BY <2>1, <2>2
  <1>5. Eq(b)
    <2> HIDE DEF Eq, w
    <2> QED BY <1>4
  <1>6. \A i \in 0 .. n : b[i] = w[i]
    <2> DEFINE T == {i \in Nat : i \in 0 .. n => b[i] = w[i]}
    <2>1. b = [i \in 0 .. n |-> IF i = 0 THEN start
                               ELSE IF b[i - 1] = 0 THEN 0 ELSE link[b[i - 1]]]
      BY <1>5
    <2> HIDE DEF b, w, Eq
    <2>2. b[0] = start
      BY <1>1, <2>1
    <2>3. ASSUME NEW i \in 1 .. n PROVE b[i] = IF b[i - 1] = 0 THEN 0 ELSE link[b[i - 1]]
      <3>1. i \in 0 .. n /\ i # 0
        BY <1>1
      <3> QED BY <2>1, <3>1
    <2>4. 0 \in T
      BY <1>3, <2>2
    <2>5. ASSUME NEW d \in Nat, d \in T PROVE d + 1 \in T
      <3> SUFFICES ASSUME d + 1 \in 0 .. n PROVE b[d + 1] = w[d + 1]
        OBVIOUS
      <3>1. d + 1 \in 1 .. n /\ (d + 1) - 1 = d /\ d \in 0 .. n
        BY <1>1
      <3>2. b[d] = w[d]
        BY <2>5, <3>1
      <3>3. b[d + 1] = IF b[d] = 0 THEN 0 ELSE link[b[d]]
        BY <2>3, <3>1
      <3>4. w[d + 1] = IF w[d] = 0 THEN 0 ELSE link[w[d]]
        BY <1>2, <3>1
      <3> QED BY <3>2, <3>3, <3>4
    <2>6. T = Nat
      <3>1. T \in SUBSET Nat
        OBVIOUS
      <3> HIDE DEF T
      <3> QED BY <2>4, <2>5, <3>1, AllNumbers
    <2> QED BY <1>1, <2>6
  <1>7. List!Walk(start, link, l) = [i \in {k \in 1 .. (n + 1) : b[k - 1] # 0} |-> l.data[b[i - 1]]]
    BY DEF List!Walk
  <1> HIDE DEF b
  <1>8. \A k \in 1 .. (n + 1) : b[k - 1] = IF k <= n THEN q[k] ELSE 0
    <2> SUFFICES ASSUME NEW k \in 1 .. (n + 1) PROVE b[k - 1] = IF k <= n THEN q[k] ELSE 0
      OBVIOUS
    <2>1. k - 1 \in 0 .. n /\ (k - 1) + 1 = k /\ (k <= n <=> k - 1 < n)
      BY <1>1
    <2> QED BY <1>6, <2>1
  <1>9. {k \in 1 .. (n + 1) : b[k - 1] # 0} = 1 .. n
    <2>1. \A k \in 1 .. n : k \in 1 .. (n + 1) /\ k <= n /\ q[k] # 0
      BY <1>1
    <2>2. \A k \in 1 .. (n + 1) : k <= n => k \in 1 .. n
      BY <1>1
    <2> HIDE DEF n
    <2> QED BY <1>8, <2>1, <2>2
  <1>10. \A i \in 1 .. n : l.data[b[i - 1]] = l.data[q[i]]
    <2>1. \A i \in 1 .. n : i \in 1 .. (n + 1) /\ i <= n
      BY <1>1
    <2> QED BY <1>8, <2>1
  <1> QED BY <1>7, <1>9, <1>10 DEF Content

\* A new list is a chain of no nodes.
LEMMA EmptyIsChain ==
  ASSUME NEW kind
  PROVE  IsChain(kind, List!Empty, <<>>)
  <1> DEFINE l == List!Empty
  <1>1. /\ l.head = 0 /\ l.tail = 0 /\ l.size = 0
        /\ l.next = <<>> /\ l.prev = <<>> /\ l.data = <<>> /\ l \in Chains
    BY DEF List!Empty, Chains
  <1>2. <<>> \in [1 .. 0 -> 1 .. 0] /\ Len(<<>>) = 0 /\ \A i \in 1 .. 0 : FALSE
    OBVIOUS
  <1> HIDE DEF l
  <1>3. IsChain(kind, l, <<>>)
    BY <1>1, <1>2 DEF IsChain, Leads, Order
  <1> QED BY <1>3 DEF l

\* What append and prepend make of each field.
IsPutLast(two, x, l, m) ==
  /\ m = [head |-> m.head, tail |-> m.tail, size |-> m.size,
              next |-> m.next, prev |-> m.prev, data |-> m.data]
  /\ m.head = IF l.head = 0 THEN l.size + 1 ELSE l.head
  /\ m.tail = l.size + 1
  /\ m.size = l.size + 1
  /\ m.data = Append(l.data, x)
  /\ m.next = IF l.head = 0 THEN Append(l.next, 0)
                  ELSE [Append(l.next, 0) EXCEPT ![l.tail] = l.size + 1]
  /\ m.prev = IF l.head = 0 THEN Append(l.prev, 0)
                  ELSE [Append(l.prev, 0) EXCEPT
                          ![l.size + 1] = IF two THEN l.tail ELSE 0]

\* That is what append does ...
LEMMA PutLastIs ==
  ASSUME NEW kind, NEW x \in Data, NEW l \in Chains,
         Len(l.data) = l.size, NEW m, m = List!PutLast(kind, x, l)
  PROVE  IsPutLast(Doubly(kind), x, l, m)
  BY DEF IsPutLast, List!PutLast, List!WithNode, List!NewNode, Chains, Doubly

IsPutFirst(two, x, l, m) ==
  /\ m = [head |-> m.head, tail |-> m.tail, size |-> m.size,
              next |-> m.next, prev |-> m.prev, data |-> m.data]
  /\ m.head = l.size + 1
  /\ m.tail = IF l.head = 0 THEN l.size + 1 ELSE l.tail
  /\ m.size = l.size + 1
  /\ m.data = Append(l.data, x)
  /\ m.next = IF l.head = 0 THEN Append(l.next, 0)
                  ELSE [Append(l.next, 0) EXCEPT ![l.size + 1] = l.head]
  /\ m.prev = IF l.head = 0 THEN Append(l.prev, 0)
                  ELSE [Append(l.prev, 0) EXCEPT
                          ![l.head] = IF two THEN l.size + 1 ELSE 0]

\* ... and what prepend does.
LEMMA PutFirstIs ==
  ASSUME NEW kind, NEW x \in Data, NEW l \in Chains,
         Len(l.data) = l.size, NEW m, m = List!PutFirst(kind, x, l)
  PROVE  IsPutFirst(Doubly(kind), x, l, m)
  BY DEF IsPutFirst, List!PutFirst, List!WithNode, List!NewNode, Chains, Doubly

\* The first and the last element added to a sequence, by element.
LEMMA AppendIs ==
  ASSUME NEW S, NEW s \in Seq(S), NEW x \in S, NEW t \in Seq(S), Len(t) = Len(s) + 1,
         t[Len(s) + 1] = x, \A i \in 1 .. Len(s) : t[i] = s[i]
  PROVE  t = Append(s, x)
  <1>1. /\ Append(s, x) \in Seq(S)
        /\ Len(Append(s, x)) = Len(s) + 1
        /\ \A i \in 1 .. Len(s) : Append(s, x)[i] = s[i]
        /\ Append(s, x)[Len(s) + 1] = x
    BY AppendProperties
  <1>2. \A i \in 1 .. Len(s) + 1 : i = Len(s) + 1 \/ i \in 1 .. Len(s)
    OBVIOUS
  <1>3. \A i \in 1 .. Len(t) : t[i] = Append(s, x)[i]
    BY <1>1, <1>2
  <1> QED BY <1>1, <1>3, SeqEqual

LEMMA PrependIs ==
  ASSUME NEW S, NEW s \in Seq(S), NEW x \in S, NEW t \in Seq(S), Len(t) = Len(s) + 1,
         t[1] = x, \A i \in 1 .. Len(s) : t[i + 1] = s[i]
  PROVE  t = <<x>> \o s
  <1>1. <<x>> \in Seq(S) /\ Len(<<x>>) = 1 /\ <<x>>[1] = x
    OBVIOUS
  <1>2. /\ <<x>> \o s \in Seq(S)
        /\ Len(<<x>> \o s) = 1 + Len(s)
        /\ \A i \in 1 .. 1 + Len(s) : (<<x>> \o s)[i] = IF i <= 1 THEN <<x>>[i] ELSE s[i - 1]
    BY <1>1, ConcatProperties
  <1> DEFINE u == <<x>> \o s
  <1> HIDE DEF u
  <1>3. ASSUME NEW i \in 1 .. Len(t) PROVE t[i] = u[i]
    <2>1. CASE i = 1
      BY <1>1, <1>2, <2>1 DEF u
    <2>2. CASE i # 1
      <3>1. i - 1 \in 1 .. Len(s) /\ (i - 1) + 1 = i /\ ~ (i <= 1) /\ i \in 1 .. 1 + Len(s)
        BY <2>2
      <3>2. u[i] = s[i - 1]
        BY <1>2, <3>1 DEF u
      <3>3. t[(i - 1) + 1] = s[i - 1]
        BY <3>1
      <3> QED BY <3>1, <3>2, <3>3
    <2> QED BY <2>1, <2>2
  <1>4. Len(t) = Len(u) /\ u \in Seq(S)
    BY <1>2 DEF u
  <1>5. t = u
    BY <1>3, <1>4, SeqEqual
  <1> QED BY <1>5 DEF u

\* The content is a sequence, as long as the list.
LEMMA ContentIs ==
  ASSUME NEW kind, NEW l, NEW p, IsChain(kind, l, p)
  PROVE  Content(l, p) \in Seq(Data) /\ Len(Content(l, p)) = l.size /\ l.size \in Nat
  <1>1. /\ l.size \in Nat /\ l.data \in Seq(Data) /\ Len(l.data) = l.size
        /\ p \in [1 .. l.size -> 1 .. l.size]
    BY DEF IsChain, Leads, Order, Chains
  <1>2. \A i \in 1 .. l.size : l.data[p[i]] \in Data
    BY <1>1
  <1> QED BY <1>1, <1>2 DEF Content

\* A new node goes after the last one ...
After(p, k) == [i \in 1 .. k + 1 |-> IF i = k + 1 THEN k + 1 ELSE p[i]]

\* That is an order again ...
LEMMA AfterIs ==
  ASSUME NEW k \in Nat, NEW p, Order(p, k)
  PROVE  /\ After(p, k) \in [1 .. k + 1 -> 1 .. k + 1]
         /\ After(p, k)[k + 1] = k + 1
         /\ \A i \in 1 .. k : After(p, k)[i] = p[i] /\ p[i] \in 1 .. k + 1 /\ p[i] # k + 1
         /\ \A i \in 1 .. k + 1 : i # k + 1 => i \in 1 .. k
         /\ \A i, j \in 1 .. k + 1 : After(p, k)[i] = After(p, k)[j] => i = j
  <1> DEFINE q == After(p, k)
  <1>0. p \in [1 .. k -> 1 .. k] /\ \A i, j \in 1 .. k : p[i] = p[j] => i = j
    BY DEF Order
  <1>1. /\ q \in [1 .. k + 1 -> 1 .. k + 1]
        /\ q[k + 1] = k + 1
        /\ \A i \in 1 .. k : q[i] = p[i] /\ p[i] \in 1 .. k + 1 /\ p[i] # k + 1
        /\ \A i \in 1 .. k + 1 : i # k + 1 => i \in 1 .. k
    BY <1>0 DEF After
  <1> HIDE DEF q
  <1>2. \A i, j \in 1 .. k + 1 : q[i] = q[j] => i = j
    BY <1>0, <1>1
  <1> QED BY <1>1, <1>2 DEF q

\* What append makes of the links ...
PutAfter(two, k, head, tail, next, prev, head2, next2, prev2) ==
  /\ head2 = IF k = 0 THEN k + 1 ELSE head
  /\ \A j \in 1 .. k + 1 : next2[j] = IF k # 0 /\ j = tail THEN k + 1
                                      ELSE IF j = k + 1 THEN 0 ELSE next[j]
  /\ \A j \in 1 .. k : prev2[j] = prev[j]
  /\ prev2[k + 1] = IF k # 0 /\ two THEN tail ELSE 0

\* ... which lead along the longer order.
LEMMA LeadsAfter ==
  ASSUME NEW two, NEW k \in Nat, NEW head, NEW tail, NEW next, NEW prev, NEW p,
         Leads(two, k, head, tail, next, prev, p),
         NEW head2, NEW next2, NEW prev2,
         PutAfter(two, k, head, tail, next, prev, head2, next2, prev2)
  PROVE  Leads(two, k + 1, head2, k + 1, next2, prev2, After(p, k))
  <1> DEFINE n == k + 1
             q == After(p, k)
  <1>0. /\ head2 = IF k = 0 THEN k + 1 ELSE head
        /\ \A j \in 1 .. k + 1 : next2[j] = IF k # 0 /\ j = tail THEN k + 1
                                            ELSE IF j = k + 1 THEN 0 ELSE next[j]
        /\ \A j \in 1 .. k : prev2[j] = prev[j]
        /\ prev2[k + 1] = IF k # 0 /\ two THEN tail ELSE 0
    BY DEF PutAfter
  <1>1. /\ p \in [1 .. k -> 1 .. k]
        /\ \A i, j \in 1 .. k : p[i] = p[j] => i = j
        /\ k = 0 => head = 0 /\ tail = 0
        /\ k # 0 => head = p[1] /\ tail = p[k]
        /\ \A i \in 1 .. k : next[p[i]] = IF i < k THEN p[i + 1] ELSE 0
        /\ two => \A i \in 1 .. k : prev[p[i]] = IF 1 < i THEN p[i - 1] ELSE 0
    BY DEF Leads, Order
  <1>2. /\ q \in [1 .. n -> 1 .. n]
        /\ q[n] = n
        /\ \A i \in 1 .. k : q[i] = p[i] /\ p[i] \in 1 .. n /\ p[i] # n
        /\ \A i \in 1 .. n : i # n => i \in 1 .. k
        /\ \A i, j \in 1 .. n : q[i] = q[j] => i = j
    BY AfterIs DEF Leads
  <1> HIDE DEF q
  <1>3. n # 0 /\ n \in 1 .. n /\ 1 \in 1 .. n /\ (k # 0 => k \in 1 .. k /\ 1 \in 1 .. k)
        /\ (k = 0 => n = 1)
    OBVIOUS
  <1>4. head2 = q[1]
    <2>1. CASE k = 0
      BY <1>0, <1>2, <1>3, <2>1
    <2>2. CASE k # 0
      BY <1>0, <1>1, <1>2, <1>3, <2>2
    <2> QED BY <2>1, <2>2
  <1>5. ASSUME NEW i \in 1 .. n PROVE next2[q[i]] = IF i < n THEN q[i + 1] ELSE 0
    <2>1. CASE i = n
      <3>1. k # 0 => tail # n
        BY <1>1, <1>2, <1>3
      <3>2. next2[n] = 0
        BY <1>0, <1>3, <3>1
      <3> QED BY <1>2, <2>1, <3>2
    <2>2. CASE i # n
      <3>1. i \in 1 .. k /\ q[i] = p[i] /\ p[i] \in 1 .. n /\ p[i] # n /\ i < n /\ k # 0
        BY <1>2, <2>2
      <3>2. CASE i = k
        <4>1. p[i] = tail
          BY <1>1, <3>1, <3>2
        <4>2. next2[p[i]] = n
          BY <1>0, <3>1, <4>1
        <4> QED BY <1>2, <3>1, <3>2, <4>2
      <3>3. CASE i # k
        <4>1. k \in 1 .. k /\ i < k /\ i + 1 \in 1 .. k
          BY <3>1, <3>3
        <4>2. p[i] # tail
          BY <1>1, <3>1, <3>3, <4>1
        <4>3. next2[p[i]] = next[p[i]]
          BY <1>0, <3>1, <4>2
        <4>4. next2[p[i]] = p[i + 1]
          BY <1>1, <3>1, <4>1, <4>3
        <4>5. q[i + 1] = p[i + 1]
          BY <1>2, <4>1
        <4> QED BY <3>1, <4>4, <4>5
      <3> QED BY <3>2, <3>3
    <2> QED BY <2>1, <2>2
  <1>6. ASSUME two, NEW i \in 1 .. n PROVE prev2[q[i]] = IF 1 < i THEN q[i - 1] ELSE 0
    <2>1. CASE i = n
      <3>1. prev2[n] = IF k # 0 THEN tail ELSE 0
        BY <1>0, <1>6
      <3>2. k # 0 => tail = p[k] /\ q[k] = p[k] /\ n - 1 = k /\ 1 < n
        BY <1>1, <1>2, <1>3
      <3>3. k = 0 => ~ (1 < n)
        OBVIOUS
      <3> QED BY <1>2, <2>1, <3>1, <3>2, <3>3
    <2>2. CASE i # n
      <3>1. i \in 1 .. k /\ q[i] = p[i] /\ p[i] \in 1 .. k
        BY <1>1, <1>2, <2>2
      <3>2. prev2[p[i]] = IF 1 < i THEN p[i - 1] ELSE 0
        BY <1>0, <1>1, <1>6, <3>1
      <3>3. 1 < i => i - 1 \in 1 .. k
        BY <3>1
      <3>4. 1 < i => q[i - 1] = p[i - 1]
        BY <1>2, <3>3
      <3> QED BY <3>1, <3>2, <3>4
    <2> QED BY <2>1, <2>2
  <1>7. Order(q, n)
    BY <1>2 DEF Order
  <1> QED BY <1>2, <1>3, <1>4, <1>5, <1>6, <1>7 DEF Leads, q

\* ... or before the first one.
Before(p, k) == [i \in 1 .. k + 1 |-> IF i = 1 THEN k + 1 ELSE p[i - 1]]

LEMMA BeforeIs ==
  ASSUME NEW k \in Nat, NEW p, Order(p, k)
  PROVE  /\ Before(p, k) \in [1 .. k + 1 -> 1 .. k + 1]
         /\ Before(p, k)[1] = k + 1
         /\ \A i \in 1 .. k : Before(p, k)[i + 1] = p[i] /\ p[i] \in 1 .. k + 1 /\ p[i] # k + 1
         /\ \A i \in 1 .. k + 1 : i # 1 => i - 1 \in 1 .. k /\ (i - 1) + 1 = i
         /\ \A i, j \in 1 .. k + 1 : Before(p, k)[i] = Before(p, k)[j] => i = j
  <1> DEFINE q == Before(p, k)
  <1>0. p \in [1 .. k -> 1 .. k] /\ \A i, j \in 1 .. k : p[i] = p[j] => i = j
    BY DEF Order
  <1>1. \A i \in 1 .. k + 1 : i # 1 => i - 1 \in 1 .. k /\ (i - 1) + 1 = i
    OBVIOUS
  <1>2. /\ q \in [1 .. k + 1 -> 1 .. k + 1]
        /\ q[1] = k + 1
    BY <1>0, <1>1 DEF Before
  <1>3. ASSUME NEW i \in 1 .. k PROVE q[i + 1] = p[i] /\ p[i] \in 1 .. k + 1 /\ p[i] # k + 1
    <2>1. i + 1 \in 1 .. k + 1 /\ i + 1 # 1 /\ (i + 1) - 1 = i
      OBVIOUS
    <2>2. q[i + 1] = p[(i + 1) - 1]
      BY <2>1 DEF Before
    <2> QED BY <1>0, <2>1, <2>2
  <1> HIDE DEF q
  <1>4. ASSUME NEW i \in 1 .. k + 1, NEW j \in 1 .. k + 1, q[i] = q[j] PROVE i = j
    <2>1. ASSUME NEW a \in 1 .. k + 1, a # 1
          PROVE  a - 1 \in 1 .. k /\ q[a] = p[a - 1] /\ q[a] # k + 1
      <3>1. a - 1 \in 1 .. k /\ (a - 1) + 1 = a
        BY <1>1, <2>1
      <3>2. q[(a - 1) + 1] = p[a - 1] /\ p[a - 1] # k + 1
        BY <1>3, <3>1
      <3> QED BY <3>1, <3>2
    <2>2. CASE i = 1 \/ j = 1
      BY <1>2, <1>4, <2>1, <2>2
    <2>3. CASE i # 1 /\ j # 1
      <3>1. p[i - 1] = p[j - 1] /\ i - 1 \in 1 .. k /\ j - 1 \in 1 .. k
        BY <1>4, <2>1, <2>3
      <3>2. i - 1 = j - 1
        BY <1>0, <3>1
      <3> QED BY <3>2
    <2> QED BY <2>2, <2>3
  <1> QED BY <1>1, <1>2, <1>3, <1>4 DEF q

PutBefore(two, k, head, tail, next, prev, tail2, next2, prev2) ==
  /\ tail2 = IF k = 0 THEN k + 1 ELSE tail
  /\ \A j \in 1 .. k : next2[j] = next[j]
  /\ next2[k + 1] = IF k # 0 THEN head ELSE 0
  /\ two => \A j \in 1 .. k + 1 : prev2[j] = IF k # 0 /\ j = head THEN k + 1
                                             ELSE IF j = k + 1 THEN 0 ELSE prev[j]

LEMMA LeadsBefore ==
  ASSUME NEW two, NEW k \in Nat, NEW head, NEW tail, NEW next, NEW prev, NEW p,
         Leads(two, k, head, tail, next, prev, p),
         NEW tail2, NEW next2, NEW prev2,
         PutBefore(two, k, head, tail, next, prev, tail2, next2, prev2)
  PROVE  Leads(two, k + 1, k + 1, tail2, next2, prev2, Before(p, k))
  <1> DEFINE n == k + 1
             q == Before(p, k)
  <1>0. /\ tail2 = IF k = 0 THEN k + 1 ELSE tail
        /\ \A j \in 1 .. k : next2[j] = next[j]
        /\ next2[k + 1] = IF k # 0 THEN head ELSE 0
        /\ two => \A j \in 1 .. k + 1 : prev2[j] = IF k # 0 /\ j = head THEN k + 1
                                                   ELSE IF j = k + 1 THEN 0 ELSE prev[j]
    BY DEF PutBefore
  <1>1. /\ p \in [1 .. k -> 1 .. k]
        /\ \A i, j \in 1 .. k : p[i] = p[j] => i = j
        /\ k = 0 => head = 0 /\ tail = 0
        /\ k # 0 => head = p[1] /\ tail = p[k]
        /\ \A i \in 1 .. k : next[p[i]] = IF i < k THEN p[i + 1] ELSE 0
        /\ two => \A i \in 1 .. k : prev[p[i]] = IF 1 < i THEN p[i - 1] ELSE 0
    BY DEF Leads, Order
  <1>2. /\ q \in [1 .. n -> 1 .. n]
        /\ q[1] = n
        /\ \A i \in 1 .. k : q[i + 1] = p[i] /\ p[i] \in 1 .. n /\ p[i] # n
        /\ \A i \in 1 .. n : i # 1 => i - 1 \in 1 .. k /\ (i - 1) + 1 = i
        /\ \A i, j \in 1 .. n : q[i] = q[j] => i = j
    BY BeforeIs DEF Leads
  <1> HIDE DEF q
  <1>3. n # 0 /\ n \in 1 .. n /\ 1 \in 1 .. n /\ (k # 0 => k \in 1 .. k /\ 1 \in 1 .. k)
        /\ (k = 0 => n = 1)
    OBVIOUS
  <1>4. tail2 = q[n]
    <2>1. CASE k = 0
      BY <1>0, <1>2, <1>3, <2>1
    <2>2. CASE k # 0
      BY <1>0, <1>1, <1>2, <1>3, <2>2
    <2> QED BY <2>1, <2>2
  <1>5. ASSUME NEW i \in 1 .. n PROVE next2[q[i]] = IF i < n THEN q[i + 1] ELSE 0
    <2>1. CASE i = 1
      <3>1. CASE k = 0
        BY <1>0, <1>2, <1>3, <2>1, <3>1
      <3>2. CASE k # 0
        <4>1. 1 < n /\ q[1 + 1] = p[1] /\ head = p[1]
          BY <1>1, <1>2, <1>3, <3>2
        <4> QED BY <1>0, <1>2, <2>1, <3>2, <4>1
      <3> QED BY <3>1, <3>2
    <2>2. CASE i # 1
      <3> DEFINE h == i - 1
      <3>1. h \in 1 .. k /\ h + 1 = i /\ (h < k <=> i < n)
        BY <1>2, <2>2
      <3>2. q[i] = p[h] /\ p[h] \in 1 .. k
        BY <1>1, <1>2, <3>1
      <3>3. next2[p[h]] = IF h < k THEN p[h + 1] ELSE 0
        BY <1>0, <1>1, <3>1, <3>2
      <3>4. h < k => h + 1 \in 1 .. k
        BY <3>1
      <3>5. h < k => q[(h + 1) + 1] = p[h + 1]
        BY <1>2, <3>4
      <3> HIDE DEF h
      <3> QED BY <3>1, <3>2, <3>3, <3>5
    <2> QED BY <2>1, <2>2
  <1>6. ASSUME two, NEW i \in 1 .. n PROVE prev2[q[i]] = IF 1 < i THEN q[i - 1] ELSE 0
    <2>1. CASE i = 1
      <3>1. k # 0 => head # n
        BY <1>1, <1>2, <1>3
      <3>2. prev2[n] = 0
        BY <1>0, <1>3, <1>6, <3>1
      <3> QED BY <1>2, <2>1, <3>2
    <2>2. CASE i # 1
      <3> DEFINE h == i - 1
      <3>1. h \in 1 .. k /\ h + 1 = i /\ 1 < i /\ k # 0
        BY <1>2, <2>2
      <3>2. q[i] = p[h] /\ p[h] \in 1 .. n /\ p[h] # n
        BY <1>2, <3>1
      <3>3. CASE h = 1
        <4>1. p[h] = head
          BY <1>1, <3>1, <3>3
        <4>2. prev2[p[h]] = n
          BY <1>0, <1>6, <3>1, <3>2, <4>1
        <4> QED BY <1>2, <3>1, <3>2, <3>3, <4>2
      <3>4. CASE h # 1
        <4>1. 1 \in 1 .. k /\ 1 < h /\ h - 1 \in 1 .. k /\ (h - 1) + 1 = h
          BY <3>1, <3>4
        <4>2. p[h] # head
          BY <1>1, <3>1, <3>4, <4>1
        <4>3. prev2[p[h]] = prev[p[h]]
          BY <1>0, <1>6, <3>1, <3>2, <4>2
        <4>4. prev2[p[h]] = p[h - 1]
          BY <1>1, <1>6, <3>1, <4>1, <4>3
        <4>5. q[h] = p[h - 1]
          BY <1>2, <4>1
        <4> QED BY <3>1, <3>2, <4>4, <4>5
      <3> QED BY <3>3, <3>4
    <2> QED BY <2>1, <2>2
  <1>7. Order(q, n)
    BY <1>2 DEF Order
  <1> QED BY <1>2, <1>3, <1>4, <1>5, <1>6, <1>7 DEF Leads, q

\* append keeps a chain, and adds to its end.
LEMMA PutLastIsChain ==
  ASSUME NEW kind, NEW x \in Data, NEW l, NEW p, IsChain(kind, l, p)
  PROVE  /\ IsChain(kind, List!PutLast(kind, x, l), After(p, l.size))
         /\ Content(List!PutLast(kind, x, l), After(p, l.size)) = Append(Content(l, p), x)
  <1> DEFINE k == l.size
             m == List!PutLast(kind, x, l)
             q == After(p, k)
             two == Doubly(kind)
  <1>1. /\ l \in Chains /\ k \in Nat /\ l.data \in Seq(Data)
        /\ l.next \in Seq(Nat) /\ l.prev \in Seq(Nat)
        /\ Len(l.next) = k /\ Len(l.prev) = k /\ Len(l.data) = k
        /\ l.head \in Nat /\ l.tail \in Nat
    BY DEF IsChain, Chains
  <1>2. Leads(two, k, l.head, l.tail, l.next, l.prev, p)
    BY DEF IsChain
  <1> HIDE DEF m, two
  <1>3. (l.head = 0 <=> k = 0) /\ (k # 0 => l.head \in 1 .. k /\ l.tail \in 1 .. k)
    <2>1. CASE k = 0
      BY <1>2, <2>1 DEF Leads
    <2>2. CASE k # 0
      <3>1. 1 \in 1 .. k /\ k \in 1 .. k /\ p \in [1 .. k -> 1 .. k]
        BY <1>1, <1>2, <2>2 DEF Leads, Order
      <3>2. l.head = p[1] /\ l.tail = p[k]
        BY <1>2, <2>2 DEF Leads
      <3>3. l.head \in 1 .. k /\ l.tail \in 1 .. k
        BY <3>1, <3>2
      <3> QED BY <2>2, <3>3
    <2> QED BY <2>1, <2>2
  <1>4. /\ m = [head |-> m.head, tail |-> m.tail, size |-> m.size,
                next |-> m.next, prev |-> m.prev, data |-> m.data]
        /\ m.head = IF l.head = 0 THEN k + 1 ELSE l.head
        /\ m.tail = k + 1
        /\ m.size = k + 1
        /\ m.data = Append(l.data, x)
        /\ m.next = IF l.head = 0 THEN Append(l.next, 0)
                    ELSE [Append(l.next, 0) EXCEPT ![l.tail] = k + 1]
        /\ m.prev = IF l.head = 0 THEN Append(l.prev, 0)
                    ELSE [Append(l.prev, 0) EXCEPT ![k + 1] = IF two THEN l.tail ELSE 0]
    <2>1. m = List!PutLast(kind, x, l)
      BY DEF m
    <2>2. IsPutLast(two, x, l, m)
      BY <1>1, <2>1, PutLastIs DEF two
    <2> QED BY <1>1, <2>2 DEF IsPutLast
  <1>5. /\ Append(l.next, 0) \in Seq(Nat) /\ Len(Append(l.next, 0)) = k + 1
        /\ \A j \in 1 .. k : Append(l.next, 0)[j] = l.next[j]
        /\ Append(l.next, 0)[k + 1] = 0
    BY <1>1, AppendProperties
  <1>6. /\ Append(l.prev, 0) \in Seq(Nat) /\ Len(Append(l.prev, 0)) = k + 1
        /\ \A j \in 1 .. k : Append(l.prev, 0)[j] = l.prev[j]
        /\ Append(l.prev, 0)[k + 1] = 0
    BY <1>1, AppendProperties
  <1>7. /\ m.data \in Seq(Data) /\ Len(m.data) = k + 1
        /\ \A j \in 1 .. k : m.data[j] = l.data[j]
        /\ m.data[k + 1] = x
    BY <1>1, <1>4, AppendProperties
  <1>8. k + 1 \in Nat /\ (k # 0 => l.tail \in 1 .. k + 1) /\ k + 1 \in 1 .. k + 1
        /\ \A j \in 1 .. k + 1 : j = k + 1 \/ j \in 1 .. k
    <2>1. k \in Nat
      BY <1>1
    <2> HIDE DEF k
    <2> QED BY <1>3, <2>1
  <1>9. /\ m.next \in Seq(Nat) /\ Len(m.next) = k + 1
        /\ \A j \in 1 .. k + 1 : m.next[j] = IF k # 0 /\ j = l.tail THEN k + 1
                                            ELSE IF j = k + 1 THEN 0 ELSE l.next[j]
    <2> DEFINE s == Append(l.next, 0)
    <2>1. CASE k = 0
      <3>1. m.next = s
        BY <1>3, <1>4, <2>1
      <3>2. /\ s \in Seq(Nat) /\ Len(s) = k + 1 /\ s[k + 1] = 0
            /\ \A j \in 1 .. k + 1 : j = k + 1
        BY <1>5, <2>1
      <3> HIDE DEF s
      <3> QED BY <2>1, <3>1, <3>2
    <2>2. CASE k # 0
      <3>1. m.next = [s EXCEPT ![l.tail] = k + 1] /\ l.tail \in 1 .. Len(s)
        BY <1>3, <1>4, <1>5, <1>8, <2>2
      <3>2. \A j \in 1 .. k + 1 : s[j] = IF j = k + 1 THEN 0 ELSE l.next[j]
        BY <1>5, <1>8
      <3>3. s \in Seq(Nat) /\ Len(s) = k + 1
        BY <1>5
      <3> HIDE DEF s
      <3>4. /\ m.next \in Seq(Nat) /\ Len(m.next) = Len(s)
            /\ \A j \in 1 .. Len(s) : m.next[j] = IF j = l.tail THEN k + 1 ELSE s[j]
        BY <1>8, <3>1, <3>3, ExceptSeq
      <3> QED BY <2>2, <3>2, <3>3, <3>4
    <2> QED BY <2>1, <2>2
  <1>10. /\ m.prev \in Seq(Nat) /\ Len(m.prev) = k + 1
         /\ \A j \in 1 .. k : m.prev[j] = l.prev[j]
         /\ m.prev[k + 1] = IF k # 0 /\ two THEN l.tail ELSE 0
    <2> DEFINE s == Append(l.prev, 0)
               e == IF two THEN l.tail ELSE 0
    <2>1. CASE k = 0
      BY <1>1, <1>3, <1>4, <1>6, <1>8, <2>1
    <2>2. CASE k # 0
      <3>1. m.prev = [s EXCEPT ![k + 1] = e] /\ k + 1 \in 1 .. Len(s) /\ e \in Nat
        BY <1>1, <1>3, <1>4, <1>6, <1>8, <2>2
      <3>2. s \in Seq(Nat) /\ Len(s) = k + 1 /\ \A j \in 1 .. k : s[j] = l.prev[j]
        BY <1>6
      <3> HIDE DEF s, e
      <3>3. /\ m.prev \in Seq(Nat) /\ Len(m.prev) = Len(s)
            /\ \A j \in 1 .. Len(s) : m.prev[j] = IF j = k + 1 THEN e ELSE s[j]
        BY <3>1, <3>2, ExceptSeq
      <3>4. m.prev[k + 1] = e
        BY <3>1, <3>3
      <3>5. \A j \in 1 .. k : j \in 1 .. k + 1 /\ j # k + 1
        BY <1>1
      <3>6. \A j \in 1 .. k : m.prev[j] = l.prev[j]
        BY <3>2, <3>3, <3>5
      <3> QED BY <2>2, <3>2, <3>3, <3>4, <3>6, SMTT(20) DEF e
    <2> QED BY <2>1, <2>2
  <1>11. m \in Chains
    <2>1. m.head \in Nat /\ m.tail \in Nat /\ m.size \in Nat
      BY <1>1, <1>4, <1>8
    <2> QED BY <1>4, <1>7, <1>9, <1>10, <2>1 DEF Chains
  <1>12. m.head = IF k = 0 THEN k + 1 ELSE l.head
    BY <1>3, <1>4
  <1>13. Leads(two, k + 1, m.head, k + 1, m.next, m.prev, q)
    <2>1. PutAfter(two, k, l.head, l.tail, l.next, l.prev, m.head, m.next, m.prev)
      BY <1>9, <1>10, <1>12 DEF PutAfter
    <2> QED BY <1>1, <1>2, <2>1, LeadsAfter
  <1>14. IsChain(kind, m, q)
    BY <1>4, <1>7, <1>9, <1>10, <1>11, <1>13 DEF IsChain, two
  <1>15. Content(m, q) = Append(Content(l, p), x)
    <2> DEFINE s == Content(l, p)
               t == Content(m, q)
    <2>1. s \in Seq(Data) /\ Len(s) = k /\ t \in Seq(Data) /\ Len(t) = k + 1
      BY <1>4, <1>14, ContentIs
    <2>2. /\ q[k + 1] = k + 1
          /\ \A i \in 1 .. k : q[i] = p[i]
      <3>0. k \in Nat
        BY <1>1
      <3>1. Order(p, k)
        BY <1>2 DEF Leads
      <3> HIDE DEF k
      <3>2. /\ After(p, k)[k + 1] = k + 1
            /\ \A i \in 1 .. k : After(p, k)[i] = p[i]
        BY <3>0, <3>1, AfterIs, SMTT(30)
      <3> QED BY <3>2
    <2>3. p \in [1 .. k -> 1 .. k] /\ \A i \in 1 .. k : i \in 1 .. k + 1
      BY <1>1, <1>2 DEF Leads, Order
    <2>4. t = [i \in 1 .. k + 1 |-> m.data[q[i]]]
      BY <1>4 DEF Content
    <2>5. s = [i \in 1 .. k |-> l.data[p[i]]]
      BY DEF Content
    <2> HIDE DEF s, t, q
    <2>6. t[k + 1] = x
      BY <1>7, <1>8, <2>2, <2>4
    <2>7. \A i \in 1 .. k : t[i] = s[i]
      BY <1>7, <2>2, <2>3, <2>4, <2>5
    <2>8. t = Append(s, x)
      BY <2>1, <2>6, <2>7, AppendIs
    <2> QED BY <2>8 DEF s, t
  <1> QED BY <1>14, <1>15 DEF m

\* A sequence with x before it.
Prepended(x, s) == <<x>> \o s

\* prepend keeps a chain, and adds to its start.
LEMMA PutFirstIsChain ==
  ASSUME NEW kind, NEW x \in Data, NEW l, NEW p, IsChain(kind, l, p)
  PROVE  /\ IsChain(kind, List!PutFirst(kind, x, l), Before(p, l.size))
         /\ Content(List!PutFirst(kind, x, l), Before(p, l.size)) = Prepended(x, Content(l, p))
  <1> DEFINE k == l.size
             m == List!PutFirst(kind, x, l)
             q == Before(p, k)
             two == Doubly(kind)
  <1>1. /\ l \in Chains /\ k \in Nat /\ l.data \in Seq(Data)
        /\ l.next \in Seq(Nat) /\ l.prev \in Seq(Nat)
        /\ Len(l.next) = k /\ Len(l.prev) = k /\ Len(l.data) = k
        /\ l.head \in Nat /\ l.tail \in Nat
    BY DEF IsChain, Chains
  <1>2. Leads(two, k, l.head, l.tail, l.next, l.prev, p)
    BY DEF IsChain
  <1> HIDE DEF m, two
  <1>3. (l.head = 0 <=> k = 0) /\ (k # 0 => l.head \in 1 .. k /\ l.tail \in 1 .. k)
    <2>1. CASE k = 0
      BY <1>2, <2>1 DEF Leads
    <2>2. CASE k # 0
      <3>1. 1 \in 1 .. k /\ k \in 1 .. k /\ p \in [1 .. k -> 1 .. k]
        BY <1>1, <1>2, <2>2 DEF Leads, Order
      <3>2. l.head = p[1] /\ l.tail = p[k]
        BY <1>2, <2>2 DEF Leads
      <3>3. l.head \in 1 .. k /\ l.tail \in 1 .. k
        BY <3>1, <3>2
      <3> QED BY <2>2, <3>3
    <2> QED BY <2>1, <2>2
  <1>4. /\ m = [head |-> m.head, tail |-> m.tail, size |-> m.size,
                next |-> m.next, prev |-> m.prev, data |-> m.data]
        /\ m.head = k + 1
        /\ m.tail = IF l.head = 0 THEN k + 1 ELSE l.tail
        /\ m.size = k + 1
        /\ m.data = Append(l.data, x)
        /\ m.next = IF l.head = 0 THEN Append(l.next, 0)
                    ELSE [Append(l.next, 0) EXCEPT ![k + 1] = l.head]
        /\ m.prev = IF l.head = 0 THEN Append(l.prev, 0)
                    ELSE [Append(l.prev, 0) EXCEPT ![l.head] = IF two THEN k + 1 ELSE 0]
    <2>1. m = List!PutFirst(kind, x, l)
      BY DEF m
    <2>2. IsPutFirst(two, x, l, m)
      BY <1>1, <2>1, PutFirstIs DEF two
    <2> QED BY <1>1, <2>2 DEF IsPutFirst
  <1>5. /\ Append(l.next, 0) \in Seq(Nat) /\ Len(Append(l.next, 0)) = k + 1
        /\ \A j \in 1 .. k : Append(l.next, 0)[j] = l.next[j]
        /\ Append(l.next, 0)[k + 1] = 0
    BY <1>1, AppendProperties
  <1>6. /\ Append(l.prev, 0) \in Seq(Nat) /\ Len(Append(l.prev, 0)) = k + 1
        /\ \A j \in 1 .. k : Append(l.prev, 0)[j] = l.prev[j]
        /\ Append(l.prev, 0)[k + 1] = 0
    BY <1>1, AppendProperties
  <1>7. /\ m.data \in Seq(Data) /\ Len(m.data) = k + 1
        /\ \A j \in 1 .. k : m.data[j] = l.data[j]
        /\ m.data[k + 1] = x
    BY <1>1, <1>4, AppendProperties
  <1>8. k + 1 \in Nat /\ (k # 0 => l.head \in 1 .. k + 1) /\ k + 1 \in 1 .. k + 1
        /\ \A j \in 1 .. k + 1 : j = k + 1 \/ j \in 1 .. k
    <2>1. k \in Nat
      BY <1>1
    <2> HIDE DEF k
    <2> QED BY <1>3, <2>1
  <1>9. /\ m.next \in Seq(Nat) /\ Len(m.next) = k + 1
        /\ \A j \in 1 .. k : m.next[j] = l.next[j]
        /\ m.next[k + 1] = IF k # 0 THEN l.head ELSE 0
    <2> DEFINE s == Append(l.next, 0)
    <2>1. CASE k = 0
      BY <1>1, <1>3, <1>4, <1>5, <1>8, <2>1
    <2>2. CASE k # 0
      <3>1. m.next = [s EXCEPT ![k + 1] = l.head] /\ k + 1 \in 1 .. Len(s) /\ l.head \in Nat
        BY <1>1, <1>3, <1>4, <1>5, <1>8, <2>2
      <3>2. s \in Seq(Nat) /\ Len(s) = k + 1 /\ \A j \in 1 .. k : s[j] = l.next[j]
        BY <1>5
      <3> HIDE DEF s
      <3>3. /\ m.next \in Seq(Nat) /\ Len(m.next) = Len(s)
            /\ \A j \in 1 .. Len(s) : m.next[j] = IF j = k + 1 THEN l.head ELSE s[j]
        BY <3>1, <3>2, ExceptSeq
      <3>4. m.next[k + 1] = l.head
        BY <3>1, <3>3
      <3>5. \A j \in 1 .. k : j \in 1 .. k + 1 /\ j # k + 1
        BY <1>1
      <3>6. \A j \in 1 .. k : m.next[j] = l.next[j]
        BY <3>2, <3>3, <3>5
      <3> QED BY <2>2, <3>2, <3>3, <3>4, <3>6
    <2> QED BY <2>1, <2>2
  <1>10. /\ m.prev \in Seq(Nat) /\ Len(m.prev) = k + 1
         /\ two => \A j \in 1 .. k + 1 : m.prev[j] = IF k # 0 /\ j = l.head THEN k + 1
                                                    ELSE IF j = k + 1 THEN 0 ELSE l.prev[j]
    <2> DEFINE s == Append(l.prev, 0)
               e == IF two THEN k + 1 ELSE 0
    <2>1. CASE k = 0
      BY <1>1, <1>3, <1>4, <1>6, <1>8, <2>1
    <2>2. CASE k # 0
      <3>1. m.prev = [s EXCEPT ![l.head] = e] /\ l.head \in 1 .. Len(s) /\ e \in Nat
        BY <1>3, <1>4, <1>6, <1>8, <2>2
      <3>2. \A j \in 1 .. k + 1 : s[j] = IF j = k + 1 THEN 0 ELSE l.prev[j]
        BY <1>6, <1>8
      <3>3. s \in Seq(Nat) /\ Len(s) = k + 1
        BY <1>6
      <3> HIDE DEF s, e
      <3>4. /\ m.prev \in Seq(Nat) /\ Len(m.prev) = Len(s)
            /\ \A j \in 1 .. Len(s) : m.prev[j] = IF j = l.head THEN e ELSE s[j]
        BY <3>1, <3>3, ExceptSeq
      <3> QED BY <2>2, <3>2, <3>3, <3>4 DEF e
    <2> QED BY <2>1, <2>2
  <1>11. m \in Chains
    <2>1. m.head \in Nat /\ m.tail \in Nat /\ m.size \in Nat
      BY <1>1, <1>4, <1>8
    <2> QED BY <1>4, <1>7, <1>9, <1>10, <2>1 DEF Chains
  <1>12. m.tail = IF k = 0 THEN k + 1 ELSE l.tail
    BY <1>3, <1>4
  <1>13. Leads(two, k + 1, k + 1, m.tail, m.next, m.prev, q)
    <2>1. PutBefore(two, k, l.head, l.tail, l.next, l.prev, m.tail, m.next, m.prev)
      BY <1>9, <1>10, <1>12 DEF PutBefore
    <2> QED BY <1>1, <1>2, <2>1, LeadsBefore
  <1>14. IsChain(kind, m, q)
    BY <1>4, <1>7, <1>9, <1>10, <1>11, <1>13 DEF IsChain, two
  <1>15. Content(m, q) = Prepended(x, Content(l, p))
    <2> DEFINE s == Content(l, p)
               t == Content(m, q)
    <2>1. s \in Seq(Data) /\ Len(s) = k /\ t \in Seq(Data) /\ Len(t) = k + 1
      BY <1>4, <1>14, ContentIs
    <2>2. /\ q[1] = k + 1
          /\ \A i \in 1 .. k : q[i + 1] = p[i]
      <3>0. k \in Nat
        BY <1>1
      <3>1. Order(p, k)
        BY <1>2 DEF Leads
      <3> HIDE DEF k
      <3>2. /\ Before(p, k)[1] = k + 1
            /\ \A i \in 1 .. k : Before(p, k)[i + 1] = p[i]
        BY <3>0, <3>1, BeforeIs, SMTT(30)
      <3> QED BY <3>2
    <2>3. /\ p \in [1 .. k -> 1 .. k]
          /\ 1 \in 1 .. k + 1
          /\ \A i \in 1 .. k : i + 1 \in 1 .. k + 1
      BY <1>1, <1>2 DEF Leads, Order
    <2>4. t = [i \in 1 .. k + 1 |-> m.data[q[i]]]
      BY <1>4 DEF Content
    <2>5. s = [i \in 1 .. k |-> l.data[p[i]]]
      BY DEF Content
    <2> HIDE DEF s, t, q
    <2>6. t[1] = x
      BY <1>7, <2>2, <2>3, <2>4
    <2>7. \A i \in 1 .. k : t[i + 1] = s[i]
      BY <1>7, <2>2, <2>3, <2>4, <2>5
    <2>8. t = <<x>> \o s
      BY <2>1, <2>6, <2>7, PrependIs
    <2> QED BY <2>8 DEF s, t, Prepended
  <1> QED BY <1>14, <1>15 DEF m

\* A sequence from its end.
Backwards(s) == [i \in 1 .. Len(s) |-> s[(Len(s) - i) + 1]]

\* The lists and the deque turn a sequence round alike.
LEMMA ReverseIs ==
  ASSUME NEW s
  PROVE  List!Reverse(s) = Backwards(s) /\ List!Deque!Reverse(s) = Backwards(s)
  BY DEF List!Reverse, List!Deque!Reverse, Backwards

\* The way back over prev.
LEMMA BackIs ==
  ASSUME NEW kind, NEW l, NEW p, IsChain(kind, l, p), Doubly(kind)
  PROVE  List!Walk(l.tail, l.prev, l) = Backwards(Content(l, p))
  <1> DEFINE k == l.size
             q == [i \in 1 .. k |-> p[(k - i) + 1]]
  <1>1. l \in Chains /\ k \in Nat /\ Leads(TRUE, k, l.head, l.tail, l.next, l.prev, p)
    BY DEF IsChain, Chains, Leads
  <1>2. /\ p \in [1 .. k -> 1 .. k]
        /\ IF k = 0 THEN l.tail = 0 ELSE l.tail = p[k]
        /\ \A i \in 1 .. k : l.prev[p[i]] = IF 1 < i THEN p[i - 1] ELSE 0
    BY <1>1 DEF Leads, Order
  <1>3. \A i \in 1 .. k : (k - i) + 1 \in 1 .. k
    BY <1>1
  <1>4. q \in [1 .. k -> Nat \ {0}] /\ \A i \in 1 .. k : q[i] = p[(k - i) + 1]
    BY <1>2, <1>3
  <1>5. l.tail = IF k = 0 THEN 0 ELSE q[1]
    <2>1. k # 0 => 1 \in 1 .. k /\ (k - 1) + 1 = k
      BY <1>1
    <2> QED BY <1>2, <1>4, <2>1
  <1> HIDE DEF q
  <1>6. ASSUME NEW i \in 1 .. k PROVE l.prev[q[i]] = IF i < k THEN q[i + 1] ELSE 0
    <2> DEFINE h == (k - i) + 1
    <2>1. /\ h \in 1 .. k /\ (1 < h <=> i < k)
          /\ i < k => i + 1 \in 1 .. k /\ (k - (i + 1)) + 1 = h - 1
      BY <1>1
    <2>2. q[i] = p[h]
      BY <1>4
    <2>3. i < k => q[i + 1] = p[h - 1]
      BY <1>4, <2>1
    <2>4. l.prev[p[h]] = IF 1 < h THEN p[h - 1] ELSE 0
      BY <1>2, <2>1
    <2> HIDE DEF h
    <2> QED BY <2>1, <2>2, <2>3, <2>4
  <1>7. List!Walk(l.tail, l.prev, l) = [i \in 1 .. k |-> l.data[q[i]]]
    <2>1. Way(q, k, l.tail, l.prev)
      BY <1>1, <1>4, <1>5, <1>6 DEF Way
    <2>2. List!Walk(l.tail, l.prev, l) = Content(l, q)
      BY <2>1, WalkIs
    <2> QED BY <2>2 DEF Content
  <1>8. Len(Content(l, p)) = k
    BY ContentIs
  <1>9. ASSUME NEW i \in 1 .. k PROVE l.data[q[i]] = Content(l, p)[(k - i) + 1]
    BY <1>3, <1>4 DEF Content
  <1> QED BY <1>7, <1>8, <1>9 DEF Backwards

\* A list tells the sequence along p.
LEMMA ToldIs ==
  ASSUME NEW kind \in List!Lists, NEW l, NEW p, IsChain(kind, l, p)
  PROVE  List!Told(kind, l) = List!Deque!Show(Content(l, p))
  <1> DEFINE k == l.size
             s == Content(l, p)
  <1>1. l \in Chains /\ k \in Nat /\ Leads(Doubly(kind), k, l.head, l.tail, l.next, l.prev, p)
    BY DEF IsChain, Chains
  <1>2. /\ p \in [1 .. k -> 1 .. k]
        /\ k = 0 => l.head = 0 /\ l.tail = 0
        /\ k # 0 => l.head = p[1] /\ l.tail = p[k]
        /\ \A i \in 1 .. k : l.next[p[i]] = IF i < k THEN p[i + 1] ELSE 0
    BY <1>1 DEF Leads, Order
  <1>3. s \in Seq(Data) /\ Len(s) = k
    BY ContentIs
  <1>4. List!Walk(l.head, l.next, l) = s
    <2>1. p \in [1 .. k -> Nat \ {0}]
      BY <1>2
    <2>2. l.head = IF k = 0 THEN 0 ELSE p[1]
      BY <1>2
    <2>3. Way(p, k, l.head, l.next)
      BY <1>1, <1>2, <2>1, <2>2 DEF Way
    <2> QED BY <2>3, WalkIs
  <1>5. (IF kind = "doubly" THEN List!Walk(l.tail, l.prev, l) ELSE List!Reverse(s)) = Backwards(s)
    <2>1. CASE Doubly(kind)
      BY <2>1, BackIs DEF Doubly
    <2>2. CASE ~ Doubly(kind)
      BY <2>2, ReverseIs DEF Doubly
    <2> QED BY <2>1, <2>2
  <1>6. k = 0 <=> s = <<>>
    BY <1>1, <1>3
  <1>7. k # 0 => /\ s[1] = l.data[l.head] /\ s[k] = l.data[l.tail]
                /\ l.head # 0 /\ l.tail # 0
    <2> SUFFICES ASSUME k # 0 PROVE /\ s[1] = l.data[l.head] /\ s[k] = l.data[l.tail]
                                    /\ l.head # 0 /\ l.tail # 0
      OBVIOUS
    <2>1. 1 \in 1 .. k /\ k \in 1 .. k
      BY <1>1
    <2>2. p[1] # 0 /\ p[k] # 0
      BY <1>2, <2>1
    <2> QED BY <1>2, <2>1, <2>2 DEF Content
  <1>8. List!DataOf(l.head, l) = IF s = <<>> THEN List!Deque!None ELSE s[1]
    BY <1>2, <1>6, <1>7 DEF List!DataOf, List!Deque!None
  <1>9. List!DataOf(l.tail, l) = IF s = <<>> THEN List!Deque!None ELSE s[Len(s)]
    BY <1>2, <1>3, <1>6, <1>7 DEF List!DataOf, List!Deque!None
  <1> HIDE DEF s
  <1>10. List!Told(kind, l)
         = [display |-> s, size |-> k, head |-> List!DataOf(l.head, l),
            tail |-> List!DataOf(l.tail, l), back |-> Backwards(s)]
    BY <1>4, <1>5 DEF List!Told
  <1>11. List!Deque!Show(s)
         = [display |-> s, size |-> Len(s),
            head |-> IF s = <<>> THEN List!Deque!None ELSE s[1],
            tail |-> IF s = <<>> THEN List!Deque!None ELSE s[Len(s)], back |-> Backwards(s)]
    BY ReverseIs DEF List!Deque!Show
  <1> QED BY <1>3, <1>8, <1>9, <1>10, <1>11 DEF s

\* Each list is a chain of nodes.
ListsInv == /\ lists = [kind \in List!Lists |-> lists[kind]]
            /\ \A kind \in List!Lists : \E p : IsChain(kind, lists[kind], p)

\* What each list tells, by kind.
Shows == [kind \in List!Lists |-> List!Told(kind, lists[kind])]

\* The lists start as chains, and as the deque does.
LEMMA ListsInit == Init => ListsInv /\ List!Deque!Init
  <1> SUFFICES ASSUME Init PROVE ListsInv /\ List!Deque!Init
    OBVIOUS
  <1>1. lists = [kind \in List!Lists |-> List!Empty]
    BY DEF Init, List!Init
  <1>2. \A kind \in List!Lists : IsChain(kind, lists[kind], <<>>)
    BY <1>1, EmptyIsChain
  <1>3. \A kind \in List!Lists : List!Told(kind, lists[kind]) = List!Deque!Show(<<>>)
    <2>1. Content(List!Empty, <<>>) = <<>>
      BY DEF Content, List!Empty
    <2> QED BY <1>1, <2>1, EmptyIsChain, ToldIs
  <1>4. List!Deque!Init
    BY <1>3 DEF List!Deque!Init
  <1> QED BY <1>1, <1>2, <1>4 DEF ListsInv

\* A list that is replaced by another chain.
LEMMA OneListChanges ==
  ASSUME ListsInv, NEW kind \in List!Lists, NEW m, NEW q, IsChain(kind, m, q),
         lists' = [lists EXCEPT ![kind] = m]
  PROVE  ListsInv' /\ Shows' = [Shows EXCEPT ![kind] = List!Deque!Show(Content(m, q))]
  <1>1. lists'[kind] = m /\ \A j \in List!Lists \ {kind} : lists'[j] = lists[j]
    BY DEF ListsInv
  <1>2. lists' = [j \in List!Lists |-> lists'[j]]
    BY DEF ListsInv
  <1>3. ASSUME NEW j \in List!Lists PROVE \E p : IsChain(j, lists'[j], p)
    BY <1>1 DEF ListsInv
  <1>4. List!Told(kind, m) = List!Deque!Show(Content(m, q))
    BY ToldIs
  <1>5. Shows' = [j \in List!Lists |-> List!Told(j, lists'[j])]
    BY DEF Shows
  <1>6. Shows' = [Shows EXCEPT ![kind] = List!Told(kind, m)]
    <2>1. Shows = [j \in List!Lists |-> List!Told(j, lists[j])]
      BY DEF Shows
    <2>2. \A j \in List!Lists : Shows'[j] = IF j = kind THEN List!Told(kind, m) ELSE Shows[j]
      BY <1>1, <1>5, <2>1
    <2>3. /\ Shows = [j \in List!Lists |-> Shows[j]]
          /\ Shows' = [j \in List!Lists |-> Shows'[j]]
      BY <1>5, <2>1
    <2> QED BY <2>2, <2>3
  <1> QED BY <1>2, <1>3, <1>4, <1>6 DEF ListsInv

\* A call is one of the deque.
LEMMA ListStepMaps ==
  ASSUME ListsInv, List!Next
  PROVE  ListsInv' /\ List!Deque!Next
  <1>1. PICK kind \in List!Lists, x \in Data :
               /\ lists[kind].size < MaxSize
               /\ \/ lists' = [lists EXCEPT ![kind] = List!PutLast(kind, x, lists[kind])]
                  \/ lists' = [lists EXCEPT ![kind] = List!PutFirst(kind, x, lists[kind])]
    BY DEF List!Next
  <1> DEFINE l == lists[kind]
  <1>2. PICK p : IsChain(kind, l, p)
    BY DEF ListsInv
  <1> DEFINE s == Content(l, p)
             Changed(t) == /\ ListsInv'
                           /\ Shows' = [Shows EXCEPT ![kind] = List!Deque!Show(t)]
                           /\ Len(t) = l.size + 1
  <1>3. Shows[kind] = List!Deque!Show(s) /\ DOMAIN Shows = List!Lists
    BY <1>2, ToldIs DEF Shows
  <1>4. l.size \in Nat /\ s \in Seq(Data) /\ Len(s) = l.size
    BY <1>2, ContentIs
  <1>5. Changed(Append(s, x)) \/ Changed(<<x>> \o s)
    <2>0. \/ lists' = [lists EXCEPT ![kind] = List!PutLast(kind, x, l)]
          \/ lists' = [lists EXCEPT ![kind] = List!PutFirst(kind, x, l)]
      BY <1>1
    <2> HIDE DEF l
    <2>1. CASE lists' = [lists EXCEPT ![kind] = List!PutLast(kind, x, l)]
      <3> DEFINE m == List!PutLast(kind, x, l)
                 q == After(p, l.size)
      <3>1. IsChain(kind, m, q) /\ Content(m, q) = Append(s, x)
        BY <1>2, PutLastIsChain
      <3>2. ListsInv' /\ Shows' = [Shows EXCEPT ![kind] = List!Deque!Show(Content(m, q))]
        <4>1. lists' = [lists EXCEPT ![kind] = m]
          BY <2>1
        <4> HIDE DEF m, q
        <4> QED BY <3>1, <4>1, OneListChanges
      <3>3. Len(Append(s, x)) = l.size + 1
        BY <1>4
      <3> QED BY <3>1, <3>2, <3>3
    <2>2. CASE lists' = [lists EXCEPT ![kind] = List!PutFirst(kind, x, l)]
      <3> DEFINE m == List!PutFirst(kind, x, l)
                 q == Before(p, l.size)
      <3>1. IsChain(kind, m, q) /\ Content(m, q) = <<x>> \o s
        <4>1. IsChain(kind, m, q) /\ Content(m, q) = Prepended(x, s)
          BY <1>2, PutFirstIsChain
        <4> QED BY <4>1 DEF Prepended
      <3>2. ListsInv' /\ Shows' = [Shows EXCEPT ![kind] = List!Deque!Show(Content(m, q))]
        <4>1. lists' = [lists EXCEPT ![kind] = m]
          BY <2>2
        <4> HIDE DEF m, q
        <4> QED BY <3>1, <4>1, OneListChanges
      <3>3. Len(<<x>> \o s) = l.size + 1
        <4>1. <<x>> \in Seq(Data) /\ Len(<<x>>) = 1
          OBVIOUS
        <4>2. Len(<<x>> \o s) = 1 + Len(s)
          BY <1>4, <4>1, ConcatProperties
        <4> QED BY <1>4, <4>2
      <3> QED BY <3>1, <3>2, <3>3
    <2> QED BY <2>0, <2>1, <2>2
  <1>6. PICK t : Changed(t) /\ t \in {Append(s, x), <<x>> \o s}
    BY <1>5
  <1>7. Shows'[kind] = List!Deque!Show(t)
    BY <1>3, <1>6
  <1>8. \A u : List!Deque!Show(u).size = Len(u) /\ List!Deque!Show(u).display = u
    BY DEF List!Deque!Show
  <1>9. Shows'[kind].size = Shows[kind].size + 1 /\ Shows'[kind].size <= MaxSize
    <2>1. Shows'[kind].size = l.size + 1 /\ Shows[kind].size = l.size
      BY <1>3, <1>4, <1>6, <1>7, <1>8
    <2>2. MaxSize \in Nat /\ l.size < MaxSize
      BY <1>1, ServicesAssumption
    <2> QED BY <1>4, <2>1, <2>2
  <1>10. List!Deque!Grows(kind)
    BY <1>9 DEF List!Deque!Grows, Shows
  <1>11. List!Deque!Becomes(kind, t)
    BY <1>6 DEF List!Deque!Becomes, Shows
  <1>12. t \in {Append(Shows[kind].display, x), <<x>> \o Shows[kind].display}
    BY <1>3, <1>6, <1>8
  <1>13. \/ List!Deque!Becomes(kind, Append(Shows[kind].display, x))
         \/ List!Deque!Becomes(kind, <<x>> \o Shows[kind].display)
    BY <1>11, <1>12
  <1>14. List!Deque!Next
    BY <1>10, <1>13 DEF List!Deque!Next, Shows
  <1> QED BY <1>6, <1>14

\* The linked lists implement the sequences of DequeSpec: whatever is appended
\* and prepended, display, size, the ends and the way back tell one sequence.
THEOREM ListsAreSequencesHolds == Spec => ListsAreSequences
  <1>1. ListsInv /\ [Next]_vars => ListsInv' /\ [List!Deque!Next]_Shows
    <2> SUFFICES ASSUME ListsInv, [Next]_vars PROVE ListsInv' /\ [List!Deque!Next]_Shows
      OBVIOUS
    <2>1. CASE UNCHANGED lists
      BY <2>1 DEF ListsInv, Shows, IsChain
    <2>2. CASE List!Next
      BY <2>2, ListStepMaps
    <2>3. UNCHANGED lists \/ List!Next
      BY DEF vars, Next, SearchStep, RecordStep, RateStep, ListStep
    <2> QED BY <2>1, <2>2, <2>3
  <1>2. Spec => List!Deque!Init /\ [][List!Deque!Next]_Shows
    BY <1>1, ListsInit, PTL DEF Spec
  <1> QED BY <1>2, PTL DEF ListsAreSequences, List!ListsAreSequences, List!Deque!Spec, Shows
=============================================================================
