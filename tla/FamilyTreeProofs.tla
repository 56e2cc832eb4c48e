---------------------------- MODULE FamilyTreeProofs ----------------------------
(***************************************************************************)
(* FamilyTree and what FamilyTreeView shows of it, for any tables and any  *)
(* number of overlapping requests.                                         *)
(***************************************************************************)
EXTENDS FamilyTreeView, FiniteSetTheorems, TLAPS

\* The stages of a create before its last insert, and those at which a request
\* has a father, a row it has read, the id of a committed row, a draft of it.
Creating == {"free", "placed", "vacant", "levelled", "inserted", "counted"}
HasFather == {"placed", "vacant", "inserted", "victim", "leaf", "deactivated", "removed"}
HasRow == {"placed", "vacant", "read", "owned", "ordered", "reread", "locked", "updated"}
HasNode == {"read", "owned", "ordered", "reread", "locked", "updated",
            "victim", "leaf", "deactivated", "removed"}
HasDraft == {"locked", "deactivated", "removed"}

\* What a request r has established so far, with mine the rows it has written.
Sensible(r, mine) ==
  /\ r.father # None => nodes[r.father] # None
  /\ r.at \in Creating => r.user # None
  /\ r.at \in HasFather => r.father # None
  /\ r.at \in HasRow => /\ r.row # None
                        /\ r.row.father # None => nodes[r.row.father] # None
  /\ r.at \in HasNode => r.node # None /\ nodes[r.node] # None
  /\ r.at \in {"inserted", "counted"} => r.node # None
  /\ r.at = "counted" => r.spouse # None
  /\ r.at \in HasDraft => mine[r.node] # None
  /\ r.at \in {"deactivated", "removed"} => ~ mine[r.node].live

\* It still holds, as no row goes away and no other request writes the draft.
Established(h) == tx[h] # Idle => Sensible(tx[h], draft[h])

\* No two transactions have written the same row.
RowLocks == \A h, k \in Handlers, n \in Nodes :
              h # k /\ draft[h][n] # None => draft[k][n] = None

\* A draft of a committed row does not bring a removed node back.
DraftsReviveNothing ==
  \A h \in Handlers, n \in Nodes :
    draft[h][n] # None /\ nodes[n] # None /\ draft[h][n].live => nodes[n].live

\* A row that is not committed yet has its couple in the same transaction.
NewRowHasCouple ==
  \A h \in Handlers, n \in Nodes :
    draft[h][n] # None /\ nodes[n] = None
    => \E c \in newCouples[h] : c.node = n /\ c.live

\* A father is a row of the table, in the table and in every draft.
FathersExist ==
  \A n \in Nodes :
    /\ nodes[n] # None /\ nodes[n].father # None => nodes[nodes[n].father] # None
    /\ \A h \in Handlers : draft[h][n] # None /\ draft[h][n].father # None
                           => nodes[draft[h][n].father] # None

IInv == /\ TypeOK
        /\ \A h \in Handlers : Established(h)
        /\ RowLocks
        /\ DraftsReviveNothing
        /\ NewRowHasCouple
        /\ LiveNodeHasCouple
        /\ FathersExist

-----------------------------------------------------------------------------
\* Idle is no request: it has another "at".
LEMMA IdleIsNoRequest == Idle \notin Request /\ Idle.at = "idle" /\ "idle" \notin Stages
  BY DEF Idle, Request, Stages

\* What the statements of a transaction see is a table.
LEMMA ViewIsTable ==
  ASSUME TypeOK, NEW h \in Handlers
  PROVE  View(h) \in [Nodes -> Row \cup {None}]
  BY DEF View, TypeOK

\* A couple whose status is changed is a couple.
LEMMA WithoutCouplesIsTable ==
  ASSUME TypeOK, NEW n \in Nodes
  PROVE  WithoutCouplesOf(n) \subseteq Couple
  BY DEF WithoutCouplesOf, TypeOK, Couple

LEMMA InitIInv == Init => IInv
  <1> SUFFICES ASSUME Init PROVE IInv
    OBVIOUS
  <1>1. TypeOK
    BY ImportedIsTree DEF Init, TypeOK, Nothing
  <1>2. LiveNodeHasCouple
    BY ImportedIsTree DEF Init, LiveNodeHasCouple
  <1>3. /\ \A h \in Handlers : Established(h)
        /\ RowLocks /\ DraftsReviveNothing /\ NewRowHasCouple
    BY DEF Init, Established, RowLocks, DraftsReviveNothing, NewRowHasCouple, Nothing
  <1>4. FathersExist
    BY ImportedIsTree DEF Init, FathersExist, Nothing
  <1> QED BY <1>1, <1>2, <1>3, <1>4 DEF IInv

\* A step of request h that only reads keeps the invariant if what h goes on
\* with is a request and is established.
LEMMA ReadingKeepsIInv ==
  ASSUME IInv, NEW h \in Handlers, NEW r \in Request,
         tx' = [tx EXCEPT ![h] = r],
         UNCHANGED <<nodes, couples, draft, newCouples>>,
         Sensible(r, draft[h])
  PROVE  IInv'
  <1>1. TypeOK'
    BY DEF IInv, TypeOK
  <1>2. tx'[h] = r /\ \A k \in Handlers \ {h} : tx'[k] = tx[k]
    BY DEF IInv, TypeOK
  <1>3. \A k \in Handlers : Established(k)'
    BY <1>2 DEF IInv, Established, Sensible
  <1>4. RowLocks' /\ DraftsReviveNothing' /\ NewRowHasCouple' /\ LiveNodeHasCouple' /\ FathersExist'
    BY DEF IInv, RowLocks, DraftsReviveNothing, NewRowHasCouple, LiveNodeHasCouple, FathersExist
  <1> QED BY <1>1, <1>3, <1>4 DEF IInv

\* A step of request h that writes row n keeps the invariant, if nobody else
\* has written n, the new draft revives nothing, and h goes on established.
LEMMA WritingKeepsIInv ==
  ASSUME IInv, NEW h \in Handlers, NEW n \in Nodes, NEW row \in Row, NEW r \in Request,
         MayLock(h, n),
         tx' = [tx EXCEPT ![h] = r],
         draft' = [draft EXCEPT ![h][n] = row],
         UNCHANGED <<nodes, couples, newCouples>>,
         nodes[n] # None,
         row.live => nodes[n].live,
         row.father # None => nodes[row.father] # None,
         Sensible(r, draft'[h])
  PROVE  IInv'
  <1>1. TypeOK'
    BY DEF IInv, TypeOK
  <1>2. tx'[h] = r /\ \A k \in Handlers \ {h} : tx'[k] = tx[k] /\ draft'[k] = draft[k]
    BY DEF IInv, TypeOK
  <1>3. draft'[h][n] = row /\ \A m \in Nodes \ {n} : draft'[h][m] = draft[h][m]
    BY DEF IInv, TypeOK
  <1>4. \A k \in Handlers : Established(k)'
    BY <1>2 DEF IInv, Established, Sensible
  <1>5. RowLocks'
    BY <1>2, <1>3 DEF IInv, RowLocks, MayLock
  <1>6. DraftsReviveNothing' /\ NewRowHasCouple' /\ LiveNodeHasCouple'
    BY <1>2, <1>3, NoneIsNothing
    DEF IInv, DraftsReviveNothing, NewRowHasCouple, LiveNodeHasCouple
  <1>7. FathersExist'
    BY <1>2, <1>3 DEF IInv, FathersExist
  <1> QED BY <1>1, <1>4, <1>5, <1>6, <1>7 DEF IInv

\* A request in flight is a record of Request.
LEMMA InFlight ==
  ASSUME TypeOK, NEW h \in Handlers, tx[h].at # "idle"
  PROVE  tx[h] \in Request /\ tx[h] # Idle
  BY IdleIsNoRequest DEF TypeOK

\* A check that lets request h go on keeps the invariant if h has by then what
\* its next stage takes for granted.
LEMMA CheckingKeepsIInv ==
  ASSUME IInv, NEW h \in Handlers, NEW at \in Stages, tx[h].at # "idle",
         tx' = [tx EXCEPT ![h].at = at],
         UNCHANGED <<nodes, couples, draft, newCouples>>,
         at \in Creating => tx[h].at \in Creating,
         at \in HasFather => tx[h].father # None,
         at \in HasRow => tx[h].at \in HasRow,
         at \in HasNode => tx[h].at \in HasNode,
         at \notin HasDraft \cup {"inserted", "counted"}
  PROVE  IInv'
  <1> DEFINE r == [tx[h] EXCEPT !.at = at]
  <1>1. tx[h] \in Request /\ Sensible(tx[h], draft[h])
    BY InFlight DEF IInv, Established
  <1>2. /\ r \in Request /\ r.at = at /\ r.node = tx[h].node /\ r.user = tx[h].user
        /\ r.father = tx[h].father /\ r.row = tx[h].row
    BY <1>1 DEF Request
  <1>3. tx' = [tx EXCEPT ![h] = r]
    OBVIOUS
  <1> HIDE DEF r
  <1>4. Sensible(r, draft[h])
    BY <1>1, <1>2 DEF Sensible, HasDraft
  <1> QED BY <1>2, <1>3, <1>4, ReadingKeepsIInv

-----------------------------------------------------------------------------
(* create and attachMemberToTree.                                          *)

\* What a create inserts is a row.
LEMMA NewRowIsRow ==
  ASSUME TypeOK, NEW h \in Handlers, tx[h].at \in Creating, tx[h] \in Request,
         Sensible(tx[h], draft[h])
  PROVE  NewRow(h) \in Row
  <1>1. /\ tx[h].user \in Users /\ tx[h].live \in BOOLEAN
        /\ tx[h].father \in Nodes \cup {None} /\ tx[h].order \in Int \cup {None}
    BY DEF Sensible, Request
  <1>2. (tx[h].father # None \/ tx[h].live) \in BOOLEAN
    OBVIOUS
  <1>3. (IF tx[h].order = None THEN 1 ELSE tx[h].order) \in Int
    BY <1>1
  <1> QED BY <1>1, <1>2, <1>3 DEF Row, NewRow

LEMMA BeginCreateKeepsIInv ==
  ASSUME IInv, NEW h \in Handlers, NEW u \in Users, NEW p \in Nodes \cup {None},
         NEW o \in Int \cup {None}, NEW on \in BOOLEAN, NEW s \in Users \cup {None},
         BeginCreate(h, u, p, o, on, s)
  PROVE  IInv'
  <1> DEFINE r == [at |-> "free", node |-> None, user |-> u, father |-> p, order |-> o,
                   live |-> on, spouse |-> s, level |-> RootTreeLevel, row |-> None,
                   fields |-> {}]
  <1>1. r \in Request
    BY DEF Request, Stages, RootTreeLevel
  <1>2. Sensible(r, draft[h])
    BY NoneIsNothing DEF BeginCreate, Sensible, HasFather, HasRow, HasNode, HasDraft
  <1>3. tx' = [tx EXCEPT ![h] = r] /\ UNCHANGED <<nodes, couples, draft, newCouples>>
    BY DEF BeginCreate
  <1> HIDE DEF r
  <1> QED BY <1>1, <1>2, <1>3, ReadingKeepsIInv

LEMMA CreateKeepsIInv ==
  ASSUME IInv, NEW h \in Handlers, Create(h)
  PROVE  IInv'
  <1> USE DEF Creating, HasFather, HasRow, HasNode, HasDraft
  <1>1. tx[h].at \in Creating
    BY DEF Create, CheckRoot, ReadFather, CheckChild, ReadLevel, InsertNode,
           IncrementMembers, CreateSpouseCouple
  <1>2. tx[h] \in Request /\ tx[h] # Idle /\ Sensible(tx[h], draft[h]) /\ TypeOK
    BY <1>1, InFlight DEF IInv, Established
  <1>3. CASE CheckRoot(h)
    BY <1>1, <1>3, CheckingKeepsIInv DEF CheckRoot, Stages
  <1>4. CASE ReadFather(h)
    <2> DEFINE r == [tx[h] EXCEPT !.at = "placed", !.row = nodes[tx[h].father]]
    <2>1. tx[h].father # None /\ nodes[tx[h].father] \in Row
      BY <1>2, <1>4 DEF ReadFather, Sensible, TypeOK, Request
    <2>2. /\ r \in Request /\ r.at = "placed" /\ r.row \in Row
          /\ r.father = tx[h].father /\ r.user = tx[h].user
      BY <1>2, <2>1 DEF Request, Stages
    <2>3. tx' = [tx EXCEPT ![h] = r] /\ UNCHANGED <<nodes, couples, draft, newCouples>>
      BY <1>4 DEF ReadFather
    <2> HIDE DEF r
    <2>4. nodes[tx[h].father].father # None => nodes[nodes[tx[h].father].father] # None
      BY <1>2, <2>1, NoneIsNothing DEF IInv, FathersExist, Request
    <2>5. r.row = nodes[tx[h].father]
      BY <1>2 DEF r, Request
    <2>6. Sensible(r, draft[h])
      BY <1>1, <1>2, <2>1, <2>2, <2>4, <2>5, NoneIsNothing DEF Sensible
    <2> QED BY <2>2, <2>3, <2>6, ReadingKeepsIInv
  <1>5. CASE CheckChild(h)
    <2>1. tx[h].at = "placed" /\ tx[h].father # None
      BY <1>2, <1>5 DEF CheckChild, Sensible
    <2> QED BY <1>5, <2>1, CheckingKeepsIInv DEF CheckChild, Stages
  <1>6. CASE ReadLevel(h)
    <2> DEFINE found == LiveCouples(h, tx[h].row.user)
    <2>1. \A c \in found : c.order \in Int
      BY <1>2 DEF LiveCouples, TypeOK, Couple
    <2>2. PICK level \in IF found = {} THEN {RootTreeLevel} ELSE {c.order : c \in found} :
            tx' = [tx EXCEPT ![h].at = "levelled", ![h].level = level + 1]
      BY <1>6 DEF ReadLevel
    <2> HIDE DEF found
    <2>3. level \in Int
      BY <2>1, <2>2 DEF RootTreeLevel
    <2> DEFINE next == level + 1
               r == [tx[h] EXCEPT !.at = "levelled", !.level = next]
    <2>4. tx' = [tx EXCEPT ![h] = r]
      BY <2>2
    <2>5. next \in Int
      BY <2>3
    <2> HIDE DEF next
    <2>6. /\ r \in Request /\ r.at = "levelled"
          /\ r.father = tx[h].father /\ r.user = tx[h].user
      BY <1>2, <2>5 DEF Request, Stages
    <2>7. UNCHANGED <<nodes, couples, draft, newCouples>>
      BY <1>6 DEF ReadLevel
    <2> HIDE DEF r
    <2>8. Sensible(r, draft[h])
      BY <1>1, <1>2, <2>6 DEF Sensible
    <2> QED BY <2>4, <2>6, <2>7, <2>8, ReadingKeepsIInv
  <1>7. CASE InsertNode(h)
    <2>1. PICK n \in Nodes :
            /\ nodes[n] = None
            /\ MayLock(h, n)
            /\ draft' = [draft EXCEPT ![h][n] = NewRow(h)]
            /\ newCouples' = [newCouples EXCEPT ![h] =
                 @ \cup {[user |-> tx[h].user, node |-> n, order |-> tx[h].level, live |-> TRUE]}]
            /\ tx' = [tx EXCEPT ![h].node = n, ![h].at = AfterInsert(h)]
      BY <1>7 DEF InsertNode
    <2> DEFINE c == [user |-> tx[h].user, node |-> n, order |-> tx[h].level, live |-> TRUE]
               row == NewRow(h)
               r == [tx[h] EXCEPT !.node = n, !.at = AfterInsert(h)]
    <2>2. /\ tx[h].user \in Users /\ tx[h].level \in Int /\ tx[h].live \in BOOLEAN
          /\ tx[h].father \in Nodes \cup {None} /\ tx[h].order \in Int \cup {None}
      BY <1>1, <1>2 DEF Sensible, Request
    <2>3. c \in Couple /\ c.node = n /\ c.live
      BY <2>2 DEF Couple
    <2>4. row \in Row
      BY <1>1, <1>2, NewRowIsRow
    <2>5. /\ r \in Request /\ r.father = tx[h].father /\ r.user = tx[h].user /\ r.node = n
          /\ r.spouse = tx[h].spouse
          /\ r.at \in {"inserted", "counted", "created"}
          /\ r.at = "inserted" => r.father # None
          /\ r.at = "counted" => r.spouse # None
      <3>1. /\ AfterInsert(h) \in {"inserted", "counted", "created"}
            /\ AfterInsert(h) \in Stages
            /\ AfterInsert(h) = "inserted" => tx[h].father # None
            /\ AfterInsert(h) = "counted" => tx[h].spouse # None
        BY DEF AfterInsert, Stages
      <3> QED BY <1>2, <3>1 DEF Request
    <2> HIDE DEF c, row, r
    <2>6. TypeOK'
      BY <1>2, <1>7, <2>1, <2>3, <2>4, <2>5 DEF TypeOK, InsertNode, c, row, r
    <2>7. /\ tx'[h] = r /\ draft'[h][n] = row /\ c \in newCouples'[h]
          /\ \A m \in Nodes \ {n} : draft'[h][m] = draft[h][m]
          /\ \A k \in Handlers : newCouples[k] \subseteq newCouples'[k]
          /\ \A k \in Handlers \ {h} : tx'[k] = tx[k] /\ draft'[k] = draft[k]
          /\ UNCHANGED <<nodes, couples>>
      <3>1. /\ draft \in [Handlers -> [Nodes -> Row \cup {None}]]
            /\ newCouples \in [Handlers -> SUBSET Couple]
            /\ tx = [k \in Handlers |-> tx[k]] /\ tx[h] = [i \in DOMAIN tx[h] |-> tx[h][i]]
        BY <1>2 DEF TypeOK, Request
      <3>2. tx' = [tx EXCEPT ![h] = r]
        BY <2>1, <3>1 DEF r
      <3>3. /\ draft' = [draft EXCEPT ![h][n] = row]
            /\ newCouples' = [newCouples EXCEPT ![h] = @ \cup {c}]
        BY <2>1 DEF c, row
      <3>4. UNCHANGED <<nodes, couples>>
        BY <1>7 DEF InsertNode
      <3> QED BY <3>1, <3>2, <3>3, <3>4
    <2>8. \A k \in Handlers : Established(k)'
      BY <1>1, <1>2, <2>5, <2>7, NoneIsNothing DEF IInv, Established, Sensible
    <2>9. RowLocks'
      BY <2>1, <2>7 DEF IInv, RowLocks, MayLock
    <2>10. DraftsReviveNothing'
      BY <2>1, <2>7 DEF IInv, DraftsReviveNothing
    <2>11. NewRowHasCouple'
      BY <2>3, <2>7 DEF IInv, NewRowHasCouple
    <2>12. LiveNodeHasCouple'
      BY <2>7 DEF IInv, LiveNodeHasCouple
    <2>13. FathersExist'
      BY <1>2, <2>7 DEF IInv, FathersExist, Sensible, row, NewRow
    <2> QED BY <2>6, <2>8, <2>9, <2>10, <2>11, <2>12, <2>13 DEF IInv
  <1>8. CASE IncrementMembers(h)
    <2> DEFINE p == tx[h].father
               row == [nodes[p] EXCEPT !.order = @ + 1]
               r == [tx[h] EXCEPT !.at = AfterCount(h)]
    <2>1. p \in Nodes /\ nodes[p] \in Row
      BY <1>2, <1>8 DEF IncrementMembers, Sensible, TypeOK, Request
    <2>2. row \in Row /\ row.live = nodes[p].live /\ row.father = nodes[p].father
      BY <2>1 DEF Row
    <2>3. row.father # None => nodes[row.father] # None
      BY <2>1, <2>2, NoneIsNothing DEF IInv, FathersExist
    <2>4. /\ r \in Request /\ r.at \in {"counted", "created"}
          /\ r.father = tx[h].father /\ r.user = tx[h].user /\ r.node = tx[h].node
          /\ r.at = "counted" => r.spouse # None
      BY <1>2 DEF Request, Stages, AfterCount
    <2>5. /\ MayLock(h, p) /\ draft' = [draft EXCEPT ![h][p] = row]
          /\ tx' = [tx EXCEPT ![h] = r] /\ UNCHANGED <<nodes, couples, newCouples>>
          /\ tx[h].at = "inserted"
      BY <1>8 DEF IncrementMembers
    <2> HIDE DEF p, row, r
    <2>6. Sensible(r, draft'[h])
      BY <1>2, <2>4, <2>5 DEF Sensible
    <2> QED BY <2>1, <2>2, <2>4, <2>5, <2>6, <2>3, NoneIsNothing, WritingKeepsIInv
  <1>9. CASE CreateSpouseCouple(h)
    <2>1. PICK c \in LiveCouples(h, tx[h].user) :
            newCouples' = [newCouples EXCEPT ![h] = @ \cup
              {[user |-> tx[h].spouse, node |-> tx[h].node, order |-> c.order, live |-> TRUE]}]
      BY <1>9 DEF CreateSpouseCouple
    <2> DEFINE d == [user |-> tx[h].spouse, node |-> tx[h].node, order |-> c.order, live |-> TRUE]
               r == [tx[h] EXCEPT !.at = "created"]
    <2>2. tx[h].node \in Nodes /\ tx[h].spouse \in Users
      BY <1>2, <1>9 DEF CreateSpouseCouple, Sensible, Request
    <2>3. d \in Couple
      BY <1>2, <2>1, <2>2 DEF LiveCouples, TypeOK, Couple
    <2>4. r \in Request /\ r.father = tx[h].father /\ r.at = "created"
      BY <1>2 DEF Request, Stages
    <2> HIDE DEF d, r
    <2>5. TypeOK'
      BY <1>2, <1>9, <2>1, <2>3, <2>4 DEF TypeOK, CreateSpouseCouple, d, r
    <2>6. /\ tx'[h] = r /\ \A k \in Handlers \ {h} : tx'[k] = tx[k]
          /\ \A k \in Handlers : newCouples[k] \subseteq newCouples'[k]
          /\ UNCHANGED <<nodes, couples, draft>>
      BY <1>2, <1>9, <2>1 DEF TypeOK, CreateSpouseCouple, d, r
    <2>7. \A k \in Handlers : Established(k)'
      BY <1>2, <2>4, <2>6 DEF IInv, Established, Sensible
    <2>8. /\ RowLocks' /\ DraftsReviveNothing' /\ NewRowHasCouple'
          /\ LiveNodeHasCouple' /\ FathersExist'
      BY <2>6 DEF IInv, RowLocks, DraftsReviveNothing, NewRowHasCouple, LiveNodeHasCouple,
                  FathersExist
    <2> QED BY <2>5, <2>7, <2>8 DEF IInv
  <1> QED BY <1>3, <1>4, <1>5, <1>6, <1>7, <1>8, <1>9 DEF Create

-----------------------------------------------------------------------------
(* update.                                                                 *)

LEMMA ReadNodeKeepsIInv ==
  ASSUME IInv, NEW h \in Handlers, NEW n \in Nodes, NEW u \in Users \cup {None},
         NEW p \in Nodes \cup {None}, NEW o \in Int \cup {None},
         ReadNode(h, n, u, p, o)
  PROVE  IInv'
  <1> DEFINE r == [at |-> "read", node |-> n, user |-> u, father |-> p, order |-> o,
                   live |-> TRUE, spouse |-> None, level |-> RootTreeLevel,
                   row |-> nodes[n], fields |-> {}]
  <1>1. r \in Request
    BY DEF Request, Stages, RootTreeLevel, IInv, TypeOK
  <1>2. Sensible(r, draft[h])
    BY NoneIsNothing DEF ReadNode, Sensible, Creating, HasFather, HasDraft, IInv, FathersExist
  <1>3. tx' = [tx EXCEPT ![h] = r] /\ UNCHANGED <<nodes, couples, draft, newCouples>>
    BY DEF ReadNode
  <1> HIDE DEF r
  <1> QED BY <1>1, <1>2, <1>3, ReadingKeepsIInv

LEMMA UpdateKeepsIInv ==
  ASSUME IInv, NEW h \in Handlers, Update(h)
  PROVE  IInv'
  <1> USE DEF Creating, HasFather, HasRow, HasNode, HasDraft
  <1>1. tx[h].at \in {"read", "owned", "ordered", "reread", "locked"}
    BY DEF Update, CheckOwner, CheckOrder, Reread, LockNode, UpdateNode
  <1>2. tx[h] \in Request /\ tx[h] # Idle /\ Sensible(tx[h], draft[h]) /\ TypeOK
    BY <1>1, InFlight DEF IInv, Established
  <1>3. /\ tx[h].row \in Row /\ tx[h].row # None
        /\ tx[h].node \in Nodes /\ nodes[tx[h].node] \in Row
        /\ tx[h].row.father # None => nodes[tx[h].row.father] # None
    <2>1. tx[h].at \in HasRow /\ tx[h].at \in HasNode
      BY <1>1
    <2> HIDE DEF HasRow, HasNode
    <2>2. /\ tx[h].row # None /\ (tx[h].row.father # None => nodes[tx[h].row.father] # None)
          /\ tx[h].node # None /\ nodes[tx[h].node] # None
      BY <1>2, <2>1 DEF Sensible
    <2>3. tx[h].row \in Row /\ tx[h].node \in Nodes
      BY <1>2, <2>2 DEF Request
    <2> QED BY <1>2, <2>2, <2>3 DEF TypeOK
  <1>4. nodes[tx[h].node].father # None => nodes[nodes[tx[h].node].father] # None
    BY <1>3, NoneIsNothing DEF IInv, FathersExist
  <1>5. CASE CheckOwner(h)
    <2>1. tx' = [tx EXCEPT ![h].at = "owned"] /\ UNCHANGED <<nodes, couples, draft, newCouples>>
      BY <1>5 DEF CheckOwner
    <2> QED BY <1>1, <1>3, <2>1, CheckingKeepsIInv DEF Stages
  <1>6. CASE CheckOrder(h)
    <2>1. tx' = [tx EXCEPT ![h].at = "ordered"] /\ UNCHANGED <<nodes, couples, draft, newCouples>>
      BY <1>6 DEF CheckOrder
    <2> QED BY <1>1, <1>3, <2>1, CheckingKeepsIInv DEF Stages
  <1>7. CASE Reread(h)
    <2> DEFINE old == tx[h].row
               now == nodes[tx[h].node]
               data == [user   |-> IF tx[h].user # None THEN tx[h].user ELSE old.user,
                        father |-> IF tx[h].father # None THEN tx[h].father ELSE old.father,
                        order  |-> IF tx[h].order # None THEN tx[h].order ELSE old.order,
                        live   |-> old.live]
               fields == {f \in {"user", "father", "order"} : data[f] # now[f]}
               r == [tx[h] EXCEPT !.at = "reread", !.row = data, !.fields = fields]
    <2>1. data \in Row /\ (data.father # None => nodes[data.father] # None)
      BY <1>2, <1>3 DEF Row, Request, Sensible
    <2>2. fields \in SUBSET {"user", "father", "order"}
      OBVIOUS
    <2>3. tx' = [tx EXCEPT ![h] = r] /\ UNCHANGED <<nodes, couples, draft, newCouples>>
      BY <1>7 DEF Reread
    <2> HIDE DEF data, fields
    <2>4. /\ r \in Request /\ r.father = tx[h].father /\ r.row = data
          /\ r.node = tx[h].node /\ r.at = "reread"
      BY <1>2, <2>1, <2>2 DEF Request, Stages
    <2> HIDE DEF r
    <2>5. Sensible(r, draft[h])
      BY <1>1, <1>2, <2>1, <2>4, NoneIsNothing DEF Sensible
    <2> QED BY <2>3, <2>4, <2>5, ReadingKeepsIInv
  <1>8. CASE LockNode(h)
    <2> DEFINE r == [tx[h] EXCEPT !.at = "locked"]
    <2>1. /\ r \in Request /\ r.father = tx[h].father /\ r.row = tx[h].row
          /\ r.node = tx[h].node /\ r.at = "locked"
      BY <1>2 DEF Request, Stages
    <2>2. /\ tx' = [tx EXCEPT ![h] = r] /\ MayLock(h, tx[h].node)
          /\ draft' = [draft EXCEPT ![h][tx[h].node] = nodes[tx[h].node]]
          /\ UNCHANGED <<nodes, couples, newCouples>>
      BY <1>8 DEF LockNode
    <2> HIDE DEF r
    <2>3. draft'[h][r.node] # None
      BY <1>2, <1>3, <2>1, <2>2, NoneIsNothing DEF TypeOK
    <2>4. Sensible(r, draft'[h])
      BY <1>1, <1>2, <2>1, <2>3 DEF Sensible
    <2> QED BY <1>3, <1>4, <2>1, <2>2, <2>4, NoneIsNothing, WritingKeepsIInv
  <1>9. CASE UpdateNode(h)
    <2> DEFINE row == Patched(h, nodes[tx[h].node])
               r == [tx[h] EXCEPT !.at = "updated"]
    <2>1. /\ r \in Request /\ r.father = tx[h].father /\ r.row = tx[h].row
          /\ r.node = tx[h].node /\ r.at = "updated"
      BY <1>2 DEF Request, Stages
    <2>2. /\ row \in Row /\ row.live = nodes[tx[h].node].live
          /\ row.father # None => nodes[row.father] # None
      BY <1>3, <1>4 DEF Patched, Row
    <2>3. /\ tx' = [tx EXCEPT ![h] = r]
          /\ draft' = [draft EXCEPT ![h][tx[h].node] = row]
          /\ UNCHANGED <<nodes, couples, newCouples>>
          /\ tx[h].at = "locked"
      BY <1>9 DEF UpdateNode
    <2>4. MayLock(h, tx[h].node)
      BY <1>2, <1>3, <2>3 DEF IInv, Sensible, RowLocks, MayLock
    <2> HIDE DEF row, r
    <2>5. Sensible(r, draft'[h])
      BY <1>1, <1>2, <2>1 DEF Sensible
    <2> QED BY <1>3, <2>1, <2>2, <2>3, <2>4, <2>5, NoneIsNothing, WritingKeepsIInv
  <1> QED BY <1>5, <1>6, <1>7, <1>8, <1>9 DEF Update

-----------------------------------------------------------------------------
(* remove, and the end of a transaction.                                   *)

LEMMA ReadVictimKeepsIInv ==
  ASSUME IInv, NEW h \in Handlers, NEW n \in Nodes, ReadVictim(h, n)
  PROVE  IInv'
  <1> DEFINE r == [at |-> "victim", node |-> n, user |-> None, father |-> nodes[n].father,
                   order |-> None, live |-> TRUE, spouse |-> None, level |-> RootTreeLevel,
                   row |-> None, fields |-> {}]
  <1>1. nodes[n] \in Row /\ nodes[n].father \in Nodes
    BY DEF ReadVictim, IInv, TypeOK, Row
  <1>2. r \in Request
    BY <1>1 DEF Request, Stages, RootTreeLevel
  <1>3. nodes[nodes[n].father] # None
    BY <1>1, NoneIsNothing DEF IInv, FathersExist
  <1>4. Sensible(r, draft[h])
    BY <1>1, <1>3, NoneIsNothing DEF ReadVictim, Sensible, Creating, HasRow, HasDraft
  <1>5. tx' = [tx EXCEPT ![h] = r] /\ UNCHANGED <<nodes, couples, draft, newCouples>>
    BY DEF ReadVictim
  <1> HIDE DEF r
  <1> QED BY <1>2, <1>4, <1>5, ReadingKeepsIInv

LEMMA RemoveKeepsIInv ==
  ASSUME IInv, NEW h \in Handlers, Remove(h)
  PROVE  IInv'
  <1> USE DEF Creating, HasFather, HasRow, HasNode, HasDraft
  <1>1. tx[h].at \in {"victim", "leaf", "deactivated"}
    BY DEF Remove, CheckLeaf, SoftDeactivate, DecrementMembers
  <1>2. tx[h] \in Request /\ tx[h] # Idle /\ Sensible(tx[h], draft[h]) /\ TypeOK
    BY <1>1, InFlight DEF IInv, Established
  <1>3. /\ tx[h].father # None /\ tx[h].father \in Nodes /\ nodes[tx[h].father] \in Row
        /\ tx[h].node \in Nodes /\ nodes[tx[h].node] \in Row
    BY <1>1, <1>2 DEF Sensible, Request, TypeOK
  <1>4. CASE CheckLeaf(h)
    <2>1. tx' = [tx EXCEPT ![h].at = "leaf"] /\ UNCHANGED <<nodes, couples, draft, newCouples>>
      BY <1>4 DEF CheckLeaf
    <2> QED BY <1>1, <1>3, <2>1, CheckingKeepsIInv DEF Stages
  <1>5. CASE SoftDeactivate(h)
    <2> DEFINE n == tx[h].node
               row == [nodes[n] EXCEPT !.live = FALSE]
               r == [tx[h] EXCEPT !.at = "deactivated"]
    <2>1. row \in Row /\ ~ row.live /\ row.father = nodes[n].father
      BY <1>3 DEF Row
    <2>2. row.father # None => nodes[row.father] # None
      BY <1>3, <2>1, NoneIsNothing DEF IInv, FathersExist
    <2>3. /\ r \in Request /\ r.father = tx[h].father /\ r.node = n /\ r.at = "deactivated"
      BY <1>2 DEF Request, Stages
    <2>4. /\ tx' = [tx EXCEPT ![h] = r] /\ MayLock(h, n)
          /\ draft' = [draft EXCEPT ![h][n] = row]
          /\ UNCHANGED <<nodes, couples, newCouples>>
      BY <1>5 DEF SoftDeactivate
    <2> HIDE DEF row, r
    <2>5. draft'[h][r.node] = row
      BY <1>2, <1>3, <2>3, <2>4 DEF TypeOK
    <2>6. Sensible(r, draft'[h])
      BY <1>1, <1>2, <1>3, <2>1, <2>3, <2>5, NoneIsNothing DEF Sensible
    <2> QED BY <1>3, <2>1, <2>3, <2>4, <2>6, <2>2, NoneIsNothing, WritingKeepsIInv
  <1>6. CASE DecrementMembers(h)
    <2> DEFINE p == tx[h].father
               seen == View(h)[p]
               row == [seen EXCEPT !.order = @ - 1]
               r == [tx[h] EXCEPT !.at = "removed"]
    <2>1. seen = IF draft[h][p] # None THEN draft[h][p] ELSE nodes[p]
      BY <1>3 DEF View
    <2>2. /\ seen \in Row
          /\ seen.live => nodes[p].live
          /\ seen.father # None => nodes[seen.father] # None
      BY <1>2, <1>3, <2>1, NoneIsNothing DEF TypeOK, IInv, DraftsReviveNothing, FathersExist
    <2>3. row \in Row /\ row.live = seen.live /\ row.father = seen.father
      BY <2>2 DEF Row
    <2>4. /\ r \in Request /\ r.father = p /\ r.node = tx[h].node /\ r.at = "removed"
      BY <1>2 DEF Request, Stages
    <2>5. /\ tx' = [tx EXCEPT ![h] = r] /\ MayLock(h, p)
          /\ draft' = [draft EXCEPT ![h][p] = row]
          /\ UNCHANGED <<nodes, couples, newCouples>>
          /\ tx[h].at = "deactivated"
      BY <1>6 DEF DecrementMembers
    <2>6. p = tx[h].node => ~ row.live
      BY <1>2, <1>3, <2>3, <2>5 DEF Sensible, View
    <2> HIDE DEF row, r, seen
    <2>7. /\ draft'[h][p] = row
          /\ p # tx[h].node => draft'[h][tx[h].node] = draft[h][tx[h].node]
      BY <1>2, <1>3, <2>5 DEF TypeOK
    <2>8. Sensible(r, draft'[h])
      BY <1>2, <1>3, <2>3, <2>4, <2>5, <2>6, <2>7, NoneIsNothing DEF Sensible
    <2> QED BY <1>3, <2>2, <2>3, <2>4, <2>5, <2>8, NoneIsNothing, WritingKeepsIInv
  <1> QED BY <1>4, <1>5, <1>6 DEF Remove

\* What a commit makes of the table: every row stays, the rows that others have
\* written stay as they are, and no removed row is in the tree again.
LEMMA CommitTable ==
  ASSUME IInv, NEW h \in Handlers, NEW n \in Nodes
  PROVE  /\ nodes[n] # None => View(h)[n] # None
         /\ \A k \in Handlers \ {h} : draft[k][n] # None => View(h)[n] = nodes[n]
         /\ nodes[n] # None /\ View(h)[n].live => nodes[n].live
  BY DEF IInv, View, RowLocks, DraftsReviveNothing

LEMMA CommitKeepsIInv ==
  ASSUME IInv, NEW h \in Handlers, Commit(h)
  PROVE  IInv'
  <1>1. tx[h].at \in {"created", "updated", "removed"}
    BY DEF Commit
  <1>2. tx[h] \in Request /\ tx[h] # Idle /\ Sensible(tx[h], draft[h]) /\ TypeOK
    BY <1>1, InFlight DEF IInv, Established
  <1>3. nodes' = View(h) /\ View(h) \in [Nodes -> Row \cup {None}]
    BY <1>2, ViewIsTable DEF Commit
  <1>4. tx[h].at = "removed" => /\ tx[h].node \in Nodes
                                /\ draft[h][tx[h].node] # None
                                /\ ~ draft[h][tx[h].node].live
    BY <1>2 DEF Sensible, HasNode, HasDraft, Request
  <1>5. couples' \subseteq Couple
    BY <1>2, <1>4, WithoutCouplesIsTable DEF Commit, TypeOK
  <1>6. TypeOK'
    BY <1>2, <1>3, <1>5 DEF Commit, TypeOK, Nothing
  <1>7. /\ tx'[h] = Idle /\ draft'[h] = Nothing
        /\ \A k \in Handlers \ {h} : /\ tx'[k] = tx[k] /\ draft'[k] = draft[k]
                                     /\ newCouples'[k] = newCouples[k]
    BY <1>2 DEF Commit, TypeOK
  <1>8. \A k \in Handlers : Established(k)'
    <2> SUFFICES ASSUME NEW k \in Handlers, tx[k] # Idle, k # h
                 PROVE  Sensible(tx[k], draft[k])'
      BY <1>7 DEF Established
    <2>1. tx[k] \in Request /\ Sensible(tx[k], draft[k])
      BY <1>2 DEF IInv, Established, TypeOK
    <2>2. \A n \in Nodes : nodes[n] # None => nodes'[n] # None
      BY <1>3, CommitTable
    <2>3. /\ tx[k].father # None => tx[k].father \in Nodes
          /\ tx[k].node # None => tx[k].node \in Nodes
          /\ tx[k].row # None => tx[k].row.father \in Nodes \cup {None}
      BY <2>1 DEF Request, Row
    <2> QED BY <1>7, <2>1, <2>2, <2>3 DEF Sensible
  <1>9. RowLocks'
    BY <1>7 DEF IInv, RowLocks, Nothing
  <1>10. DraftsReviveNothing'
    BY <1>3, <1>7, CommitTable DEF IInv, DraftsReviveNothing, Nothing
  <1>11. NewRowHasCouple'
    BY <1>3, <1>7, CommitTable DEF IInv, NewRowHasCouple, Nothing
  <1>12. LiveNodeHasCouple'
    <2> SUFFICES ASSUME NEW n \in Nodes, View(h)[n] # None, View(h)[n].live
                 PROVE  \E c \in couples' : c.node = n /\ c.live
      BY <1>3 DEF LiveNodeHasCouple
    <2>1. CASE nodes[n] = None
      BY <2>1 DEF IInv, NewRowHasCouple, View, Commit
    <2>2. CASE nodes[n] # None
      <3>1. PICK c \in couples : c.node = n /\ c.live
        BY <2>2, CommitTable DEF IInv, LiveNodeHasCouple
      <3>2. tx[h].at = "removed" => n # tx[h].node
        BY <1>4 DEF View
      <3>3. c \in couples'
        BY <3>1, <3>2 DEF Commit, WithoutCouplesOf
      <3> QED BY <3>1, <3>3
    <2> QED BY <2>1, <2>2
  <1>13. FathersExist'
    <2>1. \A n \in Nodes : nodes[n] # None => nodes'[n] # None
      BY <1>3, CommitTable
    <2>2. \A n \in Nodes : View(h)[n] # None /\ View(h)[n].father # None
                             => nodes[View(h)[n].father] # None
      BY DEF IInv, FathersExist, View
    <2>3. \A n \in Nodes : View(h)[n] # None /\ View(h)[n].father # None
                             => View(h)[n].father \in Nodes
      BY <1>3, NoneIsNothing DEF Row
    <2>4. \A k \in Handlers \ {h}, n \in Nodes :
             draft[k][n] # None /\ draft[k][n].father # None
             => draft[k][n].father \in Nodes /\ nodes[draft[k][n].father] # None
      <3> SUFFICES ASSUME NEW k \in Handlers, NEW n \in Nodes,
                          draft[k][n] # None, draft[k][n].father # None
                   PROVE  draft[k][n].father \in Nodes /\ nodes[draft[k][n].father] # None
        OBVIOUS
      <3>1. draft[k][n] \in Row
        BY <1>2 DEF TypeOK
      <3> QED BY <3>1 DEF IInv, FathersExist, Row
    <2> QED BY <1>3, <1>7, <2>1, <2>2, <2>3, <2>4 DEF FathersExist, Nothing
  <1> QED BY <1>6, <1>8, <1>9, <1>10, <1>11, <1>12, <1>13 DEF IInv

LEMMA RollbackKeepsIInv ==
  ASSUME IInv, NEW h \in Handlers, Rollback(h)
  PROVE  IInv'
  <1>1. TypeOK'
    BY DEF IInv, Rollback, TypeOK, Nothing
  <1>2. /\ tx'[h] = Idle /\ draft'[h] = Nothing
        /\ \A k \in Handlers \ {h} : /\ tx'[k] = tx[k] /\ draft'[k] = draft[k]
                                     /\ newCouples'[k] = newCouples[k]
        /\ UNCHANGED <<nodes, couples>>
    BY DEF IInv, Rollback, TypeOK
  <1>3. \A k \in Handlers : Established(k)'
    BY <1>2 DEF IInv, Established, Sensible
  <1>4. RowLocks' /\ DraftsReviveNothing' /\ NewRowHasCouple' /\ LiveNodeHasCouple' /\ FathersExist'
    BY <1>2 DEF IInv, RowLocks, DraftsReviveNothing, NewRowHasCouple, LiveNodeHasCouple,
                FathersExist, Nothing
  <1> QED BY <1>1, <1>3, <1>4 DEF IInv

\* Every step keeps the invariant.
LEMMA NextIInv == IInv /\ [Next]_vars => IInv'
  <1> SUFFICES ASSUME IInv, [Next]_vars PROVE IInv'
    OBVIOUS
  <1>1. ASSUME NEW h \in Handlers, NEW u \in Users, NEW p \in Nodes \cup {None},
               NEW o \in Orders \cup {None}, NEW on \in BOOLEAN, NEW s \in Spouses \cup {None},
               BeginCreate(h, u, p, o, on, s)
        PROVE  IInv'
    <2>1. o \in Int \cup {None} /\ s \in Users \cup {None}
      BY OrdersArePositive, RequestsAreKnown
    <2> QED BY <1>1, <2>1, BeginCreateKeepsIInv
  <1>2. ASSUME NEW h \in Handlers, NEW u \in Users, NEW parentUser \in Users,
               AttachMember(h, u, parentUser)
        PROVE  IInv'
    <2>1. PICK p \in Nodes : BeginCreate(h, u, p, 1, TRUE, None)
      BY <1>2 DEF AttachMember, NodesOf
    <2>2. 1 \in Int \cup {None} /\ TRUE \in BOOLEAN /\ None \in Users \cup {None}
      OBVIOUS
    <2> QED BY <2>1, <2>2, BeginCreateKeepsIInv
  <1>3. ASSUME NEW h \in Handlers, NEW n \in Nodes, NEW u \in NewUsers \cup {None},
               NEW p \in Nodes \cup {None}, NEW o \in Orders \cup {None},
               ReadNode(h, n, u, p, o)
        PROVE  IInv'
    <2>1. o \in Int \cup {None} /\ u \in Users \cup {None}
      BY OrdersArePositive, RequestsAreKnown
    <2> QED BY <1>3, <2>1, ReadNodeKeepsIInv
  <1>4. CASE UNCHANGED vars
    <2>1. TypeOK' /\ (\A h \in Handlers : Established(h)')
      BY <1>4 DEF vars, IInv, TypeOK, Established, Sensible
    <2>2. RowLocks' /\ DraftsReviveNothing' /\ NewRowHasCouple'
      BY <1>4 DEF vars, IInv, RowLocks, DraftsReviveNothing, NewRowHasCouple
    <2>3. LiveNodeHasCouple' /\ FathersExist'
      BY <1>4 DEF vars, IInv, LiveNodeHasCouple, FathersExist
    <2> QED BY <2>1, <2>2, <2>3 DEF IInv
  <1> QED BY <1>1, <1>2, <1>3, <1>4, ReadVictimKeepsIInv, CreateKeepsIInv, UpdateKeepsIInv,
             RemoveKeepsIInv, CommitKeepsIInv, RollbackKeepsIInv DEF Next

-----------------------------------------------------------------------------
(* What holds of every kind of request together.                           *)

\* The invariant holds of every reachable state, the types among it.
THEOREM Invariance == Spec => []IInv
  BY InitIInv, NextIInv, PTL DEF Spec

THEOREM TypeCorrect == Spec => []TypeOK
  <1>1. IInv => TypeOK
    BY DEF IInv
  <1> QED BY <1>1, Invariance, PTL

\* However creations, attachments, updates and removals interleave and fail, a
\* node of the tree has a couple.
THEOREM LiveNodeHasCoupleHolds == Spec => []LiveNodeHasCouple
  <1>1. IInv => LiveNodeHasCouple
    BY DEF IInv
  <1> QED BY <1>1, Invariance, PTL

\* Only a commit changes the table.
LEMMA OnlyCommitWrites ==
  ASSUME [Next]_vars
  PROVE  UNCHANGED nodes \/ \E h \in Handlers : Commit(h)
  <1>1. ASSUME NEW h \in Handlers, Create(h)
        PROVE  UNCHANGED nodes
    BY <1>1 DEF Create, CheckRoot, ReadFather, CheckChild, ReadLevel, InsertNode,
                IncrementMembers, CreateSpouseCouple
  <1>2. ASSUME NEW h \in Handlers, Update(h)
        PROVE  UNCHANGED nodes
    BY <1>2 DEF Update, CheckOwner, CheckOrder, Reread, LockNode, UpdateNode
  <1>3. ASSUME NEW h \in Handlers, Remove(h)
        PROVE  UNCHANGED nodes
    BY <1>3 DEF Remove, CheckLeaf, SoftDeactivate, DecrementMembers
  <1>4. ASSUME NEW h \in Handlers,
               \/ Rollback(h)
               \/ \E u, parentUser \in Users : AttachMember(h, u, parentUser)
               \/ \E n \in Nodes : ReadVictim(h, n)
        PROVE  UNCHANGED nodes
    BY <1>4 DEF Rollback, AttachMember, BeginCreate, ReadVictim
  <1>5. ASSUME NEW h \in Handlers,
               \/ \E u \in Users, p \in Nodes \cup {None}, o \in Orders \cup {None},
                     on \in BOOLEAN, s \in Spouses \cup {None} : BeginCreate(h, u, p, o, on, s)
               \/ \E n \in Nodes, u \in NewUsers \cup {None}, p \in Nodes \cup {None},
                     o \in Orders \cup {None} : ReadNode(h, n, u, p, o)
        PROVE  UNCHANGED nodes
    BY <1>5 DEF BeginCreate, ReadNode
  <1>6. CASE UNCHANGED vars
    BY <1>6 DEF vars
  <1> QED BY <1>1, <1>2, <1>3, <1>4, <1>5, <1>6 DEF Next

\* No commit brings a removed node back.
LEMMA StepRevivesNothing ==
  ASSUME IInv, [Next]_vars, NEW n \in Nodes, nodes[n] # None, ~ nodes[n].live
  PROVE  ~ nodes'[n].live
  <1>1. ASSUME NEW h \in Handlers, Commit(h) PROVE ~ nodes'[n].live
    <2>1. View(h)[n] # None /\ ~ View(h)[n].live
      BY CommitTable
    <2> QED BY <1>1, <2>1 DEF Commit
  <1> QED BY <1>1, OnlyCommitWrites

THEOREM RemovedStaysRemovedHolds == Spec => RemovedStaysRemoved
  <1>1. IInv /\ [Next]_vars
        => [\A n \in Nodes : nodes[n] # None /\ ~ nodes[n].live => ~ nodes'[n].live]_vars
    BY StepRevivesNothing
  <1> QED BY <1>1, Invariance, PTL DEF Spec, RemovedStaysRemoved

-----------------------------------------------------------------------------
(* Acyclic, as long as no client sends an update: of the requests, update  *)
(* alone writes father_id into a committed row.                            *)

NoUpdate == \A h \in Handlers : tx[h].at \notin {"read", "owned", "ordered", "reread", "locked"}

DraftsKeepFather ==
  \A h \in Handlers, n \in Nodes :
    draft[h][n] # None /\ nodes[n] # None => draft[h][n].father = nodes[n].father

AInv == NoUpdate /\ DraftsKeepFather /\ Acyclic

\* A commit of new rows, whose fathers are old, closes no circle: the old rows
\* of a circle would be one by themselves.
LEMMA CommitIsAcyclic ==
  ASSUME IInv, AInv, NEW h \in Handlers, NEW S \in SUBSET Nodes
  PROVE  ~ Cyclic(S, View(h))
  <1> SUFFICES ASSUME Cyclic(S, View(h)) PROVE FALSE
    OBVIOUS
  <1> DEFINE Old == {n \in S : nodes[n] # None}
  <1>1. \A n \in S : View(h)[n] # None /\ View(h)[n].father \in S
    BY DEF Cyclic
  <1>2. \A n \in S : nodes[View(h)[n].father] # None
    BY <1>1, NoneIsNothing DEF IInv, FathersExist, View
  <1>3. \A n \in Old : nodes[n].father = View(h)[n].father
    BY DEF AInv, DraftsKeepFather, View
  <1>4. Old # {}
    BY <1>1, <1>2 DEF Cyclic
  <1>5. \A n \in Old : nodes[n] # None /\ nodes[n].father \in Old
    BY <1>1, <1>2, <1>3
  <1> QED BY <1>4, <1>5 DEF AInv, Acyclic, Cyclic

\* A step of request h that writes row n like the row it is based on.
LEMMA SameFatherKeepsDrafts ==
  ASSUME IInv, AInv, NEW h \in Handlers, NEW n \in Nodes, NEW row \in Row,
         draft' = [draft EXCEPT ![h][n] = row], UNCHANGED nodes,
         nodes[n] # None => row.father = nodes[n].father
  PROVE  DraftsKeepFather'
  BY DEF IInv, TypeOK, AInv, DraftsKeepFather

LEMMA WritesKeepDrafts ==
  ASSUME IInv, AInv, NEW h \in Handlers,
         InsertNode(h) \/ IncrementMembers(h) \/ SoftDeactivate(h) \/ DecrementMembers(h)
  PROVE  DraftsKeepFather'
  <1>1. /\ TypeOK /\ DraftsKeepFather
        /\ tx[h].at # "idle" => tx[h] \in Request /\ tx[h] # Idle /\ Sensible(tx[h], draft[h])
    BY InFlight DEF IInv, AInv, Established
  <1>2. CASE InsertNode(h)
    <2>1. PICK n \in Nodes : nodes[n] = None /\ draft' = [draft EXCEPT ![h][n] = NewRow(h)]
      BY <1>2 DEF InsertNode
    <2>2. UNCHANGED nodes
      BY <1>2 DEF InsertNode
    <2>3. \A k \in Handlers, m \in Nodes : k # h \/ m # n => draft'[k][m] = draft[k][m]
      BY <1>1, <2>1 DEF TypeOK
    <2> QED BY <1>1, <2>1, <2>2, <2>3 DEF DraftsKeepFather
  <1>3. CASE IncrementMembers(h)
    <2>1. tx[h].father \in Nodes /\ nodes[tx[h].father] \in Row
      BY <1>1, <1>3 DEF IncrementMembers, Sensible, HasFather, Request, TypeOK
    <2> DEFINE row == [nodes[tx[h].father] EXCEPT !.order = @ + 1]
    <2>2. row \in Row /\ row.father = nodes[tx[h].father].father
      BY <2>1 DEF Row
    <2>3. draft' = [draft EXCEPT ![h][tx[h].father] = row] /\ UNCHANGED nodes
      BY <1>3 DEF IncrementMembers
    <2> HIDE DEF row
    <2> QED BY <2>1, <2>2, <2>3, SameFatherKeepsDrafts
  <1>4. CASE SoftDeactivate(h)
    <2>1. tx[h].node \in Nodes /\ nodes[tx[h].node] \in Row
      BY <1>1, <1>4 DEF SoftDeactivate, Sensible, HasNode, Request, TypeOK
    <2> DEFINE row == [nodes[tx[h].node] EXCEPT !.live = FALSE]
    <2>2. row \in Row /\ row.father = nodes[tx[h].node].father
      BY <2>1 DEF Row
    <2>3. draft' = [draft EXCEPT ![h][tx[h].node] = row] /\ UNCHANGED nodes
      BY <1>4 DEF SoftDeactivate
    <2> HIDE DEF row
    <2> QED BY <2>1, <2>2, <2>3, SameFatherKeepsDrafts
  <1>5. CASE DecrementMembers(h)
    <2> DEFINE seen == View(h)[tx[h].father]
               row == [seen EXCEPT !.order = @ - 1]
    <2>1. tx[h].father \in Nodes /\ nodes[tx[h].father] \in Row
      BY <1>1, <1>5 DEF DecrementMembers, Sensible, HasFather, Request, TypeOK
    <2>2. seen = IF draft[h][tx[h].father] # None THEN draft[h][tx[h].father]
                                                  ELSE nodes[tx[h].father]
      BY <2>1 DEF View
    <2>3. seen \in Row /\ seen.father = nodes[tx[h].father].father
      BY <1>1, <2>1, <2>2, NoneIsNothing DEF TypeOK, DraftsKeepFather
    <2>4. row \in Row /\ row.father = seen.father
      BY <2>3 DEF Row
    <2>5. draft' = [draft EXCEPT ![h][tx[h].father] = row] /\ UNCHANGED nodes
      BY <1>5 DEF DecrementMembers
    <2> HIDE DEF seen, row
    <2> QED BY <2>1, <2>3, <2>4, <2>5, SameFatherKeepsDrafts
  <1> QED BY <1>2, <1>3, <1>4, <1>5

\* Requests other than update never reach the stages of an update.
LEMMA NoUpdateStarts ==
  ASSUME IInv, NoUpdate, "update" \notin Kinds, [Next]_vars
  PROVE  NoUpdate'
  <1> USE DEF IInv, TypeOK, NoUpdate
  <1>1. ASSUME NEW h \in Handlers, tx[h].at # "idle",
               tx'[h].at \notin {"read", "owned", "ordered", "reread", "locked"},
               \A k \in Handlers \ {h} : tx'[k] = tx[k]
        PROVE  NoUpdate'
    BY <1>1
  <1>2. ASSUME NEW h \in Handlers, Create(h)
        PROVE  NoUpdate'
    <2>1. tx[h].at # "idle"
      BY <1>2 DEF Create, CheckRoot, ReadFather, CheckChild, ReadLevel, InsertNode,
                  IncrementMembers, CreateSpouseCouple
    <2>2. tx[h] \in Request
      BY <2>1, InFlight
    <2>3. \A k \in Handlers \ {h} : tx'[k] = tx[k]
      BY <1>2 DEF Create, CheckRoot, ReadFather, CheckChild, ReadLevel, InsertNode,
                  IncrementMembers, CreateSpouseCouple
    <2>4. tx'[h].at \in {"placed", "vacant", "levelled", "inserted", "counted", "created"}
      <3>1. CASE CheckRoot(h) \/ CheckChild(h) \/ CreateSpouseCouple(h)
        BY <3>1, <2>2 DEF CheckRoot, CheckChild, CreateSpouseCouple, Request
      <3>2. CASE ReadFather(h)
        BY <3>2, <2>2 DEF ReadFather, Request
      <3>3. CASE ReadLevel(h)
        BY <3>3, <2>2 DEF ReadLevel, Request
      <3>4. CASE InsertNode(h)
        <4>1. PICK n \in Nodes : tx' = [tx EXCEPT ![h].node = n, ![h].at = AfterInsert(h)]
          BY <3>4 DEF InsertNode
        <4> QED BY <4>1, <2>2 DEF AfterInsert, Request
      <3>5. CASE IncrementMembers(h)
        BY <3>5, <2>2 DEF IncrementMembers, AfterCount, Request
      <3> QED BY <1>2, <3>1, <3>2, <3>3, <3>4, <3>5 DEF Create
    <2> QED BY <1>1, <2>1, <2>3, <2>4
  <1>3. ASSUME NEW h \in Handlers, Update(h)
        PROVE  NoUpdate'
    BY <1>3 DEF Update, CheckOwner, CheckOrder, Reread, LockNode, UpdateNode
  <1>4. ASSUME NEW h \in Handlers, Remove(h)
        PROVE  NoUpdate'
    <2>1. tx[h].at # "idle"
      BY <1>4 DEF Remove, CheckLeaf, SoftDeactivate, DecrementMembers
    <2>2. tx[h] \in Request
      BY <2>1, InFlight
    <2>3. \A k \in Handlers \ {h} : tx'[k] = tx[k]
      BY <1>4 DEF Remove, CheckLeaf, SoftDeactivate, DecrementMembers
    <2>4. tx'[h].at \in {"leaf", "deactivated", "removed"}
      BY <1>4, <2>2 DEF Remove, CheckLeaf, SoftDeactivate, DecrementMembers, Request
    <2> QED BY <1>1, <2>1, <2>3, <2>4
  <1>5. ASSUME NEW h \in Handlers, Commit(h) \/ Rollback(h)
        PROVE  NoUpdate'
    BY <1>5 DEF Commit, Rollback, Idle
  <1>6. ASSUME NEW h \in Handlers,
               \/ \E u \in Users, p \in Nodes \cup {None}, o \in Orders \cup {None},
                     on \in BOOLEAN, s \in Spouses \cup {None} : BeginCreate(h, u, p, o, on, s)
               \/ \E u, parentUser \in Users : AttachMember(h, u, parentUser)
               \/ \E n \in Nodes : ReadVictim(h, n)
        PROVE  NoUpdate'
    BY <1>6 DEF BeginCreate, AttachMember, ReadVictim
  <1>7. CASE UNCHANGED vars
    BY <1>7 DEF vars
  <1> QED BY <1>2, <1>3, <1>4, <1>5, <1>6, <1>7 DEF Next

LEMMA AcyclicIsKept ==
  ASSUME IInv, AInv, "update" \notin Kinds, [Next]_vars
  PROVE  AInv'
  <1>1. NoUpdate'
    BY NoUpdateStarts DEF AInv
  <1>2. DraftsKeepFather'
    <2>1. CASE UNCHANGED <<nodes, draft>>
      BY <2>1 DEF AInv, DraftsKeepFather
    <2>2. ASSUME NEW h \in Handlers, Commit(h) PROVE DraftsKeepFather'
      <3>1. \A k \in Handlers \ {h}, n \in Nodes :
               /\ draft'[k] = draft[k]
               /\ draft[k][n] # None => nodes'[n] = nodes[n]
        BY <2>2, CommitTable DEF Commit, IInv, TypeOK
      <3>2. draft'[h] = Nothing
        BY <2>2 DEF Commit, IInv, TypeOK
      <3> QED BY <3>1, <3>2 DEF AInv, DraftsKeepFather, Nothing
    <2>3. ASSUME NEW h \in Handlers, Rollback(h) PROVE DraftsKeepFather'
      BY <2>3 DEF Rollback, IInv, TypeOK, AInv, DraftsKeepFather, Nothing
    <2>4. ASSUME NEW h \in Handlers, Create(h) PROVE DraftsKeepFather'
      BY <2>1, <2>4, WritesKeepDrafts
      DEF Create, CheckRoot, ReadFather, CheckChild, ReadLevel, CreateSpouseCouple
    <2>5. ASSUME NEW h \in Handlers, Update(h) PROVE DraftsKeepFather'
      BY <2>5 DEF AInv, NoUpdate, Update, CheckOwner, CheckOrder, Reread, LockNode, UpdateNode
    <2>6. ASSUME NEW h \in Handlers, Remove(h) PROVE DraftsKeepFather'
      BY <2>1, <2>6, WritesKeepDrafts DEF Remove, CheckLeaf
    <2>7. ASSUME NEW h \in Handlers,
                 \/ \E u \in Users, p \in Nodes \cup {None}, o \in Orders \cup {None},
                       on \in BOOLEAN, s \in Spouses \cup {None} : BeginCreate(h, u, p, o, on, s)
                 \/ \E u, parentUser \in Users : AttachMember(h, u, parentUser)
                 \/ \E n \in Nodes : ReadVictim(h, n)
          PROVE  UNCHANGED <<nodes, draft>>
      BY <2>7 DEF BeginCreate, AttachMember, ReadVictim
    <2>8. CASE UNCHANGED vars
      BY <2>1, <2>8 DEF vars
    <2> QED BY <2>1, <2>2, <2>3, <2>4, <2>5, <2>6, <2>7, <2>8 DEF Next
  <1>3. Acyclic'
    <2>1. CASE UNCHANGED nodes
      BY <2>1 DEF AInv, Acyclic, Cyclic
    <2>2. ASSUME NEW h \in Handlers, Commit(h) PROVE Acyclic'
      <3>1. nodes' = View(h)
        BY <2>2 DEF Commit
      <3> QED BY <3>1, CommitIsAcyclic DEF Acyclic, Cyclic
    <2> QED BY <2>1, <2>2, OnlyCommitWrites
  <1> QED BY <1>1, <1>2, <1>3 DEF AInv

\* "Family trees must not contain cycles": it takes an update to make one.
THEOREM AcyclicWithoutUpdates ==
  ASSUME "update" \notin Kinds
  PROVE  Spec => []Acyclic
  <1>1. Init => AInv
    BY ImportedIsTree DEF Init, AInv, NoUpdate, Idle, DraftsKeepFather, Nothing, Acyclic
  <1>2. IInv /\ AInv /\ [Next]_vars => AInv'
    BY AcyclicIsKept
  <1>3. AInv => Acyclic
    BY DEF AInv
  <1> QED BY <1>1, <1>2, <1>3, Invariance, PTL DEF Spec

-----------------------------------------------------------------------------
(* KeysAreUnique, with the unique indexes in place.                        *)

\* The rows that stand, or may come to stand, at n.
RowsOf(n) == {r \in {nodes[n]} \cup {draft[h][n] : h \in Handlers} : r # None}

KeysApart(r, s) == r.user # s.user /\ (r.father = s.father => r.father = None)
SameKeys(r, s) == r.user = s.user /\ r.father = s.father

\* No two rows, be they committed or not, have a key in common.
KInv == \A m, n \in Nodes : m # n => \A r \in RowsOf(m), s \in RowsOf(n) : KeysApart(r, s)

LEMMA InitKInv == UniqueIndexes /\ Init => KInv
  <1> SUFFICES ASSUME UniqueIndexes, Init, NEW m \in Nodes, NEW n \in Nodes, m # n,
                      NEW r \in RowsOf(m), NEW s \in RowsOf(n)
               PROVE  KeysApart(r, s)
    BY DEF KInv
  <1>1. /\ r = ImportedNodes[m] /\ ImportedNodes[m] # None
        /\ s = ImportedNodes[n] /\ ImportedNodes[n] # None
    BY DEF Init, Nothing, RowsOf
  <1> QED BY <1>1, IndexesHold DEF KeysApart

\* A step that leaves at every node no keys but those that were there.
LEMMA OldKeysStayApart ==
  ASSUME KInv, \A n \in Nodes : \A r \in RowsOf(n)' : \E s \in RowsOf(n) : SameKeys(r, s)
  PROVE  KInv'
  <1> SUFFICES ASSUME NEW m \in Nodes, NEW n \in Nodes, m # n,
                      NEW r \in RowsOf(m)', NEW s \in RowsOf(n)'
               PROVE  KeysApart(r, s)
    BY DEF KInv
  <1>1. PICK q \in RowsOf(m) : SameKeys(r, q)
    OBVIOUS
  <1>2. PICK t \in RowsOf(n) : SameKeys(s, t)
    OBVIOUS
  <1>3. KeysApart(q, t)
    BY DEF KInv
  <1> QED BY <1>1, <1>2, <1>3 DEF KeysApart, SameKeys

LEMMA SameRowsStayApart ==
  ASSUME KInv, UNCHANGED <<nodes, draft>>
  PROVE  KInv'
  <1>1. \A n \in Nodes : RowsOf(n)' = RowsOf(n)
    BY DEF RowsOf
  <1> QED BY <1>1 DEF KInv

\* The rows at each node after request h has written n.
LEMMA WrittenRows ==
  ASSUME TypeOK, NEW h \in Handlers, NEW n \in Nodes, NEW row,
         draft' = [draft EXCEPT ![h][n] = row], UNCHANGED nodes, row # None
  PROVE  /\ \A m \in Nodes \ {n} : RowsOf(m)' = RowsOf(m)
         /\ RowsOf(n)' \subseteq RowsOf(n) \cup {row}
  <1>1. /\ \A m \in Nodes \ {n}, k \in Handlers : draft'[k][m] = draft[k][m]
        /\ \A k \in Handlers \ {h} : draft'[k][n] = draft[k][n]
        /\ draft'[h][n] = row
    BY DEF TypeOK
  <1> QED BY <1>1 DEF RowsOf

\* A step that writes row n with keys that stood there, or with free ones.
LEMMA WritingKeepsApart ==
  ASSUME TypeOK, KInv, NEW h \in Handlers, NEW n \in Nodes, NEW row \in Row,
         draft' = [draft EXCEPT ![h][n] = row], UNCHANGED nodes,
         \E s \in RowsOf(n) : SameKeys(row, s)
  PROVE  KInv'
  <1>1. row # None
    BY NoneIsNothing
  <1> QED BY <1>1, WrittenRows, OldKeysStayApart DEF SameKeys

LEMMA FreeKeysAreApart ==
  ASSUME TypeOK, KInv, UniqueIndexes, NEW h \in Handlers, NEW n \in Nodes, NEW row \in Row,
         draft' = [draft EXCEPT ![h][n] = row], UNCHANGED nodes,
         KeysAreFree(h, n, row)
  PROVE  KInv'
  <1>1. row # None
    BY NoneIsNothing
  <1>2. \A m \in Nodes \ {n} : \A s \in RowsOf(m) : KeysApart(row, s) /\ KeysApart(s, row)
    BY DEF KeysAreFree, RowsOf, KeysApart
  <1> SUFFICES ASSUME NEW m \in Nodes, NEW q \in Nodes, m # q,
                      NEW r \in RowsOf(m)', NEW s \in RowsOf(q)'
               PROVE  KeysApart(r, s)
    BY DEF KInv
  <1>3. CASE m = n
    <2>1. s \in RowsOf(q) /\ (r = row \/ r \in RowsOf(n))
      BY <1>1, <1>3, WrittenRows
    <2> QED BY <1>2, <1>3, <2>1 DEF KInv
  <1>4. CASE q = n
    <2>1. r \in RowsOf(m) /\ (s = row \/ s \in RowsOf(n))
      BY <1>1, <1>4, WrittenRows
    <2> QED BY <1>2, <1>4, <2>1 DEF KInv
  <1>5. CASE m # n /\ q # n
    <2>1. r \in RowsOf(m) /\ s \in RowsOf(q)
      BY <1>1, <1>5, WrittenRows
    <2> QED BY <2>1 DEF KInv
  <1> QED BY <1>3, <1>4, <1>5

\* The draft of a row that is committed is based on it, or on an earlier draft.
LEMMA CommittedIsARow ==
  ASSUME NEW n \in Nodes, nodes[n] # None
  PROVE  nodes[n] \in RowsOf(n)
  BY DEF RowsOf

LEMMA CreateKeepsKInv ==
  ASSUME IInv, KInv, UniqueIndexes, NEW h \in Handlers, Create(h)
  PROVE  KInv'
  <1>1. CASE UNCHANGED <<nodes, draft>>
    BY <1>1, SameRowsStayApart
  <1>2. TypeOK /\ (tx[h].at # "idle" => tx[h] \in Request /\ Sensible(tx[h], draft[h]))
    BY InFlight DEF IInv, Established
  <1>3. CASE InsertNode(h)
    <2>1. PICK n \in Nodes : /\ KeysAreFree(h, n, NewRow(h))
                             /\ draft' = [draft EXCEPT ![h][n] = NewRow(h)]
      BY <1>3 DEF InsertNode
    <2>2. UNCHANGED nodes
      BY <1>3 DEF InsertNode
    <2>3. NewRow(h) \in Row
      BY <1>2, <1>3, NewRowIsRow DEF InsertNode, Creating
    <2> QED BY <1>2, <2>1, <2>2, <2>3, FreeKeysAreApart
  <1>4. CASE IncrementMembers(h)
    <2> DEFINE p == tx[h].father
               row == [nodes[p] EXCEPT !.order = @ + 1]
    <2>1. p \in Nodes /\ nodes[p] \in Row /\ nodes[p] # None
      BY <1>2, <1>4 DEF IncrementMembers, Sensible, HasFather, Request, TypeOK
    <2>2. row \in Row /\ SameKeys(row, nodes[p])
      BY <2>1 DEF Row, SameKeys
    <2>3. draft' = [draft EXCEPT ![h][p] = row] /\ UNCHANGED nodes
      BY <1>4 DEF IncrementMembers
    <2> HIDE DEF p, row
    <2> QED BY <1>2, <2>1, <2>2, <2>3, CommittedIsARow, WritingKeepsApart
  <1> QED BY <1>1, <1>3, <1>4
          DEF Create, CheckRoot, ReadFather, CheckChild, ReadLevel, CreateSpouseCouple

LEMMA UpdateKeepsKInv ==
  ASSUME IInv, KInv, UniqueIndexes, NEW h \in Handlers, Update(h)
  PROVE  KInv'
  <1>1. CASE UNCHANGED <<nodes, draft>>
    BY <1>1, SameRowsStayApart
  <1>2. TypeOK /\ (tx[h].at # "idle" => tx[h] \in Request /\ Sensible(tx[h], draft[h]))
    BY InFlight DEF IInv, Established
  <1>3. ASSUME tx[h].at \in {"reread", "locked"}
        PROVE  /\ tx[h].node \in Nodes /\ nodes[tx[h].node] \in Row /\ nodes[tx[h].node] # None
               /\ tx[h].row \in Row
    BY <1>2, <1>3 DEF Sensible, HasNode, HasRow, Request, TypeOK
  <1>4. CASE LockNode(h)
    <2> DEFINE n == tx[h].node
               row == nodes[n]
    <2>1. /\ draft' = [draft EXCEPT ![h][n] = row] /\ UNCHANGED nodes
          /\ n \in Nodes /\ row \in Row /\ row \in RowsOf(n)
      BY <1>3, <1>4, CommittedIsARow DEF LockNode
    <2>2. SameKeys(row, row)
      BY DEF SameKeys
    <2> HIDE DEF n, row
    <2>3. \E s \in RowsOf(n) : SameKeys(row, s)
      BY <2>1, <2>2
    <2> QED BY <1>2, <2>1, <2>3, WritingKeepsApart
  <1>5. CASE UpdateNode(h)
    <2> DEFINE row == Patched(h, nodes[tx[h].node])
    <2>1. /\ KeysAreFree(h, tx[h].node, row)
          /\ draft' = [draft EXCEPT ![h][tx[h].node] = row] /\ UNCHANGED nodes
          /\ tx[h].at \in {"reread", "locked"}
      BY <1>5 DEF UpdateNode
    <2>2. row \in Row
      BY <1>3, <2>1 DEF Patched, Row
    <2> HIDE DEF row
    <2> QED BY <1>2, <1>3, <2>1, <2>2, FreeKeysAreApart
  <1> QED BY <1>1, <1>4, <1>5 DEF Update, CheckOwner, CheckOrder, Reread

LEMMA RemoveKeepsKInv ==
  ASSUME IInv, KInv, NEW h \in Handlers, Remove(h)
  PROVE  KInv'
  <1>1. CASE UNCHANGED <<nodes, draft>>
    BY <1>1, SameRowsStayApart
  <1>2. TypeOK /\ (tx[h].at # "idle" => tx[h] \in Request /\ Sensible(tx[h], draft[h]))
    BY InFlight DEF IInv, Established
  <1>3. ASSUME tx[h].at \in {"leaf", "deactivated"}
        PROVE  /\ tx[h].node \in Nodes /\ nodes[tx[h].node] \in Row /\ nodes[tx[h].node] # None
               /\ tx[h].father \in Nodes /\ nodes[tx[h].father] \in Row
    BY <1>2, <1>3 DEF Sensible, HasNode, HasFather, Request, TypeOK
  <1>4. CASE SoftDeactivate(h)
    <2> DEFINE n == tx[h].node
               row == [nodes[n] EXCEPT !.live = FALSE]
    <2>1. /\ draft' = [draft EXCEPT ![h][n] = row] /\ UNCHANGED nodes
          /\ n \in Nodes /\ nodes[n] \in Row /\ nodes[n] # None
      BY <1>3, <1>4 DEF SoftDeactivate
    <2>2. row \in Row /\ SameKeys(row, nodes[n])
      BY <2>1 DEF Row, SameKeys
    <2> HIDE DEF n, row
    <2> QED BY <1>2, <2>1, <2>2, CommittedIsARow, WritingKeepsApart
  <1>5. CASE DecrementMembers(h)
    <2> DEFINE p == tx[h].father
               seen == View(h)[p]
               row == [seen EXCEPT !.order = @ - 1]
    <2>1. /\ draft' = [draft EXCEPT ![h][p] = row] /\ UNCHANGED nodes
          /\ p \in Nodes /\ nodes[p] \in Row
      BY <1>3, <1>5 DEF DecrementMembers
    <2>2. seen \in Row /\ seen \in RowsOf(p)
      BY <1>2, <2>1, NoneIsNothing DEF View, RowsOf, TypeOK
    <2>3. row \in Row /\ SameKeys(row, seen)
      BY <2>2 DEF Row, SameKeys
    <2> HIDE DEF p, row, seen
    <2> QED BY <1>2, <2>1, <2>2, <2>3, WritingKeepsApart
  <1> QED BY <1>1, <1>4, <1>5 DEF Remove, CheckLeaf

\* A commit and a rollback bring no new keys.
LEMMA EndKeepsKInv ==
  ASSUME IInv, KInv, NEW h \in Handlers, Commit(h) \/ Rollback(h)
  PROVE  KInv'
  <1>1. /\ draft'[h] = Nothing
        /\ \A k \in Handlers \ {h} : draft'[k] = draft[k]
        /\ nodes' = nodes \/ nodes' = View(h)
    BY DEF IInv, TypeOK, Commit, Rollback
  <1>2. \A n \in Nodes : RowsOf(n)' \subseteq RowsOf(n)
    BY <1>1 DEF RowsOf, Nothing, View
  <1> QED BY <1>2, OldKeysStayApart DEF SameKeys

LEMMA NextKInv == UniqueIndexes /\ IInv /\ KInv /\ [Next]_vars => KInv'
  <1> SUFFICES ASSUME UniqueIndexes, IInv, KInv, [Next]_vars PROVE KInv'
    OBVIOUS
  <1>1. ASSUME NEW h \in Handlers,
               \/ \E u \in Users, p \in Nodes \cup {None}, o \in Orders \cup {None},
                     on \in BOOLEAN, s \in Spouses \cup {None} : BeginCreate(h, u, p, o, on, s)
               \/ \E u, parentUser \in Users : AttachMember(h, u, parentUser)
               \/ \E n \in Nodes, u \in NewUsers \cup {None}, p \in Nodes \cup {None},
                     o \in Orders \cup {None} : ReadNode(h, n, u, p, o)
               \/ \E n \in Nodes : ReadVictim(h, n)
        PROVE  UNCHANGED <<nodes, draft>>
    BY <1>1 DEF BeginCreate, AttachMember, ReadNode, ReadVictim
  <1>2. CASE UNCHANGED vars \/ UNCHANGED <<nodes, draft>>
    BY <1>2, SameRowsStayApart DEF vars
  <1> QED BY <1>1, <1>2, CreateKeepsKInv, UpdateKeepsKInv, RemoveKeepsKInv, EndKeepsKInv DEF Next

\* With the unique indexes of the migrations, requests that overlap give no user
\* two nodes and no father two children, whatever they check before they write.
THEOREM KeysAreUniqueHolds ==
  ASSUME UniqueIndexes
  PROVE  Spec => []KeysAreUnique
  <1>1. Init => KInv
    BY InitKInv
  <1>2. IInv /\ KInv /\ [Next]_vars => KInv'
    BY NextKInv
  <1>3. KInv => KeysAreUnique
    BY DEF KInv, KeysAreUnique, RowsOf, KeysApart
  <1> QED BY <1>1, <1>2, <1>3, Invariance, PTL DEF Spec

-----------------------------------------------------------------------------
(* CountMovesByOne.                                                        *)

\* What a request r has written so far, mine, and what it makes of the count of
\* its father in the table: the father's row is locked, so that it stays one off.
Unwritten == {"idle", "free", "placed", "vacant", "levelled", "read", "owned", "ordered",
              "reread", "victim", "leaf"}

Counts(r, mine, table) ==
  /\ r.at \in Unwritten => mine = Nothing
  /\ r.at = "deactivated" => \A m \in Nodes \ {r.node} : mine[m] = None
  /\ r.at \in {"counted", "created"} /\ r.father # None =>
       mine[r.father] # None /\ mine[r.father].order = table[r.father].order + 1
  /\ r.at = "removed" /\ r.father # r.node =>
       mine[r.father] # None /\ mine[r.father].order = table[r.father].order - 1

CInv == \A h \in Handlers : Counts(tx[h], draft[h], nodes)

\* The other requests still have the rows they have locked.
LEMMA OthersKeepCounts ==
  ASSUME TypeOK, NEW k \in Handlers, Established(k), Counts(tx[k], draft[k], nodes),
         tx'[k] = tx[k], draft'[k] = draft[k],
         \A n \in Nodes : draft[k][n] # None => nodes'[n] = nodes[n]
  PROVE  Counts(tx'[k], draft'[k], nodes')
  <1>1. CASE tx[k].at \in {"counted", "created", "removed"}
    <2>1. tx[k].father \in Nodes \cup {None} /\ tx[k] # Idle
      BY <1>1, IdleIsNoRequest DEF TypeOK, Request
    <2>2. tx[k].at = "removed" => tx[k].father # None
      BY <2>1 DEF Established, Sensible, HasFather
    <2> QED BY <1>1, <2>1, <2>2 DEF Counts
  <1>2. CASE tx[k].at \notin {"counted", "created", "removed"}
    BY <1>2 DEF Counts
  <1> QED BY <1>1, <1>2

\* A request that is about to write has nothing to count yet.
LEMMA CheckingCounts ==
  ASSUME NEW r, NEW table, r.at \in Unwritten
  PROVE  Counts(r, Nothing, table)
  BY DEF Counts, Unwritten, Nothing

LEMMA OneMore ==
  ASSUME NEW r \in Row, NEW s, s = [r EXCEPT !.order = @ + 1]
  PROVE  s.order = r.order + 1
  BY DEF Row

LEMMA OneLess ==
  ASSUME NEW r \in Row, NEW s, s = [r EXCEPT !.order = @ - 1]
  PROVE  s.order = r.order - 1
  BY DEF Row

LEMMA StepKeepsCInv ==
  ASSUME IInv, CInv, NEW h \in Handlers,
         \A k \in Handlers \ {h} : tx'[k] = tx[k] /\ draft'[k] = draft[k],
         \A k \in Handlers \ {h}, n \in Nodes : draft[k][n] # None => nodes'[n] = nodes[n],
         Counts(tx'[h], draft'[h], nodes')
  PROVE  CInv'
  BY OthersKeepCounts DEF IInv, CInv

LEMMA CheckingKeepsCInv ==
  ASSUME IInv, CInv, NEW h \in Handlers, UNCHANGED <<nodes, draft>>,
         tx[h].at \in Unwritten, tx'[h].at \in Unwritten,
         \A k \in Handlers \ {h} : tx'[k] = tx[k]
  PROVE  CInv'
  <1>1. draft'[h] = Nothing
    BY DEF CInv, Counts
  <1>2. Counts(tx'[h], draft'[h], nodes')
    BY <1>1, CheckingCounts
  <1> QED BY <1>2, StepKeepsCInv

LEMMA BeginKeepsCInv ==
  ASSUME IInv, CInv, NEW h \in Handlers,
         \/ \E u \in Users, p \in Nodes \cup {None}, o \in Orders \cup {None},
               on \in BOOLEAN, s \in Spouses \cup {None} : BeginCreate(h, u, p, o, on, s)
         \/ \E u, parentUser \in Users : AttachMember(h, u, parentUser)
         \/ \E n \in Nodes, u \in NewUsers \cup {None}, p \in Nodes \cup {None},
               o \in Orders \cup {None} : ReadNode(h, n, u, p, o)
         \/ \E n \in Nodes : ReadVictim(h, n)
  PROVE  CInv'
  <1>1. tx[h] = Idle /\ UNCHANGED <<nodes, draft>>
    BY DEF BeginCreate, AttachMember, ReadNode, ReadVictim
  <1>2. tx \in [Handlers -> Request \cup {Idle}]
    BY DEF IInv, TypeOK
  <1>3. /\ \A k \in Handlers \ {h} : tx'[k] = tx[k]
        /\ tx'[h].at \in {"free", "read", "victim"}
    <2>1. ASSUME NEW u, NEW p, NEW o, NEW on, NEW s, BeginCreate(h, u, p, o, on, s)
          PROVE  /\ \A k \in Handlers \ {h} : tx'[k] = tx[k]
                 /\ tx'[h].at \in {"free", "read", "victim"}
      BY <1>2, <2>1 DEF BeginCreate
    <2>2. ASSUME NEW n, NEW u, NEW p, NEW o, ReadNode(h, n, u, p, o)
          PROVE  /\ \A k \in Handlers \ {h} : tx'[k] = tx[k]
                 /\ tx'[h].at \in {"free", "read", "victim"}
      BY <1>2, <2>2 DEF ReadNode
    <2>3. ASSUME NEW n, ReadVictim(h, n)
          PROVE  /\ \A k \in Handlers \ {h} : tx'[k] = tx[k]
                 /\ tx'[h].at \in {"free", "read", "victim"}
      BY <1>2, <2>3 DEF ReadVictim
    <2> QED BY <2>1, <2>2, <2>3 DEF AttachMember
  <1>4. tx[h].at \in Unwritten /\ tx'[h].at \in Unwritten
    BY <1>1, <1>3, IdleIsNoRequest DEF Unwritten
  <1> QED BY <1>1, <1>3, <1>4, CheckingKeepsCInv

LEMMA CreateKeepsCInv ==
  ASSUME IInv, CInv, NEW h \in Handlers, Create(h)
  PROVE  CInv'
  <1>1. UNCHANGED nodes
    BY DEF Create, CheckRoot, ReadFather, CheckChild, ReadLevel, InsertNode,
           IncrementMembers, CreateSpouseCouple
  <1>2. tx[h] \in Request /\ Sensible(tx[h], draft[h])
    BY InFlight DEF IInv, Established, Create, CheckRoot, ReadFather, CheckChild, ReadLevel,
                    InsertNode, IncrementMembers, CreateSpouseCouple
  <1>3. \A k \in Handlers \ {h} : tx'[k] = tx[k] /\ draft'[k] = draft[k]
    BY DEF IInv, TypeOK, Create, CheckRoot, ReadFather, CheckChild, ReadLevel,
           InsertNode, IncrementMembers, CreateSpouseCouple
  <1>4. CASE CheckRoot(h) \/ ReadFather(h) \/ CheckChild(h) \/ ReadLevel(h)
    <2>1. /\ tx[h].at \in {"free", "placed", "vacant"}
          /\ tx'[h].at \in {"placed", "vacant", "levelled"}
          /\ UNCHANGED draft
      BY <1>2, <1>4 DEF IInv, TypeOK, CheckRoot, ReadFather, CheckChild, ReadLevel, Request
    <2>2. tx[h].at \in Unwritten /\ tx'[h].at \in Unwritten
      BY <2>1 DEF Unwritten
    <2> QED BY <1>1, <1>3, <2>1, <2>2, CheckingKeepsCInv
  <1>5. CASE InsertNode(h)
    <2>1. /\ tx'[h].at = AfterInsert(h)
          /\ tx'[h].father = tx[h].father
      BY <1>2, <1>5 DEF IInv, TypeOK, InsertNode, Request
    <2>2. Counts(tx'[h], draft'[h], nodes')
      BY <2>1 DEF Counts, AfterInsert, Unwritten
    <2> QED BY <1>1, <1>3, <2>2, StepKeepsCInv
  <1>6. CASE IncrementMembers(h)
    <2> DEFINE p == tx[h].father
    <2>1. /\ p \in Nodes
          /\ nodes[p] \in Row
      BY <1>2, <1>6 DEF IncrementMembers, Sensible, HasFather, Request, IInv, TypeOK
    <2>2. draft'[h][p] = [nodes[p] EXCEPT !.order = @ + 1]
      BY <1>6, <2>1 DEF IncrementMembers, IInv, TypeOK
    <2>3. draft'[h][p].order = nodes[p].order + 1
      BY <2>1, <2>2, OneMore
    <2>4. [nodes[p] EXCEPT !.order = @ + 1] \in Row
      BY <2>1 DEF Row
    <2>5. draft'[h][p] # None
      BY <2>2, <2>4, NoneIsNothing
    <2>6. tx'[h].at \in {"counted", "created"} /\ tx'[h].father = p
      BY <1>2, <1>6 DEF IncrementMembers, AfterCount, Request, IInv, TypeOK
    <2> HIDE DEF p
    <2>7. Counts(tx'[h], draft'[h], nodes')
      BY <1>1, <2>3, <2>5, <2>6, Zenon DEF Counts, Unwritten
    <2> QED BY <1>1, <1>3, <2>7, StepKeepsCInv
  <1>7. CASE CreateSpouseCouple(h)
    <2>1. /\ tx[h].at = "counted"
          /\ tx'[h].at = "created"
          /\ tx'[h].father = tx[h].father
          /\ UNCHANGED draft
      BY <1>2, <1>7 DEF IInv, TypeOK, CreateSpouseCouple, Request
    <2>2. Counts(tx'[h], draft'[h], nodes')
      BY <1>1, <2>1, Zenon DEF CInv, Counts, Unwritten
    <2> QED BY <1>1, <1>3, <2>2, StepKeepsCInv
  <1> QED BY <1>4, <1>5, <1>6, <1>7 DEF Create

LEMMA UpdateKeepsCInv ==
  ASSUME IInv, CInv, NEW h \in Handlers, Update(h)
  PROVE  CInv'
  <1>1. UNCHANGED nodes
    BY DEF Update, CheckOwner, CheckOrder, Reread, LockNode, UpdateNode
  <1>2. \A k \in Handlers \ {h} : tx'[k] = tx[k] /\ draft'[k] = draft[k]
    BY DEF IInv, TypeOK, Update, CheckOwner, CheckOrder, Reread, LockNode, UpdateNode
  <1>3. tx[h] \in Request
    BY InFlight DEF IInv, Update, CheckOwner, CheckOrder, Reread, LockNode, UpdateNode
  <1>4. CASE CheckOwner(h) \/ CheckOrder(h) \/ Reread(h)
    <2>1. /\ tx[h].at \in {"read", "owned", "ordered"}
          /\ tx'[h].at \in {"owned", "ordered", "reread"}
          /\ UNCHANGED draft
      BY <1>3, <1>4 DEF IInv, TypeOK, CheckOwner, CheckOrder, Reread, Request
    <2>2. tx[h].at \in Unwritten /\ tx'[h].at \in Unwritten
      BY <2>1 DEF Unwritten
    <2> QED BY <1>1, <1>2, <2>1, <2>2, CheckingKeepsCInv
  <1>5. CASE LockNode(h) \/ UpdateNode(h)
    <2>1. tx'[h].at \in {"locked", "updated"}
      BY <1>3, <1>5 DEF IInv, TypeOK, LockNode, UpdateNode, Request
    <2>2. Counts(tx'[h], draft'[h], nodes')
      BY <2>1 DEF Counts, Unwritten
    <2> QED BY <1>1, <1>2, <2>2, StepKeepsCInv
  <1> QED BY <1>4, <1>5 DEF Update

LEMMA RemoveKeepsCInv ==
  ASSUME IInv, CInv, NEW h \in Handlers, Remove(h)
  PROVE  CInv'
  <1>1. UNCHANGED nodes
    BY DEF Remove, CheckLeaf, SoftDeactivate, DecrementMembers
  <1>2. \A k \in Handlers \ {h} : tx'[k] = tx[k] /\ draft'[k] = draft[k]
    BY DEF IInv, TypeOK, Remove, CheckLeaf, SoftDeactivate, DecrementMembers
  <1>3. tx[h] \in Request /\ Sensible(tx[h], draft[h])
    BY InFlight DEF IInv, Established, Remove, CheckLeaf, SoftDeactivate, DecrementMembers
  <1>4. CASE CheckLeaf(h)
    <2>1. tx[h].at = "victim" /\ tx'[h].at = "leaf" /\ UNCHANGED draft
      BY <1>3, <1>4 DEF IInv, TypeOK, CheckLeaf, Request
    <2>2. tx[h].at \in Unwritten /\ tx'[h].at \in Unwritten
      BY <2>1 DEF Unwritten
    <2> QED BY <1>1, <1>2, <2>1, <2>2, CheckingKeepsCInv
  <1>5. CASE SoftDeactivate(h)
    <2>1. tx[h].at = "leaf" /\ tx'[h].at = "deactivated" /\ tx'[h].node = tx[h].node
      BY <1>3, <1>5 DEF IInv, TypeOK, SoftDeactivate, Request
    <2>2. draft[h] = Nothing
      BY <2>1 DEF CInv, Counts, Unwritten
    <2>3. \A m \in Nodes \ {tx[h].node} : draft'[h][m] = None
      BY <1>5, <2>2 DEF IInv, TypeOK, SoftDeactivate, Nothing
    <2>4. Counts(tx'[h], draft'[h], nodes')
      BY <2>1, <2>3 DEF Counts, Unwritten
    <2> QED BY <1>1, <1>2, <2>4, StepKeepsCInv
  <1>6. CASE DecrementMembers(h)
    <2> DEFINE p == tx[h].father
    <2>1. p \in Nodes
      BY <1>3, <1>6 DEF DecrementMembers, Sensible, HasFather, Request
    <2>2. tx'[h].at = "removed" /\ tx'[h].father = p /\ tx'[h].node = tx[h].node
      BY <1>3, <1>6 DEF IInv, TypeOK, DecrementMembers, Request
    <2>3. ASSUME p # tx[h].node
          PROVE  draft'[h][p] # None /\ draft'[h][p].order = nodes[p].order - 1
      <3>1. draft[h][p] = None
        BY <1>6, <2>1, <2>3 DEF CInv, Counts, DecrementMembers
      <3>2. nodes[p] \in Row
        BY <1>3, <1>6, <2>1 DEF DecrementMembers, Sensible, HasFather, IInv, TypeOK
      <3>3. draft'[h][p] = [nodes[p] EXCEPT !.order = @ - 1]
        BY <1>6, <2>1, <3>1 DEF DecrementMembers, View, IInv, TypeOK
      <3>4. draft'[h][p].order = nodes[p].order - 1
        BY <3>2, <3>3, OneLess
      <3>5. [nodes[p] EXCEPT !.order = @ - 1] \in Row
        BY <3>2 DEF Row
      <3> QED BY <3>3, <3>4, <3>5, NoneIsNothing
    <2> HIDE DEF p
    <2>4. Counts(tx'[h], draft'[h], nodes')
      BY <1>1, <2>2, <2>3, Zenon DEF Counts, Unwritten
    <2> QED BY <1>1, <1>2, <2>4, StepKeepsCInv
  <1> QED BY <1>4, <1>5, <1>6 DEF Remove

LEMMA EndKeepsCInv ==
  ASSUME IInv, CInv, NEW h \in Handlers, Commit(h) \/ Rollback(h)
  PROVE  CInv'
  <1>1. /\ \A k \in Handlers \ {h} : tx'[k] = tx[k] /\ draft'[k] = draft[k]
        /\ tx'[h] = Idle
        /\ draft'[h] = Nothing
        /\ nodes' = View(h) \/ nodes' = nodes
    BY DEF IInv, TypeOK, Commit, Rollback
  <1>2. \A k \in Handlers \ {h}, n \in Nodes : draft[k][n] # None => nodes'[n] = nodes[n]
    BY <1>1, CommitTable
  <1>3. tx'[h].at \in Unwritten
    BY <1>1, IdleIsNoRequest DEF Unwritten
  <1>4. Counts(tx'[h], draft'[h], nodes')
    BY <1>1, <1>3, CheckingCounts
  <1> QED BY <1>1, <1>2, <1>4, StepKeepsCInv

LEMMA NextCInv == IInv /\ CInv /\ [Next]_vars => CInv'
  <1> SUFFICES ASSUME IInv, CInv, [Next]_vars PROVE CInv'
    OBVIOUS
  <1>1. CASE UNCHANGED vars
    BY <1>1 DEF CInv, vars
  <1> QED BY <1>1, BeginKeepsCInv, CreateKeepsCInv, UpdateKeepsCInv, RemoveKeepsCInv,
             EndKeepsCInv DEF Next

\* A commit writes what its request has made of the father's count.
LEMMA CommitMovesByOne ==
  ASSUME IInv, CInv, [Next]_vars, NEW h \in Handlers,
         tx[h].at \in {"created", "removed"}, nodes' # nodes, tx'[h] = Idle,
         tx[h].father # None, tx[h].father # tx[h].node
  PROVE  nodes'[tx[h].father].order =
           nodes[tx[h].father].order + IF tx[h].at = "created" THEN 1 ELSE -1
  <1>1. PICK k \in Handlers : Commit(k)
    BY OnlyCommitWrites
  <1>2. tx[h].at # "idle"
    OBVIOUS
  <1>3. tx[h] # Idle /\ tx[h] \in Request
    BY <1>2, InFlight DEF IInv
  <1>4. k = h
    BY <1>1, <1>3 DEF Commit, IInv, TypeOK
  <1> DEFINE p == tx[h].father
             new == draft[h][p].order
             old == nodes[p].order
             by == IF tx[h].at = "created" THEN 1 ELSE -1
  <1>5. p \in Nodes /\ p # None /\ p # tx[h].node
    BY <1>3 DEF Request
  <1>6. nodes[p] \in Row
    BY <1>3, <1>5 DEF IInv, Established, Sensible, TypeOK
  <1>7. old \in Int
    BY <1>6 DEF Row
  <1>8. draft[h][p] # None => nodes'[p].order = new
    BY <1>1, <1>4, <1>5 DEF Commit, View
  <1>9. CASE tx[h].at = "created"
    <2>1. by = 1
      BY <1>9
    <2>2. draft[h][p] # None /\ new = old + 1
      BY <1>5, <1>9, Zenon DEF CInv, Counts
    <2> HIDE DEF p, new, old, by
    <2> QED BY <1>7, <1>8, <2>1, <2>2 DEF p, old, by
  <1>10. CASE tx[h].at = "removed"
    <2>1. by = -1
      BY <1>10
    <2>2. draft[h][p] # None /\ new = old - 1
      BY <1>5, <1>10, Zenon DEF CInv, Counts
    <2> HIDE DEF p, new, old, by
    <2> QED BY <1>7, <1>8, <2>1, <2>2 DEF p, old, by
  <1> QED BY <1>9, <1>10

\* Of requests that overlap none loses what another has made of a father's count.
THEOREM CountMovesByOneHolds == Spec => CountMovesByOne
  <1>1. Init => CInv
    BY CheckingCounts, IdleIsNoRequest DEF Init, CInv, Unwritten
  <1>2. IInv /\ CInv /\ [Next]_vars => CInv'
    BY NextCInv
  <1>3. IInv /\ CInv /\ [Next]_vars
        => [\A h \in Handlers :
              LET p == tx[h].father
              IN  /\ tx[h].at \in {"created", "removed"}
                  /\ nodes' # nodes
                  /\ tx'[h] = Idle
                  /\ p # None
                  /\ p # tx[h].node
                  => nodes'[p].order = nodes[p].order + IF tx[h].at = "created" THEN 1 ELSE -1]_vars
    BY CommitMovesByOne
  <1> QED BY <1>1, <1>2, <1>3, Invariance, PTL DEF Spec, CountMovesByOne

-----------------------------------------------------------------------------
(* OneLiveRoot and OnlyChild, when requests do not overlap: F are the      *)
(* fathers of whom it is said, None for the root.                          *)

OnlyOne(F) == \A p \in F : \A m, n \in LiveChildren(p) : m = n

\* The place that a create has found free, and what an update makes of a father.
FoundFree(h, F) ==
  /\ tx[h].at \in {"vacant", "levelled"} /\ tx[h].father \in F => LiveChildren(tx[h].father) = {}
  /\ tx[h].at \in {"read", "owned", "ordered"} => tx[h].row = nodes[tx[h].node]
  /\ tx[h].at \in {"reread", "locked"} =>
       (tx[h].row.father \in F => nodes[tx[h].node].father = tx[h].row.father)

\* A draft puts under a father of F nobody but a new node, which is alone there.
AddsOne(h, F, n) ==
  draft[h][n] # None /\ draft[h][n].father \in F =>
    IF nodes[n] # None THEN nodes[n].father = draft[h][n].father
    ELSE n = tx[h].node /\ LiveChildren(draft[h][n].father) = {}

SInv(F) == OnlyOne(F) /\ \A h \in Handlers : FoundFree(h, F) /\ \A n \in Nodes : AddsOne(h, F, n)

LEMMA SameTableKeepsSInv ==
  ASSUME NEW F, SInv(F), UNCHANGED nodes, NEW h \in Handlers, \A k \in Handlers : k = h,
         FoundFree(h, F)', \A n \in Nodes : AddsOne(h, F, n)'
  PROVE  SInv(F)'
  BY DEF SInv, OnlyOne, LiveChildren

\* A check, which leaves the drafts alone, and the row the request is about
\* unless there is no draft.
LEMMA CheckingKeepsSInv ==
  ASSUME NEW F, SInv(F), UNCHANGED <<nodes, draft>>, NEW h \in Handlers,
         \A k \in Handlers : k = h,
         draft[h] = Nothing \/ tx'[h].node = tx[h].node,
         FoundFree(h, F)'
  PROVE  SInv(F)'
  <1>1. \A p : LiveChildren(p)' = LiveChildren(p)
    BY DEF LiveChildren
  <1>2. ASSUME NEW n \in Nodes PROVE AddsOne(h, F, n)'
    BY <1>1 DEF SInv, AddsOne, Nothing
  <1> QED BY <1>2, SameTableKeepsSInv

\* A write of one row, with the same father as the row it is based on.
LEMMA WritingKeepsSInv ==
  ASSUME NEW F, IInv, SInv(F), NEW h \in Handlers, \A k \in Handlers : k = h,
         NEW q \in Nodes, NEW row, draft' = [draft EXCEPT ![h][q] = row], UNCHANGED nodes,
         tx'[h].node = tx[h].node, FoundFree(h, F)',
         nodes[q] # None, row.father \in F => nodes[q].father = row.father
  PROVE  SInv(F)'
  <1>1. \A p : LiveChildren(p)' = LiveChildren(p)
    BY DEF LiveChildren
  <1>2. draft'[h][q] = row /\ \A n \in Nodes \ {q} : draft'[h][n] = draft[h][n]
    BY DEF IInv, TypeOK
  <1>3. AddsOne(h, F, q)'
    BY <1>2 DEF AddsOne
  <1>4. ASSUME NEW n \in Nodes \ {q} PROVE AddsOne(h, F, n)'
    BY <1>1, <1>2 DEF SInv, AddsOne
  <1> QED BY <1>3, <1>4, SameTableKeepsSInv

LEMMA CreateKeepsSInv ==
  ASSUME NEW F, IInv, CInv, SInv(F), NEW h \in Handlers, \A k \in Handlers : k = h, Create(h)
  PROVE  SInv(F)'
  <1>1. UNCHANGED nodes
    BY DEF Create, CheckRoot, ReadFather, CheckChild, ReadLevel, InsertNode,
           IncrementMembers, CreateSpouseCouple
  <1>2. \A p : LiveChildren(p)' = LiveChildren(p)
    BY <1>1 DEF LiveChildren
  <1>3. tx \in [Handlers -> Request \cup {Idle}] /\ tx[h] \in Request /\ Sensible(tx[h], draft[h])
    BY InFlight DEF IInv, TypeOK, Established, Create, CheckRoot, ReadFather, CheckChild,
                    ReadLevel, InsertNode, IncrementMembers, CreateSpouseCouple
  <1>4. CASE CheckRoot(h) \/ CheckChild(h) \/ ReadLevel(h)
    <2>1. /\ tx'[h].node = tx[h].node
          /\ tx'[h].father = tx[h].father
          /\ tx'[h].at \in {"vacant", "levelled"}
          /\ UNCHANGED draft
      BY <1>3, <1>4 DEF CheckRoot, CheckChild, ReadLevel, Request
    <2>2. tx[h].father \in F => LiveChildren(tx[h].father) = {}
      BY <1>4 DEF SInv, FoundFree, CheckRoot, CheckChild, ReadLevel
    <2>3. FoundFree(h, F)'
      BY <1>2, <2>1, <2>2 DEF FoundFree
    <2> QED BY <1>1, <2>1, <2>3, CheckingKeepsSInv
  <1>5. CASE ReadFather(h) \/ CreateSpouseCouple(h)
    <2>1. /\ tx'[h].node = tx[h].node
          /\ tx'[h].at \in {"placed", "created"}
          /\ UNCHANGED draft
      BY <1>3, <1>5 DEF ReadFather, CreateSpouseCouple, Request
    <2>2. FoundFree(h, F)'
      BY <2>1 DEF FoundFree
    <2> QED BY <1>1, <2>1, <2>2, CheckingKeepsSInv
  <1>6. CASE InsertNode(h)
    <2>1. PICK q \in Nodes : /\ nodes[q] = None
                             /\ draft' = [draft EXCEPT ![h][q] = NewRow(h)]
                             /\ tx' = [tx EXCEPT ![h].node = q, ![h].at = AfterInsert(h)]
      BY <1>6 DEF InsertNode
    <2>2. tx'[h].node = q /\ tx'[h].at \in {"inserted", "counted", "created"}
      BY <1>3, <2>1 DEF AfterInsert, Request
    <2>3. FoundFree(h, F)'
      BY <2>2 DEF FoundFree
    <2>4. draft[h] = Nothing
      BY <1>6 DEF CInv, Counts, Unwritten, InsertNode
    <2>5. /\ draft'[h][q].father = tx[h].father
          /\ \A n \in Nodes \ {q} : draft'[h][n] = None
      BY <2>1, <2>4 DEF IInv, TypeOK, Nothing, NewRow
    <2>6. tx[h].father \in F => LiveChildren(tx[h].father) = {}
      BY <1>6 DEF SInv, FoundFree, InsertNode
    <2>7. \A n \in Nodes : AddsOne(h, F, n)'
      BY <1>1, <1>2, <2>1, <2>2, <2>5, <2>6 DEF AddsOne
    <2> QED BY <1>1, <2>3, <2>7, SameTableKeepsSInv
  <1>7. CASE IncrementMembers(h)
    <2> DEFINE p == tx[h].father
               row == [nodes[p] EXCEPT !.order = @ + 1]
    <2>1. p \in Nodes /\ nodes[p] \in Row /\ nodes[p] # None
      BY <1>3, <1>7 DEF IncrementMembers, Sensible, HasFather, Request, IInv, TypeOK
    <2>2. row.father = nodes[p].father
      BY <2>1 DEF Row
    <2>3. tx'[h].node = tx[h].node /\ tx'[h].at \in {"counted", "created"}
      BY <1>3, <1>7 DEF IncrementMembers, AfterCount, Request
    <2>4. FoundFree(h, F)'
      BY <2>3 DEF FoundFree
    <2>5. draft' = [draft EXCEPT ![h][p] = row]
      BY <1>7 DEF IncrementMembers
    <2> HIDE DEF p, row
    <2> QED BY <1>1, <2>1, <2>2, <2>3, <2>4, <2>5, WritingKeepsSInv
  <1> QED BY <1>4, <1>5, <1>6, <1>7 DEF Create

LEMMA RemoveKeepsSInv ==
  ASSUME NEW F, IInv, CInv, SInv(F), NEW h \in Handlers, \A k \in Handlers : k = h, Remove(h)
  PROVE  SInv(F)'
  <1>1. UNCHANGED nodes
    BY DEF Remove, CheckLeaf, SoftDeactivate, DecrementMembers
  <1>2. tx \in [Handlers -> Request \cup {Idle}] /\ tx[h] \in Request /\ Sensible(tx[h], draft[h])
    BY InFlight DEF IInv, TypeOK, Established, Remove, CheckLeaf, SoftDeactivate, DecrementMembers
  <1>3. tx'[h].node = tx[h].node /\ tx'[h].at \in {"leaf", "deactivated", "removed"}
    BY <1>2 DEF Remove, CheckLeaf, SoftDeactivate, DecrementMembers, Request
  <1>4. FoundFree(h, F)'
    BY <1>3 DEF FoundFree
  <1>5. CASE CheckLeaf(h)
    <2>1. UNCHANGED draft
      BY <1>5 DEF CheckLeaf
    <2> QED BY <1>1, <1>3, <1>4, <2>1, CheckingKeepsSInv
  <1>6. CASE SoftDeactivate(h)
    <2> DEFINE q == tx[h].node
               row == [nodes[q] EXCEPT !.live = FALSE]
    <2>1. q \in Nodes /\ nodes[q] \in Row /\ nodes[q] # None
      BY <1>2, <1>6 DEF SoftDeactivate, Sensible, HasNode, Request, IInv, TypeOK
    <2>2. row.father = nodes[q].father
      BY <2>1 DEF Row
    <2>3. draft' = [draft EXCEPT ![h][q] = row]
      BY <1>6 DEF SoftDeactivate
    <2> HIDE DEF q, row
    <2> QED BY <1>1, <1>3, <1>4, <2>1, <2>2, <2>3, WritingKeepsSInv
  <1>7. CASE DecrementMembers(h)
    <2> DEFINE p == tx[h].father
               seen == View(h)[p]
               row == [seen EXCEPT !.order = @ - 1]
    <2>1. p \in Nodes /\ nodes[p] \in Row /\ nodes[p] # None
      BY <1>2, <1>7 DEF DecrementMembers, Sensible, HasFather, Request, IInv, TypeOK
    <2>2. seen \in Row /\ (seen.father \in F => nodes[p].father = seen.father)
      BY <2>1, NoneIsNothing DEF View, IInv, TypeOK, SInv, AddsOne
    <2>3. row.father = seen.father
      BY <2>2 DEF Row
    <2>4. draft' = [draft EXCEPT ![h][p] = row]
      BY <1>7 DEF DecrementMembers
    <2> HIDE DEF p, row, seen
    <2> QED BY <1>1, <1>3, <1>4, <2>1, <2>2, <2>3, <2>4, WritingKeepsSInv
  <1> QED BY <1>5, <1>6, <1>7 DEF Remove

\* An update that names a father moves its node under it: what is said of the
\* nodes with a father takes that there is none.
LEMMA UpdateKeepsSInv ==
  ASSUME NEW F, IInv, CInv, SInv(F), NEW h \in Handlers, \A k \in Handlers : k = h, Update(h),
         F = {None} \/ NoUpdate
  PROVE  SInv(F)'
  <1>1. UNCHANGED nodes
    BY DEF Update, CheckOwner, CheckOrder, Reread, LockNode, UpdateNode
  <1>2. tx \in [Handlers -> Request \cup {Idle}] /\ tx[h] \in Request /\ Sensible(tx[h], draft[h])
    BY InFlight DEF IInv, TypeOK, Established, Update, CheckOwner, CheckOrder, Reread, LockNode,
                    UpdateNode
  <1>3. F = {None}
    BY DEF NoUpdate, Update, CheckOwner, CheckOrder, Reread, LockNode, UpdateNode
  <1>4. tx[h].at \in {"reread", "locked"} =>
          /\ tx[h].node \in Nodes /\ nodes[tx[h].node] \in Row /\ nodes[tx[h].node] # None
          /\ tx[h].row \in Row
    BY <1>2 DEF Sensible, HasNode, HasRow, Request, IInv, TypeOK
  <1>5. CASE CheckOwner(h) \/ CheckOrder(h)
    <2>1. /\ tx[h].at \in {"read", "owned", "ordered"}
          /\ tx'[h].at \in {"owned", "ordered"}
          /\ tx'[h].row = tx[h].row
          /\ tx'[h].node = tx[h].node
          /\ UNCHANGED draft
      BY <1>2, <1>5 DEF CheckOwner, CheckOrder, Request
    <2>2. FoundFree(h, F)'
      BY <1>1, <2>1 DEF SInv, FoundFree
    <2> QED BY <1>1, <2>1, <2>2, CheckingKeepsSInv
  <1>6. CASE Reread(h)
    <2>1. tx[h].at = "ordered" /\ tx[h].row = nodes[tx[h].node]
      BY <1>6 DEF SInv, FoundFree, Reread
    <2>2. /\ tx'[h].at = "reread"
          /\ tx'[h].node = tx[h].node
          /\ UNCHANGED draft
      BY <1>2, <1>6 DEF Reread, Request
    <2>3. tx'[h].row.father = IF tx[h].father # None THEN tx[h].father ELSE tx[h].row.father
      BY <1>2, <1>6 DEF Reread, Request
    <2>4. FoundFree(h, F)'
      BY <1>1, <1>3, <2>1, <2>2, <2>3 DEF FoundFree
    <2> QED BY <1>1, <2>2, <2>4, CheckingKeepsSInv
  <1>7. CASE LockNode(h)
    <2>1. /\ tx[h].at = "reread"
          /\ tx'[h].at = "locked"
          /\ tx'[h].row = tx[h].row
          /\ tx'[h].node = tx[h].node
      BY <1>2, <1>7 DEF LockNode, Request
    <2>2. FoundFree(h, F)'
      BY <1>1, <2>1 DEF SInv, FoundFree
    <2>3. draft' = [draft EXCEPT ![h][tx[h].node] = nodes[tx[h].node]]
      BY <1>7 DEF LockNode
    <2> QED BY <1>1, <1>4, <2>1, <2>2, <2>3, WritingKeepsSInv
  <1>8. CASE UpdateNode(h)
    <2> DEFINE q == tx[h].node
               row == Patched(h, nodes[q])
    <2>1. /\ tx[h].at = "locked"
          /\ tx'[h].at = "updated"
          /\ tx'[h].node = q
      BY <1>2, <1>8 DEF UpdateNode, Request
    <2>2. FoundFree(h, F)'
      BY <2>1 DEF FoundFree
    <2>3. draft' = [draft EXCEPT ![h][q] = row]
      BY <1>8 DEF UpdateNode
    <2>4. row.father \in F => nodes[q].father = row.father
      BY <2>1 DEF SInv, FoundFree, Patched
    <2>5. q \in Nodes /\ nodes[q] # None
      BY <1>4, <2>1
    <2>6. tx'[h].node = q
      BY <2>1
    <2> HIDE DEF row
    <2> QED BY <1>1, <2>2, <2>3, <2>4, <2>5, <2>6, WritingKeepsSInv
  <1> QED BY <1>5, <1>6, <1>7, <1>8 DEF Update

\* A commit puts a new row where no child was, or leaves the children as they
\* are, less those it removes.
LEMMA CommitKeepsOne ==
  ASSUME NEW F, IInv, SInv(F), NEW h \in Handlers, Commit(h)
  PROVE  OnlyOne(F)'
  <1> SUFFICES ASSUME NEW p \in F, NEW m \in LiveChildren(p)', NEW n \in LiveChildren(p)'
               PROVE  m = n
    BY DEF OnlyOne
  <1>1. ASSUME NEW c \in LiveChildren(p)'
        PROVE  c \in LiveChildren(p) \/ (c = tx[h].node /\ LiveChildren(p) = {})
    <2>1. /\ c \in Nodes /\ View(h)[c] # None /\ View(h)[c].live /\ View(h)[c].father = p
          /\ nodes[c] # None => nodes[c].live
      BY <1>1, CommitTable DEF Commit, LiveChildren
    <2>2. CASE draft[h][c] = None
      BY <2>1, <2>2 DEF View, LiveChildren
    <2>3. CASE draft[h][c] # None
      <3>1. View(h)[c] = draft[h][c] /\ AddsOne(h, F, c)
        BY <2>1, <2>3 DEF View, SInv
      <3> QED BY <2>1, <2>3, <3>1 DEF AddsOne, LiveChildren
    <2> QED BY <2>2, <2>3
  <1> QED BY <1>1 DEF SInv, OnlyOne

LEMMA EndKeepsSInv ==
  ASSUME NEW F, IInv, SInv(F), NEW h \in Handlers, \A k \in Handlers : k = h,
         Commit(h) \/ Rollback(h)
  PROVE  SInv(F)'
  <1>1. tx'[h].at = "idle" /\ draft'[h] = Nothing
    BY IdleIsNoRequest DEF IInv, TypeOK, Commit, Rollback
  <1>2. FoundFree(h, F)' /\ \A n \in Nodes : AddsOne(h, F, n)'
    BY <1>1 DEF FoundFree, AddsOne, Nothing
  <1>3. OnlyOne(F)'
    <2>1. CASE UNCHANGED nodes
      BY <2>1 DEF SInv, OnlyOne, LiveChildren
    <2> QED BY <2>1, CommitKeepsOne DEF Rollback
  <1> QED BY <1>2, <1>3 DEF SInv

LEMMA BeginKeepsSInv ==
  ASSUME NEW F, IInv, CInv, SInv(F), NEW h \in Handlers, \A k \in Handlers : k = h,
         \/ \E u \in Users, p \in Nodes \cup {None}, o \in Orders \cup {None},
               on \in BOOLEAN, s \in Spouses \cup {None} : BeginCreate(h, u, p, o, on, s)
         \/ \E u, parentUser \in Users : AttachMember(h, u, parentUser)
         \/ \E n \in Nodes, u \in NewUsers \cup {None}, p \in Nodes \cup {None},
               o \in Orders \cup {None} : ReadNode(h, n, u, p, o)
         \/ \E n \in Nodes : ReadVictim(h, n)
  PROVE  SInv(F)'
  <1>1. tx[h] = Idle /\ UNCHANGED <<nodes, draft>>
    BY DEF BeginCreate, AttachMember, ReadNode, ReadVictim
  <1>2. tx \in [Handlers -> Request \cup {Idle}] /\ draft[h] = Nothing
    BY <1>1, IdleIsNoRequest DEF IInv, TypeOK, CInv, Counts, Unwritten
  <1>3. FoundFree(h, F)'
    <2>1. ASSUME NEW u, NEW p, NEW o, NEW on, NEW s, BeginCreate(h, u, p, o, on, s)
          PROVE  tx'[h].at = "free"
      BY <1>2, <2>1 DEF BeginCreate
    <2>2. ASSUME NEW n, NEW u, NEW p, NEW o, ReadNode(h, n, u, p, o)
          PROVE  tx'[h].at = "read" /\ tx'[h].row = nodes[tx'[h].node]
      BY <1>2, <2>2 DEF ReadNode
    <2>3. ASSUME NEW n, ReadVictim(h, n)
          PROVE  tx'[h].at = "victim"
      BY <1>2, <2>3 DEF ReadVictim
    <2>4. \/ tx'[h].at \in {"free", "victim"}
          \/ tx'[h].at = "read" /\ tx'[h].row = nodes[tx'[h].node]
      BY <2>1, <2>2, <2>3 DEF AttachMember
    <2> QED BY <1>1, <2>4 DEF FoundFree
  <1> QED BY <1>1, <1>2, <1>3, CheckingKeepsSInv

\* No two requests are in flight at the same time.
NoOverlap == \A h, k \in Handlers : h = k

LEMMA NextSInv ==
  ASSUME NEW F, NoOverlap, IInv, CInv, SInv(F), [Next]_vars, F = {None} \/ NoUpdate
  PROVE  SInv(F)'
  <1>1. CASE UNCHANGED vars
    BY <1>1 DEF vars, SInv, OnlyOne, FoundFree, AddsOne, LiveChildren
  <1>2. CASE Next
    <2>1. PICK h \in Handlers : Next!(h)
      BY <1>2 DEF Next
    <2>2. \A k \in Handlers : k = h
      BY DEF NoOverlap
    <2> QED BY <2>1, <2>2, BeginKeepsSInv, CreateKeepsSInv, UpdateKeepsSInv, RemoveKeepsSInv,
               EndKeepsSInv
  <1> QED BY <1>1, <1>2

\* Of the imported nodes of the tree, no two have the same father in F.
ImportedOne(F) ==
  \A p \in F, m, n \in Nodes :
    /\ ImportedNodes[m] # None /\ ImportedNodes[m].live /\ ImportedNodes[m].father = p
    /\ ImportedNodes[n] # None /\ ImportedNodes[n].live /\ ImportedNodes[n].father = p
    => m = n

LEMMA InitSInv ==
  ASSUME NEW F, ImportedOne(F), Init
  PROVE  CInv /\ SInv(F)
  <1>1. \A h \in Handlers : tx[h].at = "idle" /\ draft[h] = Nothing
    BY IdleIsNoRequest DEF Init
  <1>2. CInv
    BY <1>1, CheckingCounts DEF CInv, Unwritten
  <1>3. OnlyOne(F)
    BY DEF Init, OnlyOne, LiveChildren, ImportedOne
  <1> QED BY <1>1, <1>2, <1>3 DEF SInv, FoundFree, AddsOne, Nothing

\* "A family tree must have exactly one root node": one request after the other
\* never makes a second one, update included.
THEOREM OneLiveRootHolds ==
  ASSUME NoOverlap, ImportedOne({None})
  PROVE  Spec => []OneLiveRoot
  <1>1. Init => CInv /\ SInv({None})
    BY InitSInv
  <1>2. IInv /\ CInv /\ SInv({None}) /\ [Next]_vars => CInv' /\ SInv({None})'
    BY NextCInv, NextSInv
  <1>3. SInv({None}) => OneLiveRoot
    BY DEF SInv, OnlyOne, OneLiveRoot
  <1> QED BY <1>1, <1>2, <1>3, Invariance, PTL DEF Spec

\* One request after the other gives no father a second child, as long as no
\* client sends an update.
THEOREM OnlyChildHolds ==
  ASSUME NoOverlap, "update" \notin Kinds, ImportedOne(Nodes)
  PROVE  Spec => []OnlyChild
  <1>1. Init => CInv /\ NoUpdate /\ SInv(Nodes)
    BY InitSInv DEF Init, NoUpdate, Idle
  <1>2. IInv /\ CInv /\ NoUpdate /\ SInv(Nodes) /\ [Next]_vars
        => CInv' /\ NoUpdate' /\ SInv(Nodes)'
    BY NextCInv, NoUpdateStarts, NextSInv
  <1>3. SInv(Nodes) => OnlyChild
    BY DEF SInv, OnlyOne, OnlyChild
  <1> QED BY <1>1, <1>2, <1>3, Invariance, PTL DEF Spec

-----------------------------------------------------------------------------
(* ViewsAgree.  The nodes that a view shows, and the nodes above a node,   *)
(* are the least sets closed under a step down and a step up.              *)

\* A set of numbers that is not empty has a least one.
LEMMA LeastElement ==
  ASSUME NEW T \in SUBSET Nat, T # {}
  PROVE  \E k \in T : \A j \in T : k <= j
  <1> DEFINE less == OpToRel(<, Nat)
  <1>1. IsWellFoundedOn(less, Nat)
    BY NatLessThanWellFounded
  <1> HIDE DEF less
  <1>2. PICK k \in T : \A j \in T : <<j, k>> \notin less
    BY <1>1, WFMin
  <1>3. ASSUME NEW j \in T PROVE k <= j
    <2>1. <<j, k>> \notin OpToRel(<, Nat)
      BY <1>2 DEF less
    <2>2. ~ (j < k)
      BY <2>1 DEF OpToRel
    <2> QED BY <2>2
  <1> QED BY <1>3

\* Induction, for a set of numbers.
LEMMA AllNumbers ==
  ASSUME NEW T \in SUBSET Nat, 0 \in T, \A d \in Nat : d \in T => d + 1 \in T
  PROVE  T = Nat
  <1> DEFINE Rest == Nat \ T
  <1> SUFFICES ASSUME Rest # {} PROVE FALSE
    OBVIOUS
  <1>1. PICK k \in Rest : \A j \in Rest : k <= j
    BY LeastElement
  <1>2. k - 1 \in Nat /\ (k - 1) + 1 = k /\ ~ (k <= k - 1)
    BY <1>1
  <1>3. k - 1 \in T
    BY <1>1, <1>2
  <1> QED BY <1>1, <1>2, <1>3

\* What each step leaves in S stays in S.
LEMMA StaysWithin ==
  ASSUME NEW S, NEW n \in Nat, NEW f, f[0] \in S,
         \A d \in 1 .. n : f[d - 1] \in S => f[d] \in S
  PROVE  \A d \in 0 .. n : f[d] \in S
  <1> DEFINE T == {d \in Nat : d \in 0 .. n => f[d] \in S}
  <1>1. ASSUME NEW d \in Nat, d \in T PROVE d + 1 \in T
    <2> SUFFICES ASSUME d + 1 \in 0 .. n PROVE f[d + 1] \in S
      OBVIOUS
    <2>1. d \in 0 .. n /\ d + 1 \in 1 .. n /\ (d + 1) - 1 = d
      OBVIOUS
    <2>2. f[d] \in S
      BY <1>1, <2>1
    <2>3. f[(d + 1) - 1] \in S => f[d + 1] \in S
      BY <2>1
    <2> QED BY <2>1, <2>2, <2>3
  <1>2. T \in SUBSET Nat /\ 0 \in T
    OBVIOUS
  <1>3. T = Nat
    <2> HIDE DEF T
    <2> QED BY <1>1, <1>2, AllNumbers
  <1> QED BY <1>3

\* An operation G on S from s0 on, and what it gives n times over.
Iterable(S, s0, G, n) == s0 \in S /\ G \in [S -> S] /\ n \in Nat
HasIterates(S, s0, G, n) ==
    \E f \in [0 .. n -> S] : f[0] = s0 /\ \A d \in 1 .. n : f[d] = G[f[d - 1]]

\* What can be iterated has a value at every number of times.
LEMMA Iterated ==
  ASSUME NEW S, NEW s0, NEW G, NEW n, Iterable(S, s0, G, n)
  PROVE  HasIterates(S, s0, G, n)
  <1>0. s0 \in S /\ G \in [S -> S] /\ n \in Nat
    BY DEF Iterable
  <1> DEFINE Upto(k) == \E f \in [0 .. k -> S] : f[0] = s0 /\ \A d \in 1 .. k : f[d] = G[f[d - 1]]
             T == {k \in Nat : Upto(k)}
  <1>1. Upto(0)
    <2> DEFINE f == [d \in 0 .. 0 |-> s0]
    <2>1. f \in [0 .. 0 -> S] /\ f[0] = s0
      BY <1>0
    <2> HIDE DEF f
    <2> QED BY <2>1
  <1>2. ASSUME NEW k \in Nat, Upto(k) PROVE Upto(k + 1)
    <2>1. PICK f \in [0 .. k -> S] : f[0] = s0 /\ \A d \in 1 .. k : f[d] = G[f[d - 1]]
      BY <1>2
    <2> DEFINE g == [d \in 0 .. k + 1 |-> IF d = k + 1 THEN G[f[k]] ELSE f[d]]
    <2>2. \A d \in 0 .. k : d # k + 1 /\ d \in 0 .. k + 1
      OBVIOUS
    <2>3. f[k] \in S /\ \A d \in 0 .. k + 1 : d # k + 1 => d \in 0 .. k
      BY <2>1
    <2>4. g \in [0 .. k + 1 -> S]
      BY <1>0, <2>1, <2>3
    <2>5. g[0] = s0
      BY <2>1, <2>2
    <2>6. ASSUME NEW d \in 1 .. k + 1 PROVE g[d] = G[g[d - 1]]
      <3>1. d - 1 \in 0 .. k /\ d \in 0 .. k + 1
        OBVIOUS
      <3>2. g[d - 1] = f[d - 1]
        BY <2>2, <3>1
      <3>3. CASE d = k + 1
        BY <3>1, <3>2, <3>3
      <3>4. CASE d # k + 1
        <4>1. d \in 1 .. k
          BY <3>4
        <4> QED BY <2>1, <3>1, <3>2, <3>4, <4>1
      <3> QED BY <3>3, <3>4
    <2> HIDE DEF g
    <2> QED BY <2>4, <2>5, <2>6
  <1> HIDE DEF Upto
  <1>3. T = Nat
    <2>1. T \in SUBSET Nat /\ 0 \in T /\ \A d \in Nat : d \in T => d + 1 \in T
      BY <1>1, <1>2
    <2> HIDE DEF T
    <2> QED BY <2>1, AllNumbers
  <1>4. Upto(n)
    BY <1>0, <1>3
  <1> QED BY <1>4 DEF Upto, HasIterates

\* f adds to x what G gives, as often as there are things to add.
Grows(E, G, x, f, n) ==
    /\ IsFiniteSet(E) /\ n \in Nat /\ Cardinality(E) <= n /\ x \in E
    /\ G \in [SUBSET E -> SUBSET E] /\ f \in [0 .. n -> SUBSET E]
    /\ f[0] = {x} /\ \A d \in 1 .. n : f[d] = f[d - 1] \cup G[f[d - 1]]

\* T is the least set that holds x and all that G gives of it.
LeastClosed(E, G, x, T) ==
    /\ x \in T /\ T \subseteq E /\ G[T] \subseteq T
    /\ \A L \in SUBSET E : x \in L /\ (\A X \in SUBSET L : G[X] \subseteq L) => T \subseteq L

\* What grows comes to a rest, at the least such set.
LEMMA Closure ==
  ASSUME NEW E, NEW G, NEW x, NEW f, NEW n, Grows(E, G, x, f, n)
  PROVE  LeastClosed(E, G, x, f[n])
  <1>0. /\ IsFiniteSet(E) /\ n \in Nat /\ Cardinality(E) <= n /\ x \in E
        /\ G \in [SUBSET E -> SUBSET E] /\ f \in [0 .. n -> SUBSET E]
        /\ f[0] = {x} /\ \A d \in 1 .. n : f[d] = f[d - 1] \cup G[f[d - 1]]
    BY DEF Grows
  <1> DEFINE Grown(d) == G[f[d]] \subseteq f[d] \/ d < Cardinality(f[d])
             Good(d) == d \in 0 .. n => x \in f[d] /\ Grown(d)
             T == {d \in Nat : Good(d)}
  <1>1. \A d \in 0 .. n : IsFiniteSet(f[d]) /\ Cardinality(f[d]) \in Nat /\ Cardinality(f[d]) <= n
    <2> SUFFICES ASSUME NEW d \in 0 .. n
                 PROVE  IsFiniteSet(f[d]) /\ Cardinality(f[d]) \in Nat /\ Cardinality(f[d]) <= n
      OBVIOUS
    <2>1. f[d] \in SUBSET E
      BY <1>0
    <2>2. IsFiniteSet(f[d]) /\ Cardinality(f[d]) <= Cardinality(E)
      BY <1>0, <2>1, FS_Subset
    <2>3. Cardinality(f[d]) \in Nat /\ Cardinality(E) \in Nat
      BY <1>0, <2>2, FS_CardinalityType
    <2> QED BY <1>0, <2>2, <2>3
  <1>2. Good(0)
    <2>1. Cardinality({x}) = 1
      BY FS_Singleton
    <2> QED BY <1>0, <2>1
  <1>3. ASSUME NEW d \in Nat, Good(d) PROVE Good(d + 1)
    <2> SUFFICES ASSUME d + 1 \in 0 .. n PROVE x \in f[d + 1] /\ Grown(d + 1)
      OBVIOUS
    <2>1. d \in 0 .. n /\ d + 1 \in 1 .. n /\ (d + 1) - 1 = d
      BY <1>0
    <2>2. f[d + 1] = f[d] \cup G[f[d]]
      BY <1>0, <2>1
    <2>3. x \in f[d] /\ Grown(d)
      BY <1>3, <2>1
    <2>4. CASE G[f[d]] \subseteq f[d]
      <3>1. f[d + 1] = f[d]
        BY <2>2, <2>4
      <3> QED BY <2>3, <2>4, <3>1
    <2>5. CASE ~ (G[f[d]] \subseteq f[d])
      <3>1. f[d] \subseteq f[d + 1] /\ f[d] # f[d + 1]
        BY <2>2, <2>5
      <3>2. /\ Cardinality(f[d]) <= Cardinality(f[d + 1])
            /\ Cardinality(f[d]) # Cardinality(f[d + 1])
        BY <1>1, <3>1, FS_Subset
      <3>3. d < Cardinality(f[d]) /\ Cardinality(f[d]) \in Nat /\ Cardinality(f[d + 1]) \in Nat
        BY <1>1, <2>1, <2>3, <2>5
      <3>4. d + 1 < Cardinality(f[d + 1])
        BY <3>2, <3>3
      <3> QED BY <2>3, <3>1, <3>4
    <2> QED BY <2>4, <2>5
  <1>4. T = Nat
    <2> HIDE DEF Good
    <2>1. T \in SUBSET Nat /\ 0 \in T /\ \A d \in Nat : d \in T => d + 1 \in T
      BY <1>2, <1>3
    <2> HIDE DEF T
    <2> QED BY <2>1, AllNumbers
  <1>5. x \in f[n] /\ Grown(n)
    <2> HIDE DEF Grown
    <2> QED BY <1>0, <1>4
  <1>6. ASSUME NEW L \in SUBSET E, x \in L, \A X \in SUBSET L : G[X] \subseteq L
        PROVE  f[n] \subseteq L
    <2>1. ASSUME NEW d \in 1 .. n, f[d - 1] \in SUBSET L PROVE f[d] \in SUBSET L
      <3>1. G[f[d - 1]] \subseteq L
        BY <1>6, <2>1
      <3> QED BY <1>0, <2>1, <3>1
    <2> DEFINE Q == SUBSET L
    <2>2. f[0] \in Q /\ \A d \in 1 .. n : f[d - 1] \in Q => f[d] \in Q
      BY <1>0, <1>6, <2>1
    <2>3. \A d \in 0 .. n : f[d] \in Q
      <3> HIDE DEF Q
      <3> QED BY <1>0, <2>2, StaysWithin
    <2> QED BY <1>0, <2>3
  <1>7. G[f[n]] \subseteq f[n]
    <2>1. Cardinality(f[n]) \in Nat /\ Cardinality(f[n]) <= n
      BY <1>0, <1>1
    <2> QED BY <1>0, <1>5, <2>1
  <1>8. \A L \in SUBSET E : x \in L /\ (\A X \in SUBSET L : G[X] \subseteq L) => f[n] \subseteq L
    BY <1>6
  <1>9. f[n] \subseteq E
    BY <1>0
  <1> QED BY <1>5, <1>7, <1>8, <1>9 DEF LeastClosed

\* The ids that have a row.
Rows == {n \in Nodes : nodes[n] # None}

\* Of each id there is one row at most.
LEMMA RowsAreFew ==
  /\ IsFiniteSet(Rows)
  /\ Cardinality(Rows) <= Cardinality(Nodes)
  /\ Cardinality(Nodes) \in Nat
  BY NodesAreFinite, FS_Subset, FS_CardinalityType DEF Rows

\* With a node, L has its live children but for those of active users.
Shown(L, active) == \A p \in L : \A c \in LiveChildren(p) : nodes[c].user \notin active => c \in L

\* mapEntityToTree shows the least set that holds the root and, with a node, its
\* live children but for those of active users.
LEMMA TreeIsClosure ==
  ASSUME NEW root \in Rows, NEW active
  PROVE  /\ root \in TreeBelow(root, active)
         /\ TreeBelow(root, active) \subseteq Rows
         /\ Shown(TreeBelow(root, active), active)
         /\ \A L \in SUBSET Rows :
              root \in L /\ Shown(L, active) => TreeBelow(root, active) \subseteq L
  <1> DEFINE n == Cardinality(Nodes)
             Below(X) == {c \in UNION {LiveChildren(p) : p \in X} : nodes[c].user \notin active}
             G == [X \in SUBSET Rows |-> Below(X)]
             H == [X \in SUBSET Rows |-> X \cup G[X]]
             Eq(f) == f = [d \in 0 .. Cardinality(Nodes) |->
                             IF d = 0 THEN {root}
                             ELSE f[d - 1] \cup
                                    {c \in UNION {LiveChildren(p) : p \in f[d - 1]} :
                                       nodes[c].user \notin active}]
             b == CHOOSE f : Eq(f)
  <1>1. IsFiniteSet(Rows) /\ n \in Nat /\ Cardinality(Rows) <= n
    BY RowsAreFew
  <1>2. \A X \in SUBSET Rows : Below(X) \in SUBSET Rows
    BY DEF LiveChildren, Rows
  <1>3. G \in [SUBSET Rows -> SUBSET Rows] /\ H \in [SUBSET Rows -> SUBSET Rows]
    BY <1>2
  <1> DEFINE P == SUBSET Rows
  <1>4. \E f \in [0 .. n -> P] : f[0] = {root} /\ \A d \in 1 .. n : f[d] = H[f[d - 1]]
    <2> DEFINE s0 == {root}
    <2>1. s0 \in P /\ H \in [P -> P] /\ n \in Nat
      BY <1>1, <1>3
    <2> HIDE DEF H, n, P, s0
    <2>2. Iterable(P, s0, H, n)
      BY <2>1 DEF Iterable
    <2>3. HasIterates(P, s0, H, n)
      BY <2>2, Iterated
    <2> QED BY <2>3 DEF s0, HasIterates
  <1>5. PICK f \in [0 .. n -> P] : f[0] = {root} /\ \A d \in 1 .. n : f[d] = H[f[d - 1]]
    BY <1>4
  <1>6. \A d \in 1 .. n : d - 1 \in 0 .. n /\ f[d - 1] \in SUBSET Rows
    BY <1>1
  <1>7. Eq(f)
    <2>1. ASSUME NEW d \in 0 .. n
          PROVE  f[d] = IF d = 0 THEN {root} ELSE f[d - 1] \cup Below(f[d - 1])
      <3>1. CASE d = 0
        BY <1>5, <3>1
      <3>2. CASE d # 0
        <4>1. d \in 1 .. n
          BY <1>1, <3>2
        <4> QED BY <1>5, <1>6, <3>2, <4>1
      <3> QED BY <3>1, <3>2
    <2> QED BY <2>1
  <1>8. Eq(b)
    <2> HIDE DEF Eq
    <2> QED BY <1>7
  <1>9. TreeBelow(root, active) = b[n]
    BY DEF TreeBelow
  <1>10. b \in [0 .. n -> SUBSET Rows] /\ b[0] = {root}
         /\ \A d \in 1 .. n : b[d] = b[d - 1] \cup G[b[d - 1]]
    <2>1. b = [d \in 0 .. n |-> IF d = 0 THEN {root} ELSE b[d - 1] \cup Below(b[d - 1])]
      BY <1>8
    <2> HIDE DEF b, Eq
    <2>2. b[0] = {root}
      BY <1>1, <2>1
    <2>3. ASSUME NEW d \in 1 .. n PROVE b[d] = b[d - 1] \cup Below(b[d - 1])
      <3> HIDE DEF Below
      <3>1. d \in 0 .. n /\ d # 0
        BY <1>1
      <3> QED BY <2>1, <3>1
    <2>4. ASSUME NEW d \in 1 .. n, b[d - 1] \in SUBSET Rows PROVE b[d] \in SUBSET Rows
      <3> HIDE DEF Below
      <3> QED BY <1>2, <2>3, <2>4
    <2>5. {root} \in SUBSET Rows
      OBVIOUS
    <2>6. \A d \in 0 .. n : b[d] \in P
      <3>1. b[0] \in P /\ \A d \in 1 .. n : b[d - 1] \in P => b[d] \in P
        BY <2>2, <2>4, <2>5
      <3> HIDE DEF n, P
      <3> QED BY <1>1, <3>1, StaysWithin
    <2>7. \A d \in 1 .. n : b[d - 1] \in SUBSET Rows
      BY <1>1, <2>6
    <2>8. \A d \in 1 .. n : G[b[d - 1]] = Below(b[d - 1])
      BY <2>7
    <2> QED BY <2>1, <2>2, <2>3, <2>6, <2>8
  <1> HIDE DEF b, Eq, G, H, n
  <1>11. LeastClosed(Rows, G, root, b[n])
    <2>1. Grows(Rows, G, root, b, n)
      BY <1>1, <1>3, <1>10 DEF Grows
    <2> QED BY <2>1, Closure
  <1>12. b[n] \subseteq Rows
    BY <1>11 DEF LeastClosed
  <1>13. Shown(b[n], active)
    <2>1. Below(b[n]) \subseteq b[n]
      BY <1>11, <1>12 DEF G, LeastClosed
    <2> QED BY <2>1 DEF Shown
  <1>14. ASSUME NEW L \in SUBSET Rows, root \in L, Shown(L, active) PROVE b[n] \subseteq L
    <2>1. \A X \in SUBSET L : Below(X) \subseteq L
      BY <1>14 DEF Shown
    <2>2. \A X \in SUBSET L : G[X] \subseteq L
      BY <1>14, <2>1 DEF G
    <2> QED BY <1>11, <1>14, <2>2 DEF LeastClosed
  <1> QED BY <1>9, <1>11, <1>12, <1>13, <1>14 DEF LeastClosed

\* A father has a row; with a node, L has its father.
Fathered == \A n \in Rows : nodes[n].father # None => nodes[n].father \in Rows
Risen(L) == \A m \in L : nodes[m].father # None => nodes[m].father \in L

\* Line(n) is the least set that holds n and, with a node, its father.
LEMMA LineIsClosure ==
  ASSUME Fathered, NEW root \in Rows
  PROVE  /\ root \in Line(root)
         /\ Line(root) \subseteq Rows
         /\ Risen(Line(root))
         /\ \A L \in SUBSET Rows : root \in L /\ Risen(L) => Line(root) \subseteq L
  <1> DEFINE n == Cardinality(Nodes)
             Above(X) == {nodes[m].father : m \in X} \ {None}
             G == [X \in SUBSET Rows |-> Above(X)]
             H == [X \in SUBSET Rows |-> X \cup G[X]]
             P == SUBSET Rows
             Eq(f) == f = [d \in 0 .. Cardinality(Nodes) |->
                             IF d = 0 THEN {root}
                             ELSE f[d - 1] \cup ({nodes[m].father : m \in f[d - 1]} \ {None})]
             b == CHOOSE f : Eq(f)
  <1>1. IsFiniteSet(Rows) /\ n \in Nat /\ Cardinality(Rows) <= n
    BY RowsAreFew
  <1>2. \A X \in SUBSET Rows : Above(X) \in SUBSET Rows
    BY DEF Fathered
  <1>3. G \in [SUBSET Rows -> SUBSET Rows] /\ H \in [SUBSET Rows -> SUBSET Rows]
    BY <1>2
  <1>4. \E f \in [0 .. n -> P] : f[0] = {root} /\ \A d \in 1 .. n : f[d] = H[f[d - 1]]
    <2> DEFINE s0 == {root}
    <2>1. s0 \in P /\ H \in [P -> P] /\ n \in Nat
      BY <1>1, <1>3
    <2> HIDE DEF H, n, P, s0
    <2>2. Iterable(P, s0, H, n)
      BY <2>1 DEF Iterable
    <2>3. HasIterates(P, s0, H, n)
      BY <2>2, Iterated
    <2> QED BY <2>3 DEF s0, HasIterates
  <1>5. PICK f \in [0 .. n -> P] : f[0] = {root} /\ \A d \in 1 .. n : f[d] = H[f[d - 1]]
    BY <1>4
  <1>6. \A d \in 1 .. n : d - 1 \in 0 .. n /\ f[d - 1] \in SUBSET Rows
    BY <1>1
  <1>7. Eq(f)
    <2>1. ASSUME NEW d \in 0 .. n
          PROVE  f[d] = IF d = 0 THEN {root} ELSE f[d - 1] \cup Above(f[d - 1])
      <3>1. CASE d = 0
        BY <1>5, <3>1
      <3>2. CASE d # 0
        <4>1. d \in 1 .. n
          BY <1>1, <3>2
        <4> QED BY <1>5, <1>6, <3>2, <4>1
      <3> QED BY <3>1, <3>2
    <2> QED BY <2>1
  <1>8. Eq(b)
    <2> HIDE DEF Eq
    <2> QED BY <1>7
  <1>9. Line(root) = b[n]
    BY DEF Line
  <1>10. b \in [0 .. n -> SUBSET Rows] /\ b[0] = {root}
         /\ \A d \in 1 .. n : b[d] = b[d - 1] \cup G[b[d - 1]]
    <2>1. b = [d \in 0 .. n |-> IF d = 0 THEN {root} ELSE b[d - 1] \cup Above(b[d - 1])]
      BY <1>8
    <2> HIDE DEF b, Eq
    <2>2. b[0] = {root}
      BY <1>1, <2>1
    <2>3. ASSUME NEW d \in 1 .. n PROVE b[d] = b[d - 1] \cup Above(b[d - 1])
      <3> HIDE DEF Above
      <3>1. d \in 0 .. n /\ d # 0
        BY <1>1
      <3> QED BY <2>1, <3>1
    <2>4. ASSUME NEW d \in 1 .. n, b[d - 1] \in SUBSET Rows PROVE b[d] \in SUBSET Rows
      <3> HIDE DEF Above
      <3> QED BY <1>2, <2>3, <2>4
    <2>5. {root} \in SUBSET Rows
      OBVIOUS
    <2>6. \A d \in 0 .. n : b[d] \in P
      <3>1. b[0] \in P /\ \A d \in 1 .. n : b[d - 1] \in P => b[d] \in P
        BY <2>2, <2>4, <2>5
      <3> HIDE DEF n, P
      <3> QED BY <1>1, <3>1, StaysWithin
    <2>7. \A d \in 1 .. n : b[d - 1] \in SUBSET Rows
      BY <1>1, <2>6
    <2>8. \A d \in 1 .. n : G[b[d - 1]] = Above(b[d - 1])
      BY <2>7
    <2> QED BY <2>1, <2>2, <2>3, <2>6, <2>8
  <1> HIDE DEF b, Eq, G, H, n
  <1>11. LeastClosed(Rows, G, root, b[n])
    <2>1. Grows(Rows, G, root, b, n)
      BY <1>1, <1>3, <1>10 DEF Grows
    <2> QED BY <2>1, Closure
  <1>12. b[n] \subseteq Rows
    BY <1>11 DEF LeastClosed
  <1>13. Risen(b[n])
    <2>1. Above(b[n]) \subseteq b[n]
      BY <1>11, <1>12 DEF G, LeastClosed
    <2> QED BY <2>1 DEF Risen
  <1>14. ASSUME NEW L \in SUBSET Rows, root \in L, Risen(L) PROVE b[n] \subseteq L
    <2>1. \A X \in SUBSET L : Above(X) \subseteq L
      BY <1>14 DEF Risen
    <2>2. \A X \in SUBSET L : G[X] \subseteq L
      BY <1>14, <2>1 DEF G
    <2> QED BY <1>11, <1>14, <2>2 DEF LeastClosed
  <1> QED BY <1>9, <1>11, <1>12, <1>13, <1>14 DEF LeastClosed

\* No user has two nodes.
UserOnce == \A m, n \in Rows : nodes[m].user = nodes[n].user => m = n

\* One root, one child to a father, one node to a user and no circle make the
\* views agree.
LEMMA OneTreeAgrees ==
  ASSUME Fathered, Acyclic, OneLiveRoot, OnlyChild, UserOnce
  PROVE  ViewsAgree
  <1>1. ASSUME NEW active \in SUBSET Users, NEW root \in LiveChildren(None)
        PROVE  TreeBelow(root, active)
               = {n \in Nodes : /\ nodes[n] # None
                               /\ \A m \in Line(n) : /\ nodes[m].live
                                                     /\ nodes[m].user \in active
                                                          => nodes[m].father = None}
    <2> DEFINE T == TreeBelow(root, active)
               Good(m) == nodes[m].live /\ (nodes[m].user \in active => nodes[m].father = None)
               R == {n \in Rows : \A m \in Line(n) : Good(m)}
    <2>1. root \in Rows /\ nodes[root].live /\ nodes[root].father = None
      BY DEF LiveChildren, Rows
    <2>2. root \in T /\ T \subseteq Rows /\ Shown(T, active)
      BY <2>1, TreeIsClosure
    <2>3. T \subseteq R
      <3>1. root \in R
        <4>1. Line(root) \subseteq {root}
          <5>1. {root} \in SUBSET Rows /\ Risen({root})
            BY <2>1 DEF Risen
          <5> QED BY <2>1, <5>1, LineIsClosure
        <4> QED BY <2>1, <4>1
      <3>2. ASSUME NEW p \in R, NEW c \in LiveChildren(p), nodes[c].user \notin active
            PROVE  c \in R
        <4>1. c \in Rows /\ nodes[c].live /\ nodes[c].father = p
          BY DEF LiveChildren, Rows
        <4>2. Line(c) \subseteq Line(p) \cup {c}
          <5>1. Line(p) \subseteq Rows /\ Risen(Line(p)) /\ p \in Line(p)
            BY LineIsClosure
          <5>2. Line(p) \cup {c} \in SUBSET Rows /\ Risen(Line(p) \cup {c})
            BY <4>1, <5>1 DEF Risen
          <5>3. \A L \in SUBSET Rows : c \in L /\ Risen(L) => Line(c) \subseteq L
            BY <4>1, LineIsClosure
          <5> QED BY <5>2, <5>3
        <4> QED BY <3>2, <4>1, <4>2
      <3>3. R \in SUBSET Rows /\ Shown(R, active)
        <4>1. R \subseteq Rows
          OBVIOUS
        <4> HIDE DEF R
        <4> QED BY <3>2, <4>1 DEF Shown
      <3> HIDE DEF R
      <3> QED BY <2>1, <3>1, <3>3, TreeIsClosure
    <2>4. R \subseteq T
      <3> DEFINE D == R \ T
      <3> SUFFICES ASSUME D # {} PROVE FALSE
        OBVIOUS
      <3>1. ASSUME NEW n \in D PROVE nodes[n].father \in D
        <4> DEFINE p == nodes[n].father
        <4>1. n \in Rows /\ n \in Line(n) /\ Risen(Line(n)) /\ Line(n) \subseteq Rows
          BY LineIsClosure
        <4>2. Good(n)
          BY <4>1
        <4>3. p # None
          <5> SUFFICES ASSUME p = None PROVE FALSE
            OBVIOUS
          <5>1. n \in LiveChildren(None)
            BY <4>1, <4>2 DEF LiveChildren, Rows
          <5>2. n = root
            BY <5>1 DEF OneLiveRoot
          <5> QED BY <2>2, <5>2
        <4>4. p \in Rows /\ p \in Line(n)
          BY <4>1, <4>3 DEF Fathered, Risen
        <4>5. Line(p) \subseteq Line(n)
          BY <4>1, <4>4, LineIsClosure
        <4>6. p \in R
          BY <4>4, <4>5
        <4>7. n \in LiveChildren(p) /\ nodes[n].user \notin active
          BY <4>1, <4>2, <4>3 DEF LiveChildren, Rows
        <4>8. p \notin T
          BY <2>2, <4>7 DEF Shown
        <4> QED BY <4>6, <4>8
      <3>2. D \in SUBSET Nodes /\ \A n \in D : nodes[n] # None
        BY DEF Rows
      <3> HIDE DEF D
      <3>3. Cyclic(D, nodes)
        BY <3>1, <3>2 DEF Cyclic
      <3> QED BY <3>2, <3>3 DEF Acyclic
    <2>5. R = {n \in Nodes : nodes[n] # None /\ \A m \in Line(n) : Good(m)}
      BY DEF Rows
    <2> HIDE DEF T
    <2> QED BY <2>3, <2>4, <2>5 DEF T
  <1>2. ASSUME NEW n \in Nodes, NEW p \in Nodes,
               nodes[n] # None, nodes[n].live, nodes[n].father = p
        PROVE  Parents(nodes[n].user) = {p} /\ Childs(nodes[p].user) = {n}
    <2>1. n \in Rows /\ p \in Rows /\ p # None
      BY <1>2, NoneIsNothing DEF Rows, Fathered
    <2>2. \A m \in Rows : NodesOf(nodes, nodes[m].user) = {m}
      BY DEF Rows, UserOnce, NodesOf
    <2>3. Parents(nodes[n].user) = {p}
      BY <1>2, <2>1, <2>2 DEF Parents
    <2>4. LiveChildren(p) = {n}
      BY <1>2 DEF OnlyChild, LiveChildren
    <2>5. Childs(nodes[p].user) = {n}
      BY <2>1, <2>2, <2>4 DEF Childs
    <2> QED BY <2>3, <2>5
  <1>3. \A active \in SUBSET Users : \A tree \in Trees(active) :
          tree = {n \in Nodes : /\ nodes[n] # None
                                /\ \A m \in Line(n) : /\ nodes[m].live
                                                      /\ nodes[m].user \in active
                                                           => nodes[m].father = None}
    BY <1>1 DEF Trees
  <1> QED BY <1>2, <1>3 DEF ViewsAgree

-----------------------------------------------------------------------------
\* The user that a create has found without a node.
FoundNone(h) ==
  tx[h].at \in {"free", "placed", "vacant", "levelled"} => NodesOf(nodes, tx[h].user) = {}

\* A draft keeps the user of its row, or gives a node to one who has none.
KeepsUser(h, n) ==
  draft[h][n] # None =>
    IF nodes[n] # None THEN draft[h][n].user = nodes[n].user
    ELSE n = tx[h].node /\ NodesOf(nodes, draft[h][n].user) = {}

OInv == UserOnce /\ \A h \in Handlers : FoundNone(h) /\ \A n \in Nodes : KeepsUser(h, n)

\* A step of the one request in flight that commits nothing.
LEMMA SameTableKeepsOInv ==
  ASSUME OInv, UNCHANGED nodes, NEW h \in Handlers, \A k \in Handlers : k = h,
         FoundNone(h)', \A n \in Nodes : KeepsUser(h, n)'
  PROVE  OInv'
  BY DEF OInv, UserOnce, Rows

\* A check, which leaves the drafts alone.
LEMMA CheckingKeepsOInv ==
  ASSUME OInv, UNCHANGED <<nodes, draft>>, NEW h \in Handlers,
         \A k \in Handlers : k = h,
         draft[h] = Nothing \/ tx'[h].node = tx[h].node,
         FoundNone(h)'
  PROVE  OInv'
  <1>1. ASSUME NEW n \in Nodes PROVE KeepsUser(h, n)'
    BY DEF OInv, KeepsUser, Nothing, NodesOf
  <1> QED BY <1>1, SameTableKeepsOInv

\* A write of one row for the same user as the row it is based on.
LEMMA WritingKeepsOInv ==
  ASSUME IInv, OInv, NEW h \in Handlers, \A k \in Handlers : k = h,
         NEW q \in Nodes, NEW row, draft' = [draft EXCEPT ![h][q] = row], UNCHANGED nodes,
         tx'[h].node = tx[h].node, FoundNone(h)',
         nodes[q] # None, row.user = nodes[q].user
  PROVE  OInv'
  <1>1. draft'[h][q] = row /\ \A n \in Nodes \ {q} : draft'[h][n] = draft[h][n]
    BY DEF IInv, TypeOK
  <1>2. KeepsUser(h, q)'
    BY <1>1 DEF KeepsUser
  <1>3. ASSUME NEW n \in Nodes \ {q} PROVE KeepsUser(h, n)'
    BY <1>1 DEF OInv, KeepsUser, NodesOf
  <1> QED BY <1>2, <1>3, SameTableKeepsOInv

\* A create inserts a node for a user it has found without one.
LEMMA CreateKeepsOInv ==
  ASSUME IInv, CInv, OInv, NEW h \in Handlers, \A k \in Handlers : k = h, Create(h)
  PROVE  OInv'
  <1>1. UNCHANGED nodes
    BY DEF Create, CheckRoot, ReadFather, CheckChild, ReadLevel, InsertNode,
           IncrementMembers, CreateSpouseCouple
  <1>2. tx \in [Handlers -> Request \cup {Idle}] /\ tx[h] \in Request /\ Sensible(tx[h], draft[h])
    BY InFlight DEF IInv, TypeOK, Established, Create, CheckRoot, ReadFather, CheckChild,
                    ReadLevel, InsertNode, IncrementMembers, CreateSpouseCouple
  <1>3. CASE CheckRoot(h) \/ ReadFather(h) \/ CheckChild(h) \/ ReadLevel(h)
    <2>1. /\ tx'[h].node = tx[h].node
          /\ tx'[h].user = tx[h].user
          /\ UNCHANGED draft
      BY <1>2, <1>3 DEF CheckRoot, ReadFather, CheckChild, ReadLevel, Request
    <2>2. NodesOf(nodes, tx[h].user) = {}
      BY <1>3 DEF OInv, FoundNone, CheckRoot, ReadFather, CheckChild, ReadLevel
    <2>3. FoundNone(h)'
      BY <1>1, <2>1, <2>2 DEF FoundNone, NodesOf
    <2> QED BY <1>1, <2>1, <2>3, CheckingKeepsOInv
  <1>4. CASE CreateSpouseCouple(h)
    <2>1. /\ tx'[h].node = tx[h].node
          /\ tx'[h].at = "created"
          /\ UNCHANGED draft
      BY <1>2, <1>4 DEF CreateSpouseCouple, Request
    <2>2. FoundNone(h)'
      BY <2>1 DEF FoundNone
    <2> QED BY <1>1, <2>1, <2>2, CheckingKeepsOInv
  <1>5. CASE InsertNode(h)
    <2>1. PICK q \in Nodes : /\ nodes[q] = None
                             /\ draft' = [draft EXCEPT ![h][q] = NewRow(h)]
                             /\ tx' = [tx EXCEPT ![h].node = q, ![h].at = AfterInsert(h)]
      BY <1>5 DEF InsertNode
    <2>2. tx'[h].node = q /\ tx'[h].at \in {"inserted", "counted", "created"}
      BY <1>2, <2>1 DEF AfterInsert, Request
    <2>3. FoundNone(h)'
      BY <2>2 DEF FoundNone
    <2>4. draft[h] = Nothing
      BY <1>5 DEF CInv, Counts, Unwritten, InsertNode
    <2>5. /\ draft'[h][q].user = tx[h].user
          /\ \A n \in Nodes \ {q} : draft'[h][n] = None
      BY <2>1, <2>4 DEF IInv, TypeOK, Nothing, NewRow
    <2>6. NodesOf(nodes, tx[h].user) = {}
      BY <1>5 DEF OInv, FoundNone, InsertNode
    <2>7. \A n \in Nodes : KeepsUser(h, n)'
      BY <1>1, <2>1, <2>2, <2>5, <2>6 DEF KeepsUser, NodesOf
    <2> QED BY <1>1, <2>3, <2>7, SameTableKeepsOInv
  <1>6. CASE IncrementMembers(h)
    <2> DEFINE p == tx[h].father
               row == [nodes[p] EXCEPT !.order = @ + 1]
    <2>1. p \in Nodes /\ nodes[p] \in Row /\ nodes[p] # None
      BY <1>2, <1>6 DEF IncrementMembers, Sensible, HasFather, Request, IInv, TypeOK
    <2>2. row.user = nodes[p].user
      BY <2>1 DEF Row
    <2>3. tx'[h].node = tx[h].node /\ tx'[h].at \in {"counted", "created"}
      BY <1>2, <1>6 DEF IncrementMembers, AfterCount, Request
    <2>4. FoundNone(h)'
      BY <2>3 DEF FoundNone
    <2>5. draft' = [draft EXCEPT ![h][p] = row]
      BY <1>6 DEF IncrementMembers
    <2> HIDE DEF p, row
    <2> QED BY <1>1, <2>1, <2>2, <2>3, <2>4, <2>5, WritingKeepsOInv
  <1> QED BY <1>3, <1>4, <1>5, <1>6 DEF Create

\* A remove writes the rows of committed nodes.
LEMMA RemoveKeepsOInv ==
  ASSUME IInv, CInv, OInv, NEW h \in Handlers, \A k \in Handlers : k = h, Remove(h)
  PROVE  OInv'
  <1>1. UNCHANGED nodes
    BY DEF Remove, CheckLeaf, SoftDeactivate, DecrementMembers
  <1>2. tx \in [Handlers -> Request \cup {Idle}] /\ tx[h] \in Request /\ Sensible(tx[h], draft[h])
    BY InFlight DEF IInv, TypeOK, Established, Remove, CheckLeaf, SoftDeactivate, DecrementMembers
  <1>3. tx'[h].node = tx[h].node /\ tx'[h].at \in {"leaf", "deactivated", "removed"}
    BY <1>2 DEF Remove, CheckLeaf, SoftDeactivate, DecrementMembers, Request
  <1>4. FoundNone(h)'
    BY <1>3 DEF FoundNone
  <1>5. CASE CheckLeaf(h)
    <2>1. UNCHANGED draft
      BY <1>5 DEF CheckLeaf
    <2> QED BY <1>1, <1>3, <1>4, <2>1, CheckingKeepsOInv
  <1>6. CASE SoftDeactivate(h)
    <2> DEFINE q == tx[h].node
               row == [nodes[q] EXCEPT !.live = FALSE]
    <2>1. q \in Nodes /\ nodes[q] \in Row /\ nodes[q] # None
      BY <1>2, <1>6 DEF SoftDeactivate, Sensible, HasNode, Request, IInv, TypeOK
    <2>2. row.user = nodes[q].user
      BY <2>1 DEF Row
    <2>3. draft' = [draft EXCEPT ![h][q] = row]
      BY <1>6 DEF SoftDeactivate
    <2> HIDE DEF q, row
    <2> QED BY <1>1, <1>3, <1>4, <2>1, <2>2, <2>3, WritingKeepsOInv
  <1>7. CASE DecrementMembers(h)
    <2> DEFINE p == tx[h].father
               seen == View(h)[p]
               row == [seen EXCEPT !.order = @ - 1]
    <2>1. p \in Nodes /\ nodes[p] \in Row /\ nodes[p] # None
      BY <1>2, <1>7 DEF DecrementMembers, Sensible, HasFather, Request, IInv, TypeOK
    <2>2. seen \in Row /\ nodes[p].user = seen.user
      BY <2>1, NoneIsNothing DEF View, IInv, TypeOK, OInv, KeepsUser
    <2>3. row.user = nodes[p].user
      BY <2>2 DEF Row
    <2>4. draft' = [draft EXCEPT ![h][p] = row]
      BY <1>7 DEF DecrementMembers
    <2> HIDE DEF p, row, seen
    <2> QED BY <1>1, <1>3, <1>4, <2>1, <2>3, <2>4, WritingKeepsOInv
  <1> QED BY <1>5, <1>6, <1>7 DEF Remove

\* A commit adds at most the one new node.
LEMMA CommitKeepsUserOnce ==
  ASSUME IInv, OInv, NEW h \in Handlers, Commit(h)
  PROVE  UserOnce'
  <1> SUFFICES ASSUME NEW m \in Nodes, NEW n \in Nodes,
                      View(h)[m] # None, View(h)[n] # None, View(h)[m].user = View(h)[n].user
               PROVE  m = n
    BY CommitTable DEF Commit, UserOnce, Rows
  <1>1. ASSUME NEW k \in Nodes, View(h)[k] # None
        PROVE  \/ k \in Rows /\ nodes[k].user = View(h)[k].user
               \/ k = tx[h].node /\ NodesOf(nodes, View(h)[k].user) = {}
    BY <1>1 DEF View, OInv, KeepsUser, Rows
  <1>2. ASSUME NEW k \in Rows PROVE k \in NodesOf(nodes, nodes[k].user)
    BY DEF NodesOf, Rows
  <1> QED BY <1>1, <1>2 DEF OInv, UserOnce

LEMMA EndKeepsOInv ==
  ASSUME IInv, OInv, NEW h \in Handlers, \A k \in Handlers : k = h,
         Commit(h) \/ Rollback(h)
  PROVE  OInv'
  <1>1. tx'[h].at = "idle" /\ draft'[h] = Nothing
    BY IdleIsNoRequest DEF IInv, TypeOK, Commit, Rollback
  <1>2. FoundNone(h)' /\ \A n \in Nodes : KeepsUser(h, n)'
    BY <1>1 DEF FoundNone, KeepsUser, Nothing
  <1>3. UserOnce'
    <2>1. CASE UNCHANGED nodes
      BY <2>1 DEF OInv, UserOnce, Rows
    <2> QED BY <2>1, CommitKeepsUserOnce DEF Rollback
  <1> QED BY <1>2, <1>3 DEF OInv

LEMMA BeginKeepsOInv ==
  ASSUME IInv, CInv, OInv, NEW h \in Handlers, \A k \in Handlers : k = h,
         \/ \E u \in Users, p \in Nodes \cup {None}, o \in Orders \cup {None},
               on \in BOOLEAN, s \in Spouses \cup {None} : BeginCreate(h, u, p, o, on, s)
         \/ \E u, parentUser \in Users : AttachMember(h, u, parentUser)
         \/ \E n \in Nodes, u \in NewUsers \cup {None}, p \in Nodes \cup {None},
               o \in Orders \cup {None} : ReadNode(h, n, u, p, o)
         \/ \E n \in Nodes : ReadVictim(h, n)
  PROVE  OInv'
  <1>1. tx[h] = Idle /\ UNCHANGED <<nodes, draft>>
    BY DEF BeginCreate, AttachMember, ReadNode, ReadVictim
  <1>2. tx \in [Handlers -> Request \cup {Idle}] /\ draft[h] = Nothing
    BY <1>1, IdleIsNoRequest DEF IInv, TypeOK, CInv, Counts, Unwritten
  <1>3. FoundNone(h)'
    <2>1. ASSUME NEW u, NEW p, NEW o, NEW on, NEW s, BeginCreate(h, u, p, o, on, s)
          PROVE  NodesOf(nodes, tx'[h].user) = {}
      BY <1>2, <2>1 DEF BeginCreate
    <2>2. ASSUME NEW n, NEW u, NEW p, NEW o, ReadNode(h, n, u, p, o)
          PROVE  tx'[h].at = "read"
      BY <1>2, <2>2 DEF ReadNode
    <2>3. ASSUME NEW n, ReadVictim(h, n)
          PROVE  tx'[h].at = "victim"
      BY <1>2, <2>3 DEF ReadVictim
    <2>4. tx'[h].at \in {"read", "victim"} \/ NodesOf(nodes, tx'[h].user) = {}
      BY <2>1, <2>2, <2>3 DEF AttachMember
    <2> QED BY <1>1, <2>4 DEF FoundNone, NodesOf
  <1> QED BY <1>1, <1>2, <1>3, CheckingKeepsOInv

LEMMA NextOInv ==
  ASSUME NoOverlap, NoUpdate, IInv, CInv, OInv, [Next]_vars
  PROVE  OInv'
  <1>1. CASE UNCHANGED vars
    BY <1>1 DEF vars, OInv, UserOnce, Rows, FoundNone, KeepsUser, NodesOf
  <1>2. CASE Next
    <2>1. PICK h \in Handlers : Next!(h)
      BY <1>2 DEF Next
    <2>2. \A k \in Handlers : k = h
      BY DEF NoOverlap
    <2>3. ~ Update(h)
      BY DEF NoUpdate, Update, CheckOwner, CheckOrder, Reread, LockNode, UpdateNode
    <2> QED BY <2>1, <2>2, <2>3, BeginKeepsOInv, CreateKeepsOInv, RemoveKeepsOInv, EndKeepsOInv
  <1> QED BY <1>1, <1>2

\* No user has two imported nodes.
ImportedUsers ==
  \A m, n \in Nodes :
    /\ ImportedNodes[m] # None
    /\ ImportedNodes[n] # None
    /\ ImportedNodes[m].user = ImportedNodes[n].user
    => m = n

\* With requests that come one after the other and move no node, getFamilyTree
\* shows the nodes that hang on the root by nodes of the tree, none of them an
\* active user's, and nothing else, and getParents and getChilds tell the same
\* edges, for any finite tables.
THEOREM ViewsAgreeHolds ==
  ASSUME NoOverlap, "update" \notin Kinds,
         ImportedOne({None}), ImportedOne(Nodes), ImportedUsers
  PROVE  Spec => []ViewsAgree
  <1> DEFINE VInv == NoUpdate /\ CInv /\ OInv
  <1>1. Init => VInv
    <2> SUFFICES ASSUME Init PROVE VInv
      OBVIOUS
    <2>1. \A h \in Handlers : tx[h].at = "idle" /\ draft[h] = Nothing
      BY IdleIsNoRequest DEF Init
    <2>2. UserOnce
      BY DEF Init, UserOnce, Rows, ImportedUsers
    <2> QED BY <2>1, <2>2, InitSInv DEF OInv, FoundNone, KeepsUser, Nothing, NoUpdate
  <1>2. IInv /\ VInv /\ [Next]_vars => VInv'
    BY NextCInv, NoUpdateStarts, NextOInv
  <1>3. IInv /\ VInv /\ Acyclic /\ OneLiveRoot /\ OnlyChild => ViewsAgree
    <2>1. IInv => Fathered
      BY DEF IInv, TypeOK, FathersExist, Fathered, Rows, Row
    <2> QED BY <2>1, OneTreeAgrees DEF OInv
  <1>4. Spec => []Acyclic /\ []OneLiveRoot /\ []OnlyChild
    BY AcyclicWithoutUpdates, OneLiveRootHolds, OnlyChildHolds
  <1> HIDE DEF VInv
  <1> QED BY <1>1, <1>2, <1>3, <1>4, Invariance, PTL DEF Spec
=============================================================================
