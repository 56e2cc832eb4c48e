------------------------------- MODULE FamilyTree -------------------------------
(***************************************************************************)
(* NodeService: the family tree in the tables nodes and couples, changed   *)
(* by concurrent requests.  Each request is one transaction at READ        *)
(* COMMITTED: every statement sees what is committed when it runs and what *)
(* its own transaction wrote, the row a transaction has written is locked  *)
(* until it ends, and nothing else is.                                     *)
(*                                                                         *)
(* A check that the code makes twice in one transaction is modelled where  *)
(* it is made last, and a check of something that never changes back (a    *)
(* row that exists, as rows are never deleted) with the next statement.    *)
(* Columns that only record who wrote and when are left out; with them     *)
(* goes changeStatus, which writes nothing but updated_by.                 *)
(***************************************************************************)
EXTENDS Integers, FiniteSets

CONSTANTS
  Users,            \* rows of the table users; they outlive every request here
  Nodes,            \* ids for rows of the table nodes
  Handlers,         \* the requests in flight at the same time
  None,             \* null
  Kinds,            \* the requests that clients send: a subset of
                    \*   {"create", "attach", "update", "remove"}
  Spouses,          \* the users that dto.coupleUserId names in a create,
  NewUsers,         \*   and that dto.userId names in an update
  Orders,           \* the values of dto.child_order: @Min(1)
  OrderMin,         \* bounds on nodes.child_order, which attach and remove
  OrderMax,         \*   move by one at a time
  SchemaComplete,   \* nodes and couples have the column status, and a default
                    \*   for every mandatory column the service never sets
  UniqueIndexes,    \* the unique indexes of the migrations are in place
  ImportedNodes,    \* the tree found in the tables when the service starts
  ImportedCouples

RootTreeLevel == 0  \* ROOT_TREE_LEVEL of couple.constant.ts

\* One row of each table.  nodes.status and couples.status are called live.
Row == [user : Users, father : Nodes \cup {None}, order : Int, live : BOOLEAN]
Couple == [user : Users, node : Nodes, order : Int, live : BOOLEAN]

\* The nodes in S hang on one another for ever: each has its father in S.
Cyclic(S, tree) == /\ S # {}
                   /\ \A n \in S : tree[n] # None /\ tree[n].father \in S

ASSUME NoneIsNothing == None \notin Users \cup Nodes \cup Int \cup Row
ASSUME NodesAreFinite == IsFiniteSet(Nodes)
ASSUME OrdersArePositive == Orders \subseteq Nat \ {0} /\ OrderMin \in Int /\ OrderMax \in Int
ASSUME RequestsAreKnown == /\ Kinds \subseteq {"create", "attach", "update", "remove"}
                           /\ Spouses \subseteq Users /\ NewUsers \subseteq Users
ASSUME SchemaFlags == SchemaComplete \in BOOLEAN /\ UniqueIndexes \in BOOLEAN
ASSUME ImportedIsTree ==
  /\ ImportedNodes \in [Nodes -> Row \cup {None}]
  /\ ImportedCouples \subseteq Couple
  /\ \A n \in Nodes : ImportedNodes[n] # None =>
       /\ ImportedNodes[n].father # None => ImportedNodes[ImportedNodes[n].father] # None
       /\ \E c \in ImportedCouples : c.node = n /\ c.live
  /\ \A S \in SUBSET Nodes : ~ Cyclic(S, ImportedNodes)
ASSUME IndexesHold ==   \* no index is made unique over rows that are not
  UniqueIndexes => \A m, n \in Nodes :
    m # n /\ ImportedNodes[m] # None /\ ImportedNodes[n] # None =>
      /\ ImportedNodes[m].user # ImportedNodes[n].user
      /\ ImportedNodes[m].father = ImportedNodes[n].father => ImportedNodes[m].father = None

VARIABLES
  nodes,       \* the committed rows of nodes, None where there is none
  couples,     \* the committed rows of couples
  tx,          \* what each request is in the middle of
  draft,       \* the rows of nodes each open transaction has written, and locks
  newCouples   \* the rows of couples each open transaction has inserted

vars == <<nodes, couples, tx, draft, newCouples>>

Idle == [at |-> "idle"]
Nothing == [n \in Nodes |-> None]

Stages == {"free", "placed", "vacant", "levelled", "inserted", "counted", "created",
           "read", "owned", "ordered", "reread", "locked", "updated",
           "victim", "leaf", "deactivated", "removed"}

\* A request: its node (None until inserted), the fields of its DTO, the level
\* its couple gets, the row it read or writes and the columns it writes.
Request == [at : Stages, node : Nodes \cup {None}, user : Users \cup {None},
            father : Nodes \cup {None}, order : Int \cup {None}, live : BOOLEAN,
            spouse : Users \cup {None}, level : Int, row : Row \cup {None},
            fields : SUBSET {"user", "father", "order"}]

TypeOK ==
  /\ nodes \in [Nodes -> Row \cup {None}]
  /\ couples \in SUBSET Couple
  /\ tx \in [Handlers -> Request \cup {Idle}]
  /\ draft \in [Handlers -> [Nodes -> Row \cup {None}]]
  /\ newCouples \in [Handlers -> SUBSET Couple]

Init ==
  /\ nodes = ImportedNodes
  /\ couples = ImportedCouples
  /\ tx = [h \in Handlers |-> Idle]
  /\ draft = [h \in Handlers |-> Nothing]
  /\ newCouples = [h \in Handlers |-> {}]

-----------------------------------------------------------------------------
(* What the statements of a transaction see and wait for.                  *)

\* The table nodes as the statements of h see it.
View(h) == [n \in Nodes |-> IF draft[h][n] # None THEN draft[h][n] ELSE nodes[n]]

\* An UPDATE of row n waits for the transaction that has written it.
MayLock(h, n) == \A k \in Handlers \ {h} : draft[k][n] = None

\* findByUserId: no status filter, so a removed node is found too.
NodesOf(table, u) == {n \in Nodes : table[n] # None /\ table[n].user = u}

\* findByParentId and findRootNode, which keep to the rows with status true.
LiveChildren(p) == {n \in Nodes : nodes[n] # None /\ nodes[n].live /\ nodes[n].father = p}

\* The couples of user u that coupleRepository.findByUserId may return.
LiveCouples(h, u) == {c \in couples \cup newCouples[h] : c.user = u /\ c.live}

\* The unique indexes on user_id and father_id let h write row r at n: no
\* other row has its keys, committed or about to be.
KeysAreFree_CommittedOnly(h, n, r) ==
  UniqueIndexes => \A m \in Nodes \ {n} :
    nodes[m] # None => nodes[m].user # r.user
                       /\ (nodes[m].father = r.father => r.father = None)

KeysAreFree(h, n, r) ==
  UniqueIndexes => \A m \in Nodes \ {n} : \A s \in {nodes[m]} \cup {draft[k][m] : k \in Handlers} :
                     s # None => s.user # r.user /\ (s.father = r.father => s.father = None)

-----------------------------------------------------------------------------
(* create and attachMemberToTree.                                          *)

\* create up to the first check of the place in the tree: the users exist, the
\* father exists, the user has no node.
BeginCreate(h, u, p, o, on, s) ==
  /\ tx[h] = Idle
  /\ NodesOf(nodes, u) = {}
  /\ p # None => nodes[p] # None
  /\ s # u
  /\ tx' = [tx EXCEPT ![h] =
              [at |-> "free", node |-> None, user |-> u, father |-> p, order |-> o,
               live |-> on, spouse |-> s, level |-> RootTreeLevel, row |-> None,
               fields |-> {}]]
  /\ UNCHANGED <<nodes, couples, draft, newCouples>>

\* attachMemberToTree, called by CreateUserUseCase inside its own transaction:
\* the father is a node of the parent user, the order is 1.
AttachMember(h, u, parentUser) ==
  /\ parentUser # u
  /\ \E p \in NodesOf(nodes, parentUser) : BeginCreate(h, u, p, 1, TRUE, None)

\* createRootNode's checks.
CheckRoot_NoCheck(h) ==
  /\ tx[h].at = "free"
  /\ tx[h].father = None
  /\ tx[h].order = None
  /\ SchemaComplete
  /\ tx' = [tx EXCEPT ![h].at = "levelled"]
  /\ UNCHANGED <<nodes, couples, draft, newCouples>>

CheckRoot(h) ==
  /\ tx[h].at = "free"
  /\ tx[h].father = None
  /\ tx[h].order = None
  /\ SchemaComplete
  /\ LiveChildren(None) = {}
  /\ tx' = [tx EXCEPT ![h].at = "levelled"]
  /\ UNCHANGED <<nodes, couples, draft, newCouples>>

\* createChildNode and attachToParentNode: the father's row is read ...
ReadFather(h) ==
  /\ tx[h].at = "free"
  /\ tx[h].father # None
  /\ tx' = [tx EXCEPT ![h].at = "placed", ![h].row = nodes[tx[h].father]]
  /\ UNCHANGED <<nodes, couples, draft, newCouples>>

\* ... and has no child.
CheckChild_NoCheck(h) ==
  /\ tx[h].at = "placed"
  /\ SchemaComplete
  /\ tx' = [tx EXCEPT ![h].at = "vacant"]
  /\ UNCHANGED <<nodes, couples, draft, newCouples>>

CheckChild(h) ==
  /\ tx[h].at = "placed"
  /\ SchemaComplete
  /\ LiveChildren(tx[h].father) = {}
  /\ tx' = [tx EXCEPT ![h].at = "vacant"]
  /\ UNCHANGED <<nodes, couples, draft, newCouples>>

\* (parentCouple?.couple_order ?? ROOT_TREE_LEVEL) + 1, of whichever couple of
\* the father's user findOne returns.
ReadLevel(h) ==
  /\ tx[h].at = "vacant"
  /\ LET found == LiveCouples(h, tx[h].row.user)
     IN  \E level \in IF found = {} THEN {RootTreeLevel} ELSE {c.order : c \in found} :
           tx' = [tx EXCEPT ![h].at = "levelled", ![h].level = level + 1]
  /\ UNCHANGED <<nodes, couples, draft, newCouples>>

\* The row of nodes a create inserts: createRootNode ignores the order and
\* takes the DTO's status, attachToParentNode the other way round.
NewRow_NoDefault(h) ==
  [user |-> tx[h].user, father |-> tx[h].father, order |-> tx[h].order,
   live |-> tx[h].father # None \/ tx[h].live]

NewRow(h) ==
  [user |-> tx[h].user, father |-> tx[h].father,
   order |-> IF tx[h].order = None THEN 1 ELSE tx[h].order,
   live |-> tx[h].father # None \/ tx[h].live]

\* What is left to do of a create whose node has a row.
AfterInsert(h) == IF tx[h].father # None THEN "inserted"
                  ELSE IF tx[h].spouse # None THEN "counted" ELSE "created"
AfterCount(h) == IF tx[h].spouse # None THEN "counted" ELSE "created"

\* The INSERTs into nodes and couples.
InsertNode_Upsert(h) ==
  /\ tx[h].at = "levelled"
  /\ \E n \in Nodes :
       /\ MayLock(h, n)
       /\ KeysAreFree(h, n, NewRow(h))
       /\ draft' = [draft EXCEPT ![h][n] = NewRow(h)]
       /\ newCouples' = [newCouples EXCEPT ![h] =
            @ \cup {[user |-> tx[h].user, node |-> n, order |-> tx[h].level, live |-> TRUE]}]
       /\ tx' = [tx EXCEPT ![h].node = n, ![h].at = AfterInsert(h)]
  /\ UNCHANGED <<nodes, couples>>

InsertNode(h) ==
  /\ tx[h].at = "levelled"
  /\ \E n \in Nodes :
       /\ nodes[n] = None
       /\ MayLock(h, n)
       /\ KeysAreFree(h, n, NewRow(h))
       /\ draft' = [draft EXCEPT ![h][n] = NewRow(h)]
       /\ newCouples' = [newCouples EXCEPT ![h] =
            @ \cup {[user |-> tx[h].user, node |-> n, order |-> tx[h].level, live |-> TRUE]}]
       /\ tx' = [tx EXCEPT ![h].node = n, ![h].at = AfterInsert(h)]
  /\ UNCHANGED <<nodes, couples>>

\* incrementMembers: UPDATE nodes SET child_order = child_order + 1.
IncrementMembers_ReadFirst(h) ==
  LET p == tx[h].father
  IN  /\ tx[h].at = "inserted"
      /\ nodes[p].order < OrderMax
      /\ draft' = [draft EXCEPT ![h][p] = [nodes[p] EXCEPT !.order = @ + 1]]
      /\ tx' = [tx EXCEPT ![h].at = AfterCount(h)]
      /\ UNCHANGED <<nodes, couples, newCouples>>

IncrementMembers(h) ==
  LET p == tx[h].father
  IN  /\ tx[h].at = "inserted"
      /\ MayLock(h, p)
      /\ nodes[p].order < OrderMax
      /\ draft' = [draft EXCEPT ![h][p] = [nodes[p] EXCEPT !.order = @ + 1]]
      /\ tx' = [tx EXCEPT ![h].at = AfterCount(h)]
      /\ UNCHANGED <<nodes, couples, newCouples>>

\* createSpouseCouple: a second couple on the new node.  The unique index on
\* couples.node_id, where it is in place, refuses it.
CreateSpouseCouple(h) ==
  LET s == tx[h].spouse
  IN  /\ tx[h].at = "counted"
      /\ NodesOf(View(h), s) = {}
      /\ ~ UniqueIndexes
      /\ \E c \in LiveCouples(h, tx[h].user) :
           newCouples' = [newCouples EXCEPT ![h] = @ \cup
             {[user |-> s, node |-> tx[h].node, order |-> c.order, live |-> TRUE]}]
      /\ tx' = [tx EXCEPT ![h].at = "created"]
      /\ UNCHANGED <<nodes, couples, draft>>

-----------------------------------------------------------------------------
(* update.  Nothing here looks at where the new father hangs.              *)

\* findByPk: the entity whose fields stand in for those the DTO leaves out.
ReadNode(h, n, u, p, o) ==
  /\ tx[h] = Idle
  /\ nodes[n] # None
  /\ p # None => nodes[p] # None
  /\ tx' = [tx EXCEPT ![h] =
              [at |-> "read", node |-> n, user |-> u, father |-> p, order |-> o,
               live |-> TRUE, spouse |-> None, level |-> RootTreeLevel,
               row |-> nodes[n], fields |-> {}]]
  /\ UNCHANGED <<nodes, couples, draft, newCouples>>

\* A new user must have no node but this one.
CheckOwner(h) ==
  LET found == NodesOf(nodes, tx[h].user)
  IN  /\ tx[h].at = "read"
      /\ \/ tx[h].user \in {None, tx[h].row.user}
         \/ found = {}
         \/ tx[h].node \in found
      /\ tx' = [tx EXCEPT ![h].at = "owned"]
      /\ UNCHANGED <<nodes, couples, draft, newCouples>>

\* A new child_order needs a father and differs from that of the one sibling
\* validateMemberOrder looks at.
CheckOrder(h) ==
  LET father == IF tx[h].father # None THEN tx[h].father ELSE tx[h].row.father
      siblings == LiveChildren(father)
  IN  /\ tx[h].at = "owned"
      /\ \/ tx[h].order = tx[h].row.order
         \/ /\ father # None
            /\ SchemaComplete
            /\ \/ siblings = {}
               \/ tx[h].node \in siblings
               \/ \E c \in siblings : nodes[c].order # tx[h].order
      /\ tx' = [tx EXCEPT ![h].at = "ordered"]
      /\ UNCHANGED <<nodes, couples, draft, newCouples>>

\* updateNode's findByPk: node.update(data) writes the columns in which data,
\* made from the DTO and the entity read before, differs from the row read now.
Reread(h) ==
  LET old == tx[h].row
      now == nodes[tx[h].node]
      data == [user   |-> IF tx[h].user # None THEN tx[h].user ELSE old.user,
               father |-> IF tx[h].father # None THEN tx[h].father ELSE old.father,
               order  |-> IF tx[h].order # None THEN tx[h].order ELSE old.order,
               live   |-> old.live]
  IN  /\ tx[h].at = "ordered"
      /\ tx' = [tx EXCEPT ![h].at = "reread", ![h].row = data,
                          ![h].fields = {f \in {"user", "father", "order"} : data[f] # now[f]}]
      /\ UNCHANGED <<nodes, couples, draft, newCouples>>

\* The UPDATE: it locks the row, then writes it and enters its new keys in the
\* indexes.
LockNode(h) ==
  /\ tx[h].at = "reread"
  /\ MayLock(h, tx[h].node)
  /\ draft' = [draft EXCEPT ![h][tx[h].node] = nodes[tx[h].node]]
  /\ tx' = [tx EXCEPT ![h].at = "locked"]
  /\ UNCHANGED <<nodes, couples, newCouples>>

Patched(h, now) ==
  [user   |-> IF "user" \in tx[h].fields THEN tx[h].row.user ELSE now.user,
   father |-> IF "father" \in tx[h].fields THEN tx[h].row.father ELSE now.father,
   order  |-> IF "order" \in tx[h].fields THEN tx[h].row.order ELSE now.order,
   live   |-> now.live]

UpdateNode_WholeRow(h) ==
  /\ tx[h].at = "locked"
  /\ KeysAreFree(h, tx[h].node, tx[h].row)
  /\ draft' = [draft EXCEPT ![h][tx[h].node] = tx[h].row]
  /\ tx' = [tx EXCEPT ![h].at = "updated"]
  /\ UNCHANGED <<nodes, couples, newCouples>>

UpdateNode(h) ==
  LET written == Patched(h, nodes[tx[h].node])
  IN  /\ tx[h].at = "locked"
      /\ KeysAreFree(h, tx[h].node, written)
      /\ draft' = [draft EXCEPT ![h][tx[h].node] = written]
      /\ tx' = [tx EXCEPT ![h].at = "updated"]
      /\ UNCHANGED <<nodes, couples, newCouples>>

-----------------------------------------------------------------------------
(* remove.                                                                 *)

\* findByPk, again without a status filter; a node without a father stays.
ReadVictim(h, n) ==
  /\ tx[h] = Idle
  /\ nodes[n] # None
  /\ nodes[n].father # None
  /\ tx' = [tx EXCEPT ![h] =
              [at |-> "victim", node |-> n, user |-> None, father |-> nodes[n].father,
               order |-> None, live |-> TRUE, spouse |-> None, level |-> RootTreeLevel,
               row |-> None, fields |-> {}]]
  /\ UNCHANGED <<nodes, couples, draft, newCouples>>

CheckLeaf(h) ==
  /\ tx[h].at = "victim"
  /\ SchemaComplete
  /\ LiveChildren(tx[h].node) = {}
  /\ tx' = [tx EXCEPT ![h].at = "leaf"]
  /\ UNCHANGED <<nodes, couples, draft, newCouples>>

SoftDeactivate(h) ==
  LET n == tx[h].node
  IN  /\ tx[h].at = "leaf"
      /\ MayLock(h, n)
      /\ draft' = [draft EXCEPT ![h][n] = [nodes[n] EXCEPT !.live = FALSE]]
      /\ tx' = [tx EXCEPT ![h].at = "deactivated"]
      /\ UNCHANGED <<nodes, couples, newCouples>>

\* decrementMembers on the father that was read with the entity.
DecrementMembers(h) ==
  LET p == tx[h].father
  IN  /\ tx[h].at = "deactivated"
      /\ MayLock(h, p)
      /\ View(h)[p].order > OrderMin
      /\ draft' = [draft EXCEPT ![h][p] = [View(h)[p] EXCEPT !.order = @ - 1]]
      /\ tx' = [tx EXCEPT ![h].at = "removed"]
      /\ UNCHANGED <<nodes, couples, newCouples>>

-----------------------------------------------------------------------------
(* The end of a transaction.                                               *)

\* deactivateByNodeId, which takes effect with the rest of the removal.
WithoutCouplesOf_Fathers(n) ==
  {IF c.node = nodes[n].father THEN [c EXCEPT !.live = FALSE] ELSE c : c \in couples}

WithoutCouplesOf(n) == {IF c.node = n THEN [c EXCEPT !.live = FALSE] ELSE c : c \in couples}

\* runInTransaction commits when the callback returns.
Commit(h) ==
  /\ tx[h].at \in {"created", "updated", "removed"}
  /\ nodes' = View(h)
  /\ couples' = newCouples[h] \cup
                IF tx[h].at = "removed" THEN WithoutCouplesOf(tx[h].node) ELSE couples
  /\ tx' = [tx EXCEPT ![h] = Idle]
  /\ draft' = [draft EXCEPT ![h] = Nothing]
  /\ newCouples' = [newCouples EXCEPT ![h] = {}]

\* A check throws, a statement fails, PostgreSQL ends a deadlock or the process
\* dies: the transaction is rolled back.
Rollback(h) ==
  /\ tx[h] # Idle
  /\ tx' = [tx EXCEPT ![h] = Idle]
  /\ draft' = [draft EXCEPT ![h] = Nothing]
  /\ newCouples' = [newCouples EXCEPT ![h] = {}]
  /\ UNCHANGED <<nodes, couples>>

Create(h) == CheckRoot(h) \/ ReadFather(h) \/ CheckChild(h) \/ ReadLevel(h) \/ InsertNode(h)
             \/ IncrementMembers(h) \/ CreateSpouseCouple(h)
Update(h) == CheckOwner(h) \/ CheckOrder(h) \/ Reread(h) \/ LockNode(h) \/ UpdateNode(h)
Remove(h) == CheckLeaf(h) \/ SoftDeactivate(h) \/ DecrementMembers(h)

Next == \E h \in Handlers :
  \/ /\ "create" \in Kinds
     /\ \E u \in Users, p \in Nodes \cup {None}, o \in Orders \cup {None}, on \in BOOLEAN,
           s \in Spouses \cup {None} : BeginCreate(h, u, p, o, on, s)
  \/ "attach" \in Kinds /\ \E u, parentUser \in Users : AttachMember(h, u, parentUser)
  \/ /\ "update" \in Kinds
     /\ \E n \in Nodes, u \in NewUsers \cup {None}, p \in Nodes \cup {None},
           o \in Orders \cup {None} : ReadNode(h, n, u, p, o)
  \/ "remove" \in Kinds /\ \E n \in Nodes : ReadVictim(h, n)
  \/ Create(h)
  \/ Update(h)
  \/ Remove(h)
  \/ Commit(h)
  \/ Rollback(h)

Spec == Init /\ [][Next]_vars

-----------------------------------------------------------------------------
(* Properties.                                                             *)

\* "Family trees must not contain cycles": attaching and removing keep to that
\* however they interleave, fail and roll back.
Acyclic == \A S \in SUBSET Nodes : ~ Cyclic(S, nodes)

\* A node and its couple come and go together: no interleaving, failure or
\* rollback leaves a node in the tree whose couple is missing or deactivated.
LiveNodeHasCouple ==
  \A n \in Nodes : nodes[n] # None /\ nodes[n].live
                   => \E c \in couples : c.node = n /\ c.live

\* A removed node stays removed: no update or attachment that read its row
\* before the removal writes the old row back.
RemovedStaysRemoved ==
  [][\A n \in Nodes : nodes[n] # None /\ ~ nodes[n].live => ~ nodes'[n].live]_vars

\* The member count that attach and remove keep in the father's child_order
\* loses no update: a commit moves it by exactly one from what it is then.
CountMovesByOne ==
  [][\A h \in Handlers :
       LET p == tx[h].father
       IN  /\ tx[h].at \in {"created", "removed"}
           /\ nodes' # nodes
           /\ tx'[h] = Idle
           /\ p # None
           /\ p # tx[h].node
           => nodes'[p].order = nodes[p].order + IF tx[h].at = "created" THEN 1 ELSE -1]_vars

\* "A family tree must have exactly one root node": never a second one, if
\* requests do not overlap ...
OneLiveRoot == \A m, n \in LiveChildren(None) : m = n

\* ... and a father has one child, as long as update moves no node.
OnlyChild == \A p \in Nodes : \A m, n \in LiveChildren(p) : m = n

\* With the unique indexes of the migrations, requests that overlap give no user
\* two nodes and no father two children.
KeysAreUnique ==
  \A m, n \in Nodes :
    /\ m # n
    /\ nodes[m] # None
    /\ nodes[n] # None
    => /\ nodes[m].user # nodes[n].user
       /\ nodes[m].father = nodes[n].father => nodes[m].father = None

(* What the documents say and the code does not keep.                      *)

\* "Orphan nodes are not allowed": the father of a node of the tree is in it.
NoOrphan ==
  \A n \in Nodes : nodes[n] # None /\ nodes[n].live /\ nodes[n].father # None
                   => nodes[nodes[n].father].live

\* "Concurrent updates must be handled safely": an update that names no new
\* father leaves the father as it is.
UnnamedFatherIsKept ==
  [][\A h \in Handlers :
       tx[h].at = "updated" /\ tx[h].father = None /\ tx'[h] = Idle
       => nodes'[tx[h].node].father = nodes[tx[h].node].father]_vars

\* "Add parent child relationship: Success": a request that has found its father,
\* and no child there, goes on.
ChildCanBeAdded ==
  \A h \in Handlers : tx[h].at = "placed" /\ LiveChildren(tx[h].father) = {}
                     => ENABLED CheckChild(h)
=============================================================================
