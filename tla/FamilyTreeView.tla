----------------------------- MODULE FamilyTreeView ----------------------------
(***************************************************************************)
(* What GET dmn-nodes/tree, /parents/:userId and /childs/:userId show of   *)
(* the committed tables: NodeService.getAllAsTree with mapEntityToTree,    *)
(* getParents and getChilds.                                               *)
(***************************************************************************)
EXTENDS FamilyTree

\* mapEntityToTree, from a node down: its children among the rows with status
\* true, without those whose user is active (they go with all below them).
TreeBelow_All(n, active) ==
    LET below[d \in 0..Cardinality(Nodes)] ==
          IF d = 0 THEN {n}
          ELSE below[d - 1] \cup
                 {c \in Nodes : nodes[c] # None /\ nodes[c].father \in below[d - 1]
                                  /\ nodes[c].user \notin active}
    IN  below[Cardinality(Nodes)]

TreeBelow(n, active) ==
    LET below[d \in 0..Cardinality(Nodes)] ==
          IF d = 0 THEN {n}
          ELSE below[d - 1] \cup
                 {c \in UNION {LiveChildren(p) : p \in below[d - 1]} : nodes[c].user \notin active}
    IN  below[Cardinality(Nodes)]

\* getAllAsTree: from whichever root comes first, and 404 without one.
Trees(active) == {TreeBelow(root, active) : root \in LiveChildren(None)}

\* getParents, from any node of the user, removed or not.
Parents(u) == {nodes[n].father : n \in NodesOf(nodes, u)} \ {None}

\* getChilds: one child of the node, although the answer is a list.
Childs(u) == {c \in Nodes : \E n \in NodesOf(nodes, u) : c \in LiveChildren(n)}

-----------------------------------------------------------------------------

\* The nodes above n, and n.
Line(n) ==
    LET up[d \in 0..Cardinality(Nodes)] ==
          IF d = 0 THEN {n}
          ELSE up[d - 1] \cup ({nodes[m].father : m \in up[d - 1]} \ {None})
    IN  up[Cardinality(Nodes)]

\* The three views tell one tree.  Every node of it that hangs on the root by
\* nodes of the tree, none of them an active user's, is shown, and nothing
\* else is; what getParents tells of a child, getChilds tells of the father.
ViewsAgree ==
    /\ \A active \in SUBSET Users : \A tree \in Trees(active) :
          tree = {n \in Nodes : /\ nodes[n] # None
                                /\ \A m \in Line(n) : /\ nodes[m].live
                                                      /\ nodes[m].user \in active
                                                           => nodes[m].father = None}
    /\ \A n, p \in Nodes : nodes[n] # None /\ nodes[n].live /\ nodes[n].father = p
          => Parents(nodes[n].user) = {p} /\ Childs(nodes[p].user) = {n}
=============================================================================
