------------------------------ MODULE MCFamilyTree ------------------------------
\* FamilyTree and its views on small sets, for TLC.
EXTENDS FamilyTreeView, TLC

CONSTANTS a, b, c,      \* nodes
          ua, ub, uc    \* users

\* Empty tables.
NoNodes == [n \in Nodes |-> None]
NoCouples == {}

\* An imported line of descent, a above b above c, with its couples, or the
\* part of it that lies in Nodes.
Chain ==
  (a :> [user |-> ua, father |-> None, order |-> 1, live |-> TRUE]) @@
  (b :> [user |-> ub, father |-> a, order |-> 1, live |-> TRUE]) @@
  (c :> [user |-> uc, father |-> b, order |-> 1, live |-> TRUE])
ChainNodes == [n \in Nodes |-> Chain[n]]
Level == (a :> 0) @@ (b :> 1) @@ (c :> 2)
ChainCouples ==
  {[user |-> Chain[n].user, node |-> n, order |-> Level[n], live |-> TRUE] : n \in Nodes}

\* Two imported lines of descent that are not joined yet: a above b, and c.
TwoLines == [ChainNodes EXCEPT ![c].father = None]
TwoLinesCouples ==
  {[user |-> Chain[n].user, node |-> n, order |-> IF n = b THEN 1 ELSE 0, live |-> TRUE] : n \in Nodes}

\* A tree of its root alone.
RootNodes == [NoNodes EXCEPT ![a] = Chain[a]]
RootCouples == {[user |-> ua, node |-> a, order |-> 0, live |-> TRUE]}

Symmetry == Permutations(Handlers)

\* Where nothing is imported, nodes and users are only compared, too.
FullSymmetry == Permutations(Handlers) \cup Permutations(Nodes) \cup Permutations(Users)
=============================================================================
