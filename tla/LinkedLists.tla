------------------------------- MODULE LinkedLists ------------------------------
(***************************************************************************)
(* SinglyLinkedList and DoublyLinkedList: nodes that point at each other,  *)
(* with a head, a tail and a size kept apart from them.  Node 0 is null.   *)
(***************************************************************************)
EXTENDS Naturals, Sequences, SequencesExt

CONSTANTS Data,          \* what a node holds
          MaxSize        \* bound: nodes of a list

VARIABLE lists           \* [{"singly", "doubly"} -> head, tail, size and the nodes]

Lists == {"singly", "doubly"}

Empty == [head |-> 0, tail |-> 0, size |-> 0, next |-> <<>>, prev |-> <<>>, data |-> <<>>]

Init == lists = [l \in Lists |-> Empty]

\* The new node is the next number; its pointers are null.
WithNode(x, l) == [l EXCEPT !.next = Append(@, 0), !.prev = Append(@, 0), !.data = Append(@, x),
                            !.size = @ + 1]
NewNode(l) == Len(l.data) + 1

PutLast_TailStays(kind, x, l) ==
    LET n == NewNode(l) IN
    IF l.head = 0 THEN [WithNode(x, l) EXCEPT !.head = n, !.tail = n]
    ELSE [WithNode(x, l) EXCEPT !.next[l.tail] = n,
                                !.prev[n] = IF kind = "doubly" THEN l.tail ELSE 0]

\* append: only the doubly linked list has prev.
PutLast(kind, x, l) ==
    LET n == NewNode(l) IN
    IF l.head = 0 THEN [WithNode(x, l) EXCEPT !.head = n, !.tail = n]
    ELSE [WithNode(x, l) EXCEPT !.next[l.tail] = n, !.tail = n,
                                !.prev[n] = IF kind = "doubly" THEN l.tail ELSE 0]

\* prepend
PutFirst(kind, x, l) ==
    LET n == NewNode(l) IN
    IF l.head = 0 THEN [WithNode(x, l) EXCEPT !.head = n, !.tail = n]
    ELSE [WithNode(x, l) EXCEPT !.next[n] = l.head, !.head = n,
                                !.prev[l.head] = IF kind = "doubly" THEN n ELSE 0]

Next == \E kind \in Lists, x \in Data :
           /\ lists[kind].size < MaxSize
           /\ \/ lists' = [lists EXCEPT ![kind] = PutLast(kind, x, @)]
              \/ lists' = [lists EXCEPT ![kind] = PutFirst(kind, x, @)]

-----------------------------------------------------------------------------
(* What the lists tell.                                                    *)

\* display: current = current.next until it is null, the size being a bound.
Walk(start, link, l) ==
    LET at[i \in 0..l.size] == IF i = 0 THEN start
                               ELSE IF at[i - 1] = 0 THEN 0 ELSE link[at[i - 1]]
    IN  [i \in {k \in 1..(l.size + 1) : at[k - 1] # 0} |-> l.data[at[i - 1]]]

DataOf(n, l) == IF n = 0 THEN "null" ELSE l.data[n]

\* A list with no prev has its way back from the way forth.
Told(kind, l) ==
    LET forth == Walk(l.head, l.next, l) IN
    [display |-> forth,
     size |-> l.size,
     head |-> DataOf(l.head, l),
     tail |-> DataOf(l.tail, l),
     back |-> IF kind = "doubly" THEN Walk(l.tail, l.prev, l) ELSE Reverse(forth)]

Deque == INSTANCE DequeSpec WITH shown <- [kind \in Lists |-> Told(kind, lists[kind])]

\* Pointers, ends and size stay those of one sequence, and a call changes it at
\* one end only.
ListsAreSequences == Deque!Spec
=============================================================================
