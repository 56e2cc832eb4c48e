-------------------------------- MODULE DequeSpec -------------------------------
(***************************************************************************)
(* What a list with append and prepend promises: it is a sequence, and     *)
(* display, getSize, getHead, getTail, and the way back over prev where    *)
(* there is one, tell that sequence.                                       *)
(***************************************************************************)
EXTENDS Naturals, Sequences, SequencesExt

CONSTANTS Lists, Data, MaxSize

VARIABLE shown

None == "null"

Show(s) == [display |-> s,
            size |-> Len(s),
            head |-> IF s = <<>> THEN None ELSE s[1],
            tail |-> IF s = <<>> THEN None ELSE s[Len(s)],
            back |-> Reverse(s)]

Init == shown = [l \in Lists |-> Show(<<>>)]

Grows(l) == /\ shown'[l].size = shown[l].size + 1
            /\ shown'[l].size <= MaxSize

Becomes(l, s) == shown' = [shown EXCEPT ![l] = Show(s)]

Next == \E l \in Lists :
           /\ Grows(l)
           /\ \E x \in Data : \/ Becomes(l, Append(shown[l].display, x))
                              \/ Becomes(l, <<x>> \o shown[l].display)

Spec == Init /\ [][Next]_shown
=============================================================================
