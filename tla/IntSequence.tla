---------------------------- MODULE IntSequence ----------------------------
(***************************************************************************)
(* What linked_list.h of LAB4 promises: a list is a sequence of integers,  *)
(* which grows by one at either end, whose elements are replaced one at a  *)
(* time, and which is emptied as a whole.                                  *)
(***************************************************************************)
EXTENDS Integers, Sequences

VARIABLE value

Init == value = <<>>

AddFront(old, new) == Len(new) = Len(old) + 1 /\ Tail(new) = old

AddBack(old, new) == /\ Len(new) = Len(old) + 1
                     /\ SubSeq(new, 1, Len(old)) = old

Replace(old, new) == /\ Len(new) = Len(old)
                     /\ \E i \in 1 .. Len(old) :
                          \A j \in (1 .. Len(old)) \ {i} : new[j] = old[j]

Empty(new) == new = <<>>

Change(old, new) == \/ AddFront(old, new) \/ AddBack(old, new)
                    \/ Replace(old, new) \/ Empty(new)

Next == \E old \in {value}, new \in {value'} : Change(old, new)

Spec == Init /\ [][Next]_value
=============================================================================
