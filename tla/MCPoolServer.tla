---------------------------- MODULE MCPoolServer ----------------------------
(* Instances of PoolServer for TLC.                                        *)
EXTENDS PoolServer, TLC

CONSTANTS c1, c2, c3

\* The number of paths each client asks for: c3 sends the empty line only.
AllPolite == [c \in Clients |-> IF c = c2 THEN 2 ELSE 1]
OneMalformed == [c \in Clients |-> IF c = c3 THEN 0 ELSE 1]

\* Descriptors are interchangeable: only safety is checked under this symmetry.
FdSymmetry == Permutations(Fds)
=============================================================================
