----------------------------- MODULE Allocator -----------------------------
(***************************************************************************)
(* What a caller of custom_alloc and custom_free (LAB6, mem_alloc.h) may   *)
(* rely on: a block is memory nobody else has been given, and it stays     *)
(* where and as large as it is until its owner frees it.                   *)
(***************************************************************************)
EXTENDS Naturals

VARIABLE blocks    \* the blocks in use: records of their first byte and size

Block == [start : Nat, size : Nat]
Disjoint(b, c) == b.start + b.size <= c.start \/ c.start + c.size <= b.start

Init == blocks = {}

Allocate(b) == /\ b \in Block
               /\ \A c \in blocks : b.start # c.start /\ Disjoint(b, c)
               /\ blocks' = blocks \cup {b}

Free(b) == /\ b \in blocks
           /\ blocks' = blocks \ {b}

Next == \/ \E b \in blocks' : Allocate(b)
        \/ \E b \in blocks : Free(b)

Spec == Init /\ [][Next]_blocks
=============================================================================
