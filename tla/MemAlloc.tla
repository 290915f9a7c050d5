------------------------------ MODULE MemAlloc ------------------------------
(***************************************************************************)
(* The first-fit allocator of LAB6 (mem_alloc.c): a list of chunks, each   *)
(* with a header, that tiles the memory mapped from HEAP_START upwards.    *)
(* custom_alloc walks the list, merges runs of free chunks, maps another   *)
(* page when it reaches the end, and splits the chunk it takes.            *)
(*                                                                         *)
(* A header is named by its address.  Headers swallowed by a merge are     *)
(* forgotten.  The caller frees only blocks it was given, once.            *)
(***************************************************************************)
EXTENDS Integers, FiniteSets

CONSTANTS
  HEAP_START,    \* first address of the heap
  HeaderSize,    \* sizeof(struct mem)
  CHUNK_ALIGN,
  PageSize,      \* MINIMAL_HEAP_SIZE
  SizeMod,       \* 2^w, w the width of size_t
  MaxPages,      \* pages the kernel grants in all
  Queries        \* the sizes callers ask for

ASSUME HeapAssumption ==
  /\ HEAP_START \in Nat \ {0}
  /\ HeaderSize \in Nat \ {0} /\ CHUNK_ALIGN \in Nat \ {0}
  /\ PageSize \in Nat /\ PageSize >= HeaderSize + CHUNK_ALIGN
  /\ SizeMod \in Nat \ {0} /\ MaxPages \in Nat \ {0}
  /\ Queries \subseteq 0 .. SizeMod - 1

ASSUME AlignAssumption ==
  /\ HeaderSize % CHUNK_ALIGN = 0 /\ PageSize % CHUNK_ALIGN = 0
  /\ HEAP_START % CHUNK_ALIGN = 0 /\ SizeMod % CHUNK_ALIGN = 0

NULL == 0
CHUNK_MIN_SIZE == HeaderSize + CHUNK_ALIGN

VARIABLES
  next, capacity, is_free,   \* the headers: functions of their addresses
  pages,                     \* pages mapped so far
  pc, chunk, query, asked,   \* the call in progress and its variables
  live,                      \* blocks in use: what was asked for, by chunk
  failed                     \* "no", "crashed" or "relocated"

headers == <<next, capacity, is_free>>
vars == <<headers, pages, pc, chunk, query, asked, live, failed>>

Chunks == DOMAIN next
HeapEnd == HEAP_START + pages * PageSize
EndOf(c) == c + HeaderSize + capacity[c]

(* heap_space_init, lines 9-16.                                            *)
Init ==
  /\ next = [c \in {HEAP_START} |-> NULL]
  /\ capacity = [c \in {HEAP_START} |-> PageSize - HeaderSize]
  /\ is_free = [c \in {HEAP_START} |-> TRUE]
  /\ pages = 1
  /\ pc = "idle" /\ chunk = NULL /\ query = 0 /\ asked = 0
  /\ live = [c \in {} |-> 0]
  /\ failed = "no"

With(f, c, v) == [d \in DOMAIN f \cup {c} |-> IF d = c THEN v ELSE f[d]]
Without(f, c) == [d \in DOMAIN f \ {c} |-> f[d]]

-----------------------------------------------------------------------------

\* Fault: the size is rounded down.
AlignDown(q) == q - (q % CHUNK_ALIGN)

(* Line 32, in the arithmetic of size_t.                                   *)
AlignUp(q) ==
  IF q % CHUNK_ALIGN # 0 THEN (q + CHUNK_ALIGN - (q % CHUNK_ALIGN)) % SizeMod ELSE q

CallAlloc(q) ==
  /\ pc = "idle"
  /\ query' = AlignUp(q) /\ asked' = q
  /\ chunk' = HEAP_START
  /\ pc' = "alloc"
  /\ UNCHANGED <<headers, pages, live, failed>>

(* Lines 26-27: the header lies before the block.                          *)
CallFree(c) ==
  /\ pc = "idle" /\ c \in DOMAIN live
  /\ is_free' = [is_free EXCEPT ![c] = TRUE]
  /\ live' = Without(live, c)
  /\ chunk' = c
  /\ pc' = "free"
  /\ UNCHANGED <<next, capacity, pages, query, asked, failed>>

Return == pc' = "idle" /\ chunk' = NULL /\ query' = 0 /\ asked' = 0

CanMerge(c) == next[c] # NULL /\ is_free[next[c]]

\* Fault: the next chunk is merged whether it is free or not.
MergeAny ==
  /\ pc = "free" \/ (pc = "alloc" /\ is_free[chunk])
  /\ next[chunk] # NULL
  /\ LET n == next[chunk] IN
       /\ capacity' = Without([capacity EXCEPT ![chunk] = @ + capacity[n] + HeaderSize], n)
       /\ next' = Without([next EXCEPT ![chunk] = next[n]], n)
       /\ is_free' = Without(is_free, n)
  /\ UNCHANGED <<pages, pc, chunk, query, asked, live, failed>>

\* Fault: the header of the swallowed chunk is not counted.
MergeWithoutHeader ==
  /\ pc = "free" \/ (pc = "alloc" /\ is_free[chunk])
  /\ CanMerge(chunk)
  /\ LET n == next[chunk] IN
       /\ capacity' = Without([capacity EXCEPT ![chunk] = @ + capacity[n]], n)
       /\ next' = Without([next EXCEPT ![chunk] = next[n]], n)
       /\ is_free' = Without(is_free, n)
  /\ UNCHANGED <<pages, pc, chunk, query, asked, live, failed>>

(* One round of merge_free_chunks, lines 18-23.                            *)
Merge ==
  /\ pc = "free" \/ (pc = "alloc" /\ is_free[chunk])
  /\ CanMerge(chunk)
  /\ LET n == next[chunk] IN
       /\ capacity' = Without([capacity EXCEPT ![chunk] = @ + capacity[n] + HeaderSize], n)
       /\ next' = Without([next EXCEPT ![chunk] = next[n]], n)
       /\ is_free' = Without(is_free, n)
  /\ UNCHANGED <<pages, pc, chunk, query, asked, live, failed>>

FreeReturns ==
  /\ pc = "free" /\ ~CanMerge(chunk)
  /\ Return
  /\ UNCHANGED <<headers, pages, live, failed>>

-----------------------------------------------------------------------------
(* custom_alloc, lines 31-74: chunk is merged before it is judged.         *)

Fits == is_free[chunk] /\ ~CanMerge(chunk) /\ capacity[chunk] >= query
TooSmall == ~is_free[chunk] \/ (~CanMerge(chunk) /\ capacity[chunk] < query)

\* Fault: the walk starts again at the beginning of the heap.
AdvanceFromStart ==
  /\ pc = "alloc" /\ TooSmall /\ next[chunk] # NULL
  /\ chunk' = next[HEAP_START]
  /\ UNCHANGED <<headers, pages, pc, query, asked, live, failed>>

Advance ==
  /\ pc = "alloc" /\ TooSmall /\ next[chunk] # NULL
  /\ chunk' = next[chunk]
  /\ UNCHANGED <<headers, pages, pc, query, asked, live, failed>>

\* Fault: the heap grows at the first chunk that is too small.
GrowEarly ==
  /\ pc = "alloc" /\ TooSmall /\ pages < MaxPages
  /\ next' = With([c \in Chunks |-> IF next[c] = NULL THEN HeapEnd ELSE next[c]], HeapEnd, NULL)
  /\ capacity' = With(capacity, HeapEnd, PageSize - HeaderSize)
  /\ is_free' = With(is_free, HeapEnd, TRUE)
  /\ pages' = pages + 1
  /\ UNCHANGED <<pc, chunk, query, asked, live, failed>>

(* Lines 43-55 when the kernel maps the page right behind the last chunk.  *)
Grow ==
  /\ pc = "alloc" /\ TooSmall /\ next[chunk] = NULL /\ pages < MaxPages
  /\ LET n == EndOf(chunk) IN
       /\ next' = With([next EXCEPT ![chunk] = n], n, NULL)
       /\ capacity' = With(capacity, n, PageSize - HeaderSize)
       /\ is_free' = With(is_free, n, TRUE)
  /\ pages' = pages + 1
  /\ UNCHANGED <<pc, chunk, query, asked, live, failed>>

(* Lines 47-50: it does not, but maps a page somewhere else, and from here *)
(* on the chunks do not tile the heap: the model follows them no further.  *)
GrowElsewhere ==
  /\ pc = "alloc" /\ TooSmall /\ next[chunk] = NULL /\ pages < MaxPages
  /\ failed' = "relocated"
  /\ UNCHANGED <<headers, pages, pc, chunk, query, asked, live>>

(* There is no memory at all: line 52 writes through MAP_FAILED.           *)
GrowFails ==
  /\ pc = "alloc" /\ TooSmall /\ next[chunk] = NULL /\ pages = MaxPages
  /\ failed' = "crashed"
  /\ UNCHANGED <<headers, pages, pc, chunk, query, asked, live>>

(* Lines 61-62: the rest becomes a chunk when a block fits into it.        *)
SplitWorthwhile(remaining) == remaining >= CHUNK_MIN_SIZE

\* Fault: the rest is given out once more (line 70 without the header).
TakeAndOverlap ==
  /\ pc = "alloc" /\ Fits
  /\ LET remaining == capacity[chunk] - query
         n == chunk + HeaderSize + query
     IN IF SplitWorthwhile(remaining)
        THEN /\ next' = With([next EXCEPT ![chunk] = n], n, next[chunk])
             /\ capacity' = With([capacity EXCEPT ![chunk] = query], n, remaining)
             /\ is_free' = With([is_free EXCEPT ![chunk] = FALSE], n, TRUE)
        ELSE /\ is_free' = [is_free EXCEPT ![chunk] = FALSE]
             /\ UNCHANGED <<next, capacity>>
  /\ live' = With(live, chunk, asked)
  /\ Return
  /\ UNCHANGED <<pages, failed>>

(* Lines 58-73.                                                            *)
Take ==
  /\ pc = "alloc" /\ Fits
  /\ LET remaining == capacity[chunk] - query
         n == chunk + HeaderSize + query
     IN IF SplitWorthwhile(remaining)
        THEN /\ next' = With([next EXCEPT ![chunk] = n], n, next[chunk])
             /\ capacity' = With([capacity EXCEPT ![chunk] = query], n, remaining - HeaderSize)
             /\ is_free' = With([is_free EXCEPT ![chunk] = FALSE], n, TRUE)
        ELSE /\ is_free' = [is_free EXCEPT ![chunk] = FALSE]
             /\ UNCHANGED <<next, capacity>>
  /\ live' = With(live, chunk, asked)
  /\ Return
  /\ UNCHANGED <<pages, failed>>

Step == Merge \/ FreeReturns \/ Advance \/ Grow \/ GrowElsewhere \/ GrowFails \/ Take

Next == /\ failed = "no"
        /\ \/ \E q \in Queries : CallAlloc(q)
           \/ \E c \in DOMAIN live : CallFree(c)
           \/ Step

Spec == Init /\ [][Next]_vars
FairSpec == Spec /\ WF_vars(failed = "no" /\ Step)

-----------------------------------------------------------------------------
(* Correctness.                                                            *)

(* Type invariant: the values every variable ranges over.                  *)
TypeOK ==
  /\ Chunks \subseteq Nat \ {NULL} /\ HEAP_START \in Chunks
  /\ next \in [Chunks -> Chunks \cup {NULL}]
  /\ capacity \in [Chunks -> Nat]
  /\ is_free \in [Chunks -> BOOLEAN]
  /\ pages \in 1 .. MaxPages
  /\ pc \in {"idle", "alloc", "free"}
  /\ chunk \in Chunks \cup {NULL} /\ (pc # "idle" => chunk # NULL)
  /\ query \in 0 .. SizeMod - 1 /\ asked \in 0 .. SizeMod - 1
  /\ DOMAIN live \subseteq Chunks /\ live \in [DOMAIN live -> Nat]
  /\ failed \in {"no", "crashed", "relocated"}

(* The chunks tile the mapped memory: each ends where its successor        *)
(* begins, the last at the end of the heap, and no chunk is unlinked.      *)
Tiling ==
  \A c \in Chunks :
    /\ EndOf(c) = IF next[c] = NULL THEN HeapEnd ELSE next[c]
    /\ \A d \in Chunks : c < d => EndOf(c) <= d

(* The blocks in use are the chunks marked as not free: none is lost       *)
(* between the list and the callers, none is in both hands.  A block is    *)
(* aligned and has room for what was asked for, unless the rounding of     *)
(* line 32 wrapped around in size_t.                                       *)
LiveMatches ==
  /\ DOMAIN live = {c \in Chunks : ~is_free[c]}
  /\ \A c \in DOMAIN live :
       /\ c % CHUNK_ALIGN = 0 /\ capacity[c] % CHUNK_ALIGN = 0
       /\ live[c] <= SizeMod - CHUNK_ALIGN => capacity[c] >= live[c]

(* No call moves, shrinks or takes a block that is in use.                 *)
BlocksStay ==
  [][\A c \in DOMAIN live :
       c \in DOMAIN live' =>
         c \in Chunks' /\ capacity'[c] = capacity[c] /\ ~is_free'[c]]_vars

(* The heap grows only when no run of neighbouring free chunks, whichever  *)
(* calls freed them, has room for the query.                               *)
FreeRun(c, d) == \A e \in Chunks : c <= e /\ e <= d => is_free[e]
GrowsOnlyIfFull ==
  [][pages' > pages =>
       \A c, d \in Chunks :
         c <= d /\ FreeRun(c, d) => EndOf(d) - c - HeaderSize < query]_vars

(* The heap implements the abstract allocator.                             *)
Blocks == {[start |-> c + HeaderSize, size |-> capacity[c]] : c \in DOMAIN live}
Abstract == INSTANCE Allocator WITH blocks <- Blocks
AllocatorSpec == Abstract!Spec

(* Every call returns, unless the memory is exhausted or the kernel places *)
(* a page elsewhere.                                                       *)
CallsReturn == pc # "idle" ~> (pc = "idle" \/ failed # "no")
=============================================================================
