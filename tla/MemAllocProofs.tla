--------------------------- MODULE MemAllocProofs ---------------------------
(***************************************************************************)
(* Proofs about MemAlloc, for any geometry of the heap and any sequence of *)
(* calls: the chunks tile the heap, the callers' blocks are the chunks in  *)
(* use and stay where they are, the heap grows only when it is full, and   *)
(* the allocator implements Allocator.                                     *)
(***************************************************************************)
EXTENDS MemAlloc, TLAPS

(* No chunk lies outside the mapped memory.                                *)
Bounds == \A c \in Chunks : HEAP_START <= c /\ EndOf(c) <= HeapEnd

(* Free chunks are aligned, too: they become blocks, or part of one.       *)
Aligned == \A c \in Chunks : c % CHUNK_ALIGN = 0 /\ capacity[c] % CHUNK_ALIGN = 0

(* The call in progress: what it frees is marked, what it looks for is the *)
(* rounded size.                                                           *)
CallInv ==
  /\ pc = "free" => is_free[chunk]
  /\ pc = "alloc" => /\ query % CHUNK_ALIGN = 0
                     /\ asked <= SizeMod - CHUNK_ALIGN => query >= asked

(* What the walk has passed is in use, or too small and merged with every  *)
(* free chunk behind it.                                                   *)
WalkInv ==
  pc = "alloc" =>
    \A c \in Chunks : c < chunk /\ is_free[c] => capacity[c] < query /\ ~is_free[next[c]]

IInv == TypeOK /\ Tiling /\ Bounds /\ Aligned /\ LiveMatches /\ CallInv /\ WalkInv

-----------------------------------------------------------------------------
(* Arithmetic of multiples: sums, differences and gaps.                    *)
LEMMA Division ==
  ASSUME NEW a \in Int, NEW m \in Nat \ {0}
  PROVE  a \div m \in Int /\ a % m \in 0 .. m - 1 /\ a = m * (a \div m) + (a % m)
  OBVIOUS

(* A multiple is a product ...                                             *)
LEMMA Factor ==
  ASSUME NEW a \in Int, NEW m \in Nat \ {0}, a % m = 0
  PROVE  \E k \in Int : a = m * k
<1>1. a \div m \in Int /\ a = m * (a \div m)
  BY Division
<1> QED
  BY <1>1

(* ... and a product is a multiple.                                        *)
LEMMA Product ==
  ASSUME NEW k \in Int, NEW m \in Nat \ {0}
  PROVE  (m * k) % m = 0
  OBVIOUS

(* Sums and differences of multiples are multiples.                        *)
LEMMA Multiples ==
  ASSUME NEW a \in Int, NEW b \in Int, NEW m \in Nat \ {0}, a % m = 0, b % m = 0
  PROVE  (a + b) % m = 0 /\ (a - b) % m = 0
<1>1. PICK i \in Int : a = m * i
  BY Factor
<1>2. PICK j \in Int : b = m * j
  BY Factor
<1>3. a + b = m * (i + j) /\ a - b = m * (i - j)
  BY <1>1, <1>2
<1> QED
  BY <1>3, Product

(* Two multiples are at least one divisor apart.                           *)
LEMMA MultipleGap ==
  ASSUME NEW a \in Int, NEW b \in Int, NEW m \in Nat \ {0}, a % m = 0, b % m = 0, a < b
  PROVE  a + m <= b
<1>1. PICK i \in Int : a = m * i
  BY Factor
<1>2. PICK j \in Int : b = m * j
  BY Factor
<1>3. i < j
  BY <1>1, <1>2
<1>4. m * (i + 1) <= m * j
  BY <1>3
<1> QED
  BY <1>1, <1>2, <1>4

(* Rounding up (line 32) does not pass a multiple that bounds the number.  *)
LEMMA NextMultiple ==
  ASSUME NEW q \in Nat, NEW m \in Nat \ {0}, NEW bound \in Nat, bound % m = 0,
         q < bound, q % m # 0
  PROVE  LET up == q + m - (q % m)
         IN  up \in Nat /\ up % m = 0 /\ q < up /\ up <= bound
<1> DEFINE r == q % m
           k == q \div m
<1>1. k \in Int /\ r \in 1 .. m - 1 /\ q = m * k + r
  BY Division
<1>2. q + m - r = m * (k + 1)
  BY <1>1
<1>3. (m * (k + 1)) % m = 0 /\ (m * k) % m = 0
  BY <1>1, Product
<1>4. m * k + m <= bound
  <2> DEFINE low == m * k
  <2>1. low \in Int /\ low < bound /\ low % m = 0 /\ bound \in Int /\ bound % m = 0
    BY <1>1, <1>3
  <2> HIDE DEF low
  <2>2. low + m <= bound
    BY <2>1, MultipleGap, Zenon
  <2> QED
    BY <2>2 DEF low
<1> QED
  BY <1>1, <1>2, <1>3, <1>4

(* Line 32 rounds up to a multiple of the alignment; a size too close to   *)
(* the largest size_t wraps around to 0.                                   *)
LEMMA AlignUpProperties ==
  ASSUME NEW q \in 0 .. SizeMod - 1
  PROVE  /\ AlignUp(q) \in 0 .. SizeMod - 1
         /\ AlignUp(q) % CHUNK_ALIGN = 0
         /\ q <= SizeMod - CHUNK_ALIGN => AlignUp(q) >= q
<1> DEFINE up == q + CHUNK_ALIGN - (q % CHUNK_ALIGN)
<1>0. /\ q \in Nat /\ CHUNK_ALIGN \in Nat \ {0} /\ SizeMod \in Nat \ {0}
      /\ q < SizeMod /\ SizeMod % CHUNK_ALIGN = 0
  BY HeapAssumption, AlignAssumption
<1>1. CASE q % CHUNK_ALIGN = 0
  BY <1>0, <1>1 DEF AlignUp
<1>2. CASE q % CHUNK_ALIGN # 0
  <2>1. up \in Nat /\ up % CHUNK_ALIGN = 0 /\ q < up /\ up <= SizeMod
    BY <1>0, <1>2, NextMultiple
  <2>2. AlignUp(q) = up % SizeMod
    BY <1>2 DEF AlignUp
  <2>3. CASE up < SizeMod
    <3> HIDE DEF up
    <3>1. up % SizeMod = up
      BY <1>0, <2>1, <2>3
    <3> QED
      BY <1>0, <2>1, <2>2, <2>3, <3>1
  <2>4. CASE up = SizeMod
    <3>1. AlignUp(q) = 0 /\ 0 % CHUNK_ALIGN = 0
      BY <1>0, <2>2, <2>4
    <3>2. q > SizeMod - CHUNK_ALIGN
      <4>1. q % CHUNK_ALIGN \in 1 .. CHUNK_ALIGN - 1
        BY <1>0, <1>2, Division
      <4> QED
        BY <1>0, <2>4, <4>1
    <3> QED
      BY <1>0, <3>1, <3>2
  <2> QED
    BY <1>0, <2>1, <2>3, <2>4
<1> QED
  BY <1>1, <1>2

(* A page without its header is aligned.                                   *)
LEMMA PageAligned == (PageSize - HeaderSize) % CHUNK_ALIGN = 0
<1>1. /\ PageSize \in Int /\ HeaderSize \in Int /\ CHUNK_ALIGN \in Nat \ {0}
      /\ PageSize % CHUNK_ALIGN = 0 /\ HeaderSize % CHUNK_ALIGN = 0
  BY HeapAssumption, AlignAssumption
<1> QED
  BY <1>1, Multiples, Zenon

(* The chunk behind another one, and the last chunk of the list.           *)
LEMMA Successor ==
  ASSUME TypeOK, Tiling, NEW c \in Chunks, next[c] # NULL
  PROVE  /\ next[c] \in Chunks /\ next[c] = EndOf(c) /\ c < next[c]
         /\ \A d \in Chunks : next[d] = next[c] => d = c
         /\ \A d \in Chunks : c < d => next[c] <= d
<1>1. next[c] \in Chunks /\ next[c] = EndOf(c)
  BY DEF TypeOK, Tiling
<1>2. \A d \in Chunks : d \in Nat /\ capacity[d] \in Nat /\ d < EndOf(d)
  BY HeapAssumption DEF TypeOK, EndOf
<1>3. ASSUME NEW d \in Chunks, next[d] = next[c] PROVE d = c
  <2>1. EndOf(d) = EndOf(c)
    BY <1>1, <1>3 DEF Tiling
  <2>2. (c < d => EndOf(c) <= d) /\ (d < c => EndOf(d) <= c)
    BY DEF Tiling
  <2> QED
    BY <1>2, <2>1, <2>2, HeapAssumption DEF EndOf
<1> QED
  BY <1>1, <1>2, <1>3 DEF Tiling

(* The chunk without a successor ends at the end of the heap.              *)
LEMMA LastChunk ==
  ASSUME TypeOK, Tiling, Bounds, NEW c \in Chunks, next[c] = NULL
  PROVE  /\ EndOf(c) = HeapEnd
         /\ \A d \in Chunks \ {c} : d < c /\ EndOf(d) <= c /\ next[d] # NULL
<1>1. EndOf(c) = HeapEnd
  BY DEF Tiling
<1>2. ASSUME NEW d \in Chunks, d # c PROVE d < c /\ EndOf(d) <= c
  <2>1. d \in Nat /\ c \in Nat /\ capacity[d] \in Nat /\ HeapEnd \in Nat
    BY HeapAssumption DEF TypeOK, HeapEnd
  <2>2. d < EndOf(d) /\ EndOf(d) <= HeapEnd
    BY <2>1, HeapAssumption DEF EndOf, Bounds
  <2>3. c < d => EndOf(c) <= d
    BY DEF Tiling
  <2>4. d < c => EndOf(d) <= c
    BY DEF Tiling
  <2> QED
    BY <1>1, <1>2, <2>1, <2>2, <2>3, <2>4, HeapAssumption DEF EndOf
<1>3. ASSUME NEW d \in Chunks, d # c PROVE next[d] # NULL
  <2>1. c \in Nat /\ capacity[c] \in Nat /\ c < EndOf(c) /\ {EndOf(c), EndOf(d)} \subseteq Int
    BY HeapAssumption DEF TypeOK, EndOf
  <2>2. EndOf(d) < EndOf(c)
    BY <1>2, <1>3, <2>1, HeapAssumption DEF EndOf
  <2> QED
    BY <1>1, <2>1, <2>2 DEF Tiling
<1> QED
  BY <1>1, <1>2, <1>3
-----------------------------------------------------------------------------
(* The heap starts as one free chunk, a page long.                         *)
LEMMA InitInv == Init => IInv
<1> SUFFICES ASSUME Init PROVE IInv
  OBVIOUS
<1> USE HeapAssumption, AlignAssumption DEF Chunks, Init
<1>1. Chunks = {HEAP_START}
  OBVIOUS
<1>2. TypeOK
  BY <1>1 DEF TypeOK, NULL
<1>3. EndOf(HEAP_START) = HeapEnd /\ HeapEnd \in Int
  BY DEF EndOf, HeapEnd
<1>4. Tiling /\ Bounds
  BY <1>1, <1>3 DEF Tiling, Bounds
<1>5. Aligned
  <2>1. (PageSize - HeaderSize) % CHUNK_ALIGN = 0
    BY PageAligned
  <2> QED
    BY <1>1, <2>1 DEF Aligned
<1>6. LiveMatches /\ CallInv /\ WalkInv
  BY <1>1 DEF LiveMatches, CallInv, WalkInv
<1> QED
  BY <1>2, <1>4, <1>5, <1>6 DEF IInv

(* A step that leaves the headers alone leaves the heap as it is.          *)
LEMMA HeapAlone ==
  ASSUME IInv, UNCHANGED <<headers, pages, live>>
  PROVE  Tiling' /\ Bounds' /\ Aligned' /\ LiveMatches'
  BY DEF Chunks, IInv, Tiling, Bounds, Aligned, LiveMatches, headers, EndOf, HeapEnd

(* The steps of a call that only move its own variables.                   *)
LEMMA CallStep ==
  ASSUME IInv, NEW q \in Queries, CallAlloc(q)
  PROVE  IInv'
<1> USE DEF Chunks, IInv, CallAlloc
<1>1. Tiling' /\ Bounds' /\ Aligned' /\ LiveMatches'
  BY HeapAlone
<1>2. /\ query' \in 0 .. SizeMod - 1 /\ query' % CHUNK_ALIGN = 0
      /\ asked' \in 0 .. SizeMod - 1
      /\ asked' <= SizeMod - CHUNK_ALIGN => query' >= asked'
  <2>1. q \in 0 .. SizeMod - 1
    BY HeapAssumption
  <2> QED
    BY <2>1, AlignUpProperties
<1>3. TypeOK'
  BY <1>2 DEF TypeOK, headers
<1>4. CallInv'
  BY <1>2 DEF CallInv
<1>5. WalkInv'
  <2>1. \A c \in Chunks' : c \in Nat /\ HEAP_START <= c
    BY DEF TypeOK, Bounds, headers
  <2> QED
    BY <2>1, HeapAssumption DEF WalkInv
<1> QED
  BY <1>1, <1>3, <1>4, <1>5

(* custom_free returns.                                                    *)
LEMMA ReturnStep ==
  ASSUME IInv, FreeReturns
  PROVE  IInv'
<1> USE DEF Chunks, IInv, FreeReturns, Return
<1>1. Tiling' /\ Bounds' /\ Aligned' /\ LiveMatches'
  BY HeapAlone
<1>2. TypeOK'
  BY HeapAssumption DEF TypeOK, headers, NULL
<1>3. CallInv' /\ WalkInv'
  BY DEF CallInv, WalkInv
<1> QED
  BY <1>1, <1>2, <1>3

(* The kernel maps a page somewhere else, or none.                         *)
LEMMA FailStep ==
  ASSUME IInv, GrowElsewhere \/ GrowFails
  PROVE  IInv'
<1> USE DEF Chunks, IInv, GrowElsewhere, GrowFails
<1>1. Tiling' /\ Bounds' /\ Aligned' /\ LiveMatches'
  BY HeapAlone
<1>2. TypeOK'
  BY DEF TypeOK, headers
<1>3. CallInv' /\ WalkInv'
  BY DEF CallInv, WalkInv, headers
<1> QED
  BY <1>1, <1>2, <1>3

(* The walk passes a chunk only when it is in use, or too small although   *)
(* it was merged.                                                          *)
LEMMA AdvanceStep ==
  ASSUME IInv, Advance
  PROVE  IInv'
<1> USE DEF Chunks, IInv, Advance
<1>1. Tiling' /\ Bounds' /\ Aligned' /\ LiveMatches'
  BY HeapAlone
<1>2. /\ chunk \in Chunks /\ chunk' = next[chunk] /\ chunk' \in Chunks
      /\ \A c \in Chunks : c < chunk' => c < chunk \/ c = chunk
  <2>1. chunk \in Chunks
    BY DEF TypeOK
  <2>2. next[chunk] \in Chunks /\ \A c \in Chunks : chunk < c => next[chunk] <= c
    BY <2>1, Successor
  <2> QED
    BY <2>1, <2>2 DEF TypeOK
<1>3. TypeOK'
  BY <1>2 DEF TypeOK, headers
<1>4. CallInv'
  BY DEF CallInv, headers
<1>5. WalkInv'
  <2> SUFFICES ASSUME NEW c \in Chunks, c < chunk', is_free[c]
               PROVE  capacity[c] < query /\ ~is_free[next[c]]
    BY DEF WalkInv, headers
  <2>1. CASE c < chunk
    BY <2>1 DEF WalkInv
  <2>2. CASE c = chunk
    <3>1. ~CanMerge(c) /\ capacity[c] < query
      BY <2>2 DEF TooSmall
    <3> QED
      BY <2>2, <3>1 DEF CanMerge
  <2> QED
    BY <1>2, <2>1, <2>2
<1> QED
  BY <1>1, <1>3, <1>4, <1>5

(* custom_free marks a block of the caller.                                *)
LEMMA FreeStep ==
  ASSUME IInv, NEW b \in DOMAIN live, CallFree(b)
  PROVE  IInv'
<1> USE DEF Chunks, IInv, CallFree
<1>1. b \in Chunks /\ Chunks' = Chunks /\ DOMAIN live' = DOMAIN live \ {b}
  BY DEF TypeOK, Without
<1>2. /\ is_free' \in [Chunks -> BOOLEAN] /\ is_free'[b]
      /\ \A c \in Chunks \ {b} : is_free'[c] = is_free[c]
      /\ \A c \in DOMAIN live' : live'[c] = live[c]
  BY <1>1 DEF TypeOK, Without
<1>3. Tiling' /\ Bounds' /\ Aligned'
  BY DEF Tiling, Bounds, Aligned, EndOf, HeapEnd
<1>4. TypeOK'
  <2>1. live' \in [DOMAIN live' -> Nat]
    BY <1>1 DEF TypeOK, Without
  <2> QED
    BY <1>1, <1>2, <2>1 DEF TypeOK
<1>5. LiveMatches'
  BY <1>1, <1>2 DEF LiveMatches
<1>6. CallInv' /\ WalkInv'
  BY <1>2 DEF CallInv, WalkInv
<1> QED
  BY <1>3, <1>4, <1>5, <1>6
-----------------------------------------------------------------------------
(* One round of merge_free_chunks: chunk swallows its free successor.      *)
LEMMA MergeStep ==
  ASSUME IInv, Merge
  PROVE  IInv'
<1> DEFINE n == next[chunk]
<1> USE DEF Chunks
<1>0. TypeOK /\ Tiling /\ Bounds /\ Aligned /\ LiveMatches
  BY DEF IInv
<1>1. /\ chunk \in Chunks /\ is_free[chunk] /\ n # NULL /\ is_free[n]
      /\ UNCHANGED <<pages, pc, chunk, query, asked, live, failed>>
  BY <1>0 DEF IInv, CallInv, Merge, CanMerge, TypeOK
<1>2. /\ n \in Chunks /\ n = EndOf(chunk) /\ chunk < n
      /\ \A d \in Chunks : next[d] = n => d = chunk
      /\ \A d \in Chunks : chunk < d => n <= d
  BY <1>0, <1>1, Successor
<1>3. /\ Chunks' = Chunks \ {n} /\ chunk \in Chunks'
      /\ next'[chunk] = next[n]
      /\ capacity'[chunk] = capacity[chunk] + capacity[n] + HeaderSize
      /\ \A d \in Chunks' \ {chunk} : next'[d] = next[d] /\ capacity'[d] = capacity[d]
      /\ \A d \in Chunks' : is_free'[d] = is_free[d]
  BY <1>0, <1>1, <1>2 DEF Merge, Without, TypeOK
<1>4. \A d \in Chunks : d \in Nat /\ capacity[d] \in Nat /\ EndOf(d) \in Nat
  BY <1>0, HeapAssumption DEF TypeOK, EndOf
<1>5. /\ EndOf(chunk)' = EndOf(n)
      /\ \A d \in Chunks' \ {chunk} : EndOf(d)' = EndOf(d)
  <2>1. EndOf(chunk)' = n + HeaderSize + capacity[n]
    BY <1>1, <1>2, <1>3, <1>4, HeapAssumption DEF EndOf
  <2> QED
    BY <1>3, <2>1 DEF EndOf
<1>6. TypeOK'
  <2>1. next[n] \in Chunks' \cup {NULL}
    BY <1>0, <1>1, <1>2, <1>3, <1>4, Successor DEF TypeOK
  <2>2. next' \in [Chunks' -> Chunks' \cup {NULL}]
    BY <1>0, <1>2, <1>3, <2>1 DEF TypeOK, Merge, Without
  <2>3. capacity' \in [Chunks' -> Nat] /\ is_free' \in [Chunks' -> BOOLEAN]
    BY <1>0, <1>1, <1>2, <1>3, <1>4, HeapAssumption DEF TypeOK, Merge, Without
  <2>4. HEAP_START \in Chunks'
    BY <1>0, <1>1, <1>2, <1>3, <1>4, HeapAssumption DEF TypeOK, Bounds
  <2>5. DOMAIN live' \subseteq Chunks'
    BY <1>0, <1>1, <1>3 DEF LiveMatches
  <2> QED
    BY <1>0, <1>1, <1>3, <2>2, <2>3, <2>4, <2>5 DEF TypeOK
<1>7. Tiling' /\ Bounds'
  <2>1. ASSUME NEW c \in Chunks'
        PROVE  EndOf(c)' = (IF next[c] = NULL THEN HeapEnd ELSE next[c])'
    BY <1>0, <1>1, <1>2, <1>3, <1>5 DEF Tiling, HeapEnd
  <2>2. ASSUME NEW c \in Chunks', NEW d \in Chunks', c < d
        PROVE  EndOf(c)' <= d
    <3>1. CASE c = chunk
      <4>1. n < d /\ EndOf(n) <= d
        BY <1>0, <1>2, <1>3, <1>4, <2>2, <3>1 DEF Tiling
      <4> QED
        BY <1>1, <1>5, <3>1, <4>1 DEF EndOf
    <3>2. CASE c # chunk
      BY <1>0, <1>3, <1>5, <2>2, <3>2 DEF Tiling
    <3> QED
      BY <3>1, <3>2
  <2>3. ASSUME NEW c \in Chunks' PROVE HEAP_START <= c /\ EndOf(c)' <= HeapEnd'
    BY <1>0, <1>1, <1>2, <1>3, <1>5 DEF Bounds, HeapEnd
  <2> QED
    BY <2>1, <2>2, <2>3 DEF Tiling, Bounds
<1>8. Aligned' /\ LiveMatches'
  <2>1. capacity'[chunk] % CHUNK_ALIGN = 0
    <3> DEFINE a == capacity[chunk]
               b == capacity[n]
    <3>1. a \in Int /\ b \in Int /\ a % CHUNK_ALIGN = 0 /\ b % CHUNK_ALIGN = 0
      BY <1>0, <1>1, <1>2, <1>4 DEF Aligned
    <3>2. HeaderSize \in Int /\ CHUNK_ALIGN \in Nat \ {0} /\ HeaderSize % CHUNK_ALIGN = 0
      BY HeapAssumption, AlignAssumption
    <3>3. capacity'[chunk] = (a + b) + HeaderSize /\ a + b \in Int
      BY <1>3, <3>1
    <3> HIDE DEF a, b
    <3>4. (a + b) % CHUNK_ALIGN = 0
      BY <3>1, <3>2, Multiples, Zenon
    <3>5. ((a + b) + HeaderSize) % CHUNK_ALIGN = 0
      BY <3>2, <3>3, <3>4, Multiples, Zenon
    <3> QED
      BY <3>3, <3>5, Zenon
  <2>2. Aligned'
    BY <1>0, <1>3, <2>1 DEF Aligned
  <2>3. chunk \notin DOMAIN live /\ n \notin DOMAIN live
    BY <1>0, <1>1 DEF LiveMatches
  <2> QED
    BY <1>0, <1>1, <1>2, <1>3, <2>2, <2>3 DEF LiveMatches
<1>9. CallInv' /\ WalkInv'
  <2>1. CallInv'
    BY <1>1, <1>3 DEF IInv, CallInv
  <2>2. ASSUME pc = "alloc", NEW c \in Chunks', c < chunk, is_free'[c]
        PROVE  capacity'[c] < query' /\ ~is_free'[next'[c]]
    <3>1. c \in Chunks \ {chunk} /\ next[c] # n
      BY <1>2, <1>3, <1>4, <2>2
    <3>2. capacity[c] < query /\ ~is_free[next[c]] /\ is_free[c]
      BY <1>3, <2>2, <3>1 DEF IInv, WalkInv
    <3>3. next[c] \in Chunks'
      <4>1. next[c] # NULL
        BY <1>0, <1>1, <1>2, <1>4, <2>2, <3>1, LastChunk
      <4> QED
        BY <1>0, <1>3, <3>1, <4>1 DEF TypeOK
    <3> QED
      BY <1>1, <1>3, <3>1, <3>2, <3>3
  <2> QED
    BY <1>1, <2>1, <2>2 DEF WalkInv
<1> QED
  BY <1>6, <1>7, <1>8, <1>9 DEF IInv
(* A page mapped behind the last chunk becomes a chunk of its own, which   *)
(* the next round merges with the last one if that is free.                *)
LEMMA GrowStep ==
  ASSUME IInv, Grow
  PROVE  IInv'
<1> DEFINE n == EndOf(chunk)
<1> USE DEF Chunks
<1>0. TypeOK /\ Tiling /\ Bounds /\ Aligned /\ LiveMatches
  BY DEF IInv
<1>1. /\ chunk \in Chunks /\ next[chunk] = NULL /\ pc = "alloc" /\ TooSmall
      /\ pages' = pages + 1 /\ pages < MaxPages
      /\ UNCHANGED <<pc, chunk, query, asked, live, failed>>
  BY <1>0 DEF Grow, TypeOK
<1>2. \A d \in Chunks : d \in Nat /\ capacity[d] \in Nat /\ EndOf(d) \in Nat
  BY <1>0, HeapAssumption DEF TypeOK, EndOf
<1>3. /\ n = HeapEnd /\ n \in Nat \ {NULL} /\ chunk < n
      /\ \A d \in Chunks : d < n /\ EndOf(d) <= n
      /\ \A d \in Chunks \ {chunk} : next[d] # NULL /\ EndOf(d) <= chunk
  <2>1. n = HeapEnd /\ \A d \in Chunks \ {chunk} : d < chunk /\ EndOf(d) <= chunk /\ next[d] # NULL
    BY <1>0, <1>1, LastChunk
  <2>2. chunk < n
    BY <1>1, <1>2, HeapAssumption DEF EndOf
  <2> QED
    BY <1>1, <1>2, <2>1, <2>2 DEF NULL
<1>4. n \notin Chunks
  BY <1>2, <1>3
<1>5. /\ Chunks' = Chunks \cup {n} /\ next'[chunk] = n /\ next'[n] = NULL
      /\ capacity'[n] = PageSize - HeaderSize /\ is_free'[n]
      /\ \A d \in Chunks \ {chunk} : next'[d] = next[d]
      /\ \A d \in Chunks : capacity'[d] = capacity[d] /\ is_free'[d] = is_free[d]
  BY <1>0, <1>1, <1>4 DEF Grow, With, TypeOK
<1>6. HeapEnd' = HeapEnd + PageSize
  BY <1>0, <1>1, HeapAssumption DEF HeapEnd, TypeOK
<1>7. /\ n + HeaderSize + capacity'[n] = HeapEnd'
      /\ \A d \in Chunks : d + HeaderSize + capacity'[d] = EndOf(d)
  BY <1>3, <1>5, <1>6, HeapAssumption DEF EndOf
<1>8. TypeOK'
  <2>1. next' \in [Chunks' -> Chunks' \cup {NULL}]
    BY <1>0, <1>1, <1>4, <1>5 DEF TypeOK, Grow, With
  <2>2. capacity' \in [Chunks' -> Nat]
    <3>1. PageSize - HeaderSize \in Nat
      BY HeapAssumption
    <3> QED
      BY <1>0, <1>5, <3>1 DEF TypeOK, Grow, With
  <2>3. is_free' \in [Chunks' -> BOOLEAN]
    BY <1>0, <1>5 DEF TypeOK, Grow, With
  <2>4. pages' \in 1 .. MaxPages
    BY <1>0, <1>1, HeapAssumption DEF TypeOK
  <2> QED
    BY <1>0, <1>1, <1>3, <1>5, <2>1, <2>2, <2>3, <2>4 DEF TypeOK
<1>9. Tiling' /\ Bounds'
  <2>1. ASSUME NEW c \in Chunks'
        PROVE  /\ c + HeaderSize + capacity'[c] = IF next'[c] = NULL THEN HeapEnd' ELSE next'[c]
               /\ HEAP_START <= c /\ c + HeaderSize + capacity'[c] <= HeapEnd'
    <3>1. CASE c = n
      <4>1. HEAP_START <= n
        BY <1>0, <1>1, <1>2, <1>3, HeapAssumption DEF Bounds
      <4> QED
        BY <1>3, <1>5, <1>6, <1>7, <3>1, <4>1, HeapAssumption
    <3>2. CASE c = chunk
      BY <1>0, <1>1, <1>3, <1>5, <1>6, <1>7, <3>2, HeapAssumption DEF Bounds
    <3>3. CASE c \in Chunks \ {chunk}
      BY <1>0, <1>1, <1>2, <1>3, <1>5, <1>6, <1>7, <3>3, HeapAssumption DEF Tiling, Bounds
    <3> QED
      BY <1>5, <3>1, <3>2, <3>3
  <2>2. ASSUME NEW c \in Chunks', NEW d \in Chunks', c < d
        PROVE  c + HeaderSize + capacity'[c] <= d
    <3>1. c \in Chunks
      BY <1>2, <1>3, <1>5, <2>2
    <3> QED
      BY <1>0, <1>2, <1>3, <1>5, <1>7, <2>2, <3>1 DEF Tiling
  <2> QED
    BY <2>1, <2>2 DEF Tiling, Bounds, EndOf
<1>10. Aligned' /\ LiveMatches'
  <2>1. n % CHUNK_ALIGN = 0
    <3> DEFINE a == capacity[chunk]
    <3>1. /\ chunk \in Int /\ a \in Int /\ HeaderSize \in Int /\ CHUNK_ALIGN \in Nat \ {0}
          /\ chunk % CHUNK_ALIGN = 0 /\ a % CHUNK_ALIGN = 0 /\ HeaderSize % CHUNK_ALIGN = 0
      BY <1>0, <1>1, <1>2, HeapAssumption, AlignAssumption DEF Aligned
    <3> HIDE DEF a
    <3>2. (chunk + HeaderSize) % CHUNK_ALIGN = 0
      BY <3>1, Multiples, Zenon
    <3>3. chunk + HeaderSize \in Int
      BY <3>1
    <3>4. ((chunk + HeaderSize) + a) % CHUNK_ALIGN = 0
      BY <3>1, <3>2, <3>3, Multiples, Zenon
    <3> QED
      BY <3>4 DEF a, EndOf
  <2>2. Aligned'
    BY <1>0, <1>5, <2>1, PageAligned DEF Aligned
  <2> QED
    BY <1>0, <1>1, <1>4, <1>5, <2>2 DEF LiveMatches
<1>11. CallInv' /\ WalkInv'
  <2>1. CallInv'
    BY <1>1 DEF IInv, CallInv
  <2>2. ASSUME NEW c \in Chunks', c < chunk, is_free'[c]
        PROVE  capacity'[c] < query' /\ ~is_free'[next'[c]]
    <3>1. c \in Chunks \ {chunk}
      BY <1>1, <1>2, <1>3, <1>5, <2>2
    <3>2. capacity[c] < query /\ ~is_free[next[c]] /\ is_free[c]
      BY <1>1, <1>5, <2>2, <3>1 DEF IInv, WalkInv
    <3>3. next[c] \in Chunks
      BY <1>0, <1>3, <3>1 DEF TypeOK
    <3> QED
      BY <1>1, <1>5, <3>1, <3>2, <3>3
  <2> QED
    BY <1>1, <2>2, <2>1 DEF WalkInv
<1> QED
  BY <1>8, <1>9, <1>10, <1>11 DEF IInv

(* The chunk is taken whole, or split when a block fits into the rest.     *)
LEMMA TakeStep ==
  ASSUME IInv, Take
  PROVE  IInv'
<1> DEFINE remaining == capacity[chunk] - query
           n == chunk + HeaderSize + query
<1> USE DEF Chunks
<1>0. TypeOK /\ Tiling /\ Bounds /\ Aligned /\ LiveMatches
  BY DEF IInv
<1>1. /\ chunk \in Chunks /\ pc = "alloc" /\ is_free[chunk] /\ capacity[chunk] >= query
      /\ pc' = "idle" /\ chunk' = NULL /\ query' = 0 /\ asked' = 0
      /\ live' = With(live, chunk, asked)
      /\ UNCHANGED <<pages, failed>>
  BY <1>0 DEF Take, Fits, Return, TypeOK
<1>2. /\ DOMAIN live' = DOMAIN live \cup {chunk} /\ live'[chunk] = asked
      /\ \A d \in DOMAIN live \ {chunk} : live'[d] = live[d]
      /\ live' \in [DOMAIN live' -> Nat]
  BY <1>0, <1>1, HeapAssumption DEF With, TypeOK
<1>3. \A d \in Chunks : d \in Nat /\ capacity[d] \in Nat /\ EndOf(d) \in Nat /\ d < EndOf(d)
  BY <1>0, HeapAssumption DEF TypeOK, EndOf
<1>4. CallInv' /\ WalkInv'
  BY <1>1 DEF CallInv, WalkInv
<1>5. CASE ~SplitWorthwhile(remaining)
  <2>1. UNCHANGED <<next, capacity>> /\ is_free' = [is_free EXCEPT ![chunk] = FALSE]
    BY <1>5 DEF Take
  <2>2. TypeOK'
    BY <1>0, <1>1, <1>2, <2>1, HeapAssumption DEF TypeOK
  <2>3. Tiling' /\ Bounds' /\ Aligned'
    BY <1>0, <1>1, <2>1 DEF Tiling, Bounds, Aligned, EndOf, HeapEnd
  <2>4. LiveMatches'
    <3>1. DOMAIN live' = {c \in Chunks' : ~is_free'[c]}
      BY <1>0, <1>1, <1>2, <2>1 DEF LiveMatches, TypeOK
    <3>2. ASSUME asked <= SizeMod - CHUNK_ALIGN PROVE capacity[chunk] >= asked
      BY <1>0, <1>1, <3>2, HeapAssumption DEF IInv, CallInv, TypeOK
    <3>3. ASSUME NEW c \in DOMAIN live'
          PROVE  /\ c % CHUNK_ALIGN = 0 /\ capacity'[c] % CHUNK_ALIGN = 0
                 /\ live'[c] <= SizeMod - CHUNK_ALIGN => capacity'[c] >= live'[c]
      BY <1>0, <1>1, <1>2, <2>1, <3>2 DEF LiveMatches, Aligned
    <3> QED
      BY <3>1, <3>3 DEF LiveMatches
  <2> QED
    BY <1>4, <2>2, <2>3, <2>4 DEF IInv
<1>6. CASE SplitWorthwhile(remaining)
  <2>0. /\ query \in Nat /\ asked \in Nat /\ remaining \in Nat
        /\ remaining >= HeaderSize + CHUNK_ALIGN
        /\ HeaderSize \in Nat \ {0} /\ CHUNK_ALIGN \in Nat \ {0}
    BY <1>0, <1>1, <1>3, <1>6, HeapAssumption
    DEF TypeOK, SplitWorthwhile, CHUNK_MIN_SIZE
  <2>1. /\ chunk < n /\ n \in Nat \ {NULL} /\ n < EndOf(chunk)
        /\ n + HeaderSize + (remaining - HeaderSize) = EndOf(chunk)
    BY <1>1, <1>3, <2>0 DEF EndOf, NULL
  <2>2. n \notin Chunks
    BY <1>0, <1>1, <1>3, <2>1 DEF Tiling
  <2>3. /\ next' = With([next EXCEPT ![chunk] = n], n, next[chunk])
        /\ capacity' = With([capacity EXCEPT ![chunk] = query], n, remaining - HeaderSize)
        /\ is_free' = With([is_free EXCEPT ![chunk] = FALSE], n, TRUE)
    BY <1>6 DEF Take
  <2>4. /\ Chunks' = Chunks \cup {n} /\ next'[chunk] = n /\ next'[n] = next[chunk]
        /\ capacity'[chunk] = query /\ capacity'[n] = remaining - HeaderSize
        /\ ~is_free'[chunk] /\ is_free'[n]
        /\ \A d \in Chunks \ {chunk} :
             next'[d] = next[d] /\ capacity'[d] = capacity[d] /\ is_free'[d] = is_free[d]
    BY <1>0, <1>1, <2>2, <2>3 DEF With, TypeOK
  <2>5. TypeOK'
    <3>1. next' \in [Chunks' -> Chunks' \cup {NULL}]
      BY <1>0, <1>1, <2>3, <2>4 DEF TypeOK, With
    <3>2. capacity' \in [Chunks' -> Nat]
      BY <1>0, <1>1, <2>0, <2>3, <2>4 DEF TypeOK, With
    <3>3. is_free' \in [Chunks' -> BOOLEAN]
      BY <1>0, <1>1, <2>3, <2>4 DEF TypeOK, With
    <3>4. query' \in 0 .. SizeMod - 1 /\ asked' \in 0 .. SizeMod - 1
      BY <1>1, HeapAssumption
    <3> QED
      BY <1>0, <1>1, <1>2, <2>1, <2>4, <3>1, <3>2, <3>3, <3>4 DEF TypeOK
  <2>6. /\ chunk + HeaderSize + capacity'[chunk] = n
        /\ n + HeaderSize + capacity'[n] = EndOf(chunk)
        /\ \A d \in Chunks \ {chunk} : d + HeaderSize + capacity'[d] = EndOf(d)
    BY <2>1, <2>4 DEF EndOf
  <2>7. HeapEnd' = HeapEnd /\ HeapEnd \in Int
    BY <1>0, <1>1, HeapAssumption DEF HeapEnd, TypeOK
  <2>8. Tiling' /\ Bounds'
    <3>1. ASSUME NEW c \in Chunks'
          PROVE  /\ c + HeaderSize + capacity'[c] =
                      IF next'[c] = NULL THEN HeapEnd' ELSE next'[c]
                 /\ HEAP_START <= c /\ c + HeaderSize + capacity'[c] <= HeapEnd'
      <4>1. CASE c = n
        BY <1>0, <1>1, <1>3, <2>1, <2>4, <2>6, <2>7, <4>1, HeapAssumption DEF Tiling, Bounds
      <4>2. CASE c = chunk
        BY <1>0, <1>1, <1>3, <2>1, <2>4, <2>6, <2>7, <4>2 DEF Tiling, Bounds
      <4>3. CASE c \in Chunks \ {chunk}
        BY <1>0, <1>1, <1>3, <2>1, <2>4, <2>6, <2>7, <4>3 DEF Tiling, Bounds
      <4> QED
        BY <2>4, <4>1, <4>2, <4>3
    <3>2. ASSUME NEW c \in Chunks', NEW d \in Chunks', c < d
          PROVE  c + HeaderSize + capacity'[c] <= d
      <4>1. CASE c = n
        <5>1. d \in Chunks /\ chunk < d
          BY <1>1, <1>3, <2>1, <2>4, <3>2, <4>1
        <5> QED
          BY <1>0, <1>1, <2>6, <4>1, <5>1 DEF Tiling
      <4>2. CASE c = chunk
        <5>1. d = n \/ EndOf(chunk) <= d
          BY <1>0, <1>1, <2>4, <3>2, <4>2 DEF Tiling
        <5> QED
          BY <1>1, <1>3, <2>1, <2>4, <2>6, <4>2, <5>1
      <4>3. CASE c \in Chunks \ {chunk}
        <5>1. c < chunk => EndOf(c) <= chunk
          BY <1>0, <1>1, <4>3 DEF Tiling
        <5>2. c > chunk => EndOf(chunk) <= c
          BY <1>0, <1>1, <4>3 DEF Tiling
        <5>3. d \in Chunks => EndOf(c) <= d
          BY <1>0, <3>2, <4>3 DEF Tiling
        <5> QED
          BY <1>1, <1>3, <2>1, <2>4, <2>6, <3>2, <4>3, <5>1, <5>2, <5>3
      <4> QED
        BY <2>4, <4>1, <4>2, <4>3
    <3> QED
      BY <3>1, <3>2 DEF Tiling, Bounds, EndOf
  <2>9. Aligned'
    <3> DEFINE a == capacity[chunk]
               q == query
    <3>1. /\ chunk \in Int /\ a \in Int /\ q \in Int /\ HeaderSize \in Int
          /\ CHUNK_ALIGN \in Nat \ {0}
          /\ chunk % CHUNK_ALIGN = 0 /\ a % CHUNK_ALIGN = 0
          /\ q % CHUNK_ALIGN = 0 /\ HeaderSize % CHUNK_ALIGN = 0
      BY <1>0, <1>1, <1>3, <2>0, AlignAssumption DEF Aligned, IInv, CallInv
    <3>2. capacity'[n] = (a - q) - HeaderSize /\ n = (chunk + HeaderSize) + q
      BY <2>4
    <3> HIDE DEF a, q, n
    <3>3. /\ chunk + HeaderSize \in Int /\ (chunk + HeaderSize) % CHUNK_ALIGN = 0
          /\ a - q \in Int /\ (a - q) % CHUNK_ALIGN = 0
      <4>1. chunk + HeaderSize \in Int /\ a - q \in Int
        BY <3>1
      <4>2. (chunk + HeaderSize) % CHUNK_ALIGN = 0
        BY <3>1, Multiples, Zenon
      <4>3. (a - q) % CHUNK_ALIGN = 0
        BY <3>1, Multiples, Zenon
      <4> QED
        BY <4>1, <4>2, <4>3
    <3>4. ((chunk + HeaderSize) + q) % CHUNK_ALIGN = 0
      BY <3>1, <3>3, Multiples, Zenon
    <3>5. ((a - q) - HeaderSize) % CHUNK_ALIGN = 0
      BY <3>1, <3>3, Multiples, Zenon
    <3>6. n % CHUNK_ALIGN = 0 /\ capacity'[n] % CHUNK_ALIGN = 0
      BY <3>2, <3>4, <3>5, Zenon
    <3>7. capacity'[chunk] % CHUNK_ALIGN = 0
      BY <2>4, <3>1 DEF q
    <3> QED
      BY <1>0, <2>4, <3>6, <3>7 DEF Aligned
  <2>10. LiveMatches'
    <3>1. DOMAIN live' = {c \in Chunks' : ~is_free'[c]}
      BY <1>0, <1>1, <1>2, <2>2, <2>4 DEF LiveMatches
    <3>2. ASSUME asked <= SizeMod - CHUNK_ALIGN PROVE query >= asked
      BY <1>1, <3>2 DEF IInv, CallInv
    <3>3. ASSUME NEW c \in DOMAIN live'
          PROVE  /\ c % CHUNK_ALIGN = 0 /\ capacity'[c] % CHUNK_ALIGN = 0
                 /\ live'[c] <= SizeMod - CHUNK_ALIGN => capacity'[c] >= live'[c]
      <4>1. CASE c = chunk
        BY <1>0, <1>1, <1>2, <2>4, <2>9, <3>2, <4>1 DEF Aligned
      <4>2. CASE c # chunk
        BY <1>0, <1>2, <2>4, <4>2 DEF LiveMatches
      <4> QED
        BY <4>1, <4>2
    <3> QED
      BY <3>1, <3>3 DEF LiveMatches
  <2> QED
    BY <1>4, <2>5, <2>8, <2>9, <2>10 DEF IInv
<1> QED
  BY <1>5, <1>6
-----------------------------------------------------------------------------
(* Every step keeps the invariant.                                         *)
LEMMA NextInv == IInv /\ [Next]_vars => IInv'
<1> SUFFICES ASSUME IInv, [Next]_vars PROVE IInv'
  OBVIOUS
<1>1. CASE \E q \in Queries : CallAlloc(q)
  BY <1>1, CallStep
<1>2. CASE \E c \in DOMAIN live : CallFree(c)
  BY <1>2, FreeStep
<1>3. CASE Step
  BY <1>3, MergeStep, ReturnStep, AdvanceStep, GrowStep, FailStep, TakeStep DEF Step
<1>4. CASE UNCHANGED vars
  <2>1. Tiling' /\ Bounds' /\ Aligned' /\ LiveMatches'
    BY <1>4, HeapAlone DEF vars
  <2>2. TypeOK' /\ CallInv' /\ WalkInv'
    BY <1>4 DEF IInv, TypeOK, CallInv, WalkInv, Chunks, vars, headers
  <2> QED
    BY <2>1, <2>2 DEF IInv
<1> QED
  BY <1>1, <1>2, <1>3, <1>4 DEF Next

(* The inductive invariant holds in every reachable state of the heap.     *)
THEOREM Invariance == Spec => []IInv
<1> QED
  BY InitInv, NextInv, PTL DEF Spec

(* Every variable keeps its type, whatever is asked for and freed.         *)
THEOREM TypeCorrect == Spec => []TypeOK
<1> QED
  BY Invariance, PTL DEF IInv

(* The chunks of mem_alloc.c tile the mapped memory: no merge, growth or   *)
(* split loses a byte or counts one twice.                                 *)
THEOREM TilingCorrect == Spec => []Tiling
<1> QED
  BY Invariance, PTL DEF IInv

(* The blocks of the callers are the chunks in use, aligned and as large   *)
(* as was asked for, unless the rounding of line 32 wrapped around.        *)
THEOREM BlocksCorrect == Spec => []LiveMatches
<1> QED
  BY Invariance, PTL DEF IInv

-----------------------------------------------------------------------------
(* What a step can do to the callers' blocks: nothing, or one block is     *)
(* freed, or one is added that was free before.                            *)
LEMMA BlockStep ==
  ASSUME IInv, [Next]_vars
  PROVE  \/ /\ DOMAIN live' = DOMAIN live
            /\ \A c \in DOMAIN live : capacity'[c] = capacity[c]
         \/ /\ \E c \in DOMAIN live : DOMAIN live' = DOMAIN live \ {c}
            /\ capacity' = capacity
         \/ /\ \E c \in Chunks \ DOMAIN live : DOMAIN live' = DOMAIN live \cup {c}
            /\ \A c \in DOMAIN live : capacity'[c] = capacity[c]
<1> USE DEF IInv, Chunks
<1>1. CASE UNCHANGED <<live, capacity>>
  BY <1>1
<1>2. ASSUME NEW b \in DOMAIN live, CallFree(b)
      PROVE  DOMAIN live' = DOMAIN live \ {b} /\ capacity' = capacity
  BY <1>2 DEF CallFree, Without
<1>3. CASE Merge
  <2>1. /\ chunk \in Chunks /\ is_free[chunk] /\ is_free[next[chunk]]
        /\ next[chunk] \in Chunks
    BY <1>3 DEF Merge, CanMerge, CallInv, TypeOK
  <2>2. chunk \notin DOMAIN live /\ next[chunk] \notin DOMAIN live
    BY <2>1 DEF LiveMatches
  <2> QED
    BY <1>3, <2>1, <2>2 DEF Merge, Without, TypeOK
<1>4. CASE Grow
  <2>1. chunk \in Chunks /\ next[chunk] = NULL
    BY <1>4 DEF Grow, TypeOK
  <2>2. EndOf(chunk) \notin Chunks
    <3>1. EndOf(chunk) = HeapEnd /\ \A d \in Chunks : EndOf(d) <= HeapEnd
      BY <2>1, LastChunk DEF Bounds
    <3>2. \A d \in Chunks : d \in Nat /\ d < EndOf(d)
      BY HeapAssumption DEF TypeOK, EndOf
    <3>3. EndOf(chunk) \in Chunks => EndOf(chunk) < EndOf(EndOf(chunk))
      BY <3>2
    <3>4. \A d \in Chunks : EndOf(d) \in Int
      BY HeapAssumption DEF TypeOK, EndOf
    <3> QED
      BY <2>1, <3>1, <3>3, <3>4
  <2> QED
    BY <1>4, <2>2 DEF Grow, With, TypeOK
<1>5. CASE Take
  <2>1. chunk \in Chunks \ DOMAIN live
    BY <1>5 DEF Take, Fits, TypeOK, LiveMatches
  <2>2. DOMAIN live' = DOMAIN live \cup {chunk}
    BY <1>5 DEF Take, With
  <2>3. ASSUME NEW c \in DOMAIN live PROVE capacity'[c] = capacity[c]
    <3> DEFINE n == chunk + HeaderSize + query
    <3>1. c \in Chunks \ {chunk}
      BY <2>1 DEF TypeOK
    <3>2. CASE capacity' = capacity
      BY <3>2
    <3>3. CASE capacity' # capacity
      <4>1. /\ capacity' = With([capacity EXCEPT ![chunk] = query], n,
                                capacity[chunk] - query - HeaderSize)
            /\ capacity[chunk] - query >= CHUNK_MIN_SIZE
        BY <1>5, <3>3 DEF Take, SplitWorthwhile
      <4>2. chunk < n /\ n < EndOf(chunk) /\ n \in Nat /\ c \in Nat /\ chunk \in Nat
        BY <2>1, <3>1, <4>1, HeapAssumption DEF TypeOK, EndOf, CHUNK_MIN_SIZE
      <4>3. chunk < c => EndOf(chunk) <= c
        BY <2>1, <3>1 DEF Tiling
      <4>4. c # n
        BY <2>1, <4>2, <4>3, HeapAssumption DEF TypeOK, EndOf
      <4> QED
        BY <3>1, <4>1, <4>4 DEF With, TypeOK
    <3> QED
      BY <3>2, <3>3
  <2> QED
    BY <2>1, <2>2, <2>3
<1> QED
  BY <1>1, <1>2, <1>3, <1>4, <1>5
  DEF Next, Step, CallAlloc, FreeReturns, Advance, GrowElsewhere, GrowFails,
      vars, headers

(* No call moves, shrinks or takes a block that is in use, whatever chunks *)
(* it merges and splits on its way.                                        *)
THEOREM BlocksKept == Spec => BlocksStay
<1>1. ASSUME IInv, IInv', [Next]_vars, NEW c \in DOMAIN live, c \in DOMAIN live'
      PROVE  c \in Chunks' /\ capacity'[c] = capacity[c] /\ ~is_free'[c]
  <2>1. c \in Chunks' /\ ~is_free'[c]
    BY <1>1 DEF IInv, LiveMatches
  <2>2. capacity'[c] = capacity[c]
    BY <1>1, BlockStep
  <2> QED
    BY <2>1, <2>2
<1>2. IInv /\ IInv' /\ [Next]_vars =>
        [\A c \in DOMAIN live : c \in DOMAIN live' =>
           c \in Chunks' /\ capacity'[c] = capacity[c] /\ ~is_free'[c]]_vars
  BY <1>1
<1> QED
  BY <1>2, Invariance, PTL DEF Spec, BlocksStay
(* The heap grows only when no run of free chunks has room for the query:  *)
(* the walk has merged every run that it passed (lines 35-55).             *)
THEOREM GrowthJustified == Spec => GrowsOnlyIfFull
<1> DEFINE Full == \A c, d \in Chunks :
                     c <= d /\ FreeRun(c, d) => EndOf(d) - c - HeaderSize < query
<1>1. ASSUME IInv, [Next]_vars, pages' > pages PROVE Full
  <2>0. TypeOK /\ Tiling /\ Bounds
    BY <1>1 DEF IInv
  <2>1. Grow
    <3>1. pages' # pages
      BY <1>1, <2>0 DEF TypeOK
    <3>2. \/ \E q \in Queries : CallAlloc(q)
          \/ \E c \in DOMAIN live : CallFree(c)
          \/ Step
      BY <1>1, <3>1 DEF Next, vars
    <3> QED
      BY <3>1, <3>2
      DEF Step, CallAlloc, CallFree, Merge, FreeReturns, Advance,
          GrowElsewhere, GrowFails, Take
  <2>2. chunk \in Chunks /\ next[chunk] = NULL /\ pc = "alloc" /\ TooSmall
    BY <2>0, <2>1 DEF Grow, TypeOK
  <2>3. ASSUME NEW c \in Chunks, is_free[c]
        PROVE  capacity[c] < query /\ (next[c] # NULL => ~is_free[next[c]])
    <3>1. CASE c = chunk
      BY <2>2, <2>3, <3>1 DEF TooSmall, CanMerge
    <3>2. CASE c # chunk
      <4>1. c < chunk
        BY <2>0, <2>2, <3>2, LastChunk
      <4> QED
        BY <1>1, <2>2, <2>3, <4>1 DEF IInv, WalkInv
    <3> QED
      BY <3>1, <3>2
  <2>4. ASSUME NEW c \in Chunks, NEW d \in Chunks, c <= d, FreeRun(c, d)
        PROVE  EndOf(d) - c - HeaderSize < query
    <3>1. c \in Nat /\ d \in Nat /\ capacity[c] \in Nat /\ capacity[d] \in Nat /\ is_free[c]
      BY <2>0, <2>4 DEF TypeOK, FreeRun
    <3>2. c = d
      <4> SUFFICES ASSUME c < d PROVE FALSE
        BY <2>4, <3>1
      <4>1. EndOf(c) <= d /\ EndOf(c) \in Int /\ d < EndOf(d) /\ EndOf(d) <= HeapEnd
        BY <2>0, <3>1, HeapAssumption DEF Tiling, Bounds, EndOf
      <4>2. next[c] # NULL
        BY <2>0, <3>1, <4>1, LastChunk
      <4>3. next[c] \in Chunks /\ c < next[c] /\ next[c] <= d
        BY <2>0, <4>2, Successor
      <4>4. is_free[next[c]]
        BY <2>0, <2>4, <3>1, <4>3 DEF FreeRun, TypeOK
      <4> QED
        BY <2>3, <3>1, <4>2, <4>4
    <3>3. EndOf(d) - c - HeaderSize = capacity[d]
      BY <3>1, <3>2, HeapAssumption DEF EndOf
    <3> QED
      BY <2>3, <3>1, <3>2, <3>3
  <2> QED
    BY <2>4
<1>2. IInv /\ [Next]_vars => [pages' > pages => Full]_vars
  BY <1>1
<1> QED
  BY <1>2, Invariance, PTL DEF Spec, GrowsOnlyIfFull

-----------------------------------------------------------------------------
(* The refinement of Allocator: a chunk in use is a block of the caller.   *)
BlockOf(c) == [start |-> c + HeaderSize, size |-> capacity[c]]

(* Every step of the heap is a step of the abstract allocator, or none.    *)
LEMMA RefinementStep ==
  ASSUME IInv, IInv', [Next]_vars
  PROVE  [Abstract!Next]_Blocks
<1>0. /\ TypeOK /\ Tiling /\ TypeOK' /\ Tiling'
      /\ DOMAIN live \subseteq Chunks /\ DOMAIN live' \subseteq Chunks'
  BY DEF IInv, TypeOK
<1>1. /\ Blocks = {BlockOf(c) : c \in DOMAIN live}
      /\ Blocks' = {BlockOf(c)' : c \in DOMAIN live'}
  BY DEF Blocks, BlockOf
<1>2. \A c : capacity'[c] = capacity[c] => BlockOf(c)' = BlockOf(c)
  BY DEF BlockOf
<1>3. CASE /\ DOMAIN live' = DOMAIN live
           /\ \A c \in DOMAIN live : capacity'[c] = capacity[c]
  <2>1. Blocks' = Blocks
    BY <1>1, <1>2, <1>3
  <2> QED
    BY <2>1
<1>4. ASSUME NEW c \in DOMAIN live, DOMAIN live' = DOMAIN live \ {c}, capacity' = capacity
      PROVE  Abstract!Next
  <2>1. \A d \in DOMAIN live \ {c} : BlockOf(d) # BlockOf(c)
    <3>1. \A d \in DOMAIN live \ {c} : d + HeaderSize # c + HeaderSize
      BY <1>0, HeapAssumption DEF TypeOK
    <3> QED
      BY <3>1 DEF BlockOf
  <2>2. BlockOf(c) \in Blocks /\ Blocks' = Blocks \ {BlockOf(c)}
    BY <1>1, <1>2, <1>4, <2>1
  <2> QED
    BY <2>2 DEF Abstract!Next, Abstract!Free
<1>5. ASSUME NEW c \in Chunks \ DOMAIN live, DOMAIN live' = DOMAIN live \cup {c},
             \A d \in DOMAIN live : capacity'[d] = capacity[d]
      PROVE  Abstract!Next
  <2> DEFINE b == BlockOf(c)'
  <2>1. Blocks' = Blocks \cup {b} /\ b \in Blocks'
    BY <1>1, <1>2, <1>5
  <2>2. c \in Chunks' /\ DOMAIN live \subseteq Chunks' \ {c}
    BY <1>0, <1>5
  <2>3. b \in Abstract!Block
    <3>1. b = [start |-> c + HeaderSize, size |-> capacity'[c]]
      BY DEF BlockOf
    <3>2. c \in Nat /\ capacity'[c] \in Nat /\ HeaderSize \in Nat
      BY <1>0, <2>2, HeapAssumption DEF TypeOK
    <3> QED
      BY <3>1, <3>2 DEF Abstract!Block
  <2>4. ASSUME NEW d \in DOMAIN live
        PROVE  b.start # BlockOf(d).start /\ Abstract!Disjoint(b, BlockOf(d))
    <3>1. BlockOf(d)' = BlockOf(d)
      BY <1>2, <1>5
    <3>2. /\ c \in Nat /\ d \in Nat /\ c # d /\ capacity'[c] \in Nat /\ capacity'[d] \in Nat
          /\ HeaderSize \in Nat
      BY <1>0, <1>5, <2>2, HeapAssumption DEF TypeOK
    <3>3. /\ c < d => c + HeaderSize + capacity'[c] <= d
          /\ d < c => d + HeaderSize + capacity'[d] <= c
      BY <1>0, <2>2 DEF Tiling, EndOf
    <3>4. capacity'[d] = capacity[d]
      BY <1>5
    <3> QED
      BY <3>2, <3>3, <3>4 DEF BlockOf, Abstract!Disjoint
  <2>5. Abstract!Allocate(b)
    BY <1>1, <2>1, <2>2, <2>3, <2>4 DEF Abstract!Allocate
  <2> QED
    BY <2>1, <2>5 DEF Abstract!Next
<1> QED
  BY <1>3, <1>4, <1>5, BlockStep

(* mem_alloc.c keeps the promises of mem_alloc.h: memory that was given    *)
(* out is nobody else's, and stays as it is until its owner frees it.      *)
THEOREM Refinement == Spec => AllocatorSpec
<1>1. Init => Abstract!Init
  BY DEF Init, Blocks, Abstract!Init
<1>2. IInv /\ IInv' /\ [Next]_vars => [Abstract!Next]_Blocks
  BY RefinementStep
<1> QED
  BY <1>1, <1>2, Invariance, PTL DEF Spec, AllocatorSpec, Abstract!Spec
=============================================================================
