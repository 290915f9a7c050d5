------------------------ MODULE RequestFramingProofs ------------------------
(***************************************************************************)
(* Proofs about RequestFraming, for requests of any length, cut into reads *)
(* of any length: the paths answered are the paths sent, and the two loops *)
(* implement RequestService.  They hold for paths that are not empty; for  *)
(* others they are false (see NonEmptyPaths).                              *)
(***************************************************************************)
EXTENDS RequestFraming, SequenceTheorems, TLAPS

(* The shell passes an empty argument on to client.c, which writes it as   *)
(* an empty line, and read_request takes that for the end of the request:  *)
(* nothing below holds of such a client.                                   *)
NonEmptyPaths == \A args \in Requests : \A i \in 1 .. Len(args) : args[i] # <<>>

Bytes == Letters \cup {CR, LF}
NewLine == <<CR, LF>>

Segs == Segments(paths)
Total == 2 * Len(paths) + 1
LineEnd(s) == s % 2 = 0 \/ s = Total

(* How many writes the client has made, and all the bytes it has written.  *)
Written == Total - Len(unsent)
Stream == request \o wire

TypeInv ==
  /\ paths \in Requests
  /\ unsent \in Seq(Seq(Bytes)) /\ Len(unsent) <= Total
  /\ \A i \in 1 .. Len(unsent) : unsent[i] = Segs[Written + i]
  /\ gone \in BOOLEAN
  /\ wire \in Seq(Bytes) /\ request \in Seq(Bytes)
  /\ pc \in {"read", "split", "done", "refused"}
  /\ answered \in Seq(Seq(Bytes))

(* Write s begins at byte pos[s] of the stream; the writes fill it without *)
(* gaps.  There is such a pos at the start, and each write adds one place, *)
(* so no sum over the writes is needed.                                    *)
Cut(pos) ==
  /\ pos \in [1 .. Written + 1 -> Nat \ {0}]
  /\ pos[1] = 1 /\ pos[Written + 1] = Len(Stream) + 1
  /\ \A s \in 1 .. Written :
       /\ pos[s + 1] = pos[s] + Len(Segs[s])
       /\ \A j \in 1 .. Len(Segs[s]) : Stream[pos[s] + j - 1] = Segs[s][j]
  /\ \A s, t \in 1 .. Written + 1 : s < t => pos[s] < pos[t]
  /\ \A p \in 1 .. Len(Stream) : \E s \in 1 .. Written : pos[s] <= p /\ p < pos[s + 1]

(* The splitting loop stands at the first byte of a line; after the first  *)
(* line path_end is one further (line 75 adds one after lines 83 and 97).  *)
Pointers(pos) ==
  /\ 2 * Len(answered) <= Written
  /\ path_start = pos[2 * Len(answered) + 1]
  /\ path_end = IF answered = <<>> THEN 1 ELSE path_start + 1

LayoutInv == \E pos : Cut(pos) /\ Pointers(pos)

(* A request is split only when all of it was sent and read, and what was  *)
(* answered so far are its first paths.                                    *)
ServerInv ==
  /\ pc \in {"split", "done"} => wire = <<>> /\ unsent = <<>> /\ paths # <<>>
  /\ pc \in {"read", "refused"} => answered = <<>>
  /\ Len(answered) <= Len(paths)
  /\ \A i \in 1 .. Len(answered) : answered[i] = paths[i]
  /\ pc = "done" => Len(answered) = Len(paths)

IInv == TypeInv /\ LayoutInv /\ ServerInv

-----------------------------------------------------------------------------
(* The writes of client.c: a path and a line end in turn, and a line end.  *)
LEMMA ClientWrites ==
  ASSUME paths \in Requests
  PROVE  /\ Len(paths) \in Nat /\ paths \in Seq(Seq(Letters))
         /\ Segs \in Seq(Seq(Bytes)) /\ Len(Segs) = Total /\ DOMAIN Segs = 1 .. Total
         /\ \A s \in 1 .. Total : LineEnd(s) => Segs[s] = NewLine
         /\ \A i \in 1 .. Len(paths) : /\ Segs[2 * i - 1] = paths[i]
                                       /\ ~LineEnd(2 * i - 1) /\ LineEnd(2 * i)
         /\ \A s \in 1 .. Total : ~LineEnd(s) => \E i \in 1 .. Len(paths) : s = 2 * i - 1
<1>1. paths \in Seq(Seq(Letters)) /\ Len(paths) \in Nat
  BY FramingAssumption
<1>2. Segs = [s \in 1 .. Total |-> IF s % 2 = 1 /\ s < 2 * Len(paths)
                                   THEN paths[(s + 1) \div 2] ELSE NewLine]
  BY DEF Segs, Segments, Total, NewLine
<1>3. ASSUME NEW s \in 1 .. Total, ~LineEnd(s)
      PROVE  \E i \in 1 .. Len(paths) : s = 2 * i - 1
  <2>1. s \in Nat /\ s % 2 # 0 /\ s # 2 * Len(paths) + 1 /\ s <= 2 * Len(paths) + 1 /\ s >= 1
    BY <1>1, <1>3 DEF LineEnd, Total
  <2>2. PICK i \in Int : s = 2 * i - 1
    <3>1. s % 2 = 1 /\ s \div 2 \in Int /\ s = 2 * (s \div 2) + (s % 2)
      <4>1. s % 2 \in 0 .. 1
        BY <2>1
      <4> QED
        BY <2>1, <4>1
    <3>2. s \div 2 + 1 \in Int /\ s = 2 * (s \div 2 + 1) - 1
      BY <2>1, <3>1
    <3> QED
      BY <3>2
  <2>3. 2 * i <= 2 * Len(paths) + 2 /\ 2 * i >= 2 /\ 2 * i # 2 * Len(paths) + 2
    BY <1>1, <2>1, <2>2
  <2>4. i \in 1 .. Len(paths)
    <3> DEFINE n == Len(paths)
    <3>1. n \in Nat /\ 2 * i <= 2 * n + 2 /\ 2 * i >= 2 /\ 2 * i # 2 * n + 2
      BY <1>1, <2>3
    <3> HIDE DEF n
    <3>2. i >= 1 /\ i <= n + 1 /\ i # n + 1
      BY <3>1
    <3>3. i \in 1 .. n
      BY <3>1, <3>2
    <3> QED
      BY <3>3 DEF n
  <2> QED
    BY <2>2, <2>4
<1>4. ASSUME NEW s \in 1 .. Total, LineEnd(s) PROVE Segs[s] = NewLine
  <2>1. s \in Nat /\ ~(s % 2 = 1 /\ s < 2 * Len(paths))
    BY <1>1, <1>4 DEF LineEnd, Total
  <2> QED
    BY <1>2, <2>1
<1>5. ASSUME NEW i \in 1 .. Len(paths)
      PROVE  Segs[2 * i - 1] = paths[i] /\ ~LineEnd(2 * i - 1) /\ LineEnd(2 * i)
  <2>1. /\ 2 * i - 1 \in 1 .. Total /\ (2 * i - 1) % 2 = 1 /\ 2 * i - 1 < 2 * Len(paths)
        /\ ((2 * i - 1) + 1) \div 2 = i /\ (2 * i) % 2 = 0
    BY <1>1 DEF Total
  <2> QED
    BY <1>1, <1>2, <2>1 DEF LineEnd, Total
<1>6. \A s \in 1 .. Total : Segs[s] \in Seq(Bytes)
  <2>1. NewLine \in Seq(Bytes)
    BY DEF NewLine, Bytes
  <2>2. \A i \in 1 .. Len(paths) : paths[i] \in Seq(Bytes)
    <3> SUFFICES ASSUME NEW i \in 1 .. Len(paths) PROVE paths[i] \in Seq(Bytes)
      OBVIOUS
    <3>1. paths[i] \in Seq(Letters)
      BY <1>1, ElementOfSeq
    <3> QED
      BY <3>1, SeqMonotonic DEF Bytes
  <2> QED
    BY <1>3, <1>4, <1>5, <2>1, <2>2
<1>7. Total \in Nat /\ Segs \in [1 .. Total -> Seq(Bytes)]
  BY <1>1, <1>2, <1>6 DEF Total
<1>8. Segs \in Seq(Seq(Bytes))
  <2> DEFINE S == Seq(Bytes)
  <2> HIDE DEF S
  <2>1. Segs \in Seq(S)
    BY <1>7, SeqDef DEF S
  <2> QED
    BY <2>1 DEF S
<1>9. Len(Segs) = Total /\ DOMAIN Segs = 1 .. Total
  BY <1>7, <1>8, LenProperties
<1> QED
  BY <1>1, <1>3, <1>4, <1>5, <1>8, <1>9

(* Sizes and bytes of the writes.                                          *)
LEMMA WriteBytes ==
  ASSUME NonEmptyPaths, paths \in Requests, NEW s \in 1 .. Total
  PROVE  /\ Segs[s] \in Seq(Bytes) /\ Len(Segs[s]) \in Nat \ {0}
         /\ LineEnd(s) => Len(Segs[s]) = 2 /\ Segs[s][1] = CR /\ Segs[s][2] = LF
         /\ ~LineEnd(s) => \A j \in 1 .. Len(Segs[s]) : Segs[s][j] \in Letters
<1>1. Segs[s] \in Seq(Bytes)
  BY ClientWrites, ElementOfSeq
<1>2. ASSUME LineEnd(s)
      PROVE  Len(Segs[s]) = 2 /\ Segs[s][1] = CR /\ Segs[s][2] = LF
  <2>1. Segs[s] = <<CR, LF>>
    BY <1>2, ClientWrites DEF NewLine
  <2> QED
    BY <2>1
<1>3. ASSUME ~LineEnd(s)
      PROVE  /\ Len(Segs[s]) \in Nat \ {0}
             /\ \A j \in 1 .. Len(Segs[s]) : Segs[s][j] \in Letters
  <2>1. PICK i \in 1 .. Len(paths) : s = 2 * i - 1
    BY <1>3, ClientWrites
  <2>2. Segs[s] = paths[i]
    BY <2>1, ClientWrites
  <2>3. paths[i] \in Seq(Letters)
    BY ClientWrites, ElementOfSeq
  <2>4. paths[i] # <<>>
    BY DEF NonEmptyPaths
  <2>5. Len(paths[i]) \in Nat \ {0}
    BY <2>3, <2>4, EmptySeq
  <2>6. \A j \in 1 .. Len(paths[i]) : paths[i][j] \in Letters
    BY <2>3, ElementOfSeq
  <2> QED
    BY <2>2, <2>5, <2>6
<1> QED
  BY <1>1, <1>2, <1>3

-----------------------------------------------------------------------------
(* Where the line ends of the stream are, and what read_request concludes. *)
LEMMA StreamFacts ==
  ASSUME TypeInv
  PROVE  /\ Len(paths) \in Nat /\ Total = 2 * Len(paths) + 1 /\ Total \in Nat
         /\ Len(unsent) \in Nat /\ Written \in 0 .. Total /\ Written = Total - Len(unsent)
         /\ Len(request) \in Nat /\ Len(wire) \in Nat
         /\ Stream \in Seq(Bytes) /\ Len(Stream) = Len(request) + Len(wire)
         /\ \A i \in 1 .. Len(request) : Stream[i] = request[i]
<1>1. Len(paths) \in Nat
  BY ClientWrites DEF TypeInv
<1>2. Len(unsent) \in Nat /\ Len(unsent) <= Total
  BY LenProperties DEF TypeInv
<1>3. /\ Len(request) \in Nat /\ Len(wire) \in Nat
      /\ Stream \in Seq(Bytes) /\ Len(Stream) = Len(request) + Len(wire)
      /\ \A i \in 1 .. Len(request) + Len(wire) :
           Stream[i] = IF i <= Len(request) THEN request[i] ELSE wire[i - Len(request)]
  BY ConcatProperties, LenProperties DEF TypeInv, Stream
<1> QED
  BY <1>1, <1>2, <1>3 DEF Total, Written

(* The first bytes of the writes are in the order of the writes.           *)
LEMMA WritesInOrder ==
  ASSUME TypeInv, NEW pos, Cut(pos)
  PROVE  /\ \A s \in 1 .. Written + 1 : pos[s] \in Nat \ {0}
         /\ \A s, t \in 1 .. Written + 1 : pos[s] <= pos[t] => s <= t
         /\ \A s, t \in 1 .. Written + 1 : pos[s] = pos[t] => s = t
<1>1. Written \in Nat
  BY StreamFacts
<1>2. \A s \in 1 .. Written + 1 : pos[s] \in Nat \ {0} /\ s \in Nat
  BY <1>1 DEF Cut
<1>3. \A s, t \in 1 .. Written + 1 : s < t => pos[s] < pos[t]
  BY DEF Cut
<1> QED
  BY <1>2, <1>3

(* A '\r' is the first byte of a line end, and no other byte is one.       *)
LEMMA ReturnAt ==
  ASSUME NonEmptyPaths, TypeInv, NEW pos, Cut(pos),
         NEW p \in 1 .. Len(Stream), Stream[p] = CR
  PROVE  \E s \in 1 .. Written : LineEnd(s) /\ pos[s] = p /\ pos[s + 1] = p + 2
<1>1. PICK s \in 1 .. Written : pos[s] <= p /\ p < pos[s + 1]
  BY DEF Cut
<1>2. /\ s \in 1 .. Total /\ s \in 1 .. Written + 1 /\ s + 1 \in 1 .. Written + 1
      /\ p \in Nat
  BY StreamFacts
<1>3. pos[s] \in Nat /\ pos[s + 1] \in Nat
  BY <1>2, WritesInOrder
<1>4. Len(Segs[s]) \in Nat /\ pos[s + 1] = pos[s] + Len(Segs[s])
  BY <1>2, WriteBytes DEF Cut, TypeInv
<1> DEFINE j == p - pos[s] + 1
<1>5. j \in 1 .. Len(Segs[s]) /\ pos[s] + j - 1 = p
  BY <1>1, <1>2, <1>3, <1>4
<1> HIDE DEF j
<1>6. Segs[s][j] = CR
  BY <1>5 DEF Cut
<1>7. LineEnd(s)
  <2>1. CR \notin Letters
    BY FramingAssumption
  <2>2. ~LineEnd(s) => Segs[s][j] \in Letters
    BY <1>2, <1>5, WriteBytes DEF TypeInv
  <2> QED
    BY <1>6, <2>1, <2>2
<1>8. Len(Segs[s]) = 2 /\ Segs[s][1] = CR /\ Segs[s][2] = LF
  BY <1>2, <1>7, WriteBytes DEF TypeInv
<1>9. j = 1
  BY <1>5, <1>6, <1>8, FramingAssumption
<1>10. pos[s] = p /\ pos[s + 1] = p + 2
  BY <1>2, <1>3, <1>4, <1>5, <1>8, <1>9
<1> QED
  BY <1>7, <1>10

(* Two line ends follow each other only where the request ends.            *)
LEMMA EmptyLine ==
  ASSUME TypeInv, NEW s \in 1 .. Total, LineEnd(s), s + 1 <= Total, LineEnd(s + 1)
  PROVE  s + 1 = Total
<1>1. s \in Nat /\ Total \in Nat /\ s + 1 \in 1 .. Total
  BY StreamFacts
<1>2. s # Total /\ s % 2 = 0
  BY <1>1 DEF LineEnd
<1>3. (s + 1) % 2 = 1
  BY <1>1, <1>2
<1> QED
  BY <1>3 DEF LineEnd

(* read_request goes on until it has the whole request, however it was     *)
(* cut (lines 36-45): it neither splits nor refuses a part of one.         *)
LEMMA WholeRequest ==
  ASSUME NonEmptyPaths, TypeInv, NEW pos, Cut(pos),
         NEW r \in Seq(Bytes), Len(r) <= Len(Stream),
         \A i \in 1 .. Len(r) : r[i] = Stream[i]
  PROVE  /\ Verdict(r) \in {"read", "split", "refused"}
         /\ Verdict(r) = "split" => unsent = <<>> /\ paths # <<>> /\ Len(r) = Len(Stream)
         /\ Verdict(r) = "refused" => unsent = <<>> /\ paths = <<>>
<1>1. Len(r) \in Nat /\ Len(Stream) \in Nat
  BY StreamFacts, LenProperties
<1>2. Verdict(r) \in {"read", "split", "refused"}
  BY DEF Verdict
<1>3. ASSUME Written = Total PROVE unsent = <<>>
  BY <1>3, StreamFacts, EmptySeq DEF TypeInv
<1>4. ASSUME Verdict(r) = "split"
      PROVE  unsent = <<>> /\ paths # <<>> /\ Len(r) = Len(Stream)
  <2> DEFINE n == Len(r)
  <2>1. /\ n > 4 /\ n \in Nat /\ r[n - 3] = CR /\ r[n - 1] = CR
    BY <1>1, <1>4 DEF Verdict, EndsInNewline
  <2>2. /\ n - 3 \in 1 .. Len(Stream) /\ Stream[n - 3] = CR
        /\ n - 1 \in 1 .. Len(Stream) /\ Stream[n - 1] = CR
    BY <1>1, <2>1
  <2>3. n \in Nat /\ Written \in Nat /\ Total \in Nat /\ Written <= Total
    BY <2>1, StreamFacts
  <2> HIDE DEF n
  <2>4. PICK s \in 1 .. Written : LineEnd(s) /\ pos[s] = n - 3 /\ pos[s + 1] = n - 3 + 2
    BY <2>2, ReturnAt
  <2>5. PICK t \in 1 .. Written : LineEnd(t) /\ pos[t] = n - 1 /\ pos[t + 1] = n - 1 + 2
    BY <2>2, ReturnAt
  <2>6. s + 1 \in 1 .. Written + 1 /\ t \in 1 .. Written + 1 /\ pos[s + 1] = pos[t]
    <3>1. s \in Nat /\ t \in Nat /\ n - 3 + 2 = n - 1
      BY <2>3
    <3> QED
      BY <2>4, <2>5, <2>3, <3>1
  <2>7. t = s + 1
    BY <2>6, WritesInOrder
  <2>8. s \in 1 .. Total /\ s + 1 <= Total /\ s \in Nat
    BY <2>7, StreamFacts
  <2>9. s + 1 = Total
    BY <2>4, <2>5, <2>7, <2>8, EmptyLine
  <2>10. Written = Total
    BY <2>7, <2>8, <2>9, <2>3
  <2>11. paths # <<>>
    <3>1. Len(paths) # 0
      BY <2>8, <2>9, StreamFacts
    <3> QED
      BY <3>1
  <2>12. Len(Stream) = n
    <3>1. pos[Written + 1] = Len(Stream) + 1
      BY DEF Cut
    <3> QED
      BY <1>1, <2>1, <2>5, <2>7, <2>9, <2>10, <3>1
  <2> QED
    BY <1>3, <2>10, <2>11, <2>12 DEF n
<1>5. ASSUME Verdict(r) = "refused" PROVE unsent = <<>> /\ paths = <<>>
  <2>1. Len(r) = 2 /\ r[1] = CR
    BY <1>1, <1>5 DEF Verdict, EndsInNewline
  <2>2. 1 \in 1 .. Len(Stream) /\ Stream[1] = CR
    BY <1>1, <2>1
  <2>3. PICK s \in 1 .. Written : LineEnd(s) /\ pos[s] = 1
    BY <2>2, ReturnAt
  <2>4. pos[1] = 1
    BY DEF Cut
  <2>5. s \in 1 .. Written + 1 /\ 1 \in 1 .. Written + 1 /\ Written \in Nat
    BY StreamFacts
  <2>6. s = 1
    BY <2>3, <2>4, <2>5, WritesInOrder
  <2>7. Total = 1
    BY <2>3, <2>6 DEF LineEnd
  <2>8. Written = Total /\ Len(paths) = 0
    BY <2>3, <2>5, <2>7, StreamFacts
  <2>9. paths = <<>>
    BY <2>8, ClientWrites, EmptySeq DEF TypeInv
  <2> QED
    BY <1>3, <2>8, <2>9
<1> QED
  BY <1>2, <1>4, <1>5

-----------------------------------------------------------------------------
(* The invariant is inductive.                                             *)
LEMMA InitInv ==
  ASSUME Init
  PROVE  IInv
<1>1. /\ paths \in Requests /\ unsent = Segs /\ gone = FALSE /\ wire = <<>> /\ pc = "read"
      /\ request = <<>> /\ path_start = 1 /\ path_end = 1 /\ answered = <<>>
  BY DEF Init, Segs
<1>2. /\ Len(paths) \in Nat /\ Segs \in Seq(Seq(Bytes)) /\ Len(Segs) = Total
  BY <1>1, ClientWrites
<1>3. Total \in Nat /\ Written = 0
  BY <1>1, <1>2 DEF Total, Written
<1>4. TypeInv
  <2>1. \A i \in 1 .. Len(unsent) : unsent[i] = Segs[Written + i]
    <3>1. Len(unsent) \in Nat
      BY <1>1, <1>2, <1>3
    <3>2. \A i \in 1 .. Len(unsent) : Written + i = i
      BY <1>3, <3>1
    <3> QED
      BY <1>1, <3>2
  <2>2. Len(unsent) <= Total
    BY <1>1, <1>2, <1>3
  <2>3. wire \in Seq(Bytes) /\ request \in Seq(Bytes) /\ answered \in Seq(Seq(Bytes))
    BY <1>1, EmptySeq
  <2> QED
    BY <1>1, <1>2, <2>1, <2>2, <2>3 DEF TypeInv
<1>5. Len(Stream) = 0
  BY <1>1, <1>4, StreamFacts
<1>6. LayoutInv
  <2> DEFINE one == [s \in 1 .. Written + 1 |-> 1]
  <2>1. Cut(one)
    BY <1>3, <1>5 DEF Cut
  <2>2. Pointers(one)
    BY <1>1, <1>3 DEF Pointers
  <2> HIDE DEF one
  <2> QED
    BY <2>1, <2>2 DEF LayoutInv
<1>7. ServerInv
  BY <1>1, <1>2 DEF ServerInv
<1> QED
  BY <1>4, <1>6, <1>7 DEF IInv

(* The client's writes: the stream grows by one write.                     *)
LEMMA WriteStep ==
  ASSUME NonEmptyPaths, IInv, WriteSegment
  PROVE  IInv'
<1> DEFINE h == Head(unsent)
           w == Written
<1>1. /\ unsent # <<>> /\ wire' = wire \o h /\ unsent' = Tail(unsent)
      /\ UNCHANGED <<paths, gone, pc, request, path_start, path_end, answered>>
  BY DEF WriteSegment, serverVars
<1>2. TypeInv /\ ServerInv /\ pc \notin {"split", "done"}
  BY <1>1 DEF IInv, ServerInv
<1>3. /\ Len(unsent) \in Nat \ {0} /\ Total \in Nat /\ w \in Nat /\ w + 1 <= Total
      /\ w = Total - Len(unsent) /\ w + 1 \in 1 .. Total
  <2>1. Len(unsent) # 0
    BY <1>1, <1>2, EmptySeq DEF TypeInv
  <2> QED
    BY <1>2, <2>1, StreamFacts
<1>4. /\ h \in Seq(Bytes) /\ h = unsent[1] /\ Tail(unsent) \in Seq(Seq(Bytes))
      /\ Len(Tail(unsent)) = Len(unsent) - 1
      /\ \A i \in 1 .. Len(unsent) - 1 : Tail(unsent)[i] = unsent[i + 1]
  <2> DEFINE S == Seq(Bytes)
  <2>1. unsent \in Seq(S)
    BY <1>2 DEF TypeInv
  <2> HIDE DEF S
  <2>2. /\ h \in S /\ Tail(unsent) \in Seq(S) /\ Len(Tail(unsent)) = Len(unsent) - 1
        /\ \A i \in 1 .. Len(Tail(unsent)) : Tail(unsent)[i] = unsent[i + 1]
    BY <1>1, <2>1, HeadTailProperties
  <2>3. h = unsent[1]
    BY <1>1, <2>1
  <2> QED
    BY <2>2, <2>3 DEF S
<1>5. h = Segs[w + 1]
  BY <1>2, <1>3, <1>4 DEF TypeInv
<1>6. Len(h) \in Nat \ {0}
  BY <1>2, <1>3, <1>5, WriteBytes DEF TypeInv
<1> HIDE DEF h, w
<1>7. Segs' = Segs /\ Total' = Total /\ Written' = w + 1
  BY <1>1, <1>3, <1>4 DEF Segs, Total, Written
<1>8. TypeInv'
  <2>1. wire' \in Seq(Bytes)
    BY <1>1, <1>2, <1>4, ConcatProperties DEF TypeInv
  <2>2. Len(unsent') <= Total'
    BY <1>1, <1>3, <1>4, <1>7
  <2>3. ASSUME NEW i \in 1 .. Len(unsent') PROVE unsent'[i] = Segs'[Written' + i]
    <3>1. i \in 1 .. Len(unsent) - 1 /\ i + 1 \in 1 .. Len(unsent)
      BY <1>1, <1>3, <1>4
    <3>2. unsent[i + 1] = Segs[w + (i + 1)]
      BY <1>2, <3>1 DEF TypeInv, w
    <3>3. w + (i + 1) = Written' + i
      BY <1>3, <1>7, <3>1
    <3> QED
      BY <1>1, <1>4, <1>7, <3>1, <3>2, <3>3
  <2> QED
    BY <1>1, <1>2, <1>4, <2>1, <2>2, <2>3 DEF TypeInv
<1>9. /\ Stream \in Seq(Bytes) /\ Len(Stream) \in Nat
      /\ Stream' \in Seq(Bytes) /\ Len(Stream') = Len(Stream) + Len(h)
      /\ \A i \in 1 .. Len(Stream) : Stream'[i] = Stream[i]
      /\ \A i \in Len(Stream) + 1 .. Len(Stream) + Len(h) : Stream'[i] = h[i - Len(Stream)]
  <2>1. Stream' = Stream \o h
    <3>1. request \in Seq(Bytes) /\ wire \in Seq(Bytes) /\ h \in Seq(Bytes)
      BY <1>2, <1>4 DEF TypeInv
    <3>2. (request \o wire) \o h = request \o (wire \o h)
      BY <3>1, ConcatAssociative
    <3> QED
      BY <1>1, <3>2 DEF Stream
  <2>2. Stream \in Seq(Bytes) /\ Len(Stream) \in Nat
    BY <1>2, StreamFacts
  <2>3. /\ Stream \o h \in Seq(Bytes) /\ Len(Stream \o h) = Len(Stream) + Len(h)
        /\ \A i \in 1 .. Len(Stream) + Len(h) :
             (Stream \o h)[i] = IF i <= Len(Stream) THEN Stream[i] ELSE h[i - Len(Stream)]
    BY <1>4, <2>2, ConcatProperties
  <2> QED
    BY <1>6, <2>1, <2>2, <2>3
<1>10. PICK pos : Cut(pos) /\ Pointers(pos)
  BY DEF IInv, LayoutInv
<1>11. /\ pos \in [1 .. w + 1 -> Nat \ {0}] /\ pos[1] = 1 /\ pos[w + 1] = Len(Stream) + 1
       /\ \A s \in 1 .. w :
            /\ pos[s + 1] = pos[s] + Len(Segs[s])
            /\ \A j \in 1 .. Len(Segs[s]) : Stream[pos[s] + j - 1] = Segs[s][j]
       /\ \A s, t \in 1 .. w + 1 : s < t => pos[s] < pos[t]
       /\ \A p \in 1 .. Len(Stream) : \E s \in 1 .. w : pos[s] <= p /\ p < pos[s + 1]
  BY <1>10 DEF Cut, w
<1>12. ASSUME NEW s \in 1 .. w + 1
       PROVE  pos[s] \in Nat \ {0} /\ pos[s] <= Len(Stream) + 1
  <2>1. (s = w + 1 \/ s < w + 1) /\ w + 1 \in 1 .. w + 1
    BY <1>3
  <2>2. pos[s] \in Nat \ {0} /\ pos[w + 1] \in Nat
    BY <1>11, <2>1
  <2>3. s < w + 1 => pos[s] < pos[w + 1]
    BY <1>11, <2>1
  <2> QED
    BY <1>9, <1>11, <2>1, <2>2, <2>3
<1>13. PICK ext \in [1 .. w + 2 -> Nat \ {0}] :
         /\ \A s \in 1 .. w + 1 : ext[s] = pos[s]
         /\ ext[w + 2] = Len(Stream) + Len(h) + 1
  <2> DEFINE e == [s \in 1 .. w + 2 |-> IF s = w + 2 THEN Len(Stream) + Len(h) + 1
                                        ELSE pos[s]]
  <2>1. \A s \in 1 .. w + 2 : s # w + 2 => s \in 1 .. w + 1
    BY <1>3
  <2>2. \A s \in 1 .. w + 1 : s # w + 2 /\ s \in 1 .. w + 2
    BY <1>3
  <2>3. w + 2 \in 1 .. w + 2 /\ Len(Stream) + Len(h) + 1 \in Nat \ {0}
    BY <1>3, <1>6, <1>9
  <2>4. e \in [1 .. w + 2 -> Nat \ {0}]
    BY <1>12, <2>1, <2>3
  <2>5. (\A s \in 1 .. w + 1 : e[s] = pos[s]) /\ e[w + 2] = Len(Stream) + Len(h) + 1
    BY <2>2, <2>3
  <2> QED
    BY <2>4, <2>5
<1>14. Cut(ext)'
  <2>1. ext \in [1 .. Written' + 1 -> Nat \ {0}]
    BY <1>3, <1>7, <1>13
  <2>2. ext[1] = 1 /\ ext[Written' + 1] = Len(Stream') + 1
    BY <1>3, <1>7, <1>9, <1>13, <1>11
  <2>3. ASSUME NEW s \in 1 .. Written'
        PROVE  /\ ext[s + 1] = ext[s] + Len(Segs'[s])
               /\ \A j \in 1 .. Len(Segs'[s]) : Stream'[ext[s] + j - 1] = Segs'[s][j]
    <3>1. CASE s = w + 1
      <4>1. ext[s] = Len(Stream) + 1 /\ ext[s + 1] = Len(Stream) + Len(h) + 1 /\ Segs'[s] = h
        BY <1>3, <1>5, <1>7, <1>13, <1>11, <3>1
      <4>2. \A j \in 1 .. Len(h) : Stream'[Len(Stream) + 1 + j - 1] = h[j]
        <5> SUFFICES ASSUME NEW j \in 1 .. Len(h)
                     PROVE  Stream'[Len(Stream) + 1 + j - 1] = h[j]
          OBVIOUS
        <5> DEFINE i == Len(Stream) + 1 + j - 1
        <5>1. i \in Len(Stream) + 1 .. Len(Stream) + Len(h) /\ i - Len(Stream) = j
          BY <1>6, <1>9
        <5> HIDE DEF i
        <5>2. Stream'[i] = h[i - Len(Stream)]
          BY <1>9, <5>1
        <5> QED
          BY <5>1, <5>2 DEF i
      <4> QED
        BY <1>6, <1>9, <4>1, <4>2
    <3>2. CASE s # w + 1
      <4>1. s \in 1 .. w /\ s \in 1 .. w + 1 /\ s + 1 \in 1 .. w + 1 /\ s \in 1 .. Total
        BY <1>3, <1>7, <3>2
      <4>2. /\ pos[s + 1] = pos[s] + Len(Segs[s])
            /\ \A j \in 1 .. Len(Segs[s]) : Stream[pos[s] + j - 1] = Segs[s][j]
        BY <1>11, <4>1
      <4>3. /\ pos[s] \in Nat \ {0} /\ pos[s + 1] \in Nat /\ pos[s + 1] <= Len(Stream) + 1
            /\ Len(Segs[s]) \in Nat
        BY <1>2, <1>12, <4>1, WriteBytes DEF TypeInv
      <4>4. ASSUME NEW j \in 1 .. Len(Segs[s])
            PROVE  Stream'[pos[s] + j - 1] = Stream[pos[s] + j - 1]
        <5>1. pos[s] + j - 1 \in 1 .. Len(Stream)
          <6>1. /\ Len(Stream) \in Nat /\ j \in Nat /\ j >= 1 /\ j <= Len(Segs[s])
                /\ pos[s] + Len(Segs[s]) <= Len(Stream) + 1
            BY <1>9, <4>2, <4>3
          <6> QED
            BY <4>3, <6>1
        <5> QED
          BY <1>9, <5>1
      <4> QED
        BY <1>7, <1>13, <4>1, <4>2, <4>4
    <3> QED
      BY <3>1, <3>2
  <2>4. ASSUME NEW s \in 1 .. Written' + 1, NEW t \in 1 .. Written' + 1, s < t
        PROVE  ext[s] < ext[t]
    <3>1. s \in 1 .. w + 1 /\ s \in Nat /\ t \in Nat
      BY <1>3, <1>7, <2>4
    <3>2. CASE t = w + 2
      <4>1. ext[s] = pos[s] /\ pos[s] \in Nat /\ pos[s] <= Len(Stream) + 1
        BY <1>13, <1>12, <3>1
      <4>2. ext[t] = Len(Stream) + Len(h) + 1
        BY <1>13, <3>2
      <4> QED
        BY <1>6, <1>9, <4>1, <4>2
    <3>3. CASE t # w + 2
      <4>1. t \in 1 .. w + 1
        BY <1>3, <1>7, <3>3
      <4>2. pos[s] < pos[t]
        BY <1>11, <2>4, <3>1, <4>1
      <4> QED
        BY <1>13, <3>1, <4>1, <4>2
    <3> QED
      BY <3>2, <3>3
  <2>5. ASSUME NEW p \in 1 .. Len(Stream')
        PROVE  \E s \in 1 .. Written' : ext[s] <= p /\ p < ext[s + 1]
    <3>1. CASE p <= Len(Stream)
      <4>1. PICK s \in 1 .. w : pos[s] <= p /\ p < pos[s + 1]
        BY <1>9, <1>11, <3>1
      <4>2. s \in 1 .. w + 1 /\ s + 1 \in 1 .. w + 1 /\ s \in 1 .. Written'
        BY <1>3, <1>7
      <4>3. ext[s] = pos[s] /\ ext[s + 1] = pos[s + 1]
        BY <1>13, <4>2
      <4> QED
        BY <4>1, <4>2, <4>3
    <3>2. CASE p > Len(Stream)
      <4>1. /\ w + 1 \in 1 .. Written' /\ ext[w + 1] = Len(Stream) + 1
            /\ (w + 1) + 1 = w + 2 /\ ext[w + 2] = Len(Stream) + Len(h) + 1
        BY <1>3, <1>7, <1>13, <1>11
      <4>2. Len(Stream) + 1 <= p /\ p < Len(Stream) + Len(h) + 1
        BY <1>6, <1>9, <3>2
      <4> QED
        BY <4>1, <4>2
    <3>3. p <= Len(Stream) \/ p > Len(Stream)
      <4>1. p \in Nat /\ Len(Stream) \in Nat
        BY <1>6, <1>9
      <4> QED
        BY <4>1
    <3> QED
      BY <3>1, <3>2, <3>3
  <2> QED
    BY <2>1, <2>2, <2>3, <2>4, <2>5 DEF Cut
<1>15. Pointers(ext)'
  <2>1. answered = <<>>
    BY <1>2 DEF TypeInv, ServerInv
  <2>2. Len(answered) = 0 /\ Len(answered') = 0 /\ answered' = <<>>
    BY <1>1, <2>1
  <2>3. path_start = 1 /\ path_end = 1
    BY <1>10, <1>11, <2>1, <2>2 DEF Pointers
  <2>4. ext[1] = 1
    BY <1>3, <1>13, <1>11
  <2>5. 2 * Len(answered') = 0 /\ 2 * Len(answered') + 1 = 1 /\ 0 <= Written'
    BY <1>3, <1>7, <2>2
  <2> QED
    BY <1>1, <2>2, <2>3, <2>4, <2>5 DEF Pointers
<1>16. ServerInv'
  <2>1. pc' \notin {"split", "done"}
    BY <1>1, <1>2
  <2> QED
    BY <1>1, <1>2, <2>1 DEF ServerInv
<1> QED
  BY <1>8, <1>14, <1>15, <1>16 DEF IInv, LayoutInv

(* The server's steps move bytes from the wire to the request at most.     *)
LEMMA SameCut ==
  ASSUME NEW pos, Cut(pos), paths' = paths, unsent' = unsent, Stream' = Stream
  PROVE  Cut(pos)'
<1>1. Segs' = Segs /\ Written' = Written
  BY DEF Segs, Written, Total
<1> QED
  BY <1>1 DEF Cut

(* What a read leaves of the stream, and what the server makes of it.      *)
LEMMA ReadFacts ==
  ASSUME NonEmptyPaths, IInv, Read
  PROVE  /\ request' \in Seq(Bytes) /\ wire' \in Seq(Bytes)
         /\ Stream' = Stream /\ Len(request') \in Nat /\ Len(wire') \in Nat
         /\ Len(Stream) = Len(request') + Len(wire')
         /\ pc' \in {"read", "split", "refused"}
         /\ pc' = "split" => unsent = <<>> /\ paths # <<>> /\ Len(request') = Len(Stream)
         /\ pc' = "refused" => unsent = <<>> /\ paths = <<>>
<1>1. PICK n \in 1 .. Len(wire) :
         /\ request' = request \o SubSeq(wire, 1, n)
         /\ pc' = Verdict(request')
         /\ wire' = SubSeq(wire, n + 1, Len(wire))
  BY DEF Read
<1>2. UNCHANGED <<paths, unsent, gone, path_start, path_end, answered>> /\ pc = "read"
  BY DEF Read, clientVars
<1>3. TypeInv /\ ServerInv /\ Len(wire) \in Nat /\ n \in Nat /\ wire \in Seq(Bytes)
  BY StreamFacts DEF IInv, TypeInv
<1>4. /\ SubSeq(wire, 1, n) \in Seq(Bytes) /\ wire' \in Seq(Bytes)
      /\ SubSeq(wire, 1, n) \o wire' = wire
  <2>1. \A i \in 1 .. Len(wire) : wire[i] \in Bytes
    BY <1>3, ElementOfSeq
  <2>2. \A i \in 1 .. n : wire[i] \in Bytes
    BY <1>3, <2>1
  <2>3. \A i \in n + 1 .. Len(wire) : wire[i] \in Bytes
    BY <1>3, <2>1
  <2>4. SubSeq(wire, 1, n) \in Seq(Bytes)
    BY <1>3, <2>2, SubSeqProperties
  <2>5. SubSeq(wire, n + 1, Len(wire)) \in Seq(Bytes)
    BY <1>3, <2>3, SubSeqProperties
  <2>6. SubSeq(wire, 1, n) \o SubSeq(wire, n + 1, Len(wire)) = SubSeq(wire, 1, Len(wire))
    <3>1. /\ 1 \in 1 .. Len(wire) + 1 /\ n \in 1 - 1 .. Len(wire)
          /\ Len(wire) \in n .. Len(wire)
      BY <1>3
    <3> QED
      BY <1>3, <3>1, ConcatAdjacentSubSeq
  <2>7. SubSeq(wire, 1, Len(wire)) = wire
    BY <1>3, SubSeqFull
  <2> QED
    BY <1>1, <2>4, <2>5, <2>6, <2>7
<1>5. request' \in Seq(Bytes)
  BY <1>1, <1>3, <1>4, ConcatProperties DEF TypeInv
<1>6. Stream' = Stream
  <2>1. request \in Seq(Bytes)
    BY <1>3 DEF TypeInv
  <2>2. (request \o SubSeq(wire, 1, n)) \o wire' = request \o (SubSeq(wire, 1, n) \o wire')
    BY <1>4, <2>1, ConcatAssociative
  <2> QED
    BY <1>1, <1>4, <2>2 DEF Stream
<1>7. PICK pos : Cut(pos) /\ Pointers(pos)
  BY DEF IInv, LayoutInv
<1>8. /\ Len(request') \in Nat /\ Len(wire') \in Nat /\ Len(Stream) = Len(request') + Len(wire')
      /\ \A i \in 1 .. Len(request') : request'[i] = Stream[i]
  <2>1. /\ Len(request' \o wire') = Len(request') + Len(wire')
        /\ \A i \in 1 .. Len(request') + Len(wire') : (request' \o wire')[i] =
              IF i <= Len(request') THEN request'[i] ELSE wire'[i - Len(request')]
    BY <1>4, <1>5, ConcatProperties
  <2>2. Len(request') \in Nat /\ Len(wire') \in Nat
    BY <1>4, <1>5, LenProperties
  <2>3. request' \o wire' = Stream
    BY <1>6 DEF Stream
  <2> QED
    BY <2>1, <2>2, <2>3
<1>9. /\ pc' \in {"read", "split", "refused"}
      /\ pc' = "split" => unsent = <<>> /\ paths # <<>> /\ Len(request') = Len(Stream)
      /\ pc' = "refused" => unsent = <<>> /\ paths = <<>>
  <2>1. Len(request') <= Len(Stream)
    BY <1>8
  <2>2. /\ Verdict(request') \in {"read", "split", "refused"}
        /\ Verdict(request') = "split" =>
             unsent = <<>> /\ paths # <<>> /\ Len(request') = Len(Stream)
        /\ Verdict(request') = "refused" => unsent = <<>> /\ paths = <<>>
    <3> DEFINE q == request'
    <3>1. /\ q \in Seq(Bytes) /\ Len(q) <= Len(Stream)
          /\ \A i \in 1 .. Len(q) : q[i] = Stream[i]
      BY <1>5, <1>8, <2>1
    <3> HIDE DEF q
    <3>2. /\ Verdict(q) \in {"read", "split", "refused"}
          /\ Verdict(q) = "split" => unsent = <<>> /\ paths # <<>> /\ Len(q) = Len(Stream)
          /\ Verdict(q) = "refused" => unsent = <<>> /\ paths = <<>>
      BY <1>3, <1>7, <3>1, WholeRequest
    <3> QED
      BY <3>2 DEF q
  <2> QED
    BY <1>1, <2>2
<1> QED
  BY <1>4, <1>5, <1>6, <1>8, <1>9

(* read_request.                                                           *)
LEMMA ReadStep ==
  ASSUME NonEmptyPaths, IInv, Read
  PROVE  IInv'
<1>1. UNCHANGED <<paths, unsent, gone, path_start, path_end, answered>> /\ pc = "read"
  BY DEF Read, clientVars
<1>2. TypeInv /\ ServerInv
  BY DEF IInv
<1>3. Segs' = Segs /\ Written' = Written /\ Total' = Total
  BY <1>1 DEF Segs, Written, Total
<1>4. TypeInv'
  BY <1>1, <1>2, <1>3, ReadFacts DEF TypeInv
<1>5. LayoutInv'
  <2>1. PICK pos : Cut(pos) /\ Pointers(pos)
    BY DEF IInv, LayoutInv
  <2>2. Cut(pos)'
    BY <1>1, <2>1, ReadFacts, SameCut
  <2> QED
    BY <1>1, <1>3, <2>1, <2>2 DEF LayoutInv, Pointers
<1>6. ServerInv'
  <2>1. pc' = "split" => wire' = <<>>
    <3>1. pc' = "split" => Len(wire') = 0 /\ wire' \in Seq(Bytes)
      BY ReadFacts
    <3> QED
      BY <3>1, EmptySeq
  <2>2. answered = <<>>
    BY <1>1, <1>2 DEF ServerInv
  <2> QED
    BY <1>1, <1>2, <2>1, <2>2, ReadFacts DEF ServerInv
<1> QED
  BY <1>4, <1>5, <1>6 DEF IInv

(* Where the splitting loop stands: at the first byte of the next path, or *)
(* at the empty line once all are answered.                                *)
LEMMA SplitFacts ==
  ASSUME NonEmptyPaths, IInv, pc = "split", NEW pos, Cut(pos), Pointers(pos)
  PROVE  /\ Len(answered) \in 0 .. Len(paths) /\ Len(paths) \in Nat \ {0}
         /\ Written = Total /\ Stream = request
         /\ path_start \in 1 .. Len(request) /\ path_end \in Nat \ {0} /\ Len(request) \in Nat
         /\ Len(answered) = Len(paths) => CR \notin {request[i] : i \in path_end .. Len(request)}
         /\ Len(answered) < Len(paths) =>
              LET s == 2 * Len(answered) + 1
                  path == paths[Len(answered) + 1]
              IN /\ pos[s] = path_start /\ pos[s + 1] = path_start + Len(path)
                 /\ pos[s + 2] = pos[s + 1] + 2
                 /\ path \in Seq(Letters) /\ Len(path) \in Nat \ {0}
                 /\ \A j \in 1 .. Len(path) : request[path_start + j - 1] = path[j]
                 /\ pos[s + 1] \in path_end .. Len(request) /\ request[pos[s + 1]] = CR
                 /\ \A cr \in path_end .. Len(request) : request[cr] = CR => cr >= pos[s + 1]
<1>1. TypeInv /\ ServerInv /\ wire = <<>> /\ unsent = <<>> /\ paths # <<>>
  BY DEF IInv, ServerInv
<1>2. /\ Len(answered) \in 0 .. Len(paths) /\ Len(paths) \in Nat \ {0} /\ Written = Total
      /\ Total = 2 * Len(paths) + 1 /\ Len(request) \in Nat
  <2>1. Len(unsent) = 0 /\ Len(answered) \in Nat /\ Len(paths) # 0
    BY <1>1, ClientWrites, LenProperties, EmptySeq DEF TypeInv
  <2> QED
    BY <1>1, <2>1, StreamFacts DEF ServerInv
<1>3. Stream = request
  BY <1>1, ConcatEmptySeq DEF TypeInv, Stream
<1>4. /\ pos[1] = 1 /\ pos[Total + 1] = Len(request) + 1
      /\ \A s \in 1 .. Total :
           /\ pos[s + 1] = pos[s] + Len(Segs[s])
           /\ \A j \in 1 .. Len(Segs[s]) : request[pos[s] + j - 1] = Segs[s][j]
      /\ \A s, t \in 1 .. Total + 1 : s < t => pos[s] < pos[t]
      /\ \A s \in 1 .. Total + 1 : pos[s] \in Nat \ {0}
      /\ \A s, t \in 1 .. Total + 1 : pos[s] <= pos[t] => s <= t
  <2>1. /\ \A s \in 1 .. Total + 1 : pos[s] \in Nat \ {0}
        /\ \A s, t \in 1 .. Total + 1 : pos[s] <= pos[t] => s <= t
    BY <1>1, <1>2, WritesInOrder
  <2>2. /\ pos[1] = 1 /\ pos[Total + 1] = Len(request) + 1
        /\ \A s, t \in 1 .. Total + 1 : s < t => pos[s] < pos[t]
    BY <1>2, <1>3 DEF Cut
  <2>3. \A s \in 1 .. Total :
           /\ pos[s + 1] = pos[s] + Len(Segs[s])
           /\ \A j \in 1 .. Len(Segs[s]) : request[pos[s] + j - 1] = Segs[s][j]
    BY <1>2, <1>3 DEF Cut
  <2> QED
    BY <2>1, <2>2, <2>3
<1>5. /\ path_start = pos[2 * Len(answered) + 1]
      /\ path_end = IF Len(answered) = 0 THEN 1 ELSE path_start + 1
  <2>1. answered = <<>> <=> Len(answered) = 0
    BY <1>1, EmptySeq DEF TypeInv
  <2> QED
    BY <2>1 DEF Pointers
<1> DEFINE a == Len(answered)
           n == Len(paths)
           z == 2 * a + 1
<1>6. a \in Nat /\ a <= n /\ n \in Nat \ {0} /\ z \in 1 .. Total /\ Total = 2 * n + 1 /\ z \in 1 .. Total + 1
  BY <1>2
<1>7. path_start \in 1 .. Len(request)
  <2>1. Total + 1 \in 1 .. Total + 1 /\ z < Total + 1
    BY <1>6
  <2>2. pos[z] < pos[Total + 1] /\ pos[z] \in Nat \ {0}
    BY <1>4, <1>6, <2>1
  <2> QED
    BY <1>2, <1>4, <1>5, <2>2
<1>8. path_end \in Nat \ {0} /\ path_start <= path_end /\ path_end <= path_start + 1
  BY <1>4, <1>5, <1>7
<1>9. ASSUME NEW cr \in path_end .. Len(request), request[cr] = CR
      PROVE  \E s \in 1 .. Total : LineEnd(s) /\ pos[s] = cr
  <2>1. cr \in 1 .. Len(Stream) /\ Stream[cr] = CR
    BY <1>2, <1>3, <1>8, <1>9
  <2> QED
    BY <1>1, <1>2, <2>1, ReturnAt
<1>10. ASSUME a = n
       PROVE  CR \notin {request[i] : i \in path_end .. Len(request)}
  <2> SUFFICES ASSUME NEW cr \in path_end .. Len(request), request[cr] = CR
               PROVE  FALSE
    OBVIOUS
  <2>1. PICK s \in 1 .. Total : pos[s] = cr
    BY <1>9
  <2>2. path_end = pos[Total] + 1
    BY <1>5, <1>6, <1>10
  <2>3. s \in 1 .. Total + 1 /\ Total \in 1 .. Total + 1 /\ (s = Total \/ s < Total)
    BY <1>6
  <2>4. pos[s] \in Nat /\ pos[Total] \in Nat /\ (s < Total => pos[s] < pos[Total])
    BY <1>4, <2>3
  <2> QED
    BY <1>2, <2>1, <2>2, <2>3, <2>4
<1>11. ASSUME a < n
       PROVE  LET path == paths[a + 1]
              IN /\ pos[z] = path_start /\ pos[z + 1] = path_start + Len(path)
                 /\ pos[z + 2] = pos[z + 1] + 2
                 /\ path \in Seq(Letters) /\ Len(path) \in Nat \ {0}
                 /\ \A j \in 1 .. Len(path) : request[path_start + j - 1] = path[j]
                 /\ pos[z + 1] \in path_end .. Len(request) /\ request[pos[z + 1]] = CR
                 /\ \A cr \in path_end .. Len(request) : request[cr] = CR => cr >= pos[z + 1]
  <2> DEFINE path == paths[a + 1]
  <2>1. /\ a + 1 \in 1 .. n /\ 2 * (a + 1) - 1 = z /\ 2 * (a + 1) = z + 1
        /\ z \in 1 .. Total /\ z + 1 \in 1 .. Total /\ (z + 1) + 1 = z + 2
        /\ z + 1 \in 1 .. Total + 1 /\ z + 2 \in 1 .. Total + 1
    BY <1>6, <1>11
  <2>2. Segs[z] = path /\ ~LineEnd(z) /\ LineEnd(z + 1)
    BY <1>1, <2>1, ClientWrites DEF TypeInv
  <2>3. /\ Len(Segs[z + 1]) = 2 /\ Segs[z + 1][1] = CR
        /\ Len(path) \in Nat \ {0}
    BY <1>1, <2>1, <2>2, WriteBytes DEF TypeInv
  <2>4. path \in Seq(Letters)
    BY <1>1, <2>1, ClientWrites, ElementOfSeq DEF TypeInv
  <2>5. pos[z] = path_start /\ pos[z + 1] = path_start + Len(path) /\ pos[z + 2] = pos[z + 1] + 2
    BY <1>4, <1>5, <2>1, <2>2, <2>3
  <2>6. \A j \in 1 .. Len(path) : request[path_start + j - 1] = path[j]
    BY <1>4, <2>1, <2>2, <2>5
  <2>7. pos[z + 1] \in Nat /\ pos[z + 2] \in Nat /\ pos[z + 2] <= Len(request) + 1
    <3>1. Total + 1 \in 1 .. Total + 1 /\ (z + 2 = Total + 1 \/ z + 2 < Total + 1)
      BY <1>6, <2>1
    <3>2. z + 2 < Total + 1 => pos[z + 2] < pos[Total + 1]
      BY <1>4, <2>1, <3>1
    <3>3. pos[z + 1] \in Nat /\ pos[z + 2] \in Nat
      BY <1>4, <2>1
    <3> QED
      BY <1>2, <1>4, <3>1, <3>2, <3>3
  <2>8. pos[z + 1] \in path_end .. Len(request)
    <3>1. path_start \in Nat /\ path_start + Len(path) >= path_start + 1
      BY <1>7, <2>3
    <3>2. path_end <= pos[z + 1]
      <4>1. pos[z + 1] >= path_start + 1
        BY <2>5, <3>1
      <4> QED
        BY <1>8, <2>7, <3>1, <4>1
    <3>3. pos[z + 1] <= Len(request)
      <4>1. Len(request) \in Nat
        BY <1>2
      <4> QED
        BY <2>5, <2>7, <4>1
    <3>4. Len(request) \in Nat /\ path_end \in Nat
      BY <1>2, <1>8
    <3> QED
      BY <2>7, <3>2, <3>3, <3>4
  <2>9. request[pos[z + 1]] = CR
    <3>1. 1 \in 1 .. Len(Segs[z + 1]) /\ pos[z + 1] + 1 - 1 = pos[z + 1]
      BY <2>3, <2>7
    <3>2. request[pos[z + 1] + 1 - 1] = Segs[z + 1][1]
      BY <1>4, <2>1, <3>1
    <3> QED
      BY <2>3, <3>1, <3>2
  <2>10. ASSUME NEW cr \in path_end .. Len(request), request[cr] = CR
         PROVE  cr >= pos[z + 1]
    <3>1. PICK s \in 1 .. Total : LineEnd(s) /\ pos[s] = cr
      BY <1>9, <2>10
    <3>2. s \in 1 .. Total + 1 /\ pos[z] <= pos[s]
      <4>1. s \in 1 .. Total + 1
        BY <1>6
      <4>2. path_start <= cr
        BY <1>2, <1>7, <1>8
      <4> QED
        BY <2>5, <3>1, <4>1, <4>2
    <3>3. z <= s /\ s # z
      BY <1>4, <1>6, <2>2, <3>1, <3>2
    <3>4. s = z + 1 \/ z + 1 < s
      BY <1>6, <3>3
    <3>5. pos[s] \in Nat /\ (z + 1 < s => pos[z + 1] < pos[s])
      BY <1>4, <2>1, <3>2
    <3> QED
      BY <2>7, <3>1, <3>4, <3>5
  <2> HIDE DEF z
  <2> QED
    BY <2>3, <2>4, <2>5, <2>6, <2>8, <2>9, <2>10
<1> QED
  BY <1>2, <1>3, <1>7, <1>8, <1>10, <1>11

(* One round of the splitting loop cuts out the next path, whole.          *)
LEMMA NextPath ==
  ASSUME NonEmptyPaths, IInv, AnswerPath, NEW pos, Cut(pos), Pointers(pos)
  PROVE  /\ Len(answered) < Len(paths)
         /\ answered' = Append(answered, paths[Len(answered) + 1])
         /\ paths[Len(answered) + 1] \in Seq(Letters)
         /\ path_start' = pos[2 * (Len(answered) + 1) + 1]
         /\ path_end' = path_start' + 1
<1>1. PICK cr \in path_end .. Len(request) :
         /\ request[cr] = CR /\ CR \notin {request[i] : i \in path_end .. cr - 1}
         /\ answered' = Append(answered, SubSeq(request, path_start, cr - 1))
         /\ path_start' = cr + 2 /\ path_end' = cr + 3
  BY DEF AnswerPath
<1>2. pc = "split"
  BY DEF AnswerPath
<1> DEFINE a == Len(answered)
           s == 2 * a + 1
           path == paths[a + 1]
<1>3. /\ a \in 0 .. Len(paths) /\ Len(paths) \in Nat
      /\ path_start \in 1 .. Len(request) /\ path_end \in Nat \ {0} /\ Len(request) \in Nat
      /\ a = Len(paths) => CR \notin {request[i] : i \in path_end .. Len(request)}
  BY <1>2, SplitFacts
<1>4. a < Len(paths)
  BY <1>1, <1>3
<1>5. /\ pos[s] = path_start /\ pos[s + 1] = path_start + Len(path)
      /\ pos[s + 2] = pos[s + 1] + 2
      /\ path \in Seq(Letters) /\ Len(path) \in Nat \ {0}
      /\ \A j \in 1 .. Len(path) : request[path_start + j - 1] = path[j]
      /\ pos[s + 1] \in path_end .. Len(request) /\ request[pos[s + 1]] = CR
      /\ \A i \in path_end .. Len(request) : request[i] = CR => i >= pos[s + 1]
  BY <1>2, <1>4, SplitFacts
<1> DEFINE e == pos[s + 1]
<1>6. cr = e
  <2>1. e \in Nat /\ cr \in Nat /\ cr >= e /\ e \in path_end .. Len(request)
    BY <1>1, <1>3, <1>5
  <2>2. cr > e => e \in path_end .. cr - 1
    BY <1>3, <2>1
  <2>3. ASSUME cr > e PROVE FALSE
    <3>1. request[e] = CR /\ e \in path_end .. cr - 1
      BY <1>5, <2>2, <2>3
    <3> QED
      BY <1>1, <3>1
  <2> QED
    BY <2>1, <2>3
<1>7. SubSeq(request, path_start, cr - 1) = path
  <2> DEFINE t == SubSeq(request, path_start, cr - 1)
  <2>1. /\ path_start \in Int /\ cr - 1 \in Int /\ path_start <= cr - 1
        /\ cr - 1 - path_start + 1 = Len(path) /\ cr - 1 <= Len(request)
    BY <1>3, <1>5, <1>6
  <2>2. \A i \in path_start .. cr - 1 : request[i] \in Bytes
    <3>1. request \in Seq(Bytes)
      BY DEF IInv, TypeInv
    <3> QED
      BY <1>3, <2>1, <3>1, ElementOfSeq
  <2>3. /\ t \in Seq(Bytes) /\ Len(t) = Len(path)
        /\ \A i \in 1 .. Len(path) : t[i] = request[path_start + i - 1]
    BY <2>1, <2>2, SubSeqProperties
  <2> HIDE DEF t, path
  <2>4. path \in Seq(Bytes)
    BY <1>5, SeqMonotonic DEF Bytes
  <2>5. \A i \in 1 .. Len(t) : t[i] = path[i]
    BY <1>5, <2>3
  <2>6. t = path
    BY <2>3, <2>4, <2>5, SeqEqual
  <2> QED
    BY <2>6 DEF t
<1>8. 2 * (a + 1) + 1 = s + 2 /\ path_start' = pos[s + 2] /\ path_end' = path_start' + 1
  BY <1>1, <1>3, <1>5, <1>6
<1> QED
  BY <1>1, <1>4, <1>5, <1>7, <1>8

(* The splitting loop goes on to the next line.                            *)
LEMMA AnswerStep ==
  ASSUME NonEmptyPaths, IInv, AnswerPath
  PROVE  IInv'
<1>1. UNCHANGED <<paths, unsent, gone, wire, pc, request>> /\ pc = "split"
  BY DEF AnswerPath, clientVars
<1>2. TypeInv /\ ServerInv
  BY DEF IInv
<1>3. PICK pos : Cut(pos) /\ Pointers(pos)
  BY DEF IInv, LayoutInv
<1> DEFINE a == Len(answered)
           path == paths[a + 1]
<1>4. /\ a < Len(paths) /\ answered' = Append(answered, path) /\ path \in Seq(Letters)
      /\ path_start' = pos[2 * (a + 1) + 1] /\ path_end' = path_start' + 1
  BY <1>3, NextPath
<1>5. Written = Total /\ Total = 2 * Len(paths) + 1 /\ Len(paths) \in Nat /\ a \in Nat
  <2>1. Written = Total
    BY <1>1, <1>3, SplitFacts
  <2>2. Total = 2 * Len(paths) + 1 /\ Len(paths) \in Nat
    BY <1>2, StreamFacts
  <2>3. a \in Nat
    BY <1>2, LenProperties DEF TypeInv
  <2> QED
    BY <2>1, <2>2, <2>3
<1>6. path \in Seq(Bytes)
  BY <1>4, SeqMonotonic DEF Bytes
<1>7. /\ answered' \in Seq(Seq(Bytes)) /\ Len(answered') = a + 1
      /\ \A i \in 1 .. a : answered'[i] = answered[i]
      /\ answered'[a + 1] = path
  <2> DEFINE S == Seq(Bytes)
  <2>1. answered \in Seq(S) /\ path \in S
    BY <1>2, <1>6 DEF TypeInv
  <2> HIDE DEF S, path
  <2>2. /\ Append(answered, path) \in Seq(S) /\ Len(Append(answered, path)) = a + 1
        /\ \A i \in 1 .. a : Append(answered, path)[i] = answered[i]
        /\ Append(answered, path)[a + 1] = path
    BY <1>5, <2>1, AppendProperties
  <2> QED
    BY <1>4, <2>2 DEF S
<1>8. Segs' = Segs /\ Written' = Written /\ Total' = Total /\ Stream' = Stream
  BY <1>1 DEF Segs, Written, Total, Stream
<1>9. TypeInv'
  BY <1>1, <1>2, <1>7, <1>8 DEF TypeInv
<1>10. LayoutInv'
  <2>1. Cut(pos)'
    BY <1>1, <1>3, <1>8, SameCut
  <2>2. answered' # <<>>
    <3>1. Len(answered') # 0
      BY <1>5, <1>7
    <3> QED
      BY <3>1
  <2>3. 2 * Len(answered') <= Written'
    BY <1>4, <1>5, <1>7, <1>8
  <2>4. path_start' = pos[2 * Len(answered') + 1]
    BY <1>4, <1>7
  <2> QED
    BY <1>4, <2>1, <2>2, <2>3, <2>4 DEF LayoutInv, Pointers
<1>11. ServerInv'
  <2>1. Len(answered') <= Len(paths')
    BY <1>1, <1>4, <1>5, <1>7
  <2>2. ASSUME NEW i \in 1 .. Len(answered') PROVE answered'[i] = paths'[i]
    <3>1. i \in 1 .. a \/ i = a + 1
      BY <1>5, <1>7
    <3> QED
      BY <1>1, <1>2, <1>7, <3>1 DEF ServerInv
  <2> QED
    BY <1>1, <1>2, <2>1, <2>2 DEF ServerInv
<1> QED
  BY <1>9, <1>10, <1>11 DEF IInv

(* The loop ends only when every path is answered.                         *)
LEMMA AllAnswered ==
  ASSUME NonEmptyPaths, IInv, NoMorePaths
  PROVE  Len(answered) = Len(paths)
<1>1. pc = "split" /\ CR \notin {request[i] : i \in path_end .. Len(request)}
  BY DEF NoMorePaths
<1>2. PICK pos : Cut(pos) /\ Pointers(pos)
  BY DEF IInv, LayoutInv
<1>3. Len(answered) \in 0 .. Len(paths) /\ Len(paths) \in Nat
  BY <1>1, <1>2, SplitFacts
<1>4. ASSUME Len(answered) < Len(paths) PROVE FALSE
  <2>1. /\ pos[2 * Len(answered) + 1 + 1] \in path_end .. Len(request)
        /\ request[pos[2 * Len(answered) + 1 + 1]] = CR
    BY <1>1, <1>2, <1>4, SplitFacts
  <2> QED
    BY <1>1, <2>1
<1> QED
  BY <1>3, <1>4

(* The steps that change neither the stream nor the pointers.              *)
LEMMA QuietStep ==
  ASSUME NonEmptyPaths, IInv, Leave \/ EndOfInput \/ NoMorePaths \/ UNCHANGED vars
  PROVE  IInv'
<1>1. UNCHANGED <<paths, unsent, wire, request, path_start, path_end, answered>>
  BY DEF Leave, EndOfInput, NoMorePaths, vars, clientVars, serverVars
<1>2. TypeInv /\ ServerInv
  BY DEF IInv
<1>3. gone' \in BOOLEAN
  BY <1>2 DEF Leave, EndOfInput, NoMorePaths, vars, clientVars, TypeInv
<1>4. \/ pc' = pc
      \/ pc = "read" /\ pc' = "refused"
      \/ pc = "split" /\ pc' = "done" /\ NoMorePaths
  BY DEF Leave, EndOfInput, NoMorePaths, vars
<1>5. Segs' = Segs /\ Written' = Written /\ Total' = Total /\ Stream' = Stream
  BY <1>1 DEF Segs, Written, Total, Stream
<1>6. TypeInv'
  BY <1>1, <1>2, <1>3, <1>4, <1>5 DEF TypeInv
<1>7. LayoutInv'
  <2>1. PICK pos : Cut(pos) /\ Pointers(pos)
    BY DEF IInv, LayoutInv
  <2>2. Cut(pos)'
    BY <1>1, <1>5, <2>1, SameCut
  <2> QED
    BY <1>1, <1>5, <2>1, <2>2 DEF LayoutInv, Pointers
<1>8. ServerInv'
  BY <1>1, <1>2, <1>4, AllAnswered DEF ServerInv
<1> QED
  BY <1>6, <1>7, <1>8 DEF IInv

(* The invariant of a connection, for requests of any number of paths of   *)
(* any length, and reads of any size: the stream is cut into the client's  *)
(* writes, and the worker stands between two of its lines (client.c 40-44, *)
(* lab6/server.c 25-51 and 74-100).                                        *)
THEOREM Invariance ==
  ASSUME NonEmptyPaths
  PROVE  Spec => []IInv
<1>1. Init => IInv
  BY InitInv
<1>2. IInv /\ [Next]_vars => IInv'
  BY WriteStep, ReadStep, AnswerStep, QuietStep DEF Next, Worker
<1> QED
  BY <1>1, <1>2, PTL DEF Spec

-----------------------------------------------------------------------------
(* However the bytes are cut into reads, the paths answered are the first  *)
(* of those the client sent, and all of them when the worker closes the    *)
(* connection; path_start stays inside the request (lines 74-100).         *)
THEOREM AnswersCorrect ==
  ASSUME NonEmptyPaths
  PROVE  Spec => []AnswersThePaths
<1>1. ASSUME IInv PROVE AnswersThePaths
  <2>1. TypeInv /\ ServerInv
    BY <1>1 DEF IInv
  <2>2. /\ answered \in Seq(Seq(Bytes)) /\ Len(answered) \in Nat
        /\ Len(paths) \in Nat /\ paths \in Seq(Seq(Letters))
    BY <2>1, ClientWrites, LenProperties DEF TypeInv
  <2>3. /\ Len(answered) <= Len(paths)
        /\ \A i \in 1 .. Len(answered) : answered[i] = paths[i]
    BY <2>1 DEF ServerInv
  <2>4. paths \in Seq(Seq(Bytes))
    <3> DEFINE S == Seq(Letters)
               T == Seq(Bytes)
    <3>1. S \subseteq T
      BY SeqMonotonic DEF Bytes
    <3>2. paths \in Seq(S)
      BY <2>2
    <3> HIDE DEF S, T
    <3>3. paths \in Seq(T)
      BY <3>1, <3>2, SeqMonotonic
    <3> QED
      BY <3>3 DEF T
  <2>5. IsPrefix(answered, paths)
    <3> DEFINE S == Seq(Bytes)
               m == Len(answered)
    <3>1. answered \in Seq(S) /\ paths \in Seq(S)
      BY <2>2, <2>4
    <3> HIDE DEF S
    <3>2. SubSeq(answered, 1, m) = answered
      BY <3>1, SubSeqFull
    <3>3. \A i \in 1 .. m : paths[i] \in S
      BY <2>2, <2>3, <3>1, ElementOfSeq
    <3>4. /\ SubSeq(paths, 1, m) \in Seq(S) /\ Len(SubSeq(paths, 1, m)) = m
          /\ \A i \in 1 .. m : SubSeq(paths, 1, m)[i] = paths[i]
      <4>1. m \in Int /\ 1 \in Int /\ m - 1 + 1 = m /\ (IF 1 <= m THEN m - 1 + 1 ELSE 0) = m
        BY <2>2
      <4>2. \A i \in 1 .. m : 1 + i - 1 = i
        BY <2>2
      <4>3. /\ SubSeq(paths, 1, m) \in Seq(S)
            /\ Len(SubSeq(paths, 1, m)) = IF 1 <= m THEN m - 1 + 1 ELSE 0
            /\ \A i \in 1 .. m - 1 + 1 : SubSeq(paths, 1, m)[i] = paths[1 + i - 1]
        BY <3>3, <4>1, SubSeqProperties
      <4> QED
        BY <4>1, <4>2, <4>3
    <3>5. SubSeq(paths, 1, m) = answered
      BY <2>3, <3>1, <3>4, SeqEqual
    <3> QED
      BY <2>3, <3>2, <3>5 DEF IsPrefix
  <2>6. path_start \in 1 .. Len(request) + 1
    <3>1. PICK pos : Cut(pos) /\ Pointers(pos)
      BY <1>1 DEF IInv, LayoutInv
    <3> DEFINE z == 2 * Len(answered) + 1
    <3>2. z \in 1 .. Written + 1 /\ Written \in Nat /\ path_start = pos[z]
      BY <2>1, <2>2, <3>1, StreamFacts DEF Pointers
    <3>3. Len(request) \in Nat /\ Len(wire) \in Nat /\ Len(Stream) = Len(request) + Len(wire)
      BY <2>1, StreamFacts
    <3>4. pos[z] \in Nat \ {0} /\ pos[z] <= Len(Stream) + 1
      <4>1. Written + 1 \in 1 .. Written + 1 /\ (z = Written + 1 \/ z < Written + 1)
        BY <3>2
      <4>2. /\ pos[z] \in Nat \ {0} /\ pos[Written + 1] = Len(Stream) + 1
            /\ z < Written + 1 => pos[z] < pos[Written + 1]
        BY <3>1, <3>2, <4>1 DEF Cut
      <4> QED
        BY <3>3, <4>1, <4>2
    <3>5. CASE answered = <<>>
      <4>1. path_start = 1
        BY <3>1, <3>5 DEF Pointers, Cut
      <4> QED
        BY <3>3, <4>1
    <3>6. CASE answered # <<>>
      <4>1. wire = <<>>
        BY <2>1, <3>6 DEF ServerInv, TypeInv
      <4> QED
        BY <3>2, <3>3, <3>4, <4>1
    <3> QED
      BY <3>5, <3>6
  <2>7. ASSUME pc = "done" PROVE answered = paths
    <3> DEFINE S == Seq(Bytes)
    <3>1. answered \in Seq(S) /\ paths \in Seq(S)
      BY <2>2, <2>4
    <3> HIDE DEF S
    <3>2. Len(answered) = Len(paths)
      BY <2>1, <2>7 DEF ServerInv
    <3> QED
      BY <2>3, <3>1, <3>2, SeqEqual
  <2> QED
    BY <2>5, <2>6, <2>7 DEF AnswersThePaths
<1> QED
  BY <1>1, Invariance, PTL

-----------------------------------------------------------------------------
(* The lines sent grow by one with the line end that completes a line.     *)
LEMMA LineCount ==
  ASSUME TypeInv
  PROVE  /\ unsent = <<>> <=> Written = Total
         /\ LinesSent = IF unsent = <<>> THEN Len(paths) + 1 ELSE Written \div 2
         /\ unsent # <<>> => Written \div 2 \in 0 .. Len(paths)
         /\ LinesSent = Len(paths) + 1 <=> unsent = <<>>
<1>1. /\ Len(paths) \in Nat /\ Total = 2 * Len(paths) + 1 /\ Len(unsent) \in Nat
      /\ Written \in 0 .. Total /\ Written = Total - Len(unsent)
  BY StreamFacts
<1>2. unsent = <<>> <=> Len(unsent) = 0
  BY EmptySeq DEF TypeInv
<1>3. unsent = <<>> <=> Written = Total
  BY <1>1, <1>2
<1>4. Len(Segments(paths)) = Total
  BY ClientWrites DEF TypeInv, Segs
<1>5. LinesSent = IF unsent = <<>> THEN Len(paths) + 1 ELSE Written \div 2
  BY <1>1, <1>4 DEF LinesSent
<1>6. ASSUME unsent # <<>> PROVE Written \div 2 \in 0 .. Len(paths)
  <2>1. Written \in Nat /\ Written <= 2 * Len(paths)
    BY <1>1, <1>3, <1>6
  <2> QED
    BY <1>1, <2>1
<1> QED
  BY <1>1, <1>3, <1>5, <1>6

(* No line is sent at the start.                                           *)
LEMMA ServiceInit ==
  ASSUME Init
  PROVE  Service!Init
<1>1. TypeInv /\ Len(paths) \in Nat
  BY InitInv, StreamFacts DEF IInv
<1>2. /\ unsent = Segs /\ gone = FALSE /\ pc = "read" /\ answered = <<>>
  BY DEF Init, Segs
<1>3. Len(unsent) = Total /\ Total \in Nat /\ Total # 0 /\ Written = 0
  BY <1>1, <1>2, ClientWrites, StreamFacts DEF TypeInv
<1>4. LinesSent = 0
  BY <1>1, <1>3, LineCount
<1> QED
  BY <1>1, <1>2, <1>4 DEF Service!Init

(* A write of the client sends a line, or half of one.                     *)
LEMMA ServiceWrite ==
  ASSUME IInv, IInv', WriteSegment
  PROVE  Service!SendLine \/ UNCHANGED Service!vars
<1>1. /\ unsent # <<>> /\ unsent' = Tail(unsent) /\ gone = FALSE
      /\ UNCHANGED <<paths, gone, pc, answered>>
  BY DEF WriteSegment, serverVars, IInv, TypeInv
<1>2. TypeInv /\ TypeInv'
  BY DEF IInv
<1>3. /\ Len(paths) \in Nat /\ Total = 2 * Len(paths) + 1 /\ Len(unsent) \in Nat
      /\ Written \in Nat /\ Written = Total - Len(unsent) /\ Written # Total /\ Written <= Total
  BY <1>1, <1>2, StreamFacts, LineCount
<1>4. Len(unsent') = Len(unsent) - 1
  <2>1. unsent \in Seq(Seq(Bytes))
    BY <1>2 DEF TypeInv
  <2> QED
    BY <1>1, <2>1, HeadTailProperties
<1>5. Total' = Total /\ Written' = Written + 1
  BY <1>1, <1>3, <1>4 DEF Total, Written
<1>6. LinesSent = Written \div 2 /\ LinesSent # Len(paths) + 1
  BY <1>1, <1>2, LineCount
<1>7. /\ (unsent' = <<>>) <=> (Written' = Total')
      /\ LinesSent' = IF unsent' = <<>> THEN Len(paths') + 1 ELSE Written' \div 2
  <2>1. Len(Segments(paths)) = Total
    BY <1>2, ClientWrites DEF TypeInv, Segs
  <2>2. LinesSent' = IF unsent' = <<>> THEN Len(paths) + 1
                     ELSE (Total - Len(unsent')) \div 2
    BY <1>1, <2>1 DEF LinesSent
  <2>3. (unsent' = <<>>) <=> (Len(unsent') = 0)
    BY <1>2, EmptySeq DEF TypeInv
  <2>4. Written' = Total - Len(unsent')
    BY <1>5 DEF Written
  <2>5. Len(unsent') \in Nat /\ Total \in Nat
    BY <1>3, <1>4
  <2>6. (Len(unsent') = 0) <=> (Total - Len(unsent') = Total)
    BY <2>5
  <2>7. (unsent' = <<>>) <=> (Written' = Total')
    BY <1>5, <2>3, <2>4, <2>6
  <2>8. LinesSent' = IF unsent' = <<>> THEN Len(paths') + 1 ELSE Written' \div 2
    BY <1>1, <2>2, <2>4
  <2> QED
    BY <2>7, <2>8
<1>8. LinesSent' = LinesSent \/ LinesSent' = LinesSent + 1
  <2>1. CASE Written + 1 = Total
    <3>1. LinesSent' = Len(paths) + 1
      BY <1>1, <1>5, <1>7, <2>1
    <3>2. Written = 2 * Len(paths)
      BY <1>3, <2>1
    <3>3. Written \div 2 = Len(paths)
      BY <1>3, <3>2
    <3> QED
      BY <1>6, <3>1, <3>3
  <2>2. CASE Written + 1 # Total
    <3>1. LinesSent' = (Written + 1) \div 2
      BY <1>5, <1>7, <2>2
    <3>2. (Written + 1) \div 2 = Written \div 2 \/ (Written + 1) \div 2 = Written \div 2 + 1
      BY <1>3
    <3> QED
      BY <1>6, <3>1, <3>2
  <2> QED
    BY <2>1, <2>2
<1> QED
  BY <1>1, <1>6, <1>8 DEF Service!SendLine, Service!Complete, Service!vars

(* read_request is one step of RequestService, or none.                    *)
LEMMA ServiceRead ==
  ASSUME NonEmptyPaths, IInv, IInv', Read
  PROVE  Service!Accept \/ Service!Refuse \/ UNCHANGED Service!vars
<1>1. UNCHANGED <<paths, unsent, gone, answered>> /\ pc = "read" /\ pc' = Verdict(request')
  BY DEF Read, clientVars
<1>2. TypeInv /\ ServerInv' /\ Len(paths) \in Nat
  BY ClientWrites DEF IInv, TypeInv
<1>3. LinesSent' = LinesSent /\ (LinesSent = Len(paths) + 1 <=> unsent = <<>>)
  BY <1>1, <1>2, LineCount DEF LinesSent
<1>4. pc' = "split" => unsent = <<>> /\ Len(paths) > 0
  <2>1. paths # <<>> => Len(paths) # 0
    BY <1>2, EmptySeq, ClientWrites DEF TypeInv
  <2> QED
    BY <1>1, <1>2, <2>1 DEF ServerInv
<1>5. pc' = "refused" => unsent = <<>> /\ Len(paths) = 0
  BY ReadFacts
<1>6. pc' \in {"read", "split", "refused"}
  BY ReadFacts
<1>7. CASE pc' = "read"
  BY <1>1, <1>3, <1>7 DEF Service!vars
<1>8. CASE pc' = "split"
  BY <1>1, <1>3, <1>4, <1>8 DEF Service!Accept, Service!Complete
<1>9. CASE pc' = "refused"
  BY <1>1, <1>3, <1>5, <1>9 DEF Service!Refuse, Service!Complete
<1> QED
  BY <1>6, <1>7, <1>8, <1>9

(* The other steps: the client leaves, the input ends, a path is answered, *)
(* the loop is left.                                                       *)
LEMMA ServiceRest ==
  ASSUME NonEmptyPaths, IInv, IInv',
         Leave \/ EndOfInput \/ AnswerPath \/ NoMorePaths \/ UNCHANGED vars
  PROVE  Service!Next \/ UNCHANGED Service!vars
<1>1. UNCHANGED <<paths, unsent>> /\ LinesSent' = LinesSent
  BY DEF Leave, EndOfInput, AnswerPath, NoMorePaths, vars, clientVars, LinesSent
<1>2. TypeInv /\ ServerInv /\ ServerInv' /\ Len(paths) \in Nat
  BY ClientWrites DEF IInv, TypeInv
<1>3. CASE Leave
  <2>1. UNCHANGED <<pc, answered>> /\ gone' = TRUE
    BY <1>3 DEF Leave, serverVars
  <2> QED
    BY <1>1, <2>1 DEF Service!Next, Service!Leave
<1>4. CASE EndOfInput
  <2>1. pc = "read" /\ pc' = "refused" /\ gone /\ UNCHANGED <<gone, answered>>
    BY <1>4 DEF EndOfInput, clientVars, serverVars
  <2> QED
    BY <1>1, <2>1 DEF Service!Next, Service!Refuse
<1>5. CASE AnswerPath
  <2>1. pc = "split" /\ UNCHANGED <<pc, gone>>
    BY <1>5 DEF AnswerPath, clientVars
  <2>2. PICK pos : Cut(pos) /\ Pointers(pos)
    BY DEF IInv, LayoutInv
  <2>3. /\ Len(answered) < Len(paths) /\ paths[Len(answered) + 1] \in Seq(Letters)
        /\ answered' = Append(answered, paths[Len(answered) + 1])
    BY <1>5, <2>2, NextPath
  <2>4. Len(answered') = Len(answered) + 1
    <3> DEFINE S == Seq(Bytes)
               path == paths[Len(answered) + 1]
    <3>1. answered \in Seq(S) /\ path \in S
      BY <1>2, <2>3, SeqMonotonic DEF TypeInv, Bytes
    <3> HIDE DEF S, path
    <3>2. Len(Append(answered, path)) = Len(answered) + 1
      BY <3>1, AppendProperties
    <3> QED
      BY <2>3, <3>2 DEF path
  <2> QED
    BY <1>1, <2>1, <2>3, <2>4 DEF Service!Next, Service!Serve
<1>6. CASE NoMorePaths
  <2>1. pc = "split" /\ pc' = "done" /\ UNCHANGED <<gone, answered>>
    BY <1>6 DEF NoMorePaths, clientVars, serverVars
  <2>2. Len(answered) = Len(paths)
    BY <1>6, AllAnswered
  <2> QED
    BY <1>1, <2>1, <2>2 DEF Service!Next, Service!Finish
<1>7. CASE UNCHANGED vars
  BY <1>1, <1>7 DEF vars, clientVars, serverVars, Service!vars
<1> QED
  BY <1>3, <1>4, <1>5, <1>6, <1>7

(* The byte loops implement the steps PoolServer takes for them: whatever  *)
(* the reads return, a request is accepted only when its last line was     *)
(* sent, refused only when it has no path or its client left, and every    *)
(* path is answered once (lab6/server.c 25-51 and 74-100).                 *)
THEOREM Refinement ==
  ASSUME NonEmptyPaths
  PROVE  Spec => RequestSpec
<1>1. Init => Service!Init
  BY ServiceInit
<1>2. IInv /\ IInv' /\ [Next]_vars => [Service!Next]_Service!vars
  BY ServiceWrite, ServiceRead, ServiceRest DEF Next, Worker, Service!Next
<1> QED
  BY <1>1, <1>2, Invariance, PTL DEF Spec, RequestSpec, Service!Spec

=============================================================================
