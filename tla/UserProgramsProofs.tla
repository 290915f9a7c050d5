------------------------- MODULE UserProgramsProofs -------------------------
(***************************************************************************)
(* Proofs about programs that one user runs at a time: what the prime test *)
(* of LAB3 says of a number, for ints and longs of any width; what tee     *)
(* leaves in its files, for up to three of them and any length of input;   *)
(* and that LAB5 turns a picture of any size, with the padding of rows.    *)
(***************************************************************************)
EXTENDS UserPrograms, SequenceTheorems, TLAPS

-----------------------------------------------------------------------------
(* INT_MAX and ULONG_MAX: an unsigned long has at least the bits of an int.*)
Widths == IntMax \in Nat /\ IntMax >= 2 /\ ULongMax \in Nat /\ ULongMax >= IntMax

(* The numbers PrimeVerdict speaks of.                                     *)
Small == word \in Nat /\ word < ULongMax - IntMax

(* Every number below the divisor was tried, and its square neither passed *)
(* the number nor wrapped.                                                 *)
Tried ==
  /\ divisor \in 2 .. IntMax
  /\ \A d \in 2 .. divisor - 1 : word % d # 0 /\ d * d <= word /\ d * d <= IntMax

PrimeInv ==
  /\ ppc \in {"start", "test", "done"}
  /\ ppc = "start" => divisor = 2
  /\ ppc = "test" => Prime!Accepted(word)
  /\ ppc = "test" /\ Small => Tried
  /\ Prime!PrimeVerdict

(* Products grow with their factors.                                       *)
LEMMA Squares ==
  ASSUME NEW d \in Nat, NEW e \in Nat, d <= e
  PROVE  d * d <= e * e
  OBVIOUS

(* The square in the loop: as it is while it fits in an int; the first one *)
(* that does not becomes negative, and so an unsigned long that is greater *)
(* than every number considered (line 41).                                 *)
LEMMA FirstWrap ==
  ASSUME Widths, Small, Tried
  PROVE  /\ divisor * divisor <= IntMax =>
              Prime!ULong(Prime!Int_(divisor * divisor)) = divisor * divisor
         /\ divisor * divisor > IntMax => ~Prime!InLoop
<1> DEFINE d == divisor
           s == d * d
           m == IntMax + 1
           n == ULongMax + 1
<1>1. /\ d \in Nat /\ d >= 2 /\ s \in Nat /\ m \in Nat /\ n \in Nat /\ m >= 3 /\ n >= m
      /\ IntMax \in Nat /\ ULongMax \in Nat
  BY DEF Widths, Tried
<1>2. Prime!Int_(s) = ((s + m) % (2 * m)) - m
  <2> HIDE DEF s
  <2>1. s + IntMax + 1 = s + m
    BY <1>1
  <2> QED
    BY <2>1 DEF Prime!Int_
<1>3. ASSUME s <= IntMax PROVE Prime!ULong(Prime!Int_(s)) = s
  <2> HIDE DEF s
  <2>1. s + m \in 0 .. 2 * m - 1
    BY <1>1, <1>3
  <2> HIDE DEF m, n
  <2>2. (s + m) % (2 * m) = s + m
    BY <1>1, <2>1
  <2>3. Prime!Int_(s) = s
    BY <1>1, <1>2, <2>2
  <2>4. s \in 0 .. n - 1
    BY <1>1, <1>3 DEF m, n
  <2>5. s % n = s
    BY <1>1, <2>4
  <2> QED
    BY <2>3, <2>5 DEF Prime!ULong, n
<1>4. ASSUME s > IntMax PROVE ~Prime!InLoop
  <2> DEFINE x == d - 1
  <2>1. x \in Nat /\ x >= 1 /\ s = x * x + 2 * x + 1
    BY <1>1
  <2>2. 2 * x <= IntMax /\ x * x <= IntMax
    <3>1. CASE x = 1
      BY <3>1 DEF Widths
    <3>2. CASE x # 1
      <4>1. x \in 2 .. divisor - 1 /\ x >= 2
        BY <1>1, <2>1, <3>2
      <4>2. x * x <= IntMax
        BY <4>1 DEF Tried
      <4>3. 2 * x <= x * x
        BY <2>1, <4>1
      <4> QED
        BY <2>1, <4>2, <4>3 DEF Widths
    <3> QED
      BY <3>1, <3>2
  <2>3. s <= 2 * IntMax + 1
    BY <2>1, <2>2 DEF Widths
  <2> HIDE DEF x, s
  <2>4. (s + m) - 2 * m \in 0 .. 2 * m - 1 /\ s - 2 * m \in Int
    BY <1>1, <1>4, <2>3 DEF m, Widths
  <2> HIDE DEF m, n
  <2>5. (s + m) % (2 * m) = (s + m) - 2 * m
    BY <1>1, <2>4
  <2>6. Prime!Int_(s) = s - 2 * m
    BY <1>1, <1>2, <2>5
  <2>7. s - 2 * m + n \in 0 .. n - 1 /\ s - 2 * m + n >= n - m
    BY <1>1, <1>4, <2>3 DEF m, Widths
  <2>8. (s - 2 * m) % n = s - 2 * m + n
    BY <1>1, <2>7
  <2>9. Prime!ULong(Prime!Int_(s)) >= ULongMax - IntMax
    BY <1>1, <2>6, <2>7, <2>8 DEF Prime!ULong, m, n, Widths
  <2>10. Prime!ULong(Prime!Int_(s)) \in Nat
    BY <1>1, <2>6, <2>7, <2>8 DEF Prime!ULong, n
  <2> QED
    BY <2>9, <2>10 DEF Prime!InLoop, Small, s, Widths
<1> QED
  BY <1>3, <1>4

(* The verdict when the loop ends, and when a divisor is found.            *)
LEMMA VerdictPrime ==
  ASSUME Widths, Small, Tried, word >= 2, ~Prime!InLoop
  PROVE  ~Prime!HasDivisor(word, IntMax)
<1>1. divisor \in Nat /\ divisor >= 2 /\ word \in Nat /\ IntMax \in Nat
  BY DEF Widths, Small, Tried
<1> SUFFICES ASSUME NEW d \in 2 .. word, d * d <= word, d * d <= IntMax, word % d = 0
             PROVE  FALSE
  BY DEF Prime!HasDivisor
<1>2. d >= divisor
  <2>1. ~(d \in 2 .. divisor - 1)
    BY DEF Tried
  <2> QED
    BY <1>1, <2>1
<1>3. divisor * divisor <= d * d
  BY <1>1, <1>2, Squares
<1>4. divisor * divisor <= IntMax /\ divisor * divisor <= word
  <2> DEFINE a == divisor * divisor
             b == d * d
  <2>1. a \in Nat /\ b \in Nat /\ a <= b /\ b <= word /\ b <= IntMax
    BY <1>1, <1>3
  <2> HIDE DEF a, b
  <2>2. a <= IntMax /\ a <= word
    BY <1>1, <2>1
  <2> QED
    BY <2>2 DEF a
<1> QED
  BY <1>4, FirstWrap DEF Prime!InLoop

LEMMA DivisorFits ==
  ASSUME Widths, Small, Tried, word >= 2, Prime!InLoop
  PROVE  /\ divisor * divisor <= IntMax /\ divisor * divisor <= word
         /\ divisor \in 2 .. word /\ divisor + 1 \in 2 .. IntMax
         /\ Prime!ULong(divisor) = divisor /\ Prime!Int_(divisor + 1) = divisor + 1
<1>1. /\ divisor \in Nat /\ divisor >= 2 /\ divisor <= IntMax /\ word \in Nat
      /\ IntMax \in Nat /\ ULongMax \in Nat /\ IntMax <= ULongMax /\ IntMax >= 2
  BY DEF Widths, Small, Tried
<1> DEFINE s == divisor * divisor
<1>2. s \in Nat /\ 2 * divisor <= s
  BY <1>1
<1>3. s <= IntMax /\ s <= word
  <2>1. s <= IntMax
    BY <1>1, <1>2, FirstWrap
  <2> QED
    BY <2>1, FirstWrap DEF Prime!InLoop
<1> HIDE DEF s
<1>4. divisor \in 2 .. word /\ divisor + 1 \in 2 .. IntMax
  BY <1>1, <1>2, <1>3
<1>5. Prime!ULong(divisor) = divisor
  BY <1>1 DEF Prime!ULong
<1>6. Prime!Int_(divisor + 1) = divisor + 1
  <2> DEFINE m == IntMax + 1
             t == (divisor + 1) + IntMax + 1
  <2>1. t \in 0 .. 2 * m - 1 /\ m \in Nat \ {0} /\ t - m = divisor + 1
    BY <1>1, <1>4
  <2>2. Prime!Int_(divisor + 1) = (t % (2 * m)) - m
    BY DEF Prime!Int_
  <2> HIDE DEF m, t
  <2>3. t % (2 * m) = t
    BY <2>1
  <2> QED
    BY <2>1, <2>2, <2>3
<1> QED
  BY <1>3, <1>4, <1>5, <1>6 DEF s

(* What the prime test says of a number is right up to the overflow, for   *)
(* ints and unsigned longs of any width: it calls a number prime exactly   *)
(* when no number whose square fits in an int, and is not greater than the *)
(* number, divides it (LAB3/main.c lines 35-48).                           *)
THEOREM VerdictCorrect ==
  ASSUME Widths
  PROVE  Prime!Spec => []PrimeVerdict
<1>1. Prime!Init => PrimeInv
  BY DEF Prime!Init, PrimeInv, Prime!PrimeVerdict
<1>2. PrimeInv /\ [Prime!Next]_Prime!vars => PrimeInv'
  <2> SUFFICES ASSUME PrimeInv, [Prime!Next]_Prime!vars
               PROVE  PrimeInv'
    OBVIOUS
  <2>1. CASE Prime!Enter
    <3>1. /\ ppc = "start" /\ divisor' = divisor /\ divisor = 2
          /\ ppc' = IF Prime!Accepted(word') THEN "test" ELSE "done"
          /\ ~Prime!Accepted(word') => verdict' = "not a number"
      BY <2>1 DEF Prime!Enter, PrimeInv
    <3>2. Tried'
      <4>1. divisor' = 2
        BY <3>1
      <4>2. 2 \in 2 .. IntMax
        BY DEF Widths
      <4>3. ~\E d : d \in 2 .. 2 - 1
        OBVIOUS
      <4> QED
        BY <4>1, <4>2, <4>3 DEF Tried
    <3>3. Prime!PrimeVerdict'
      <4>1. ppc' = "done" => ~Prime!Accepted(word')
        BY <3>1
      <4> QED
        BY <4>1 DEF Prime!PrimeVerdict, Prime!Accepted
    <3>4. ppc' = "test" => Prime!Accepted(word)'
      BY <3>1 DEF Prime!Accepted
    <3> QED
      BY <3>1, <3>2, <3>3, <3>4 DEF PrimeInv
  <2>2. ASSUME ppc = "test", ppc' = "done", word' = word, divisor' = divisor,
               Small => ((verdict' = "prime") <=> (word >= 2 /\ ~Prime!HasDivisor(word, IntMax)))
        PROVE  PrimeInv'
    <3>1. Prime!Accepted(word) /\ (Prime!Accepted(word) => word \in Nat)
      BY <2>2 DEF PrimeInv, Prime!Accepted
    <3>2. Prime!PrimeVerdict'
      BY <2>2, <3>1 DEF Prime!PrimeVerdict, Small, Prime!HasDivisor, Prime!Accepted
    <3> QED
      BY <2>2, <3>2 DEF PrimeInv
  <2>3. CASE Prime!TooSmall
    <3>1. /\ ppc = "test" /\ ppc' = "done" /\ word' = word /\ divisor' = divisor
          /\ word < 2 /\ verdict' = "not prime"
      BY <2>3 DEF Prime!TooSmall, Prime!Conclude
    <3>2. ASSUME Small PROVE ~(word >= 2)
      <4>1. word \in Nat /\ word < 2
        BY <3>1, <3>2 DEF Small
      <4> QED
        BY <4>1
    <3> QED
      BY <2>2, <3>1, <3>2
  <2>4. CASE Prime!Divides
    <3>1. /\ ppc = "test" /\ ppc' = "done" /\ word' = word /\ divisor' = divisor
          /\ word >= 2 /\ Prime!InLoop /\ word % Prime!ULong(divisor) = 0
          /\ verdict' = "not prime"
      BY <2>4 DEF Prime!Divides, Prime!Conclude
    <3>2. ASSUME Small PROVE Prime!HasDivisor(word, IntMax)
      <4>1. Tried
        BY <3>1, <3>2 DEF PrimeInv
      <4>2. /\ divisor \in 2 .. word /\ divisor * divisor <= word
            /\ divisor * divisor <= IntMax /\ word % divisor = 0
        BY <3>1, <3>2, <4>1, DivisorFits
      <4> QED
        BY <4>2 DEF Prime!HasDivisor
    <3> QED
      BY <2>2, <3>1, <3>2
  <2>5. CASE Prime!NextDivisor
    <3>1. /\ ppc = "test" /\ UNCHANGED <<ppc, word, verdict>>
          /\ word >= 2 /\ Prime!InLoop /\ word % Prime!ULong(divisor) # 0
          /\ divisor' = Prime!Int_(divisor + 1)
      BY <2>5 DEF Prime!NextDivisor
    <3>2. ASSUME Small PROVE Tried'
      <4>1. Tried
        BY <3>1, <3>2 DEF PrimeInv
      <4>2. /\ divisor * divisor <= word /\ divisor * divisor <= IntMax
            /\ divisor + 1 \in 2 .. IntMax /\ word % divisor # 0 /\ divisor' = divisor + 1
        BY <3>1, <3>2, <4>1, DivisorFits
      <4>3. ASSUME NEW d \in 2 .. divisor' - 1
            PROVE  word % d # 0 /\ d * d <= word /\ d * d <= IntMax
        <5>1. divisor \in Nat /\ (d \in 2 .. divisor - 1 \/ d = divisor)
          BY <4>1, <4>2 DEF Tried
        <5> QED
          BY <4>1, <4>2, <5>1 DEF Tried
      <4> QED
        BY <3>1, <4>2, <4>3 DEF Tried
    <3>3. Prime!PrimeVerdict'
      BY <3>1 DEF Prime!PrimeVerdict
    <3>4. Small' <=> Small
      BY <3>1 DEF Small
    <3>5. Prime!Accepted(word)'
      BY <3>1 DEF PrimeInv, Prime!Accepted
    <3> QED
      BY <3>1, <3>2, <3>3, <3>4, <3>5 DEF PrimeInv
  <2>6. CASE Prime!LoopEnds
    <3>1. /\ ppc = "test" /\ ppc' = "done" /\ word' = word /\ divisor' = divisor
          /\ word >= 2 /\ ~Prime!InLoop /\ verdict' = "prime"
      BY <2>6 DEF Prime!LoopEnds, Prime!Conclude
    <3>2. ASSUME Small PROVE ~Prime!HasDivisor(word, IntMax)
      <4>1. Tried
        BY <3>1, <3>2 DEF PrimeInv
      <4> QED
        BY <3>1, <3>2, <4>1, VerdictPrime
    <3> QED
      BY <2>2, <3>1, <3>2
  <2>7. CASE UNCHANGED Prime!vars
    <3>1. UNCHANGED <<ppc, word, divisor, verdict>>
      BY <2>7 DEF Prime!vars
    <3> QED
      BY <3>1 DEF PrimeInv, Prime!Accepted, Prime!PrimeVerdict, Prime!HasDivisor, Small, Tried
  <2> QED
    BY <2>1, <2>3, <2>4, <2>5, <2>6, <2>7 DEF Prime!Next
<1>3. PrimeInv => PrimeVerdict
  BY DEF PrimeInv, PrimeVerdict
<1> QED
  BY <1>1, <1>2, <1>3, PTL DEF Prime!Spec

-----------------------------------------------------------------------------
(* tee.  A file with the first n bytes after what it held.                 *)
Item == Nat \cup {Old}
Copy(b, n) == b \o Filter!Bytes(n)

(* A file d and stdio's buffer p for it, when n bytes were put: the  *)
(* buffer has the bytes after the k-th; the file has those before them, or *)
(* all n of them while the buffer that was written is not yet reset.       *)
Keeps(g, d, p, w, b, n) ==
  \E k \in 0 .. n : /\ p = Filter!Block(k, n)
                    /\ d = Copy(b, IF w = g THEN n ELSE k)
Holds(f, n) == Keeps(f, data[f], pending[f], writing, Filter!Before(f), n)
OutputHas(n) == output_ok => out = Filter!Bytes(n)

(* The file whose write or close was broken off: its last block is in the  *)
(* file and in the buffer, lost with the buffer, or in the file twice.     *)
Tears(g, d, p, w, u, b, n) ==
  \E k \in 0 .. n :
    \/ p = Filter!Block(k, n) /\ w # g /\ d = Copy(b, n)
    \/ g \in u /\ w # g /\ d = Copy(b, n)
    \/ (w = g \/ p = <<>>) /\ d = Copy(b, n) \o Filter!Block(k, n)
TornHas(f, n) == Tears(f, data[f], pending[f], writing, unlisted, Filter!Before(f), n)

Ends == {"handler", "exited", "killed"}
TeeTypes ==
  /\ tpc \in {"start", "open", "read", "write", "copy", "close", "exit"} \cup Ends
  /\ opened \subseteq Filter!Files
  /\ at \in Nat \ {0} /\ taken \in Nat
  /\ data \in [Filter!Files -> Seq(Item)] /\ pending \in [Filter!Files -> Seq(Item)]
  /\ out \in Seq(Item)
  /\ writing \in opened \cup {0} /\ torn \in opened \cup {0} /\ unlisted \subseteq opened

(* How far each file is: a byte goes to the output, then to the files one  *)
(* after the other.                                                        *)
TeeLoops ==
  /\ tpc = "start" => opened = {} /\ errors = 0 /\ at = 1 /\ ~ignore_interrupts_mode
  /\ tpc \in {"start", "open"} => taken = 0 /\ out = <<>>
  /\ tpc \in {"open", "read", "close", "exit"} =>
       OutputHas(taken) /\ \A f \in opened : Holds(f, taken)
  /\ tpc = "write" => /\ taken > 0 /\ OutputHas(taken - 1)
                      /\ \A f \in opened : Holds(f, taken - 1)
  /\ tpc = "copy" => /\ taken > 0 /\ OutputHas(taken)
                     /\ \A f \in opened : Holds(f, IF f < at THEN taken ELSE taken - 1)
  /\ tpc \in {"close", "exit"} => taken = Length

(* A file that could not be opened shows in the exit status.               *)
TeeErrors ==
  /\ tpc = "open" => /\ \A f \in opened : f < at
                     /\ (errors = 1) <=> (\E f \in Filter!Files : f < at /\ f \notin opened)
  /\ tpc \in {"read", "write", "copy", "close", "exit"} =>
       ((errors = 1) <=> (opened # Filter!Files))

(* Where stdio is: in fputc or fclose of the file the loop is at, or in    *)
(* exit; fclose leaves no file behind with something in its buffer, except *)
(* the one the handler took it from.                                       *)
TeeStdio ==
  /\ tpc \in {"start", "open", "read", "write", "exited"} => writing = 0
  /\ tpc = "copy" => writing \in {0, at}
  /\ tpc = "close" => /\ writing \in {0, at}
                      /\ writing = at => at \in unlisted
                      /\ \A f \in unlisted : f < at \/ f = at
                      /\ \A f \in unlisted : f < at => pending[f] = <<>>
  /\ tpc \in {"start", "open", "read", "write", "copy"} => unlisted = {}
  /\ tpc \in {"exit", "handler"} => \A f \in unlisted \ {torn} : pending[f] = <<>>
  /\ tpc = "exited" => \A f \in Filter!Files \ {torn} : pending[f] = <<>>

(* However the program ended, no file but the torn one is more than a byte *)
(* behind; files that were not opened are as they were.                    *)
Counts == {taken, taken - 1}
TeeEnds ==
  /\ tpc \in Ends => /\ \E n \in Counts : OutputHas(n)
                     /\ \A f \in opened \ {torn} : \E n \in Counts : Holds(f, n)
  /\ tpc \notin Ends => torn = 0
  /\ tpc = "handler" => ~ignore_interrupts_mode
  /\ tpc = "exited" /\ ignore_interrupts_mode =>
       taken = Length /\ torn = 0 /\ \A f \in opened : Holds(f, taken)
  /\ torn \in opened => \E n \in 0 .. taken : TornHas(torn, n)
  /\ \A f \in Filter!Files \ opened : data[f] = <<Old>> /\ pending[f] = <<>>

TeeInv == TeeTypes /\ TeeLoops /\ TeeErrors /\ TeeStdio /\ TeeEnds

(* The bytes read, one more; and a buffer with the last of them.           *)
LEMMA BytesNext ==
  ASSUME NEW n \in Nat
  PROVE  /\ Filter!Bytes(n) \in Seq(Item) /\ Filter!Bytes(0) = <<>>
         /\ Append(Filter!Bytes(n), n + 1) = Filter!Bytes(n + 1)
<1>1. \A k \in Nat : Filter!Bytes(k) = [i \in 1 .. k |-> i]
  BY DEF Filter!Bytes
<1>2. \A k \in Nat : Filter!Bytes(k) \in Seq(Item) /\ Len(Filter!Bytes(k)) = k
  BY <1>1 DEF Item
<1>3. Filter!Bytes(0) = <<>>
  BY <1>2, EmptySeq
<1> DEFINE s == Filter!Bytes(n)
           t == Filter!Bytes(n + 1)
<1>4. /\ s \in Seq(Item) /\ t \in Seq(Item) /\ Len(s) = n /\ Len(t) = n + 1
      /\ \A i \in 1 .. n : s[i] = i
      /\ \A i \in 1 .. n + 1 : t[i] = i
  BY <1>1, <1>2
<1> HIDE DEF s, t
<1>5. n + 1 \in Item
  BY DEF Item
<1>6. /\ Append(s, n + 1) \in Seq(Item) /\ Len(Append(s, n + 1)) = n + 1
      /\ \A i \in 1 .. n : Append(s, n + 1)[i] = s[i]
      /\ Append(s, n + 1)[n + 1] = n + 1
  BY <1>4, <1>5, AppendProperties
<1>7. \A i \in 1 .. n + 1 : Append(s, n + 1)[i] = t[i]
  BY <1>4, <1>6
<1>8. Append(s, n + 1) = t
  BY <1>4, <1>6, <1>7, SeqEqual
<1> QED
  BY <1>2, <1>3, <1>8 DEF s, t

LEMMA BlockOfBytes ==
  ASSUME NEW n \in Nat, NEW k \in 0 .. n
  PROVE  /\ Filter!Block(k, n) \in Seq(Item) /\ Filter!Block(n, n) = <<>>
         /\ Append(Filter!Block(k, n), n + 1) = Filter!Block(k, n + 1)
         /\ Filter!Bytes(k) \o Filter!Block(k, n) = Filter!Bytes(n)
<1>1. /\ k \in Nat /\ n - k \in Nat /\ (n + 1) - k = (n - k) + 1
      /\ k + (n - k) = n /\ n - n = 0
  OBVIOUS
<1> DEFINE p == Filter!Block(k, n)
           q == Filter!Block(k, n + 1)
           s == Filter!Bytes(k)
           t == Filter!Bytes(n)
           m == n - k
<1>2. \A j \in 1 .. m + 1 : k + j \in Item
  BY <1>1 DEF Item
<1>3. /\ p \in Seq(Item) /\ Len(p) = m /\ \A j \in 1 .. m : p[j] = k + j
      /\ q \in Seq(Item) /\ Len(q) = m + 1 /\ \A j \in 1 .. m + 1 : q[j] = k + j
  BY <1>1, <1>2 DEF Filter!Block
<1>4. /\ s \in Seq(Item) /\ Len(s) = k /\ \A j \in 1 .. k : s[j] = j
      /\ t \in Seq(Item) /\ Len(t) = n /\ \A j \in 1 .. n : t[j] = j
  <2>1. s = [i \in 1 .. k |-> i] /\ t = [i \in 1 .. n |-> i]
    BY DEF Filter!Bytes
  <2> QED
    BY <1>1, <2>1 DEF Item
<1>5. Filter!Block(n, n) = <<>>
  <2>1. Filter!Block(n, n) = [i \in 1 .. 0 |-> n + i]
    BY <1>1 DEF Filter!Block
  <2>2. Filter!Block(n, n) \in Seq(Item) /\ Len(Filter!Block(n, n)) = 0
    BY <2>1
  <2> QED
    BY <2>2, EmptySeq
<1>6. /\ m \in Nat /\ n + 1 \in Item /\ k + (m + 1) = n + 1 /\ k + m = n /\ k \in Nat
      /\ \A j \in 1 .. n : j <= k => j \in 1 .. k
      /\ \A j \in 1 .. n : ~(j <= k) => j - k \in 1 .. m /\ k + (j - k) = j
  BY <1>1 DEF Item
<1> HIDE DEF p, q, s, t, m
<1>7. Append(p, n + 1) = q
  <2>1. /\ Append(p, n + 1) \in Seq(Item) /\ Len(Append(p, n + 1)) = m + 1
        /\ \A j \in 1 .. m : Append(p, n + 1)[j] = p[j]
        /\ Append(p, n + 1)[m + 1] = n + 1
    BY <1>3, <1>6, AppendProperties
  <2>2. ASSUME NEW j \in 1 .. m + 1 PROVE Append(p, n + 1)[j] = q[j]
    <3>1. CASE j = m + 1
      BY <1>3, <1>6, <2>1, <3>1
    <3>2. CASE j \in 1 .. m
      BY <1>3, <2>1, <3>2
    <3>3. m \in Nat
      BY <1>6
    <3>4. j \in 1 .. m \/ j = m + 1
      BY <3>3
    <3> QED
      BY <3>1, <3>2, <3>4
  <2> QED
    BY <1>3, <2>1, <2>2, SeqEqual
<1>8. s \o p = t
  <2>0. s \in Seq(Item) /\ p \in Seq(Item) /\ Len(s) = k /\ Len(p) = m
    BY <1>3, <1>4
  <2>1. /\ s \o p \in Seq(Item) /\ Len(s \o p) = k + m
        /\ \A j \in 1 .. k + m : (s \o p)[j] = IF j <= k THEN s[j] ELSE p[j - k]
    BY <2>0, ConcatProperties
  <2>2. ASSUME NEW j \in 1 .. n PROVE (s \o p)[j] = t[j]
    <3>1. CASE j <= k
      BY <1>4, <1>6, <2>1, <3>1
    <3>2. CASE ~(j <= k)
      BY <1>3, <1>4, <1>6, <2>1, <3>2
    <3> QED
      BY <3>1, <3>2
  <2> QED
    BY <1>4, <1>6, <2>1, <2>2, SeqEqual
<1> QED
  BY <1>3, <1>5, <1>7, <1>8 DEF p, q, s, t

(* What a file holds, with a buffer after it.                              *)
LEMMA CopyBlock ==
  ASSUME NEW b \in Seq(Item), NEW n \in Nat, NEW k \in 0 .. n
  PROVE  Copy(b, k) \o Filter!Block(k, n) = Copy(b, n)
<1> DEFINE s == Filter!Bytes(k)
           t == Filter!Block(k, n)
<1>0. k \in Nat
  OBVIOUS
<1>1. b \in Seq(Item) /\ s \in Seq(Item) /\ t \in Seq(Item)
  BY <1>0, BytesNext, BlockOfBytes
<1>2. s \o t = Filter!Bytes(n)
  BY BlockOfBytes
<1> HIDE DEF s, t
<1>3. (b \o s) \o t = b \o (s \o t)
  BY <1>1, ConcatAssociative
<1> QED
  BY <1>2, <1>3 DEF s, t, Copy

(* What a file keeps when its buffer is written, when the buffer is reset, *)
(* and when the next byte is put into it.                                  *)
LEMMA KeptWritten ==
  ASSUME NEW g, NEW d, NEW p, NEW w, w # g, NEW b \in Seq(Item), NEW n \in Int,
         Keeps(g, d, p, w, b, n)
  PROVE  Keeps(g, d \o p, p, g, b, n)
<1>1. PICK k \in 0 .. n : p = Filter!Block(k, n) /\ d = Copy(b, k)
  BY DEF Keeps
<1>2. n \in Nat
  OBVIOUS
<1>3. Copy(b, k) \o Filter!Block(k, n) = Copy(b, n)
  BY <1>2, CopyBlock
<1>4. d \o p = Copy(b, n)
  BY <1>1, <1>3
<1> QED
  BY <1>1, <1>4 DEF Keeps

LEMMA KeptReset ==
  ASSUME NEW g, NEW d, NEW p, NEW w, w # g, NEW b \in Seq(Item), NEW n \in Int,
         Keeps(g, d, p, g, b, n)
  PROVE  Keeps(g, d, <<>>, w, b, n)
<1>1. n \in Nat /\ d = Copy(b, n)
  BY DEF Keeps
<1>2. n \in 0 .. n /\ Filter!Block(n, n) = <<>>
  BY <1>1, BlockOfBytes
<1> QED
  BY <1>1, <1>2 DEF Keeps

LEMMA KeptPut ==
  ASSUME NEW g, NEW d, NEW p, NEW w, w # g, NEW b \in Seq(Item), NEW n \in Int,
         Keeps(g, d, p, w, b, n)
  PROVE  Keeps(g, d, Append(p, n + 1), w, b, n + 1)
<1>1. PICK k \in 0 .. n : p = Filter!Block(k, n) /\ d = Copy(b, k)
  BY DEF Keeps
<1>2. n \in Nat /\ k \in 0 .. n + 1
  OBVIOUS
<1>3. Append(p, n + 1) = Filter!Block(k, n + 1)
  BY <1>1, <1>2, BlockOfBytes
<1> QED
  BY <1>1, <1>2, <1>3 DEF Keeps

LEMMA NothingKept ==
  ASSUME NEW g, NEW w, NEW b \in Seq(Item)
  PROVE  Keeps(g, b, <<>>, w, b, 0)
<1>1. 0 \in Nat /\ 0 \in 0 .. 0 /\ b \o <<>> = b
  BY ConcatEmptySeq
<1>2. Filter!Bytes(0) = <<>> /\ Filter!Block(0, 0) = <<>>
  BY <1>1, BytesNext, BlockOfBytes
<1>3. Copy(b, 0) = b
  BY <1>1, <1>2 DEF Copy
<1> QED
  BY <1>1, <1>2, <1>3 DEF Keeps

(* The handler breaks off a write that was done, or fclose before it; exit *)
(* then writes the buffer, again, and resets it.                           *)
LEMMA TornFrom ==
  ASSUME NEW g, NEW d, NEW p, NEW w, NEW b, NEW u, NEW n \in Int,
         Keeps(g, d, p, w, b, n), w = g \/ g \in u, g # 0
  PROVE  \E m \in 0 .. n : Tears(g, d, p, 0, u, b, m)
<1>1. PICK k \in 0 .. n : /\ p = Filter!Block(k, n)
                          /\ d = Copy(b, IF w = g THEN n ELSE k)
  BY DEF Keeps
<1>2. k \in 0 .. k /\ n \in 0 .. n
  OBVIOUS
<1>3. CASE w = g
  <2>1. Tears(g, d, p, 0, u, b, n)
    BY <1>1, <1>3 DEF Tears
  <2> QED
    BY <1>2, <2>1
<1>4. CASE w # g /\ g \in u
  <2>1. Tears(g, d, p, 0, u, b, k)
    BY <1>1, <1>2, <1>4 DEF Tears
  <2> QED
    BY <2>1
<1> QED
  BY <1>3, <1>4

LEMMA TornTwice ==
  ASSUME NEW g, NEW d, NEW p, NEW w, w # g, NEW b, NEW u, g \notin u, p # <<>>, NEW n,
         Tears(g, d, p, w, u, b, n)
  PROVE  Tears(g, d \o p, p, g, u, b, n)
  BY DEF Tears

LEMMA TornReset ==
  ASSUME NEW g, NEW d, NEW p, NEW b, NEW u, NEW n, Tears(g, d, p, g, u, b, n), NEW w
  PROVE  Tears(g, d, <<>>, w, u, b, n)
  BY DEF Tears

(* What is in a file that is left alone.                                   *)
LEMMA TeeAlone ==
  ASSUME append_mode' = append_mode, NEW g, data'[g] = data[g], pending'[g] = pending[g],
         (writing' = g) <=> (writing = g), NEW n
  PROVE  /\ Holds(g, n) => Holds(g, n)'
         /\ TornHas(g, n) /\ (g \in unlisted' <=> g \in unlisted) => TornHas(g, n)'
<1>1. Filter!Before(g)' = Filter!Before(g)
  BY DEF Filter!Before
<1>2. Keeps(g, data[g], pending[g], writing, Filter!Before(g), n) =>
        Keeps(g, data[g], pending[g], writing', Filter!Before(g), n)
  BY DEF Keeps
<1>3. /\ Tears(g, data[g], pending[g], writing, unlisted, Filter!Before(g), n)
      /\ g \in unlisted' <=> g \in unlisted
      => Tears(g, data[g], pending[g], writing', unlisted', Filter!Before(g), n)
  BY DEF Tears
<1> QED
  BY <1>1, <1>2, <1>3 DEF Holds, TornHas

LEMMA BeforeIsSeq ==
  ASSUME NEW g
  PROVE  Filter!Before(g) \in Seq(Item) /\ <<Old>> \in Seq(Item) /\ <<>> \in Seq(Item)
<1>1. <<Old>> \in Seq(Item)
  BY DEF Item
<1>2. <<>> \in Seq(Item)
  BY EmptySeq
<1> QED
  BY <1>1, <1>2 DEF Filter!Before

(* At every moment each file, the torn one apart, is at most a byte behind.*)
LEMMA NearlyCopied ==
  ASSUME TeeInv
  PROVE  /\ \E n \in Counts : OutputHas(n)
         /\ \A f \in opened \ {torn} : \E n \in Counts : Holds(f, n)
<1>1. tpc = "start" => opened = {} /\ out = <<>> /\ taken = 0
  BY DEF TeeInv, TeeLoops
<1>2. tpc = "start" => OutputHas(taken)
  BY <1>1, BytesNext DEF OutputHas
<1>3. tpc \in {"open", "read", "close", "exit"} =>
        OutputHas(taken) /\ \A f \in opened : Holds(f, taken)
  BY DEF TeeInv, TeeLoops
<1>4. tpc = "write" => OutputHas(taken - 1) /\ \A f \in opened : Holds(f, taken - 1)
  BY DEF TeeInv, TeeLoops
<1>5. tpc = "copy" => /\ OutputHas(taken)
                      /\ \A f \in opened : Holds(f, taken) \/ Holds(f, taken - 1)
  BY DEF TeeInv, TeeLoops
<1>6. tpc \in Ends => /\ \E n \in Counts : OutputHas(n)
                      /\ \A f \in opened \ {torn} : \E n \in Counts : Holds(f, n)
  BY DEF TeeInv, TeeEnds
<1>7. tpc \in {"start", "open", "read", "write", "copy", "close", "exit"} \cup Ends
  BY DEF TeeInv, TeeTypes
<1> QED
  BY <1>1, <1>2, <1>3, <1>4, <1>5, <1>6, <1>7 DEF Counts

LEMMA TeeInit ==
  ASSUME Filter!Init
  PROVE  TeeInv
<1>1. <<Old>> \in Seq(Item) /\ <<>> \in Seq(Item)
  BY BeforeIsSeq
<1>2. TeeTypes
  BY <1>1 DEF TeeTypes, Filter!Init
<1>3. TeeLoops
  BY DEF TeeLoops, Filter!Init
<1>4. TeeErrors
  BY DEF TeeErrors, Filter!Init
<1>5. TeeStdio
  BY DEF TeeStdio, Filter!Init
<1>6. TeeEnds
  <2>1. 0 \notin opened /\ torn = 0 /\ tpc = "start"
    BY DEF Filter!Init
  <2> QED
    BY <2>1 DEF TeeEnds, Ends, Filter!Init
<1> QED
  BY <1>2, <1>3, <1>4, <1>5, <1>6 DEF TeeInv

(* Before main has read anything nothing is torn, written or closed.       *)
LEMMA TeeFresh ==
  ASSUME TeeInv, tpc \in {"start", "open", "read", "write"}
  PROVE  /\ writing = 0 /\ unlisted = {} /\ torn = 0 /\ 0 \notin opened /\ tpc \notin Ends
         /\ \A f \in Filter!Files \ opened : data[f] = <<Old>> /\ pending[f] = <<>>
<1>1. 0 \notin opened
  BY DEF TeeInv, TeeTypes, Filter!Files
<1>2. tpc \notin Ends
  BY DEF Ends
<1> QED
  BY <1>1, <1>2 DEF TeeInv, TeeStdio, TeeEnds

(* Options and opening, lines 29-64.                                       *)
LEMMA OpenStep ==
  ASSUME FileCount \in Nat, TeeInv,
         Filter!ParseOptions \/ Filter!OpenFile \/ Filter!AllOpened
  PROVE  TeeInv'
<1>0. TeeTypes /\ TeeLoops /\ TeeErrors /\ TeeEnds
  BY DEF TeeInv
<1>a. /\ tpc \in {"start", "open"} /\ tpc' \in {"open", "read"}
      /\ UNCHANGED <<pending, writing, unlisted, torn, taken, out>>
  BY DEF Filter!ParseOptions, Filter!OpenFile, Filter!AllOpened, Filter!stdio, Filter!input
<1>b. /\ writing = 0 /\ unlisted = {} /\ torn = 0 /\ 0 \notin opened
      /\ \A f \in Filter!Files \ opened : data[f] = <<Old>> /\ pending[f] = <<>>
  BY <1>a, TeeFresh
<1>c. tpc' \notin Ends /\ TeeStdio'
  BY <1>a, <1>b DEF Ends, TeeStdio
<1>d. ASSUME opened' \subseteq Filter!Files,
             \A f \in Filter!Files \ opened' : data'[f] = <<Old>> /\ pending'[f] = <<>>
      PROVE  TeeEnds'
  <2>1. torn' \notin opened'
    BY <1>a, <1>b, <1>d DEF Filter!Files
  <2> QED
    BY <1>a, <1>b, <1>c, <1>d, <2>1 DEF TeeEnds, Ends, Filter!Files
<1>1. CASE Filter!ParseOptions
  <2>1. /\ tpc = "start" /\ tpc' = "open" /\ opened = {} /\ taken = 0 /\ out = <<>>
        /\ errors = 0 /\ at = 1
        /\ UNCHANGED <<at, opened, data, errors>>
    BY <1>0, <1>1 DEF Filter!ParseOptions, Filter!stdio, TeeLoops
  <2>2. TeeTypes'
    BY <1>0, <1>a, <2>1 DEF TeeTypes
  <2>3. TeeLoops'
    BY <1>a, <2>1, BytesNext DEF TeeLoops, OutputHas
  <2>4. TeeErrors'
    BY <2>1 DEF TeeErrors, Filter!Files
  <2>5. TeeEnds'
    BY <1>a, <1>b, <1>d, <2>1
  <2> QED
    BY <1>c, <2>2, <2>3, <2>4, <2>5 DEF TeeInv
<1>2. CASE Filter!OpenFile
  <2>1. /\ tpc = "open" /\ tpc' = tpc /\ at <= FileCount /\ at' = at + 1 /\ at \in Nat \ {0}
        /\ UNCHANGED <<append_mode, output_ok>>
        /\ taken = 0 /\ out = <<>> /\ at \in Filter!Files /\ at \notin opened
        /\ data[at] = <<Old>> /\ pending[at] = <<>>
    <3>1. /\ tpc = "open" /\ tpc' = tpc /\ at <= FileCount /\ at' = at + 1
          /\ UNCHANGED <<append_mode, output_ok>>
      BY <1>2 DEF Filter!OpenFile, Filter!options
    <3>2. at \in Nat \ {0} /\ taken = 0 /\ out = <<>>
      BY <1>0, <3>1 DEF TeeTypes, TeeLoops
    <3>3. at \in Filter!Files /\ ~(at < at)
      BY <3>1, <3>2 DEF Filter!Files
    <3>4. at \notin opened
      BY <1>0, <3>1, <3>3 DEF TeeErrors
    <3> QED
      BY <1>b, <3>1, <3>2, <3>3, <3>4
  <2>2. \/ /\ opened' = opened \cup {at} /\ errors' = errors
           /\ data' = IF append_mode THEN data ELSE [data EXCEPT ![at] = <<>>]
        \/ opened' = opened /\ errors' = 1 /\ data' = data
    BY <1>2 DEF Filter!OpenFile
  <2>3. /\ data' \in [Filter!Files -> Seq(Item)]
        /\ \A f \in Filter!Files \ {at} : data'[f] = data[f]
        /\ at \notin opened' => data'[at] = <<Old>>
        /\ at \in opened' => data'[at] = IF append_mode THEN <<Old>> ELSE <<>>
    BY <1>0, <2>1, <2>2, EmptySeq DEF TeeTypes
  <2>4. TeeTypes'
    <3>1. at' \in Nat \ {0}
      BY <2>1
    <3>2. opened' \subseteq Filter!Files
      BY <1>0, <2>1, <2>2 DEF TeeTypes
    <3>3. tpc' \in {"start", "open", "read", "write", "copy", "close", "exit"} \cup Ends
      BY <2>1
    <3>4. /\ taken' \in Nat /\ out' \in Seq(Item)
          /\ pending' \in [Filter!Files -> Seq(Item)]
      BY <1>0, <1>a DEF TeeTypes
    <3> QED
      BY <1>a, <1>b, <2>3, <3>1, <3>2, <3>3, <3>4 DEF TeeTypes, Filter!Files
  <2>5. ASSUME NEW f \in opened' PROVE Holds(f, taken)'
    <3>1. CASE f = at
      <4>1. data'[f] = Filter!Before(f)' /\ pending'[f] = <<>> /\ taken' = 0
        BY <1>a, <2>1, <2>3, <2>5, <3>1 DEF Filter!Before
      <4>2. Filter!Before(f)' \in Seq(Item)
        BY BeforeIsSeq, <2>1 DEF Filter!Before
      <4>3. Keeps(f, Filter!Before(f)', <<>>, writing', Filter!Before(f)', 0)
        BY <4>2, NothingKept
      <4> QED
        BY <4>1, <4>3 DEF Holds
    <3>2. CASE f # at
      <4>1. f \in opened /\ f \in Filter!Files
        BY <1>0, <2>2, <3>2 DEF TeeTypes
      <4>2. Holds(f, taken)
        BY <1>0, <2>1, <4>1 DEF TeeLoops
      <4> QED
        BY <1>a, <2>1, <2>3, <3>2, <4>1, <4>2 DEF Holds, Filter!Before
    <3> QED
      BY <3>1, <3>2
  <2>6. TeeLoops'
    <3>1. OutputHas(taken)'
      BY <1>a, <2>1, BytesNext DEF OutputHas
    <3> QED
      BY <1>a, <2>1, <2>5, <3>1 DEF TeeLoops
  <2>7. TeeErrors'
    <3>1. \A f \in opened' : f < at'
      <4>1. \A f \in opened : f \in Nat /\ f < at
        BY <1>0, <2>1 DEF TeeErrors, TeeTypes, Filter!Files
      <4>2. \A f \in opened' : f \in opened \/ f = at
        BY <2>2
      <4>3. \A f \in Nat : f < at => f < at'
        BY <2>1
      <4>4. at < at'
        BY <2>1
      <4> QED
        BY <4>1, <4>2, <4>3, <4>4
    <3>2. \A f \in Filter!Files : f < at' <=> (f < at \/ f = at)
      BY <2>1 DEF Filter!Files
    <3>3. (errors = 1) <=> (\E f \in Filter!Files : f < at /\ f \notin opened)
      BY <1>0, <2>1 DEF TeeErrors
    <3>4. ~(at < at)
      BY <2>1
    <3>5. (errors' = 1) <=> (\E f \in Filter!Files : f < at' /\ f \notin opened')
      <4>1. CASE opened' = opened \cup {at} /\ errors' = errors
        BY <3>2, <3>3, <3>4, <4>1
      <4>2. CASE opened' = opened /\ errors' = 1
        BY <2>1, <3>2, <4>2
      <4> QED
        BY <2>2, <4>1, <4>2
    <3> QED
      BY <2>1, <3>1, <3>5 DEF TeeErrors, Filter!Files
  <2>8. TeeEnds'
    <3>1. ASSUME NEW f \in Filter!Files \ opened' PROVE data'[f] = <<Old>> /\ pending'[f] = <<>>
      BY <1>a, <1>b, <2>1, <2>2, <2>3, <3>1
    <3> QED
      BY <1>d, <2>4, <3>1 DEF TeeTypes, Filter!Files
  <2> QED
    BY <1>c, <2>4, <2>6, <2>7, <2>8 DEF TeeInv
<1>3. CASE Filter!AllOpened
  <2>1. /\ tpc = "open" /\ tpc' = "read" /\ at > FileCount
        /\ UNCHANGED <<append_mode, output_ok, at, opened, data, errors>>
    BY <1>3 DEF Filter!AllOpened, Filter!options, Filter!stdio
  <2>2. TeeTypes'
    BY <1>0, <1>a, <2>1 DEF TeeTypes
  <2>3. TeeLoops'
    BY <1>0, <1>a, <2>1 DEF TeeLoops, OutputHas, Holds, Filter!Before
  <2>4. TeeErrors'
    <3>1. \A f \in Filter!Files : f < at
      BY <1>0, <2>1 DEF TeeTypes, Filter!Files
    <3>2. (errors = 1) <=> (opened # Filter!Files)
      BY <1>0, <2>1, <3>1 DEF TeeErrors, TeeTypes
    <3> QED
      BY <2>1, <3>2 DEF TeeErrors, Filter!Files
  <2>5. TeeEnds'
    BY <1>0, <1>a, <1>b, <1>d, <2>1 DEF TeeTypes
  <2> QED
    BY <1>c, <2>2, <2>3, <2>4, <2>5 DEF TeeInv
<1> QED
  BY <1>1, <1>2, <1>3

(* Copying, lines 66-75.                                                   *)
LEMMA CopyStep ==
  ASSUME FileCount \in Nat, TeeInv,
         Filter!ReadByte \/ Filter!WriteByte \/ Filter!PutByte \/ Filter!AllPut
  PROVE  TeeInv'
<1>0. TeeTypes /\ TeeLoops /\ TeeErrors /\ TeeStdio /\ TeeEnds
  BY DEF TeeInv
<1>1. /\ tpc \in {"read", "write", "copy"} /\ tpc' \in {"read", "write", "copy"}
      /\ UNCHANGED <<append_mode, output_ok, opened, data, writing, unlisted, torn, errors>>
  BY DEF Filter!ReadByte, Filter!WriteByte, Filter!PutByte, Filter!AllPut,
         Filter!options, Filter!stdio
<1>2. TeeErrors'
  BY <1>0, <1>1 DEF TeeErrors, Filter!Files
<1>3. ASSUME \A f \in Filter!Files \ opened : pending'[f] = pending[f] PROVE TeeEnds'
  <2>1. tpc \notin Ends /\ tpc' \notin Ends
    BY <1>1 DEF Ends
  <2>2. torn = 0 /\ 0 \notin opened
    BY <1>0, <2>1 DEF TeeTypes, TeeEnds, Filter!Files
  <2> QED
    BY <1>0, <1>1, <1>3, <2>1, <2>2 DEF TeeEnds, Ends, Filter!Files
<1>4. /\ unlisted = {} /\ opened \subseteq Filter!Files /\ \A f \in Filter!Files : f \in Nat
      /\ data \in [Filter!Files -> Seq(Item)] /\ pending \in [Filter!Files -> Seq(Item)]
      /\ at \in Nat \ {0} /\ taken \in Nat /\ taken \in Item /\ out \in Seq(Item)
      /\ writing \in opened \cup {0} /\ torn \in opened \cup {0}
  BY <1>0, <1>1 DEF TeeTypes, TeeStdio, Filter!Files, Item
<1>5. CASE Filter!ReadByte
  <2>1. /\ tpc = "read" /\ tpc' = "write" /\ taken' = taken + 1 /\ taken \in Nat
        /\ UNCHANGED <<at, pending, out>>
    BY <1>4, <1>5 DEF Filter!ReadByte, Filter!stdio
  <2>2. TeeTypes'
    BY <1>0, <1>1, <2>1 DEF TeeTypes, Filter!Files
  <2>3. taken' > 0 /\ taken' - 1 = taken
    BY <2>1
  <2>4. TeeLoops'
    <3>1. OutputHas(taken) /\ \A f \in opened : Holds(f, taken)
      BY <1>0, <2>1 DEF TeeLoops
    <3>2. (OutputHas(taken - 1))'
      BY <1>1, <2>1, <2>3, <3>1 DEF OutputHas
    <3>3. \A f \in opened' : Holds(f, taken - 1)'
      BY <1>1, <2>1, <2>3, <3>1 DEF Holds, Filter!Before
    <3> QED
      BY <2>1, <2>3, <3>2, <3>3 DEF TeeLoops
  <2>5. TeeStdio'
    BY <1>0, <1>1, <2>1 DEF TeeStdio
  <2> QED
    BY <1>2, <1>3, <2>1, <2>2, <2>4, <2>5 DEF TeeInv
<1>6. CASE Filter!WriteByte
  <2>1. /\ tpc = "write" /\ tpc' = "copy" /\ at' = 1 /\ UNCHANGED <<pending, taken>>
        /\ out' = IF output_ok THEN Append(out, taken) ELSE out
        /\ taken > 0 /\ OutputHas(taken - 1) /\ \A f \in opened : Holds(f, taken - 1)
    BY <1>0, <1>6 DEF Filter!WriteByte, Filter!stdio, TeeLoops
  <2>2. out' \in Seq(Item)
    BY <1>4, <2>1, AppendProperties
  <2>3. TeeTypes'
    BY <1>0, <1>1, <2>1, <2>2 DEF TeeTypes, Filter!Files
  <2>4. Append(Filter!Bytes(taken - 1), taken) = Filter!Bytes(taken)
    <3>1. taken - 1 \in Nat /\ (taken - 1) + 1 = taken
      BY <1>4, <2>1
    <3> QED
      BY <3>1, BytesNext
  <2>5. OutputHas(taken)'
    BY <1>1, <2>1, <2>4 DEF OutputHas
  <2>6. \A f \in opened' : ~(f < at') /\ Holds(f, taken - 1)'
    <3>1. \A f \in opened : f \in Nat /\ ~(f < 1)
      BY <1>0 DEF TeeTypes, Filter!Files
    <3>2. \A f \in opened : Holds(f, taken - 1)'
      BY <1>1, <2>1 DEF Holds, Filter!Before
    <3> QED
      BY <1>1, <2>1, <3>1, <3>2
  <2>7. TeeLoops'
    BY <2>1, <2>5, <2>6 DEF TeeLoops
  <2>8. TeeStdio'
    BY <1>0, <1>1, <2>1 DEF TeeStdio
  <2> QED
    BY <1>2, <1>3, <2>1, <2>3, <2>7, <2>8 DEF TeeInv
<1>7. CASE Filter!PutByte
  <2>1. /\ tpc = "copy" /\ tpc' = "copy" /\ at <= FileCount /\ at' = at + 1 /\ writing = 0
        /\ pending' = IF at \in opened THEN [pending EXCEPT ![at] = Append(@, taken)]
                      ELSE pending
        /\ UNCHANGED <<taken, out>>
    BY <1>7 DEF Filter!PutByte, Filter!input
  <2>2. /\ at \in Filter!Files /\ taken > 0 /\ OutputHas(taken)
        /\ \A f \in opened : Holds(f, IF f < at THEN taken ELSE taken - 1)
    BY <1>0, <1>4, <2>1 DEF TeeLoops, Filter!Files
  <2>3. Append(pending[at], taken) \in Seq(Item)
    BY <1>4, <2>2, AppendProperties
  <2>4. /\ pending' \in [Filter!Files -> Seq(Item)]
        /\ \A f \in Filter!Files \ {at} : pending'[f] = pending[f]
        /\ at \in opened => pending'[at] = Append(pending[at], taken)
        /\ at \notin opened => pending'[at] = pending[at]
    BY <1>4, <2>1, <2>2, <2>3
  <2>5. TeeTypes'
    BY <1>0, <1>1, <2>1, <2>4 DEF TeeTypes, Filter!Files
  <2>6. ASSUME NEW f \in opened'
        PROVE  Holds(f, IF f < at THEN taken ELSE taken - 1)'
    <3>1. f \in opened /\ f \in Filter!Files /\ f \in Nat /\ writing # f
      BY <1>1, <1>4, <2>1 DEF Filter!Files
    <3>2. CASE f = at
      <4>1. f < at' /\ ~(f < at)
        BY <1>4, <2>1, <3>2
      <4>2. Keeps(f, data[f], pending[f], writing, Filter!Before(f), taken - 1)
        BY <2>2, <3>1, <4>1 DEF Holds
      <4>3. taken - 1 \in Int /\ (taken - 1) + 1 = taken
        BY <1>4
      <4>4. Filter!Before(f) \in Seq(Item)
        BY BeforeIsSeq
      <4>5. Keeps(f, data[f], Append(pending[f], (taken - 1) + 1), writing,
                  Filter!Before(f), (taken - 1) + 1)
        BY <3>1, <4>2, <4>3, <4>4, KeptPut
      <4>6. Keeps(f, data'[f], pending'[f], writing', Filter!Before(f), taken')
        BY <1>1, <2>1, <2>4, <3>1, <3>2, <4>3, <4>5
      <4> QED
        BY <1>1, <4>1, <4>6 DEF Holds, Filter!Before
    <3>3. CASE f # at
      <4>1. f < at' <=> f < at
        BY <1>4, <2>1, <3>1, <3>3
      <4>2. Holds(f, IF f < at THEN taken ELSE taken - 1)
        BY <2>2, <3>1
      <4> QED
        BY <1>1, <2>1, <2>4, <3>1, <3>3, <4>1, <4>2 DEF Holds, Filter!Before
    <3> QED
      BY <3>2, <3>3
  <2>7. TeeLoops'
    <3>1. OutputHas(taken)'
      BY <1>1, <2>1, <2>2 DEF OutputHas
    <3> QED
      BY <2>1, <2>2, <2>6, <3>1 DEF TeeLoops
  <2>8. TeeEnds'
    <3>1. \A f \in Filter!Files \ opened : pending'[f] = pending[f]
      BY <2>4
    <3> QED
      BY <1>3, <3>1
  <2>9. TeeStdio'
    BY <1>1, <1>4, <2>1 DEF TeeStdio
  <2> QED
    BY <1>2, <2>5, <2>7, <2>8, <2>9 DEF TeeInv
<1>8. CASE Filter!AllPut
  <2>1. /\ tpc = "copy" /\ tpc' = "read" /\ at > FileCount /\ UNCHANGED <<at, pending, taken, out>>
    BY <1>8 DEF Filter!AllPut, Filter!input, Filter!stdio
  <2>2. TeeTypes'
    BY <1>0, <1>1, <2>1 DEF TeeTypes, Filter!Files
  <2>3. /\ \A f \in opened : f < at
        /\ writing = 0
    <3>1. \A f \in Filter!Files : f < at /\ f # at
      BY <1>4, <2>1 DEF Filter!Files
    <3>2. writing \in {0, at}
      BY <1>0, <2>1 DEF TeeStdio
    <3> QED
      BY <1>4, <3>1, <3>2
  <2>4. OutputHas(taken) /\ \A f \in opened : Holds(f, taken)
    BY <1>0, <2>1, <2>3 DEF TeeLoops
  <2>5. TeeLoops'
    BY <1>1, <2>1, <2>4 DEF TeeLoops, OutputHas, Holds, Filter!Before
  <2>6. TeeStdio'
    BY <1>1, <1>4, <2>1, <2>3 DEF TeeStdio
  <2> QED
    BY <1>2, <1>3, <2>1, <2>2, <2>5, <2>6 DEF TeeInv
<1> QED
  BY <1>5, <1>6, <1>7, <1>8

(* The end of the input and fclose, lines 75-81.                           *)
LEMMA CloseStep ==
  ASSUME FileCount \in Nat, TeeInv,
         Filter!EndOfInput \/ Filter!Unlist \/ Filter!CloseNext \/ Filter!Return
  PROVE  TeeInv'
<1>0. TeeTypes /\ TeeLoops /\ TeeErrors /\ TeeStdio /\ TeeEnds
  BY DEF TeeInv
<1>1. /\ tpc \in {"read", "close"} /\ tpc' \in {"close", "exit"}
      /\ UNCHANGED <<append_mode, output_ok, opened, data, pending, writing, torn,
                     taken, out, errors>>
  BY DEF Filter!EndOfInput, Filter!Unlist, Filter!CloseNext, Filter!Return,
         Filter!options, Filter!stdio, Filter!input
<1>2. TeeErrors'
  BY <1>0, <1>1 DEF TeeErrors, Filter!Files
<1>3. TeeEnds'
  <2>1. tpc \notin Ends /\ tpc' \notin Ends
    BY <1>1 DEF Ends
  <2>2. torn = 0 /\ 0 \notin opened
    BY <1>0, <2>1 DEF TeeTypes, TeeEnds, Filter!Files
  <2> QED
    BY <1>0, <1>1, <2>1, <2>2 DEF TeeEnds, Ends, Filter!Files
<1>4. taken = Length
  BY <1>0, <1>1 DEF TeeLoops, Filter!EndOfInput, Filter!Unlist, Filter!CloseNext,
                    Filter!Return
<1>5. TeeLoops'
  <2>1. OutputHas(taken) /\ \A f \in opened : Holds(f, taken)
    BY <1>0, <1>1 DEF TeeLoops
  <2>2. OutputHas(taken)' /\ \A f \in opened' : Holds(f, taken)'
    BY <1>1, <2>1 DEF OutputHas, Holds, Filter!Before
  <2> QED
    BY <1>1, <1>4, <2>2 DEF TeeLoops
<1>6. /\ opened \subseteq Filter!Files /\ \A f \in Filter!Files : f \in Nat
      /\ at \in Nat \ {0} /\ unlisted \subseteq opened /\ writing \in opened \cup {0}
  BY <1>0 DEF TeeTypes, Filter!Files
<1>7. CASE Filter!EndOfInput
  <2>1. tpc = "read" /\ tpc' = "close" /\ at' = 2 /\ unlisted' = unlisted
    BY <1>7 DEF Filter!EndOfInput, Filter!stdio
  <2>2. writing = 0 /\ unlisted = {}
    BY <1>0, <2>1 DEF TeeStdio
  <2>3. TeeTypes'
    BY <1>0, <1>1, <2>1 DEF TeeTypes, Filter!Files
  <2>4. TeeStdio'
    BY <1>1, <2>1, <2>2 DEF TeeStdio
  <2> QED
    BY <1>2, <1>3, <1>5, <2>3, <2>4 DEF TeeInv
<1>8. CASE Filter!Unlist
  <2>1. /\ tpc = "close" /\ tpc' = tpc /\ at' = at /\ at \in opened \ unlisted
        /\ unlisted' = unlisted \cup {at}
    BY <1>8 DEF Filter!Unlist
  <2>2. /\ writing \in {0, at}
        /\ \A f \in unlisted : f < at \/ f = at
        /\ \A f \in unlisted : f < at => pending[f] = <<>>
    <3>1. tpc = "close"
      BY <2>1
    <3> QED
      BY <1>0, <3>1 DEF TeeStdio
  <2>3. TeeTypes'
    BY <1>0, <1>1, <2>1 DEF TeeTypes, Filter!Files
  <2>4. TeeStdio'
    <3>1. ~(at < at)
      BY <1>6
    <3> QED
      BY <1>1, <2>1, <2>2, <3>1 DEF TeeStdio
  <2> QED
    BY <1>2, <1>3, <1>5, <2>3, <2>4 DEF TeeInv
<1>9. CASE Filter!CloseNext
  <2>1. /\ tpc = "close" /\ tpc' = tpc /\ at' = at + 1 /\ writing = 0 /\ unlisted' = unlisted
        /\ at \in opened => at \in unlisted /\ pending[at] = <<>>
    BY <1>9 DEF Filter!CloseNext, Filter!stdio
  <2>2. /\ \A f \in unlisted : f < at \/ f = at
        /\ \A f \in unlisted : f < at => pending[f] = <<>>
    <3>1. tpc = "close"
      BY <2>1
    <3> QED
      BY <1>0, <3>1 DEF TeeStdio
  <2>3. at' \in Nat \ {0} /\ at < at' /\ \A f \in Filter!Files : f < at => f < at'
    BY <1>6, <2>1
  <2>4. TeeTypes'
    BY <1>0, <1>1, <2>1, <2>3 DEF TeeTypes, Filter!Files
  <2>5. \A f \in unlisted : f < at' /\ pending[f] = <<>>
    BY <1>6, <2>1, <2>2, <2>3
  <2>6. at' # 0
    BY <2>3
  <2>7. TeeStdio'
    BY <1>1, <2>1, <2>5, <2>6 DEF TeeStdio
  <2> QED
    BY <1>2, <1>3, <1>5, <2>4, <2>7 DEF TeeInv
<1>10. CASE Filter!Return
  <2>1. tpc = "close" /\ tpc' = "exit" /\ at' = at /\ at > FileCount /\ unlisted' = unlisted
    BY <1>10 DEF Filter!Return, Filter!stdio
  <2>2. \A f \in unlisted : f < at
    BY <1>6, <2>1 DEF Filter!Files
  <2>3. TeeTypes'
    BY <1>0, <1>1, <2>1 DEF TeeTypes, Filter!Files
  <2>4. TeeStdio'
    BY <1>0, <1>1, <2>1, <2>2 DEF TeeStdio
  <2> QED
    BY <1>2, <1>3, <1>5, <2>3, <2>4 DEF TeeInv
<1> QED
  BY <1>7, <1>8, <1>9, <1>10

(* stdio writes a file's buffer: in fputc, in fclose or in exit.           *)
LEMMA WriteStep ==
  ASSUME TeeInv, NEW g \in Filter!Files, Filter!WriteBlock(g)
  PROVE  TeeInv'
<1>0. TeeTypes /\ TeeLoops /\ TeeErrors /\ TeeStdio /\ TeeEnds
  BY DEF TeeInv
<1>1. /\ writing = 0 /\ pending[g] # <<>>
      /\ data' = [data EXCEPT ![g] = @ \o pending[g]] /\ writing' = g
      /\ UNCHANGED <<tpc, append_mode, ignore_interrupts_mode, output_ok, at, opened, pending,
                     unlisted, torn, taken, out, errors>>
  BY DEF Filter!WriteBlock, Filter!options, Filter!input
<1>2. /\ data \in [Filter!Files -> Seq(Item)] /\ pending \in [Filter!Files -> Seq(Item)]
      /\ opened \subseteq Filter!Files /\ g # 0 /\ 0 \notin Filter!Files
      /\ unlisted \subseteq opened /\ torn \in opened \cup {0}
  BY <1>0 DEF TeeTypes, Filter!Files
<1>3. \/ tpc = "copy" /\ g = at
      \/ tpc = "close" /\ g = at /\ g \in unlisted
      \/ tpc \in {"exit", "handler"} /\ g \notin unlisted
  BY DEF Filter!WriteBlock
<1>4. g \in opened
  BY <1>0, <1>1 DEF TeeEnds
<1>5. data[g] \o pending[g] \in Seq(Item)
  <2> DEFINE a == data[g]
             b == pending[g]
  <2>1. a \in Seq(Item) /\ b \in Seq(Item)
    BY <1>2
  <2> HIDE DEF a, b
  <2>2. a \o b \in Seq(Item)
    BY <2>1, ConcatProperties
  <2> QED
    BY <2>2 DEF a, b
<1>6. /\ data' \in [Filter!Files -> Seq(Item)] /\ data'[g] = data[g] \o pending[g]
      /\ \A f \in Filter!Files \ {g} : data'[f] = data[f]
  BY <1>1, <1>2, <1>5
<1>7. ASSUME NEW f \in opened, NEW n \in Int, Holds(f, n) PROVE Holds(f, n)'
  <2>1. CASE f # g
    BY <1>1, <1>2, <1>6, <1>7, <2>1, TeeAlone
  <2>2. CASE f = g
    <3>1. Keeps(g, data[g], pending[g], writing, Filter!Before(g), n) /\ writing # g
      BY <1>1, <1>2, <1>7, <2>2 DEF Holds
    <3>2. Keeps(g, data[g] \o pending[g], pending[g], g, Filter!Before(g), n)
      BY <3>1, BeforeIsSeq, KeptWritten
    <3> QED
      BY <1>1, <1>6, <2>2, <3>2 DEF Holds, Filter!Before
  <2> QED
    BY <2>1, <2>2
<1>8. TeeTypes'
  BY <1>0, <1>1, <1>4, <1>6 DEF TeeTypes, Filter!Files
<1>9. TeeLoops'
  <2>1. tpc \notin {"start", "open", "read", "write"}
    BY <1>3
  <2>2. OutputHas(taken) => OutputHas(taken)'
    BY <1>1 DEF OutputHas
  <2>3. taken \in Int /\ taken - 1 \in Int
    BY <1>0 DEF TeeTypes
  <2>4. \A f \in opened : Holds(f, taken) => Holds(f, taken)'
    <3>1. \A f \in opened : Holds(f, taken) =>
            Keeps(f, data'[f], pending'[f], writing', Filter!Before(f)', taken)
      BY <1>7, <2>3 DEF Holds
    <3> QED
      BY <1>1, <3>1 DEF Holds
  <2>5. \A f \in opened : Holds(f, taken - 1) => Holds(f, taken - 1)'
    <3>1. \A f \in opened : Holds(f, taken - 1) =>
            Keeps(f, data'[f], pending'[f], writing', Filter!Before(f)', taken - 1)
      BY <1>7, <2>3 DEF Holds
    <3> QED
      BY <1>1, <3>1 DEF Holds
  <2> QED
    BY <1>0, <1>1, <2>1, <2>2, <2>4, <2>5 DEF TeeLoops
<1>10. TeeErrors'
  BY <1>0, <1>1 DEF TeeErrors, Filter!Files
<1>11. TeeStdio'
  BY <1>0, <1>1, <1>3 DEF TeeStdio, Filter!Files
<1>12. TeeEnds'
  <2>1. ASSUME tpc \in Ends
        PROVE  /\ (\E n \in Counts : OutputHas(n))'
               /\ (\A f \in opened \ {torn} : \E n \in Counts : Holds(f, n))'
    <3>1. taken \in Int /\ taken - 1 \in Int
      BY <1>0 DEF TeeTypes
    <3>2. \E n \in Counts : OutputHas(n)'
      BY <1>0, <1>1, <2>1 DEF TeeEnds, OutputHas
    <3>3. \A f \in opened \ {torn} : \E n \in Counts : Holds(f, n)'
      BY <1>0, <1>7, <2>1, <3>1 DEF TeeEnds, Counts
    <3>4. Counts' = Counts
      BY <1>1 DEF Counts
    <3> QED
      BY <1>1, <3>2, <3>3, <3>4
  <2>2. (torn \in opened => \E n \in 0 .. taken : TornHas(torn, n))'
    <3>1. SUFFICES ASSUME torn \in opened
                   PROVE  \E n \in 0 .. taken : (TornHas(torn, n))'
      BY <1>1
    <3>2. PICK n \in 0 .. taken : TornHas(torn, n)
      BY <1>0, <3>1 DEF TeeEnds
    <3>3. PICK f \in opened : f = torn
      BY <3>1
    <3>4. Tears(f, data[f], pending[f], writing, unlisted, Filter!Before(f), n)
      BY <3>2, <3>3 DEF TornHas
    <3>5. Tears(f, data'[f], pending'[f], writing', unlisted', Filter!Before(f)', n)
      <4>1. CASE f # g
        BY <1>1, <1>2, <1>6, <3>2, <3>3, <4>1, TeeAlone DEF TornHas
      <4>2. CASE f = g
        <5>1. g \notin unlisted
          BY <1>0, <1>2, <1>3, <3>3, <4>2 DEF TeeEnds, Ends
        <5>2. Tears(g, data[g] \o pending[g], pending[g], g, unlisted, Filter!Before(g), n)
          BY <1>1, <1>2, <3>4, <4>2, <5>1, TornTwice
        <5> QED
          BY <1>1, <1>6, <4>2, <5>2 DEF Filter!Before
      <4> QED
        BY <4>1, <4>2
    <3> QED
      BY <1>1, <3>3, <3>5 DEF TornHas
  <2>3. tpc' # "exited" /\ tpc' = tpc
    BY <1>1, <1>3
  <2>4. ASSUME NEW f \in Filter!Files \ opened
        PROVE  data'[f] = <<Old>> /\ pending'[f] = <<>>
    BY <1>0, <1>1, <1>4, <1>6 DEF TeeEnds
  <2> QED
    BY <1>0, <1>1, <2>1, <2>2, <2>3, <2>4 DEF TeeEnds, Ends, Filter!Files
<1> QED
  BY <1>8, <1>9, <1>10, <1>11, <1>12 DEF TeeInv

(* stdio resets the pointers into a buffer it has written.                 *)
LEMMA ResetStep ==
  ASSUME TeeInv, NEW g \in Filter!Files, Filter!ResetBuffer(g)
  PROVE  TeeInv'
<1>0. TeeTypes /\ TeeLoops /\ TeeErrors /\ TeeStdio /\ TeeEnds
  BY DEF TeeInv
<1>1. /\ writing = g /\ writing' = 0 /\ pending' = [pending EXCEPT ![g] = <<>>]
      /\ UNCHANGED <<tpc, append_mode, ignore_interrupts_mode, output_ok, at, opened, data,
                     unlisted, torn, taken, out, errors>>
      /\ tpc \notin {"exited", "killed"}
  BY DEF Filter!ResetBuffer, Filter!options, Filter!input
<1>2. /\ data \in [Filter!Files -> Seq(Item)] /\ pending \in [Filter!Files -> Seq(Item)]
      /\ opened \subseteq Filter!Files /\ g # 0 /\ 0 \notin Filter!Files
      /\ unlisted \subseteq opened /\ torn \in opened \cup {0} /\ g \in opened
      /\ tpc \in {"start", "open", "read", "write", "copy", "close", "exit"} \cup Ends
  BY <1>0, <1>1 DEF TeeTypes, Filter!Files
<1>3. tpc \in {"copy", "close", "exit", "handler"}
  BY <1>0, <1>1, <1>2 DEF TeeStdio, Ends
<1>4. /\ pending' \in [Filter!Files -> Seq(Item)] /\ pending'[g] = <<>>
      /\ \A f \in Filter!Files \ {g} : pending'[f] = pending[f]
  BY <1>1, <1>2, EmptySeq
<1>5. ASSUME NEW f \in opened, NEW n \in Int, Holds(f, n) PROVE Holds(f, n)'
  <2>1. CASE f # g
    BY <1>1, <1>2, <1>4, <1>5, <2>1, TeeAlone
  <2>2. CASE f = g
    <3>1. Keeps(g, data[g], pending[g], g, Filter!Before(g), n) /\ 0 # g
      BY <1>1, <1>2, <1>5, <2>2 DEF Holds
    <3>2. Keeps(g, data[g], <<>>, 0, Filter!Before(g), n)
      BY <3>1, BeforeIsSeq, KeptReset
    <3> QED
      BY <1>1, <1>4, <2>2, <3>2 DEF Holds, Filter!Before
  <2> QED
    BY <2>1, <2>2
<1>6. TeeTypes'
  BY <1>0, <1>1, <1>4 DEF TeeTypes, Filter!Files
<1>7. TeeLoops'
  <2>1. tpc \notin {"start", "open", "read", "write"}
    BY <1>3
  <2>2. OutputHas(taken) => OutputHas(taken)'
    BY <1>1 DEF OutputHas
  <2>3. taken \in Int /\ taken - 1 \in Int
    BY <1>0 DEF TeeTypes
  <2>4. \A f \in opened : Holds(f, taken) => Holds(f, taken)'
    <3>1. \A f \in opened : Holds(f, taken) =>
            Keeps(f, data'[f], pending'[f], writing', Filter!Before(f)', taken)
      BY <1>5, <2>3 DEF Holds
    <3> QED
      BY <1>1, <3>1 DEF Holds
  <2>5. \A f \in opened : Holds(f, taken - 1) => Holds(f, taken - 1)'
    <3>1. \A f \in opened : Holds(f, taken - 1) =>
            Keeps(f, data'[f], pending'[f], writing', Filter!Before(f)', taken - 1)
      BY <1>5, <2>3 DEF Holds
    <3> QED
      BY <1>1, <3>1 DEF Holds
  <2> QED
    BY <1>0, <1>1, <2>1, <2>2, <2>4, <2>5 DEF TeeLoops
<1>8. TeeErrors'
  BY <1>0, <1>1 DEF TeeErrors, Filter!Files
<1>9. TeeStdio'
  <2>1. ASSUME NEW f \in unlisted, pending[f] = <<>> PROVE pending'[f] = <<>>
    BY <1>2, <1>4, <2>1
  <2> QED
    BY <1>0, <1>1, <1>2, <1>3, <2>1 DEF TeeStdio, Filter!Files
<1>10. TeeEnds'
  <2>1. ASSUME tpc \in Ends
        PROVE  /\ (\E n \in Counts : OutputHas(n))'
               /\ (\A f \in opened \ {torn} : \E n \in Counts : Holds(f, n))'
    <3>1. taken \in Int /\ taken - 1 \in Int
      BY <1>0 DEF TeeTypes
    <3>2. \E n \in Counts : OutputHas(n)'
      BY <1>0, <1>1, <2>1 DEF TeeEnds, OutputHas
    <3>3. \A f \in opened \ {torn} : \E n \in Counts : Holds(f, n)'
      BY <1>0, <1>5, <2>1, <3>1 DEF TeeEnds, Counts
    <3>4. Counts' = Counts
      BY <1>1 DEF Counts
    <3> QED
      BY <1>1, <3>2, <3>3, <3>4
  <2>2. (torn \in opened => \E n \in 0 .. taken : TornHas(torn, n))'
    <3>1. SUFFICES ASSUME torn \in opened
                   PROVE  \E n \in 0 .. taken : (TornHas(torn, n))'
      BY <1>1
    <3>2. PICK n \in 0 .. taken : TornHas(torn, n)
      BY <1>0, <3>1 DEF TeeEnds
    <3>3. PICK f \in opened : f = torn
      BY <3>1
    <3>4. Tears(f, data[f], pending[f], writing, unlisted, Filter!Before(f), n)
      BY <3>2, <3>3 DEF TornHas
    <3>5. Tears(f, data'[f], pending'[f], writing', unlisted', Filter!Before(f)', n)
      <4>1. CASE f # g
        BY <1>1, <1>2, <1>4, <3>2, <3>3, <4>1, TeeAlone DEF TornHas
      <4>2. CASE f = g
        <5>1. Tears(g, data[g], <<>>, 0, unlisted, Filter!Before(g), n)
          BY <1>1, <3>4, <4>2, TornReset
        <5> QED
          BY <1>1, <1>4, <4>2, <5>1 DEF Filter!Before
      <4> QED
        BY <4>1, <4>2
    <3> QED
      BY <1>1, <3>3, <3>5 DEF TornHas
  <2>3. tpc' # "exited" /\ tpc' = tpc
    BY <1>1
  <2>4. ASSUME NEW f \in Filter!Files \ opened
        PROVE  data'[f] = <<Old>> /\ pending'[f] = <<>>
    BY <1>0, <1>1, <1>2, <1>4 DEF TeeEnds
  <2> QED
    BY <1>0, <1>1, <2>1, <2>2, <2>3, <2>4 DEF TeeEnds, Ends, Filter!Files
<1> QED
  BY <1>6, <1>7, <1>8, <1>9, <1>10 DEF TeeInv

(* The handler takes over, lines 20-25.                                    *)
LEMMA InterruptStep ==
  ASSUME TeeInv, Filter!Interrupted
  PROVE  TeeInv'
<1>0. TeeTypes /\ TeeLoops /\ TeeErrors /\ TeeStdio /\ TeeEnds
  BY DEF TeeInv
<1>1. /\ tpc \notin Ends /\ ~ignore_interrupts_mode /\ tpc' = "handler" /\ writing' = 0
      /\ torn' = IF writing = 0 /\ tpc = "close" /\ at \in unlisted THEN at ELSE writing
      /\ UNCHANGED <<append_mode, ignore_interrupts_mode, output_ok, at, opened, data, pending,
                     unlisted, taken, out, errors>>
  BY DEF Filter!Interrupted, Filter!options, Filter!input, Ends
<1>2. /\ torn = 0 /\ 0 \notin Filter!Files /\ opened \subseteq Filter!Files
      /\ unlisted \subseteq opened /\ writing \in opened \cup {0}
  BY <1>0, <1>1 DEF TeeEnds, TeeTypes, Filter!Files
<1>3. TeeTypes'
  BY <1>0, <1>1, <1>2 DEF TeeTypes, Filter!Files, Ends
<1>4. TeeLoops' /\ TeeErrors'
  BY <1>1 DEF TeeLoops, TeeErrors
<1>5. TeeStdio'
  <2>1. ASSUME NEW f \in unlisted, f # torn' PROVE pending[f] = <<>>
    <3>1. unlisted # {}
      BY <2>1
    <3>2. tpc \in {"close", "exit"}
      BY <1>0, <1>1, <3>1 DEF TeeStdio, TeeTypes
    <3>3. CASE tpc = "close"
      <4>1. f # at
        BY <1>0, <1>1, <2>1, <3>3 DEF TeeStdio
      <4> QED
        BY <1>0, <3>3, <4>1 DEF TeeStdio
    <3>4. CASE tpc = "exit"
      BY <1>0, <1>2, <3>4 DEF TeeStdio
    <3> QED
      BY <3>2, <3>3, <3>4
  <2> QED
    BY <1>1, <2>1 DEF TeeStdio
<1>6. ASSUME NEW f \in opened \ {torn'}, NEW n, Holds(f, n) PROVE Holds(f, n)'
  <2>1. writing # f /\ writing' # f
    BY <1>1, <1>2, <1>6
  <2> QED
    BY <1>1, <1>6, <2>1, TeeAlone
<1>7. (torn \in opened => \E n \in 0 .. taken : TornHas(torn, n))'
  <2>1. SUFFICES ASSUME torn' \in opened
                 PROVE  \E n \in 0 .. taken : (TornHas(torn, n))'
    BY <1>1
  <2>2. PICK f \in opened : f = torn'
    BY <2>1
  <2>3. f # 0 /\ (writing = f \/ f \in unlisted) /\ f \in opened \ {torn}
    BY <1>1, <1>2, <2>2
  <2>4. PICK n \in Counts : Holds(f, n)
    BY <2>3, NearlyCopied
  <2>5. n \in Int /\ n <= taken /\ taken \in Nat
    BY <1>0 DEF TeeTypes, Counts
  <2>6. \E m \in 0 .. n : Tears(f, data[f], pending[f], 0, unlisted, Filter!Before(f), m)
    BY <2>3, <2>4, <2>5, TornFrom DEF Holds
  <2>7. PICK m \in 0 .. n : Tears(f, data[f], pending[f], 0, unlisted, Filter!Before(f), m)
    BY <2>6
  <2>8. m \in 0 .. taken
    BY <2>5
  <2>9. (TornHas(torn, m))'
    BY <1>1, <2>2, <2>7 DEF TornHas, Filter!Before
  <2> QED
    BY <2>8, <2>9
<1>8. TeeEnds'
  <2>1. \E n \in Counts : OutputHas(n)'
    BY <1>1, NearlyCopied DEF OutputHas
  <2>2. \A f \in opened \ {torn'} : \E n \in Counts : Holds(f, n)'
    BY <1>2, <1>6, NearlyCopied
  <2>3. Counts' = Counts
    BY <1>1 DEF Counts
  <2>4. \A f \in Filter!Files \ opened : data'[f] = <<Old>> /\ pending'[f] = <<>>
    BY <1>0, <1>1 DEF TeeEnds
  <2> QED
    BY <1>1, <1>7, <2>1, <2>2, <2>3, <2>4 DEF TeeEnds, Ends, Filter!Files
<1> QED
  BY <1>3, <1>4, <1>5, <1>8 DEF TeeInv

(* The ends, and a step of the rest of the system.                         *)
LEMMA StopStep ==
  ASSUME TeeInv,
         Filter!InvalidOption \/ Filter!ExitDone \/ Filter!Killed \/ UNCHANGED Filter!vars
  PROVE  TeeInv'
<1>0. TeeTypes /\ TeeLoops /\ TeeErrors /\ TeeStdio /\ TeeEnds
  BY DEF TeeInv
<1>1. UNCHANGED <<append_mode, ignore_interrupts_mode, output_ok, at, opened, data, pending,
                  writing, unlisted, torn, taken, out>>
  BY DEF Filter!InvalidOption, Filter!ExitDone, Filter!Killed, Filter!vars,
         Filter!options, Filter!stdio, Filter!input
<1>2. /\ (\E n \in Counts : OutputHas(n))'
      /\ (\A f \in opened \ {torn} : \E n \in Counts : Holds(f, n))'
  BY <1>1, NearlyCopied DEF Counts, OutputHas, Holds, Filter!Before
<1>3. /\ \A f \in Filter!Files \ opened : data'[f] = <<Old>> /\ pending'[f] = <<>>
      /\ 0 \notin opened
  BY <1>0, <1>1 DEF TeeEnds, TeeTypes, Filter!Files
<1>4. (torn \in opened => \E n \in 0 .. taken : TornHas(torn, n))'
  BY <1>0, <1>1 DEF TeeEnds, TornHas, Filter!Before
<1>5. CASE Filter!InvalidOption
  <2>1. tpc = "start" /\ tpc' = "exited" /\ opened = {} /\ writing = 0 /\ unlisted = {}
        /\ torn = 0 /\ ~ignore_interrupts_mode
    BY <1>0, <1>5, TeeFresh DEF Filter!InvalidOption, TeeLoops
  <2>2. TeeTypes' /\ TeeLoops' /\ TeeErrors'
    BY <1>0, <1>1, <2>1 DEF TeeTypes, TeeLoops, TeeErrors, Ends, Filter!Files
  <2>3. TeeStdio'
    BY <1>1, <1>3, <2>1 DEF TeeStdio, Filter!Files
  <2>4. TeeEnds'
    BY <1>1, <1>2, <1>3, <1>4, <2>1 DEF TeeEnds, Ends, Filter!Files
  <2> QED
    BY <2>2, <2>3, <2>4 DEF TeeInv
<1>6. CASE Filter!ExitDone
  <2>1. /\ tpc \in {"exit", "handler"} /\ tpc' = "exited" /\ writing = 0
        /\ \A f \in Filter!Files \ unlisted : pending[f] = <<>>
    BY <1>6 DEF Filter!ExitDone
  <2>2. TeeTypes' /\ TeeLoops' /\ TeeErrors'
    BY <1>0, <1>1, <2>1 DEF TeeTypes, TeeLoops, TeeErrors, Ends, Filter!Files
  <2>3. TeeStdio'
    <3>1. \A f \in unlisted \ {torn} : pending[f] = <<>>
      BY <1>0, <2>1 DEF TeeStdio
    <3>2. \A f \in Filter!Files \ {torn} : pending[f] = <<>>
      BY <2>1, <3>1
    <3> QED
      BY <1>1, <2>1, <3>2 DEF TeeStdio, Filter!Files
  <2>4. ASSUME ignore_interrupts_mode
        PROVE  taken = Length /\ torn = 0 /\ \A f \in opened : Holds(f, taken)
    <3>1. tpc = "exit"
      BY <1>0, <2>1, <2>4 DEF TeeEnds
    <3>2. tpc \notin Ends
      BY <3>1 DEF Ends
    <3> QED
      BY <1>0, <3>1, <3>2 DEF TeeEnds, TeeLoops
  <2>5. (ignore_interrupts_mode =>
           taken = Length /\ torn = 0 /\ \A f \in opened : Holds(f, taken))'
    BY <1>1, <2>4 DEF Holds, Filter!Before
  <2>6. TeeEnds'
    BY <1>1, <1>2, <1>3, <1>4, <2>1, <2>5 DEF TeeEnds, Ends, Filter!Files
  <2> QED
    BY <2>2, <2>3, <2>6 DEF TeeInv
<1>7. CASE Filter!Killed
  <2>1. tpc' = "killed"
    BY <1>7 DEF Filter!Killed
  <2>2. TeeTypes' /\ TeeLoops' /\ TeeErrors'
    BY <1>0, <1>1, <2>1 DEF TeeTypes, TeeLoops, TeeErrors, Ends, Filter!Files
  <2>3. TeeStdio'
    BY <2>1 DEF TeeStdio
  <2>4. TeeEnds'
    BY <1>1, <1>2, <1>3, <1>4, <2>1 DEF TeeEnds, Ends, Filter!Files
  <2> QED
    BY <2>2, <2>3, <2>4 DEF TeeInv
<1>8. CASE UNCHANGED Filter!vars
  <2>1. tpc' = tpc /\ errors' = errors
    BY <1>8 DEF Filter!vars
  <2>2. TeeTypes' /\ TeeErrors'
    BY <1>0, <1>1, <2>1 DEF TeeTypes, TeeErrors, Filter!Files
  <2>3. TeeLoops'
    BY <1>0, <1>1, <2>1 DEF TeeLoops, OutputHas, Holds, Filter!Before
  <2>4. TeeStdio'
    BY <1>0, <1>1, <2>1 DEF TeeStdio, Filter!Files
  <2>5. (tpc = "exited" /\ ignore_interrupts_mode =>
           taken = Length /\ torn = 0 /\ \A f \in opened : Holds(f, taken))'
    BY <1>0, <1>1, <2>1 DEF TeeEnds, Holds, Filter!Before
  <2>6. (tpc \notin Ends => torn = 0)' /\ (tpc = "handler" => ~ignore_interrupts_mode)'
    BY <1>0, <1>1, <2>1 DEF TeeEnds
  <2>7. TeeEnds'
    BY <1>1, <1>2, <1>3, <1>4, <2>5, <2>6 DEF TeeEnds, Filter!Files
  <2> QED
    BY <2>2, <2>3, <2>4, <2>7 DEF TeeInv
<1> QED
  BY <1>5, <1>6, <1>7, <1>8

(* The parts of the property from those of the invariant.                  *)
LEMMA TeeCopied ==
  ASSUME TeeInv
  PROVE  Filter!TeeCopies
<1>0. TeeTypes /\ TeeLoops /\ TeeErrors /\ TeeStdio /\ TeeEnds
  BY DEF TeeInv
<1>1. /\ taken \in Nat /\ taken \in Int /\ taken - 1 \in Int
      /\ opened \subseteq Filter!Files /\ 0 \notin Filter!Files
      /\ data \in [Filter!Files -> Seq(Item)]
  BY <1>0 DEF TeeTypes, Filter!Files
<1>2. ASSUME NEW f \in opened, NEW n \in Int, Holds(f, n)
      PROVE  /\ n \in Nat /\ Filter!Copied(f) = Filter!Before(f) \o Filter!Bytes(n)
             /\ \E k \in 0 .. n : data[f] = Filter!Before(f) \o Filter!Bytes(k)
  <2> DEFINE b == Filter!Before(f)
  <2>1. PICK k \in 0 .. n : /\ pending[f] = Filter!Block(k, n)
                            /\ data[f] = Copy(b, IF writing = f THEN n ELSE k)
    BY <1>2 DEF Holds, Keeps
  <2>2. n \in Nat /\ n \in 0 .. n /\ b \in Seq(Item)
    BY BeforeIsSeq
  <2> HIDE DEF b
  <2>3. Copy(b, k) \o Filter!Block(k, n) = Copy(b, n)
    BY <2>2, CopyBlock
  <2> QED
    BY <2>1, <2>2, <2>3 DEF Filter!Copied, Copy, b
<1>3. output_ok => \E n \in {taken, taken - 1} : out = Filter!Bytes(n)
  BY NearlyCopied DEF OutputHas, Counts
<1>4. ASSUME NEW f \in opened \ {torn}
      PROVE  /\ \E n \in {taken, taken - 1} :
                  Filter!Copied(f) = Filter!Before(f) \o Filter!Bytes(n)
             /\ \E k \in 0 .. taken : data[f] = Filter!Before(f) \o Filter!Bytes(k)
             /\ tpc = "exited" => Filter!Copied(f) = data[f]
  <2>1. PICK n \in Counts : Holds(f, n)
    BY NearlyCopied
  <2>2. n \in Int /\ n \in {taken, taken - 1} /\ n <= taken
    BY <1>1 DEF Counts
  <2>3. PICK k \in 0 .. n : data[f] = Filter!Before(f) \o Filter!Bytes(k)
    BY <1>2, <2>1, <2>2
  <2>4. k \in 0 .. taken
    BY <1>1, <2>2
  <2>5. Filter!Copied(f) = Filter!Before(f) \o Filter!Bytes(n)
    BY <1>2, <2>1, <2>2
  <2>6. ASSUME tpc = "exited" PROVE Filter!Copied(f) = data[f]
    <3>1. pending[f] = <<>> /\ writing # f
      BY <1>0, <1>1, <2>6 DEF TeeStdio
    <3> DEFINE a == data[f]
    <3>2. a \in Seq(Item)
      BY <1>1
    <3> HIDE DEF a
    <3>3. a \o <<>> = a
      BY <3>2, ConcatEmptySeq
    <3> QED
      BY <3>1, <3>3 DEF a, Filter!Copied
  <2> QED
    BY <2>2, <2>3, <2>4, <2>5, <2>6
<1>5. ASSUME torn \in opened
      PROVE  \E n \in 0 .. taken : \E k \in 0 .. n :
               data[torn] \in {Filter!Before(torn) \o Filter!Bytes(n),
                               (Filter!Before(torn) \o Filter!Bytes(n)) \o Filter!Block(k, n)}
  <2>1. PICK n \in 0 .. taken : TornHas(torn, n)
    BY <1>0, <1>5 DEF TeeEnds
  <2>2. PICK k \in 0 .. n :
          data[torn] = Copy(Filter!Before(torn), n)
            \/ data[torn] = Copy(Filter!Before(torn), n) \o Filter!Block(k, n)
    BY <2>1 DEF TornHas, Tears
  <2> QED
    BY <2>2 DEF Copy
<1>6. \A f \in Filter!Files \ opened : data[f] = <<Old>> /\ pending[f] = <<>>
  BY <1>0 DEF TeeEnds
<1>7. ASSUME tpc \in {"read", "close", "exit"}
      PROVE  /\ output_ok => out = Filter!Bytes(taken)
             /\ \A f \in opened : Filter!Copied(f) = Filter!Before(f) \o Filter!Bytes(taken)
             /\ (errors = 1) <=> (opened # Filter!Files)
  <2>1. OutputHas(taken) /\ \A f \in opened : Holds(f, taken)
    BY <1>0, <1>7 DEF TeeLoops
  <2>2. (errors = 1) <=> (opened # Filter!Files)
    BY <1>0, <1>7 DEF TeeErrors
  <2> QED
    BY <1>1, <1>2, <2>1, <2>2 DEF OutputHas
<1>8. ASSUME tpc = "exited", ignore_interrupts_mode, NEW f \in opened
      PROVE  data[f] = Filter!Before(f) \o Filter!Bytes(Length)
  <2>1. taken = Length /\ f \in opened \ {torn} /\ Holds(f, taken)
    BY <1>0, <1>1, <1>8 DEF TeeEnds
  <2>2. Filter!Copied(f) = data[f]
    BY <1>4, <1>8, <2>1
  <2> QED
    BY <1>1, <1>2, <2>1, <2>2
<1> QED
  BY <1>3, <1>4, <1>5, <1>6, <1>7, <1>8 DEF Filter!TeeCopies

(* tee copies: each file that was opened holds what was read, after what   *)
(* it held under -a, and is never more than a byte behind, however the     *)
(* program ends; only the file whose buffer was being written or closed    *)
(* when SIGINT came may hold its last block twice or lose it; a file that  *)
(* was not opened is untouched and shows in the exit status (tee.c, lines  *)
(* 20-25 and 49-82).  For any input and the up to three files that line 47 *)
(* has room for.                                                           *)
THEOREM TeeCorrect ==
  ASSUME FileCount \in 0 .. 3
  PROVE  Filter!Spec => []TeeCopies
<1>1. Filter!Init => TeeInv
  BY TeeInit
<1>2. TeeInv /\ [Filter!Next]_Filter!vars => TeeInv'
  BY OpenStep, CopyStep, CloseStep, WriteStep, ResetStep, InterruptStep, StopStep
  DEF Filter!Next
<1>3. TeeInv => TeeCopies
  BY TeeCopied DEF TeeCopies
<1> QED
  BY <1>1, <1>2, <1>3, PTL DEF Filter!Spec

-----------------------------------------------------------------------------
(* The picture turned n times, cell by cell from the original.             *)
Wide(n) == IF n % 2 = 0 THEN original.width ELSE original.height
High(n) == IF n % 2 = 0 THEN original.height ELSE original.width
Pixel(n, r, c) ==
  LET s == Bmp!Source(n, r, c)
  IN original.pixels[s.row * original.width + s.col]
Turned(n) ==
  Bmp!Picture(Wide(n), High(n),
              [c \in Bmp!Cells(Wide(n), High(n)) |-> Pixel(n, c \div Wide(n), c % Wide(n))])

(* A picture has at least one pixel.                                       *)
Shapes == Sides \subseteq Nat \ {0}

(* What the file and the memory hold at each place of main.                *)
BmpInv ==
  /\ turns \in Nat
  /\ bpc = "start" => turns = 0 /\ ~valid
  /\ valid =>
       /\ original.width \in Sides /\ original.height \in Sides
       /\ bpc \in {"read", "done"} => disk = Bmp!FileOf(Turned(turns))
       /\ bpc = "rotate" => image = Turned(turns)
       /\ bpc = "write" => image = Turned(turns + 1)

(* Division with remainder, for divisors that are not literals.           *)
LEMMA Quotient ==
  ASSUME NEW x \in Nat, NEW w \in Nat \ {0}
  PROVE  /\ x \div w \in Nat /\ x % w \in 0 .. w - 1 /\ x = w * (x \div w) + (x % w)
  OBVIOUS

(* A product grows with either factor.                                     *)
LEMMA Monotone ==
  ASSUME NEW a \in Nat, NEW b \in Nat, NEW w \in Nat, a <= b
  PROVE  a * w <= b * w /\ w * a <= w * b
  OBVIOUS

(* The quotient and the remainder are the only ones.                       *)
LEMMA DivMod ==
  ASSUME NEW w \in Nat \ {0}, NEW q \in Nat, NEW m \in 0 .. w - 1
  PROVE  (q * w + m) \div w = q /\ (q * w + m) % w = m
<1> DEFINE x == q * w + m
           d == x \div w
           r == x % w
<1>1. x \in Nat
  OBVIOUS
<1>2. d \in Nat /\ r \in 0 .. w - 1 /\ x = w * d + r
  BY <1>1, Quotient
<1>3. q * w + m = w * d + r
  BY <1>2
<1> HIDE DEF x, d, r
<1>4. CASE q < d
  <2>1. (q + 1) * w <= d * w
    BY <1>2, <1>4, Monotone
  <2>2. q * w + w <= w * d
    BY <1>2, <2>1
  <2> QED
    BY <1>2, <1>3, <2>2
<1>5. CASE d < q
  <2>1. (d + 1) * w <= q * w
    BY <1>2, <1>5, Monotone
  <2>2. w * d + w <= q * w
    BY <1>2, <2>1
  <2> QED
    BY <1>2, <1>3, <2>2
<1>6. d = q /\ r = m
  BY <1>2, <1>3, <1>4, <1>5
<1> QED
  BY <1>6 DEF x, d, r

(* Rows and columns of the cells.                                          *)
LEMMA CellPlace ==
  ASSUME NEW w \in Nat \ {0}, NEW h \in Nat \ {0}, NEW c \in Bmp!Cells(w, h)
  PROVE  /\ c \in Nat /\ c \div w \in 0 .. h - 1 /\ c % w \in 0 .. w - 1
         /\ c = (c \div w) * w + (c % w)
<1> DEFINE d == c \div w
           r == c % w
<1>1. c \in Nat /\ c <= w * h - 1
  BY DEF Bmp!Cells
<1>2. d \in Nat /\ r \in 0 .. w - 1 /\ c = w * d + r
  BY <1>1, Quotient
<1> HIDE DEF d, r
<1>3. ASSUME d >= h PROVE FALSE
  <2>1. w * h <= w * d
    BY <1>2, <1>3, Monotone
  <2> QED
    BY <1>1, <1>2, <2>1
<1>4. d \in 0 .. h - 1 /\ c = d * w + r
  BY <1>2, <1>3
<1> QED
  BY <1>1, <1>2, <1>4 DEF d, r

(* ... and the cell of a row and a column.                                 *)
LEMMA PlaceCell ==
  ASSUME NEW w \in Nat \ {0}, NEW h \in Nat \ {0}, NEW r \in 0 .. h - 1, NEW c \in 0 .. w - 1
  PROVE  r * w + c \in Bmp!Cells(w, h)
<1>1. (r + 1) * w <= h * w
  BY Monotone
<1>2. r * w \in Nat
  OBVIOUS
<1> DEFINE x == r * w
           y == h * w
<1>3. x \in Nat /\ y \in Nat /\ x + w <= y
  BY <1>1
<1> HIDE DEF x, y
<1>4. x + c \in 0 .. y - 1
  BY <1>3
<1> QED
  BY <1>4 DEF x, y, Bmp!Cells

(* Where the writer puts a pixel, and the reader looks for it.             *)
Place(w, c) == Bmp!Offset(Bmp!WritePadding(w), w, c)

(* Every pixel has its own place in the file, inside the data.             *)
LEMMA Offsets ==
  ASSUME NEW w \in Nat \ {0}, NEW h \in Nat \ {0}
  PROVE  /\ \A a, b \in Bmp!Cells(w, h) : Place(w, a) = Place(w, b) => a = b
         /\ \A c \in Bmp!Cells(w, h) :
              Place(w, c) + 3 <= (w * h * 3) + (h * Bmp!WritePadding(w))
<1> DEFINE p == Bmp!WritePadding(w)
<1>1. p \in Nat
  BY DEF Bmp!WritePadding
<1>2. \A c \in Bmp!Cells(w, h) : Place(w, c) = (3 * c) + (p * (c \div w))
  BY DEF Place, Bmp!Offset
<1> HIDE DEF p
<1>3. ASSUME NEW a \in Bmp!Cells(w, h), NEW b \in Bmp!Cells(w, h), a < b
      PROVE  Place(w, a) < Place(w, b)
  <2> DEFINE d == a \div w
             e == b \div w
             m == a % w
             n == b % w
  <2>1. /\ a \in Nat /\ d \in Nat /\ m \in 0 .. w - 1 /\ a = d * w + m
        /\ b \in Nat /\ e \in Nat /\ n \in 0 .. w - 1 /\ b = e * w + n
    BY CellPlace
  <2>2. Place(w, a) = (3 * a) + (p * d) /\ Place(w, b) = (3 * b) + (p * e)
    BY <1>2
  <2> HIDE DEF d, e, m, n
  <2>3. d <= e
    <3> SUFFICES ASSUME e < d PROVE FALSE
      BY <2>1
    <3>1. (e + 1) * w <= d * w
      BY <2>1, Monotone
    <3>2. e * w + w <= d * w
      BY <2>1, <3>1
    <3> QED
      BY <1>3, <2>1, <3>2
  <2>4. p * d <= p * e /\ p * d \in Nat /\ p * e \in Nat
    BY <1>1, <2>1, <2>3, Monotone
  <2> QED
    BY <1>3, <2>1, <2>2, <2>4
<1>4. ASSUME NEW c \in Bmp!Cells(w, h)
      PROVE  Place(w, c) + 3 <= (w * h * 3) + (h * p)
  <2> DEFINE d == c \div w
             x == w * h
             y == h * p
             z == p * d
  <2>1. c \in Nat /\ d \in 0 .. h - 1 /\ c <= x - 1
    <3>1. c \in Nat /\ d \in 0 .. h - 1
      BY CellPlace
    <3>2. c <= x - 1
      BY DEF Bmp!Cells
    <3> QED
      BY <3>1, <3>2
  <2>2. Place(w, c) = (3 * c) + z
    BY <1>2
  <2>3. x \in Nat /\ y \in Nat /\ z \in Nat /\ y = p * h
    BY <1>1, <2>1
  <2>4. z <= y
    <3>1. d \in Nat /\ d <= h
      BY <2>1
    <3>2. p * d <= p * h
      BY <1>1, <3>1, Monotone
    <3> QED
      BY <2>3, <3>2
  <2> HIDE DEF d, x, y, z
  <2>5. ((3 * c) + z) + 3 <= (x * 3) + y
    BY <2>1, <2>3, <2>4
  <2> QED
    BY <2>2, <2>5 DEF x, y
<1>5. \A c \in Bmp!Cells(w, h) : c \in Nat
  BY CellPlace
<1>6. \A a, b \in Bmp!Cells(w, h) : Place(w, a) = Place(w, b) => a = b
  <2> SUFFICES ASSUME NEW a \in Bmp!Cells(w, h), NEW b \in Bmp!Cells(w, h),
                      Place(w, a) = Place(w, b)
               PROVE  a = b
    OBVIOUS
  <2>1. ASSUME NEW c \in Bmp!Cells(w, h) PROVE Place(w, c) \in Nat
    <3> DEFINE d == c \div w
    <3>1. c \in Nat /\ d \in Nat
      BY CellPlace
    <3>2. Place(w, c) = (3 * c) + (p * d)
      BY <1>2
    <3> HIDE DEF d
    <3> QED
      BY <1>1, <3>1, <3>2
  <2>2. ~(a < b) /\ ~(b < a)
    BY <1>3, <2>1
  <2> QED
    BY <1>5, <2>2
<1> QED
  BY <1>4, <1>6 DEF p

(* What is written is what is read back.                                   *)
LEMMA RoundTrip ==
  ASSUME NEW w \in Nat \ {0}, NEW h \in Nat \ {0}, NEW p,
         p = [c \in Bmp!Cells(w, h) |-> p[c]]
  PROVE  Bmp!PictureOf(Bmp!FileOf(Bmp!Picture(w, h, p))) = Bmp!Picture(w, h, p)
<1> DEFINE pic == Bmp!Picture(w, h, p)
           file == Bmp!FileOf(pic)
           places == {Place(w, c) : c \in Bmp!Cells(w, h)}
           cellAt == [o \in places |-> CHOOSE c \in Bmp!Cells(w, h) : Place(w, c) = o]
<1>1. pic.width = w /\ pic.height = h /\ pic.pixels = p
  BY DEF Bmp!Picture
<1>2. /\ file.width = w /\ file.height = h
      /\ file.sizeImage = (w * h * 3) + (h * Bmp!WritePadding(w))
      /\ file.bytes = [o \in DOMAIN cellAt |-> p[cellAt[o]]]
  <2> HIDE DEF pic
  <2> QED
    BY <1>1 DEF Bmp!FileOf, Place
<1>3. \A c \in Bmp!Cells(w, h) : cellAt[Place(w, c)] = c /\ Place(w, c) \in DOMAIN cellAt
  BY Offsets
<1>4. \A c \in Bmp!Cells(w, h) :
        /\ Place(w, c) \in DOMAIN file.bytes
        /\ file.bytes[Place(w, c)] = p[c]
        /\ Place(w, c) + 3 <= file.sizeImage
  <2> HIDE DEF file, cellAt
  <2>1. DOMAIN file.bytes = DOMAIN cellAt
    BY <1>2
  <2> QED
    BY <1>2, <1>3, <2>1, Offsets
<1> HIDE DEF file
<1>5. [c \in Bmp!Cells(w, h) |->
         IF Place(w, c) + 3 <= file.sizeImage /\ Place(w, c) \in DOMAIN file.bytes
         THEN file.bytes[Place(w, c)] ELSE Garbage]
      = [c \in Bmp!Cells(w, h) |-> p[c]]
  BY <1>4
<1>6. Bmp!PictureOf(file) = Bmp!Picture(w, h, p)
  BY <1>2, <1>5 DEF Bmp!PictureOf, Bmp!ReadPadding, Bmp!WritePadding, Place
<1> QED
  BY <1>6 DEF file

(* The header: its size is that of the rows, which are whole words.        *)
LEMMA Header ==
  ASSUME NEW w \in Nat \ {0}, NEW h \in Nat \ {0}, NEW p
  PROVE  LET file == Bmp!FileOf(Bmp!Picture(w, h, p))
         IN /\ file.type = "BM" /\ file.height = h
            /\ file.sizeImage <= file.length
            /\ file.sizeImage % 4 = 0 /\ (file.sizeImage \div h) % 4 = 0
<1> DEFINE file == Bmp!FileOf(Bmp!Picture(w, h, p))
           q == w \div 4
           m == w % 4
           k == (3 * q) + m
           x == w * h
           y == h * m
           size == (x * 3) + y
<1>1. /\ file.type = "BM" /\ file.height = h
      /\ file.sizeImage = (w * h * 3) + (h * Bmp!WritePadding(w))
      /\ file.length = (w + Bmp!WritePadding(w)) * h * 3
  BY DEF Bmp!FileOf, Bmp!Picture
<1>2. q \in Nat /\ m \in 0 .. 3 /\ w = (4 * q) + m
  OBVIOUS
<1>3. x \in Nat /\ y \in Nat
  BY <1>2
<1>4. file.sizeImage = size /\ file.length = (x + y) * 3
  <2>1. (w + m) * h = x + y
    BY <1>2
  <2> HIDE DEF file
  <2> QED
    BY <1>1, <2>1 DEF Bmp!WritePadding
<1> HIDE DEF file
<1>5. size <= (x + y) * 3
  <2> HIDE DEF x, y
  <2> QED
    BY <1>3
<1>6. k \in Nat /\ 4 * k = (3 * w) + m
  <2> HIDE DEF q, m
  <2> QED
    BY <1>2
<1>7. size = (4 * k) * h
  <2>1. ((3 * w) + m) * h = size
    BY <1>2
  <2> HIDE DEF q, m, x, y, k
  <2> QED
    BY <1>6, <2>1
<1>8. (4 * k) * h = (k * h) * 4 + 0 /\ (4 * k) * h = (4 * k) * h + 0 /\ k * h \in Nat
  <2> HIDE DEF k
  <2> QED
    BY <1>6
<1>9. 0 \in 0 .. 4 - 1 /\ 0 \in 0 .. h - 1 /\ 4 * k \in Nat /\ 4 \in Nat \ {0}
  BY <1>6
<1>10. ((k * h) * 4 + 0) % 4 = 0
  BY <1>8, <1>9, DivMod
<1>11. ((4 * k) * h + 0) \div h = 4 * k
  BY <1>9, DivMod
<1>12. (4 * k) % 4 = 0
  <2> HIDE DEF k
  <2> QED
    BY <1>6
<1>13. size % 4 = 0 /\ (size \div h) % 4 = 0
  <2> HIDE DEF size, k
  <2> QED
    BY <1>7, <1>8, <1>10, <1>11, <1>12
<1> HIDE DEF size
<1>14. /\ file.type = "BM" /\ file.height = h /\ file.sizeImage <= file.length
       /\ file.sizeImage % 4 = 0 /\ (file.sizeImage \div h) % 4 = 0
  BY <1>1, <1>4, <1>5, <1>13
<1> QED
  BY <1>14 DEF file

-----------------------------------------------------------------------------
(* The sides of the picture after one more turn.                           *)
LEMMA TurnedSides ==
  ASSUME NEW n \in Nat, original.width \in Nat \ {0}, original.height \in Nat \ {0}
  PROVE  /\ Wide(n) \in Nat \ {0} /\ High(n) \in Nat \ {0}
         /\ Wide(n + 1) = High(n) /\ High(n + 1) = Wide(n)
<1>1. (n % 2 = 0) <=> ((n + 1) % 2 # 0)
  OBVIOUS
<1> QED
  BY <1>1 DEF Wide, High

(* Turning takes the pixel of row r and column c from column w - 1 - r.    *)
LEMMA OneTurn ==
  ASSUME NEW n \in Nat, original.width \in Nat \ {0}, original.height \in Nat \ {0},
         NEW r \in 0 .. High(n + 1) - 1, NEW c \in 0 .. Wide(n + 1) - 1
  PROVE  Pixel(n + 1, r, c) = Pixel(n, c, (Wide(n) - 1) - r)
<1> DEFINE w == original.width
           h == original.height
<1>1. \/ n % 4 = 0 /\ (n + 1) % 4 = 1 /\ Wide(n) = w
      \/ n % 4 = 1 /\ (n + 1) % 4 = 2 /\ Wide(n) = h
      \/ n % 4 = 2 /\ (n + 1) % 4 = 3 /\ Wide(n) = w
      \/ n % 4 = 3 /\ (n + 1) % 4 = 0 /\ Wide(n) = h
  <2>1. n % 4 \in 0 .. 3 /\ (n % 2 = 0 <=> n % 4 \in {0, 2})
    OBVIOUS
  <2>2. (n + 1) % 4 = IF n % 4 = 3 THEN 0 ELSE (n % 4) + 1
    OBVIOUS
  <2> QED
    BY <2>1, <2>2 DEF Wide
<1>2. r \in Int /\ c \in Int /\ w \in Nat /\ h \in Nat
  <2>1. High(n + 1) \in Nat /\ Wide(n + 1) \in Nat
    BY DEF High, Wide
  <2> QED
    BY <2>1
<1>3. Bmp!Source(n + 1, r, c) = Bmp!Source(n, c, (Wide(n) - 1) - r)
  <2>1. CASE n % 4 = 0
    BY <1>1, <1>2, <2>1 DEF Bmp!Source
  <2>2. CASE n % 4 = 1
    BY <1>1, <1>2, <2>2 DEF Bmp!Source
  <2>3. CASE n % 4 = 2
    BY <1>1, <1>2, <2>3 DEF Bmp!Source
  <2>4. CASE n % 4 = 3
    BY <1>1, <1>2, <2>4 DEF Bmp!Source
  <2> QED
    BY <1>1, <2>1, <2>2, <2>3, <2>4
<1> QED
  BY <1>3 DEF Pixel

(* rotation.c turns the picture once more.                                 *)
LEMMA RotateTurns ==
  ASSUME NEW n \in Nat, original.width \in Nat \ {0}, original.height \in Nat \ {0}
  PROVE  Bmp!Rotate(Turned(n)) = Turned(n + 1)
<1> DEFINE w == Wide(n)
           h == High(n)
           pic == Turned(n)
<1>1. /\ w \in Nat \ {0} /\ h \in Nat \ {0} /\ Wide(n + 1) = h /\ High(n + 1) = w
  BY TurnedSides
<1>2. /\ pic.width = w /\ pic.height = h
      /\ pic.pixels = [c \in Bmp!Cells(w, h) |-> Pixel(n, c \div w, c % w)]
  BY DEF Turned, Bmp!Picture
<1>3. Turned(n + 1) = Bmp!Picture(h, w, [c \in Bmp!Cells(h, w) |-> Pixel(n + 1, c \div h, c % h)])
  BY <1>1 DEF Turned
<1> HIDE DEF w, h, pic
<1>4. ASSUME NEW c \in Bmp!Cells(h, w)
      PROVE  pic.pixels[((c % h) * w) + ((w - 1) - (c \div h))] = Pixel(n + 1, c \div h, c % h)
  <2> DEFINE row == c % h
             col == (w - 1) - (c \div h)
  <2>1. c \div h \in 0 .. w - 1 /\ row \in 0 .. h - 1
    BY <1>1, CellPlace
  <2>2. col \in 0 .. w - 1
    BY <1>1, <2>1
  <2>3. /\ row * w + col \in Bmp!Cells(w, h)
        /\ (row * w + col) \div w = row /\ (row * w + col) % w = col
    <3> HIDE DEF row, col
    <3>1. row * w + col \in Bmp!Cells(w, h)
      BY <1>1, <2>1, <2>2, PlaceCell
    <3>2. row \in Nat
      BY <1>1, <2>1
    <3> QED
      BY <1>1, <2>2, <3>1, <3>2, DivMod
  <2>4. pic.pixels[row * w + col] = Pixel(n, row, col)
    <3> HIDE DEF row, col
    <3> QED
      BY <1>2, <2>3
  <2>5. Pixel(n + 1, c \div h, row) = Pixel(n, row, col)
    <3>1. c \div h \in 0 .. High(n + 1) - 1 /\ row \in 0 .. Wide(n + 1) - 1
      BY <1>1, <2>1
    <3> HIDE DEF row
    <3> QED
      BY <3>1, OneTurn DEF w
  <2> QED
    BY <2>4, <2>5
<1>5. Bmp!Rotate(pic) = Bmp!Picture(h, w, [c \in Bmp!Cells(h, w) |->
                          pic.pixels[((c % h) * w) + ((w - 1) - (c \div h))]])
  BY <1>2 DEF Bmp!Rotate
<1>6. Bmp!Rotate(pic) = Turned(n + 1)
  BY <1>3, <1>4, <1>5
<1> QED
  BY <1>6 DEF pic

(* Writing and reading a turned picture.                                   *)
LEMMA ReadTurned ==
  ASSUME NEW n \in Nat, original.width \in Nat \ {0}, original.height \in Nat \ {0}
  PROVE  Bmp!PictureOf(Bmp!FileOf(Turned(n))) = Turned(n)
<1> DEFINE w == Wide(n)
           h == High(n)
           p == [c \in Bmp!Cells(w, h) |-> Pixel(n, c \div w, c % w)]
<1>1. w \in Nat \ {0} /\ h \in Nat \ {0}
  BY TurnedSides
<1>2. p = [c \in Bmp!Cells(w, h) |-> p[c]]
  OBVIOUS
<1>3. Turned(n) = Bmp!Picture(w, h, p)
  BY DEF Turned
<1> HIDE DEF w, h, p
<1> QED
  BY <1>1, <1>2, <1>3, RoundTrip

(* The first file holds the picture turned zero times.                     *)
LEMMA BmpSetup ==
  ASSUME Shapes, BmpInv, Bmp!Setup
  PROVE  BmpInv'
<1>1. PICK w \in Sides, h \in Sides :
        original' = Bmp!Picture(w, h, [c \in Bmp!Cells(w, h) |-> c])
  BY DEF Bmp!Setup
<1>2. /\ bpc = "start" /\ bpc' = "read" /\ turns' = turns /\ turns = 0
      /\ valid' => disk' = Bmp!FileOf(original')
  BY DEF Bmp!Setup, BmpInv
<1>3. w \in Nat \ {0} /\ h \in Nat \ {0}
  BY DEF Shapes
<1>4. /\ original'.width = w /\ original'.height = h
      /\ original'.pixels = [c \in Bmp!Cells(w, h) |-> c]
  BY <1>1 DEF Bmp!Picture
<1>5. Wide(0)' = w /\ High(0)' = h
  BY <1>4 DEF Wide, High
<1>6. ASSUME NEW c \in Bmp!Cells(w, h) PROVE Pixel(0, c \div w, c % w)' = c
  <2>1. c = (c \div w) * w + (c % w)
    BY <1>3, CellPlace
  <2>2. /\ Bmp!Source(0, c \div w, c % w)'.row = c \div w
        /\ Bmp!Source(0, c \div w, c % w)'.col = c % w
    BY DEF Bmp!Source
  <2> QED
    BY <1>4, <2>1, <2>2 DEF Pixel
<1>7. Turned(0)' = original'
  BY <1>1, <1>5, <1>6 DEF Turned
<1> QED
  BY <1>2, <1>4, <1>7 DEF BmpInv

(* main.c lines 21-70, over the same file again and again.                 *)
LEMMA BmpStep ==
  ASSUME Shapes, BmpInv, [Bmp!Next]_Bmp!vars
  PROVE  BmpInv'
<1>1. ASSUME valid PROVE original.width \in Nat \ {0} /\ original.height \in Nat \ {0}
  BY <1>1 DEF Shapes, BmpInv
<1>2. ASSUME original' = original, NEW n PROVE Turned(n)' = Turned(n)
  BY <1>2 DEF Turned, Wide, High, Pixel, Bmp!Source
<1>3. turns \in Nat
  BY DEF BmpInv
<1>4. CASE Bmp!Setup
  BY <1>4, BmpSetup
<1>5. CASE Bmp!ReadOk
  <2>1. /\ bpc = "read" /\ bpc' = "rotate" /\ image' = Bmp!PictureOf(disk)
        /\ original' = original /\ turns' = turns /\ valid' = valid
    BY <1>5 DEF Bmp!ReadOk
  <2>2. valid => image' = Turned(turns)
    BY <1>1, <1>3, <2>1, ReadTurned DEF BmpInv
  <2> QED
    BY <1>2, <1>3, <2>1, <2>2 DEF BmpInv
<1>6. CASE Bmp!RotatePicture
  <2>1. /\ bpc = "rotate" /\ bpc' = "write" /\ image' = Bmp!Rotate(image)
        /\ original' = original /\ turns' = turns /\ valid' = valid
    BY <1>6 DEF Bmp!RotatePicture
  <2>2. valid => image' = Turned(turns + 1)
    BY <1>1, <1>3, <2>1, RotateTurns DEF BmpInv
  <2> QED
    BY <1>2, <1>3, <2>1, <2>2 DEF BmpInv
<1>7. CASE Bmp!WriteOk
  <2>1. /\ bpc = "write" /\ bpc' = "done" /\ disk' = Bmp!FileOf(image)
        /\ original' = original /\ turns' = turns + 1 /\ valid' = valid
    BY <1>7 DEF Bmp!WriteOk
  <2> QED
    BY <1>2, <1>3, <2>1 DEF BmpInv
<1>8. CASE Bmp!RunAgain
  <2>1. /\ bpc = "done" /\ bpc' = "read"
        /\ original' = original /\ turns' = turns /\ valid' = valid /\ disk' = disk
    BY <1>8 DEF Bmp!RunAgain
  <2> QED
    BY <1>2, <1>3, <2>1 DEF BmpInv
<1>9. CASE Bmp!ReadFails \/ Bmp!WriteFails
  <2>1. bpc' = "failed" /\ original' = original /\ turns' = turns /\ valid' = valid
    BY <1>9 DEF Bmp!ReadFails, Bmp!WriteFails
  <2> QED
    BY <1>3, <2>1 DEF BmpInv
<1>10. CASE UNCHANGED Bmp!vars
  <2>1. /\ bpc' = bpc /\ original' = original /\ turns' = turns /\ valid' = valid
        /\ disk' = disk /\ image' = image
    BY <1>10 DEF Bmp!vars
  <2> QED
    BY <1>2, <1>3, <2>1 DEF BmpInv
<1> QED
  BY <1>4, <1>5, <1>6, <1>7, <1>8, <1>9, <1>10 DEF Bmp!Next

(* What is seen of the file is the picture turned, cell by cell.           *)
LEMMA BmpTurned ==
  ASSUME Shapes, BmpInv
  PROVE  Bmp!TurnedPicture
<1> SUFFICES ASSUME bpc = "done", valid
             PROVE  LET pic == Bmp!PictureOf(disk)  w == pic.width
                    IN /\ disk.sizeImage <= disk.length
                       /\ disk.sizeImage % 4 = 0 /\ (disk.sizeImage \div disk.height) % 4 = 0
                       /\ <<w, pic.height>> =
                            IF turns % 2 = 0 THEN <<original.width, original.height>>
                            ELSE <<original.height, original.width>>
                       /\ \A r \in 0 .. pic.height - 1, c \in 0 .. w - 1 :
                            pic.pixels[r * w + c] = Pixel(turns, r, c)
  BY DEF Bmp!TurnedPicture, Pixel
<1> DEFINE w == Wide(turns)
           h == High(turns)
           p == [c \in Bmp!Cells(w, h) |-> Pixel(turns, c \div w, c % w)]
<1>1. /\ turns \in Nat /\ disk = Bmp!FileOf(Turned(turns))
      /\ original.width \in Nat \ {0} /\ original.height \in Nat \ {0}
  BY DEF BmpInv, Shapes
<1>2. w \in Nat \ {0} /\ h \in Nat \ {0}
  BY <1>1, TurnedSides
<1>3. Turned(turns) = Bmp!Picture(w, h, p)
  BY DEF Turned
<1>4. Bmp!PictureOf(disk) = Bmp!Picture(w, h, p)
  BY <1>1, <1>3, ReadTurned
<1>5. <<w, h>> = IF turns % 2 = 0 THEN <<original.width, original.height>>
                 ELSE <<original.height, original.width>>
  BY DEF Wide, High
<1>6. ASSUME NEW r \in 0 .. h - 1, NEW c \in 0 .. w - 1
      PROVE  p[r * w + c] = Pixel(turns, r, c)
  <2> HIDE DEF w, h
  <2>1. /\ r * w + c \in Bmp!Cells(w, h)
        /\ (r * w + c) \div w = r /\ (r * w + c) % w = c
    <3>1. r \in Nat
      BY <1>2
    <3> QED
      BY <1>2, <3>1, PlaceCell, DivMod
  <2> QED
    BY <2>1
<1> HIDE DEF w, h, p
<1>7. /\ disk.height = h /\ disk.sizeImage <= disk.length
      /\ disk.sizeImage % 4 = 0 /\ (disk.sizeImage \div h) % 4 = 0
  BY <1>1, <1>2, <1>3, Header
<1>8. /\ Bmp!PictureOf(disk).width = w /\ Bmp!PictureOf(disk).height = h
      /\ Bmp!PictureOf(disk).pixels = p
  BY <1>4 DEF Bmp!Picture
<1> QED
  BY <1>5, <1>6, <1>7, <1>8

(* LAB5 over its own output: the file left after n runs holds the picture  *)
(* turned n times, for every width and height, padding included, so four   *)
(* runs give the picture back (bmp_io.c 6-86, rotation.c).                 *)
THEOREM PictureCorrect ==
  ASSUME Shapes
  PROVE  Bmp!Spec => []TurnedPicture
<1>1. Bmp!Init => BmpInv
  BY DEF Bmp!Init, BmpInv
<1>2. BmpInv /\ [Bmp!Next]_Bmp!vars => BmpInv'
  BY BmpStep
<1>3. BmpInv => TurnedPicture
  BY BmpTurned DEF TurnedPicture
<1> QED
  BY <1>1, <1>2, <1>3, PTL DEF Bmp!Spec

=============================================================================
