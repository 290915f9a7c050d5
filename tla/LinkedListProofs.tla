-------------------------- MODULE LinkedListProofs --------------------------
(***************************************************************************)
(* Proofs about LinkedList, for lists of any length: the nodes of a list   *)
(* that list_length and list_node_at walk are the ones that were linked,   *)
(* so the list is a sequence (IntSequence), and the files give back what   *)
(* was saved.                                                              *)
(***************************************************************************)
EXTENDS LinkedList, SequenceTheorems, FiniteSetTheorems, WellFoundedInduction, TLAPS

(* Node i of s, and the null after the last one.                           *)
At(s, i) == IF i \in 1 .. Len(s) THEN s[i] ELSE NULL

(* From p on, f links the nodes of s and no others.                        *)
Linked(f, s, p) ==
  /\ s \in Seq(Nodes)
  /\ \A i, j \in 1 .. Len(s) : s[i] = s[j] => i = j
  /\ p = At(s, 1)
  /\ \A i \in 1 .. Len(s) : s[i] \in DOMAIN f /\ f[s[i]] = At(s, i + 1)

(* Chain as a function of the links, which are a variable.                 *)
Walk(f, p) ==
  LET at[k \in 0 .. MaxNodes] ==
        IF k = 0 THEN p
        ELSE LET n == at[k - 1] IN IF n = NULL THEN NULL ELSE f[n]
      before == {k \in 0 .. MaxNodes - 1 : at[k] # NULL}
  IN [k \in 1 .. Cardinality(before) |-> at[k - 1]]

-----------------------------------------------------------------------------
(* Arithmetic and sets.                                                    *)

(* The bounds of an int and of the heap are numbers, and null is no node.  *)
LEMMA Bounds ==
  /\ MaxInt \in Nat /\ MaxInt >= 1 /\ MinInt \in Int /\ MinInt = -MaxInt - 1
  /\ MaxNodes \in Nat /\ MaxTyped \in Nat /\ PowerCount \in Nat
  /\ NULL \notin Nodes /\ Nodes \subseteq Nat /\ NULL = 0
BY ListAssumption DEF MinInt, NULL, Nodes

(* Induction over the numbers, for a set of them instead of a predicate.   *)
LEMMA SetInduction ==
  ASSUME NEW S \in SUBSET Nat, 0 \in S, \A n \in Nat : n \in S => n + 1 \in S
  PROVE  S = Nat
<1> SUFFICES ASSUME Nat \ S # {} PROVE FALSE
  OBVIOUS
<1> DEFINE R == {ss \in Nat \X Nat : ss[1] < ss[2]}
           T == Nat \ S
<1>1. IsWellFoundedOn(R, Nat)
  BY NatLessThanWellFounded DEF OpToRel
<1>2. \A a, b \in Nat : a < b => <<a, b>> \in R
  OBVIOUS
<1>3. PICK m \in T : \A k \in T : ~(<<k, m>> \in R)
  <2>1. T \subseteq Nat /\ T # {}
    OBVIOUS
  <2> HIDE DEF T, R
  <2> QED
    BY <1>1, <2>1, WFMin
<1>4. m \in Nat /\ m \notin S /\ m # 0
  OBVIOUS
<1>5. m - 1 \in Nat /\ (m - 1) + 1 = m /\ m - 1 < m
  BY <1>4
<1>6. m - 1 \notin S
  BY <1>4, <1>5
<1>7. <<m - 1, m>> \in R /\ m - 1 \in T
  BY <1>4, <1>5, <1>6, <1>2
<1> QED
  BY <1>3, <1>7

(* A set of numbers that is not empty has a least member.                  *)
LEMMA LeastMember ==
  ASSUME NEW S \in SUBSET Nat, S # {}
  PROVE  Min(S) \in S
<1> DEFINE R == {ss \in Nat \X Nat : ss[1] < ss[2]}
<1>1. IsWellFoundedOn(R, Nat)
  BY NatLessThanWellFounded DEF OpToRel
<1>2. \A a, b \in Nat : a < b => <<a, b>> \in R
  OBVIOUS
<1>3. PICK m \in S : \A k \in S : ~(<<k, m>> \in R)
  <2> HIDE DEF R
  <2> QED
    BY <1>1, WFMin
<1> HIDE DEF R
<1>4. \A k \in S : m <= k
  <2> SUFFICES ASSUME NEW k \in S, k < m PROVE FALSE
    OBVIOUS
  <2> QED
    BY <1>2, <1>3
<1> QED
  BY <1>3, <1>4 DEF Min

(* malloc gives out a node that is not in use.                             *)
LEMMA NewNodeIsFree ==
  ASSUME Free # {}
  PROVE  NewNode \in Nodes /\ NewNode \notin Allocated
<1>1. Free \subseteq Nat
  BY Bounds DEF Free
<1> QED
  BY <1>1, LeastMember DEF NewNode, Free

(* A remainder of a number that is smaller than the divisor.               *)
LEMMA SmallRemainder ==
  ASSUME NEW a \in Nat, NEW m \in Nat, a < m
  PROVE  a % m = a
<1>1. a % m \in 0 .. m - 1 /\ a \div m \in Int /\ a = m * (a \div m) + (a % m)
  OBVIOUS
<1>2. a \div m = 0
  <2> DEFINE q == a \div m
             r == a % m
  <2>1. q \in Int /\ r \in 0 .. m - 1 /\ a = m * q + r /\ a < m /\ a >= 0 /\ m >= 1
    BY <1>1
  <2> HIDE DEF q, r
  <2>2. q >= 1 => m * q >= m
    BY <2>1
  <2>3. q <= -1 => m * q <= -m
    BY <2>1
  <2>4. q = 0
    BY <2>1, <2>2, <2>3
  <2> QED
    BY <2>4 DEF q
<1> QED
  BY <1>1, <1>2

Ints == MinInt .. MaxInt

(* What is wrapped is an int.                                              *)
LEMMA WrapIsInt ==
  ASSUME NEW v \in Int
  PROVE  Wrap(v) \in Ints
<1> DEFINE a == v - MinInt
           m == MaxInt - MinInt + 1
<1>1. a \in Int /\ m \in Nat /\ m > 0
  BY Bounds
<1>2. a % m \in 0 .. m - 1
  <2> HIDE DEF a, m
  <2> QED
    BY <1>1
<1>3. Wrap(v) = (a % m) + MinInt
  BY DEF Wrap
<1>4. m - 1 + MinInt = MaxInt
  BY Bounds
<1> DEFINE r == a % m
<1>5. r \in 0 .. m - 1
  BY <1>2
<1>6. r + MinInt \in Ints
  <2> HIDE DEF r
  <2> QED
    BY <1>5, Bounds DEF Ints
<1> QED
  BY <1>3, <1>6

Positive(v) == v >= 0 \/ v = MinInt

(* The absolute value of an int is one and is not negative, or INT_MIN     *)
LEMMA AbsIsPositive ==
  ASSUME NEW x \in Ints
  PROVE  Abs(x) \in Ints /\ Positive(Abs(x))
<1>1. CASE x >= 0
  BY <1>1, Bounds DEF Abs, Positive, Ints
<1>2. CASE x < 0
  <2>1. Abs(x) = Wrap(-x) /\ -x \in Int /\ Abs(x) \in Ints
    BY <1>2, WrapIsInt, Bounds DEF Abs, Ints
  <2>2. CASE x = MinInt
    <3> DEFINE m == MaxInt - MinInt + 1
    <3>1. -x - MinInt = m /\ m \in Nat /\ m > 0
      BY <2>2, Bounds
    <3>2. m % m = 0
      <4> HIDE DEF m
      <4>1. m % m \in 0 .. m - 1 /\ m \div m \in Int /\ m = m * (m \div m) + (m % m)
        BY <3>1
      <4> DEFINE q == m \div m
                 r == m % m
      <4>2. q \in Int /\ r \in 0 .. m - 1 /\ m = m * q + r
        BY <4>1
      <4> HIDE DEF q, r
      <4>3. (q <= 0 => m * q <= 0) /\ (q >= 2 => m * q >= 2 * m)
        BY <3>1, <4>2
      <4>4. q = 1
        BY <3>1, <4>2, <4>3
      <4>5. r = 0
        BY <3>1, <4>2, <4>4
      <4> QED
        BY <4>5 DEF r
    <3>3. Wrap(-x) = MinInt
      BY <3>1, <3>2, Bounds DEF Wrap
    <3> QED
      BY <2>1, <3>3 DEF Positive
  <2>3. CASE x # MinInt
    <3> DEFINE a == -x - MinInt
               m == MaxInt - MinInt + 1
    <3>1. a \in Nat /\ m \in Nat /\ a < m
      BY <1>2, <2>3, Bounds DEF Ints
    <3>2. a % m = a
      <4> HIDE DEF a, m
      <4> QED
        BY <3>1, SmallRemainder
    <3>3. Wrap(-x) = a + MinInt
      BY <3>2 DEF Wrap
    <3>4. a + MinInt = -x
      BY Bounds DEF Ints
    <3> QED
      BY <1>2, <2>1, <3>3, <3>4, Bounds DEF Positive, Ints
  <2> QED
    BY <2>2, <2>3
<1> QED
  BY <1>1, <1>2, Bounds DEF Ints

-----------------------------------------------------------------------------
(* The walk along a list visits the nodes that are linked, in their order. *)

(* No more nodes are linked than there are.                                *)
LEMMA LinkedLength ==
  ASSUME NEW f, NEW s, NEW p, Linked(f, s, p)
  PROVE  Len(s) \in Nat /\ Len(s) <= MaxNodes /\ s \in [1 .. Len(s) -> Nodes]
<1>1. s \in [1 .. Len(s) -> Nodes] /\ Len(s) \in Nat
  BY DEF Linked
<1>2. s \in Injection(1 .. Len(s), Nodes)
  BY <1>1 DEF Linked, Injection, IsInjective
<1>3. IsFiniteSet(Nodes) /\ Cardinality(Nodes) = MaxNodes
  BY FS_Interval, Bounds DEF Nodes
<1>4. Cardinality(1 .. Len(s)) = Len(s)
  <2> DEFINE n == Len(s)
  <2>1. n \in Nat
    BY <1>1
  <2> HIDE DEF n
  <2>2. Cardinality(1 .. n) = n
    BY <2>1, FS_Interval
  <2> QED
    BY <2>2 DEF n
<1>5. Cardinality(1 .. Len(s)) <= Cardinality(Nodes)
  BY <1>2, <1>3, FS_Injection
<1> QED
  BY <1>1, <1>3, <1>4, <1>5

(* list_length and list_node_at see exactly the linked nodes.              *)
LEMMA WalkIsLinked ==
  ASSUME NEW f, NEW s, NEW p, Linked(f, s, p)
  PROVE  Walk(f, p) = s
<1> DEFINE g == CHOOSE g : g = [k \in 0 .. MaxNodes |->
                    IF k = 0 THEN p ELSE IF g[k - 1] = NULL THEN NULL ELSE f[g[k - 1]]]
           h == [k \in 0 .. MaxNodes |-> At(s, k + 1)]
           n == Len(s)
<1>1. n \in Nat /\ n <= MaxNodes /\ s \in [1 .. n -> Nodes]
  BY LinkedLength
<1>2. \A k \in 0 .. MaxNodes :
        h[k] = IF k = 0 THEN p ELSE IF h[k - 1] = NULL THEN NULL ELSE f[h[k - 1]]
  <2> SUFFICES ASSUME NEW k \in 0 .. MaxNodes
               PROVE  h[k] = IF k = 0 THEN p ELSE IF h[k - 1] = NULL THEN NULL ELSE f[h[k - 1]]
    OBVIOUS
  <2>1. CASE k = 0
    BY <2>1 DEF Linked
  <2>2. CASE k # 0
    <3>1. k - 1 \in 0 .. MaxNodes /\ (k - 1) + 1 = k /\ k >= 1
      BY <2>2, Bounds
    <3>2. h[k - 1] = At(s, k)
      BY <3>1
    <3>3. CASE k <= n
      <4>1. k \in 1 .. n /\ At(s, k) = s[k] /\ s[k] \in Nodes
        BY <1>1, <3>1, <3>3 DEF At
      <4>2. f[s[k]] = At(s, k + 1)
        BY <4>1 DEF Linked
      <4> QED
        BY <3>2, <4>1, <4>2, <2>2, Bounds
    <3>4. CASE k > n
      <4>1. At(s, k) = NULL /\ At(s, k + 1) = NULL
        BY <1>1, <3>1, <3>4 DEF At
      <4> QED
        BY <3>2, <4>1, <2>2
    <3> QED
      BY <1>1, <3>3, <3>4
  <2> QED
    BY <2>1, <2>2
<1>3. h = [k \in 0 .. MaxNodes |->
             IF k = 0 THEN p ELSE IF h[k - 1] = NULL THEN NULL ELSE f[h[k - 1]]]
  BY <1>2
<1>4. g = [k \in 0 .. MaxNodes |->
             IF k = 0 THEN p ELSE IF g[k - 1] = NULL THEN NULL ELSE f[g[k - 1]]]
  <2> HIDE DEF h
  <2> QED
    BY <1>3
<1>5. Walk(f, p) = LET before == {k \in 0 .. MaxNodes - 1 : g[k] # NULL}
                   IN  [k \in 1 .. Cardinality(before) |-> g[k - 1]]
  BY DEF Walk
<1> HIDE DEF g
<1>6. g = h
  <2> DEFINE S == {k \in Nat : k \in 0 .. MaxNodes => g[k] = h[k]}
  <2> HIDE DEF h
  <2>1. S \in SUBSET Nat
    OBVIOUS
  <2>2. 0 \in S
    BY <1>2, <1>4
  <2>3. \A k \in Nat : k \in S => k + 1 \in S
    <3> SUFFICES ASSUME NEW k \in Nat, k \in S, k + 1 \in 0 .. MaxNodes
                 PROVE  g[k + 1] = h[k + 1]
      OBVIOUS
    <3>1. k \in 0 .. MaxNodes /\ (k + 1) - 1 = k /\ k + 1 # 0 /\ g[k] = h[k]
      BY Bounds
    <3> QED
      BY <1>2, <1>4, <3>1
  <2>4. S = Nat
    <3> HIDE DEF S
    <3> QED
      BY <2>1, <2>2, <2>3, SetInduction
  <2>5. \A k \in 0 .. MaxNodes : g[k] = h[k]
    <3> SUFFICES ASSUME NEW k \in 0 .. MaxNodes PROVE g[k] = h[k]
      OBVIOUS
    <3>1. k \in Nat
      OBVIOUS
    <3>2. k \in S
      BY <2>4, <3>1
    <3> QED
      BY <3>2
  <2> HIDE DEF S
  <2> QED
    BY <1>3, <1>4, <2>5
<1>7. {k \in 0 .. MaxNodes - 1 : h[k] # NULL} = 0 .. n - 1
  <2>1. ASSUME NEW k \in 0 .. MaxNodes - 1, h[k] # NULL PROVE k \in 0 .. n - 1
    BY <1>1, <2>1, Bounds DEF At
  <2>2. ASSUME NEW k \in 0 .. n - 1 PROVE k \in 0 .. MaxNodes - 1 /\ h[k] # NULL
    <3>1. k \in 0 .. MaxNodes - 1 /\ k \in 0 .. MaxNodes /\ k + 1 \in 1 .. n
      BY <1>1, <2>2, Bounds
    <3>2. s[k + 1] \in Nodes
      BY <1>1, <3>1
    <3> QED
      BY <3>1, <3>2, Bounds DEF At
  <2> QED
    BY <2>1, <2>2
<1>8. Cardinality(0 .. n - 1) = n
  BY <1>1, FS_Interval
<1>9. \A k \in 1 .. n : h[k - 1] = s[k]
  <2> SUFFICES ASSUME NEW k \in 1 .. n PROVE h[k - 1] = s[k]
    OBVIOUS
  <2>1. k - 1 \in 0 .. MaxNodes /\ (k - 1) + 1 = k
    BY <1>1, Bounds
  <2> QED
    BY <2>1 DEF At
<1>10. Walk(f, p) = [k \in 1 .. n |-> h[k - 1]]
  <2> HIDE DEF h, n
  <2> QED
    BY <1>5, <1>6, <1>7, <1>8
<1> HIDE DEF h
<1> QED
  BY <1>1, <1>9, <1>10

(* Chain is that walk, now and after a step.                               *)
LEMMA ChainIsWalk == \A p : Chain(p) = Walk(succ, p)
BY DEF Chain, Walk

LEMMA ChainIsLinked ==
  ASSUME NEW s, NEW p, Linked(succ, s, p)
  PROVE  Chain(p) = s /\ Elements(p) = [i \in 1 .. Len(s) |-> element[s[i]]]
BY ChainIsWalk, WalkIsLinked DEF Elements

LEMMA ListAfter ==
  ASSUME NEW s, Linked(succ', s, list')
  PROVE  Chain(list)' = s /\ Elements(list)' = [i \in 1 .. Len(s) |-> element'[s[i]]]
<1>1. Chain(list)' = Walk(succ', list')
  BY DEF Chain, Walk
<1> QED
  BY <1>1, WalkIsLinked DEF Elements

LEMMA BuiltAfter ==
  ASSUME NEW s, Linked(succ', s, built')
  PROVE  Chain(built)' = s
<1>1. Chain(built)' = Walk(succ', built')
  BY DEF Chain, Walk
<1> QED
  BY <1>1, WalkIsLinked
-----------------------------------------------------------------------------
(* What list_create, list_add_front and list_add_back do to the links.     *)

(* A list is null just when it has no nodes.                               *)
LEMMA EmptyList ==
  /\ \A f : Linked(f, <<>>, NULL)
  /\ \A f, s, p : Linked(f, s, p) => (p = NULL <=> s = <<>>)
<1>1. ASSUME NEW f PROVE Linked(f, <<>>, NULL)
  BY DEF Linked, At
<1>2. ASSUME NEW f, NEW s, NEW p, Linked(f, s, p) PROVE p = NULL <=> s = <<>>
  <2>1. CASE s = <<>>
    BY <1>2, <2>1 DEF Linked, At
  <2>2. CASE s # <<>>
    <3>1. Len(s) \in Nat /\ Len(s) # 0 /\ s \in [1 .. Len(s) -> Nodes]
      BY <1>2, <2>2, LinkedLength, EmptySeq DEF Linked
    <3>2. 1 \in 1 .. Len(s)
      BY <3>1
    <3>3. p = s[1] /\ s[1] \in Nodes
      BY <1>2, <3>1, <3>2 DEF Linked, At
    <3> QED
      BY <2>2, <3>3, Bounds
  <2> QED
    BY <2>1, <2>2
<1> QED
  BY <1>1, <1>2

(* A list is the same when the links of its nodes are.                     *)
LEMMA SameLinks ==
  ASSUME NEW f, NEW g, NEW s, NEW p, Linked(f, s, p),
         \A i \in 1 .. Len(s) : s[i] \in DOMAIN g /\ g[s[i]] = f[s[i]]
  PROVE  Linked(g, s, p)
BY DEF Linked

(* A node that is linked to the first one makes a list that is one longer. *)
LEMMA LinkedFront ==
  ASSUME NEW f, NEW s, NEW p, Linked(f, s, p), NEW n \in Nodes, n \notin DOMAIN f
  PROVE  /\ Linked(Extend(f, n, p), <<n>> \o s, n)
         /\ Len(<<n>> \o s) = Len(s) + 1 /\ (<<n>> \o s)[1] = n
         /\ \A i \in 1 .. Len(s) : (<<n>> \o s)[i + 1] = s[i]
<1> DEFINE t == <<n>> \o s
           g == Extend(f, n, p)
           one == <<n>>
<1>1. s \in Seq(Nodes) /\ Len(s) \in Nat /\ s \in [1 .. Len(s) -> Nodes]
  BY LinkedLength DEF Linked
<1>2. one \in Seq(Nodes) /\ Len(one) = 1 /\ one[1] = n
  OBVIOUS
<1>3. /\ t \in Seq(Nodes) /\ Len(t) = Len(s) + 1 /\ t[1] = n
      /\ \A i \in 1 .. Len(s) : t[i + 1] = s[i]
  <2>1. t = one \o s
    OBVIOUS
  <2> HIDE DEF one, t
  <2>2. /\ t \in Seq(Nodes) /\ Len(t) = 1 + Len(s)
        /\ \A i \in 1 .. 1 + Len(s) : t[i] = IF i <= 1 THEN one[i] ELSE s[i - 1]
    <3>1. /\ t \in Seq(Nodes) /\ Len(t) = Len(one) + Len(s)
          /\ \A i \in 1 .. Len(one) + Len(s) :
               t[i] = IF i <= Len(one) THEN one[i] ELSE s[i - Len(one)]
      BY <1>1, <1>2, <2>1, ConcatProperties
    <3> QED
      BY <1>2, <3>1
  <2>3. t[1] = n
    BY <1>1, <1>2, <2>2
  <2>4. ASSUME NEW i \in 1 .. Len(s) PROVE t[i + 1] = s[i]
    <3>1. i + 1 \in 1 .. 1 + Len(s) /\ ~(i + 1 <= 1) /\ (i + 1) - 1 = i
      BY <1>1
    <3> QED
      BY <2>2, <3>1
  <2> QED
    BY <1>1, <2>2, <2>3, <2>4
<1> HIDE DEF t, one
<1>4. /\ DOMAIN g = DOMAIN f \cup {n} /\ g[n] = p
      /\ \A m \in DOMAIN f : g[m] = f[m]
  BY DEF Extend
<1> HIDE DEF g
<1>5. \A i \in 1 .. Len(t) : i = 1 \/ (i - 1 \in 1 .. Len(s) /\ t[i] = s[i - 1])
  <2> SUFFICES ASSUME NEW i \in 1 .. Len(t), i # 1
               PROVE  i - 1 \in 1 .. Len(s) /\ t[i] = s[i - 1]
    OBVIOUS
  <2>1. i - 1 \in 1 .. Len(s) /\ (i - 1) + 1 = i
    BY <1>1, <1>3
  <2> QED
    BY <1>3, <2>1
<1>6. \A i \in 1 .. Len(s) : s[i] \in DOMAIN f /\ s[i] # n
  BY DEF Linked
<1>7. ASSUME NEW i \in 1 .. Len(t), NEW j \in 1 .. Len(t), t[i] = t[j] PROVE i = j
  <2>1. ASSUME i # 1, j # 1 PROVE i - 1 = j - 1
    <3>1. /\ i - 1 \in 1 .. Len(s) /\ t[i] = s[i - 1]
          /\ j - 1 \in 1 .. Len(s) /\ t[j] = s[j - 1]
      BY <1>5, <2>1
    <3> QED
      BY <1>7, <3>1 DEF Linked
  <2> QED
    BY <1>1, <1>3, <1>5, <1>6, <1>7, <2>1
<1>8. ASSUME NEW i \in 1 .. Len(t) PROVE t[i] \in DOMAIN g /\ g[t[i]] = At(t, i + 1)
  <2>1. CASE i = 1
    <3>1. At(t, 2) = At(s, 1)
      <4>1. CASE Len(s) >= 1
        <5>1. 2 \in 1 .. Len(t) /\ 1 \in 1 .. Len(s)
          BY <1>1, <1>3, <4>1
        <5>2. t[1 + 1] = s[1]
          BY <1>3, <5>1
        <5> QED
          BY <5>1, <5>2 DEF At
      <4>2. CASE Len(s) = 0
        BY <1>1, <1>3, <4>2 DEF At
      <4> QED
        BY <1>1, <4>1, <4>2
    <3> QED
      BY <1>3, <1>4, <2>1, <3>1 DEF Linked
  <2>2. CASE i # 1
    <3> DEFINE k == i - 1
    <3>1. k \in 1 .. Len(s) /\ t[i] = s[k] /\ k + 1 = i
      BY <1>5, <2>2, <1>1, <1>3
    <3>2. At(t, i + 1) = At(s, k + 1)
      <4>1. CASE i + 1 \in 1 .. Len(t)
        <5>1. k + 1 \in 1 .. Len(s) /\ (k + 1) + 1 = i + 1
          BY <1>1, <1>3, <3>1, <4>1
        <5>2. t[(k + 1) + 1] = s[k + 1]
          BY <1>3, <5>1
        <5> QED
          BY <4>1, <5>1, <5>2 DEF At
      <4>2. CASE i + 1 \notin 1 .. Len(t)
        <5>1. k + 1 \notin 1 .. Len(s)
          BY <1>1, <1>3, <3>1, <4>2
        <5> QED
          BY <4>2, <5>1 DEF At
      <4> QED
        BY <4>1, <4>2
    <3> HIDE DEF k
    <3>3. s[k] \in DOMAIN f /\ f[s[k]] = At(s, k + 1)
      BY <3>1 DEF Linked
    <3> QED
      BY <1>4, <3>1, <3>2, <3>3
  <2> QED
    BY <2>1, <2>2
<1>9. n = At(t, 1)
  BY <1>1, <1>3 DEF At
<1>10. Linked(g, t, n)
  BY <1>3, <1>7, <1>8, <1>9 DEF Linked
<1> QED
  BY <1>3, <1>10 DEF g, t

(* A node that the last one is linked to makes a list that is one longer.  *)
LEMMA LinkedBack ==
  ASSUME NEW f, NEW s, NEW p, Linked(f, s, p), s # <<>>, NEW n \in Nodes, n \notin DOMAIN f
  PROVE  /\ Linked([Extend(f, n, NULL) EXCEPT ![Last(s)] = n], Append(s, n), p)
         /\ Len(Append(s, n)) = Len(s) + 1 /\ Append(s, n)[Len(s) + 1] = n
         /\ \A i \in 1 .. Len(s) : Append(s, n)[i] = s[i]
<1> DEFINE t == Append(s, n)
           l == Len(s)
           g == [Extend(f, n, NULL) EXCEPT ![Last(s)] = n]
<1>1. s \in Seq(Nodes) /\ l \in Nat /\ l >= 1 /\ s \in [1 .. l -> Nodes]
  <2>1. s \in Seq(Nodes) /\ l \in Nat /\ s \in [1 .. l -> Nodes]
    BY LinkedLength DEF Linked
  <2>2. l # 0
    BY <2>1, EmptySeq
  <2> QED
    BY <2>1, <2>2
<1>2. /\ t \in Seq(Nodes) /\ Len(t) = l + 1 /\ t[l + 1] = n
      /\ \A i \in 1 .. l : t[i] = s[i]
  BY <1>1, AppendProperties
<1>3. /\ \A i \in 1 .. l : s[i] \in DOMAIN f /\ s[i] # n /\ f[s[i]] = At(s, i + 1)
      /\ \A i, j \in 1 .. l : s[i] = s[j] => i = j
      /\ p = At(s, 1)
  BY DEF Linked
<1>4. /\ DOMAIN g = DOMAIN f \cup {n} /\ g[n] = NULL /\ g[s[l]] = n
      /\ \A m \in DOMAIN f \ {s[l]} : g[m] = f[m]
  <2>1. l \in 1 .. l
    BY <1>1
  <2>2. s[l] \in DOMAIN f /\ s[l] # n
    BY <2>1, <1>3
  <2> QED
    BY <2>2 DEF Extend, Last
<1> HIDE DEF t, g
<1>5. \A i \in 1 .. l + 1 : i \in 1 .. l \/ i = l + 1
  BY <1>1
<1>6. ASSUME NEW i \in 1 .. Len(t), NEW j \in 1 .. Len(t), t[i] = t[j] PROVE i = j
  BY <1>2, <1>3, <1>5, <1>6
<1>7. ASSUME NEW i \in 1 .. Len(t) PROVE t[i] \in DOMAIN g /\ g[t[i]] = At(t, i + 1)
  <2>1. CASE i = l + 1
    <3>1. i + 1 \notin 1 .. Len(t)
      BY <1>1, <1>2, <2>1
    <3> QED
      BY <1>2, <1>4, <2>1, <3>1 DEF At
  <2>2. CASE i = l
    <3>1. i \in 1 .. l /\ i + 1 \in 1 .. Len(t) /\ t[i] = s[l] /\ t[i + 1] = n
      BY <1>1, <1>2, <2>2
    <3> QED
      BY <1>3, <1>4, <2>2, <3>1 DEF At
  <2>3. CASE i \in 1 .. l /\ i # l
    <3>1. i + 1 \in 1 .. l /\ i + 1 \in 1 .. Len(t) /\ t[i] = s[i] /\ t[i + 1] = s[i + 1]
      BY <1>1, <1>2, <2>3
    <3>2. l \in 1 .. l
      BY <1>1
    <3>3. s[i] # s[l] /\ s[i] \in DOMAIN f /\ f[s[i]] = At(s, i + 1)
      BY <1>3, <2>3, <3>2
    <3> QED
      BY <1>4, <3>1, <3>3 DEF At
  <2> QED
    BY <1>2, <1>5, <2>1, <2>2, <2>3
<1>8. p = At(t, 1)
  <2>1. 1 \in 1 .. l /\ 1 \in 1 .. Len(t)
    BY <1>1, <1>2
  <2> QED
    BY <1>2, <1>3, <2>1 DEF At
<1>9. Linked(g, t, p)
  BY <1>2, <1>6, <1>7, <1>8 DEF Linked
<1> QED
  BY <1>2, <1>9 DEF g, t
-----------------------------------------------------------------------------
(* The heap while the program works on its list: the nodes of list and of  *)
(* built are linked and no node is on both.                                *)
Heap ==
  /\ Allocated \subseteq Nodes /\ DOMAIN element = Allocated
  /\ \A n \in Allocated : element[n] \in Ints
  /\ Linked(succ, Chain(list), list)
  /\ Linked(succ, Chain(built), built)
  /\ \A i \in 1 .. Len(Chain(list)), j \in 1 .. Len(Chain(built)) :
       Chain(list)[i] # Chain(built)[j]

(* How many nodes are in use.                                              *)
Used == Cardinality(Allocated)

(* A node that was free makes one more in use.                             *)
LEMMA OneMore ==
  ASSUME Heap, NEW n \in Nodes, n \notin Allocated, Allocated' = Allocated \cup {n}
  PROVE  Used' = Used + 1
<1>1. IsFiniteSet(Nodes)
  BY FS_Interval, Bounds DEF Nodes
<1>2. IsFiniteSet(Allocated)
  BY <1>1, FS_Subset DEF Heap
<1>3. Cardinality(Allocated \cup {n}) = Cardinality(Allocated) + 1
  BY <1>2, FS_AddElement
<1> QED
  BY <1>3 DEF Used

(* The integers of a list are as many as its nodes.                        *)
LEMMA ElementsOfList ==
  ASSUME NEW p, Linked(succ, Chain(p), p), \A n \in Allocated : element[n] \in Ints
  PROVE  /\ Elements(p) \in Seq(Ints)
         /\ Len(Elements(p)) = Len(Chain(p)) /\ Len(Chain(p)) \in Nat
         /\ Len(Chain(p)) <= MaxNodes
         /\ \A i \in 1 .. Len(Chain(p)) : /\ Elements(p)[i] = element[Chain(p)[i]]
                                          /\ Chain(p)[i] \in Allocated
<1> DEFINE c == Chain(p)
<1>1. Len(c) \in Nat /\ Len(c) <= MaxNodes /\ \A i \in 1 .. Len(c) : c[i] \in Allocated
  BY LinkedLength DEF Linked, Allocated
<1>2. Elements(p) = [i \in 1 .. Len(c) |-> element[c[i]]]
  BY DEF Elements
<1> HIDE DEF c
<1>3. Elements(p) \in [1 .. Len(c) -> Ints]
  BY <1>1, <1>2
<1>4. Elements(p) \in Seq(Ints) /\ Len(Elements(p)) = Len(c)
  <2> DEFINE w == Elements(p)
  <2> HIDE DEF w
  <2>1. w \in Seq(Ints) /\ Len(w) = Len(c)
    <3>1. w \in [1 .. Len(c) -> Ints] /\ Len(c) \in Nat
      BY <1>1, <1>3 DEF w
    <3> QED
      BY <3>1
  <2> QED
    BY <2>1 DEF w
<1> QED
  BY <1>1, <1>2, <1>4 DEF c

(* The heap and the list are the same after a step that touches neither.   *)
LEMMA HeapKept ==
  ASSUME Heap, UNCHANGED <<memory, list>>, built' = built \/ built' = NULL
  PROVE  /\ Heap' /\ Chain(list)' = Chain(list) /\ Elements(list)' = Elements(list)
         /\ Used' = Used /\ (built' = built => Chain(built)' = Chain(built))
<1>1. /\ succ' = succ /\ element' = element /\ list' = list /\ Allocated' = Allocated
      /\ Used' = Used
  BY DEF memory, Allocated, Used
<1>2. Linked(succ', Chain(list), list')
  BY <1>1 DEF Heap
<1>3. Chain(list)' = Chain(list) /\ Elements(list)' = Elements(list)
  <2>1. Chain(list)' = Chain(list)
    BY <1>2, ListAfter
  <2> QED
    BY <1>1, <1>2, ListAfter DEF Elements
<1>4. CASE built' = built
  <2>1. Chain(built)' = Chain(built)
    <3>1. Linked(succ', Chain(built), built')
      BY <1>1, <1>4 DEF Heap
    <3> QED
      BY <3>1, BuiltAfter
  <2> QED
    BY <1>1, <1>3, <1>4, <2>1 DEF Heap
<1>5. CASE built' = NULL
  <2>1. Linked(succ', <<>>, built')
    BY <1>5, EmptyList
  <2>2. Chain(built)' = <<>>
    BY <2>1, BuiltAfter
  <2>4. built' = built => Chain(built)' = Chain(built)
    <3>1. built = NULL => Chain(built) = <<>>
      BY EmptyList, ChainIsLinked
    <3> QED
      BY <1>5, <2>2, <3>1
  <2>3. Len(<<>>) = 0 /\ 1 .. 0 = {}
    OBVIOUS
  <2> QED
    BY <1>1, <1>3, <1>5, <2>1, <2>2, <2>3, <2>4 DEF Heap
<1> QED
  BY <1>4, <1>5

(* list_add_back links one free node behind the last of p and no other.    *)
LEMMA AddBackLinks ==
  ASSUME NEW p, NEW v, NEW q, NEW s, Linked(succ, s, p), AddBack(p, v, q)
  PROVE  \E n, t :
           /\ n \in Nodes \ Allocated /\ Allocated' = Allocated \cup {n}
           /\ element' = Extend(element, n, v)
           /\ Linked(succ', t, q) /\ Len(t) = Len(s) + 1 /\ t[Len(s) + 1] = n
           /\ \A i \in 1 .. Len(s) : t[i] = s[i]
           /\ \A m \in Allocated : (\A i \in 1 .. Len(s) : s[i] # m) => succ'[m] = succ[m]
<1> DEFINE n == NewNode
<1>1. Free # {} /\ element' = Extend(element, NewNode, v)
  BY DEF AddBack, Create
<1>2. NewNode \in Nodes /\ NewNode \notin Allocated
  BY <1>1, NewNodeIsFree
<1> HIDE DEF n
<1>3. n \in Nodes \ Allocated /\ n \notin DOMAIN succ /\ element' = Extend(element, n, v)
  BY <1>1, <1>2 DEF n, Allocated
<1>4. CASE p = NULL
  <2>1. succ' = Extend(succ, n, NULL) /\ q = n
    BY <1>4 DEF AddBack, Create, n
  <2>2. s = <<>>
    BY <1>4, EmptyList
  <2>3. Linked(succ', <<n>> \o s, n) /\ Len(<<n>> \o s) = Len(s) + 1 /\ (<<n>> \o s)[1] = n
    BY <1>3, <1>4, <2>1, LinkedFront
  <2>4. Len(s) = 0 /\ 1 .. Len(s) = {}
    BY <2>2
  <2>5. Allocated' = Allocated \cup {n} /\ \A m \in Allocated : succ'[m] = succ[m]
    BY <1>3, <2>1 DEF Extend, Allocated
  <2> DEFINE t == <<n>> \o s
  <2> HIDE DEF t
  <2>6. Linked(succ', t, q) /\ Len(t) = Len(s) + 1 /\ t[Len(s) + 1] = n
    BY <2>1, <2>3, <2>4 DEF t
  <2> QED
    BY <1>3, <2>4, <2>5, <2>6
<1>5. CASE p # NULL
  <2>1. succ' = [Extend(succ, n, NULL) EXCEPT ![Last(Chain(p))] = n] /\ q = p
    BY <1>5 DEF AddBack, n
  <2>2. s # <<>> /\ Chain(p) = s
    BY <1>5, EmptyList, ChainIsLinked
  <2>3. /\ Linked(succ', Append(s, n), p)
        /\ Len(Append(s, n)) = Len(s) + 1 /\ Append(s, n)[Len(s) + 1] = n
        /\ \A i \in 1 .. Len(s) : Append(s, n)[i] = s[i]
    <3> DEFINE g == [Extend(succ, n, NULL) EXCEPT ![Last(s)] = n]
    <3>1. succ' = g
      BY <2>1, <2>2
    <3>2. n \in Nodes /\ n \notin DOMAIN succ /\ s # <<>>
      BY <1>3, <2>2
    <3>3. /\ Linked(g, Append(s, n), p)
          /\ Len(Append(s, n)) = Len(s) + 1 /\ Append(s, n)[Len(s) + 1] = n
          /\ \A i \in 1 .. Len(s) : Append(s, n)[i] = s[i]
      BY <3>2, LinkedBack
    <3> HIDE DEF g
    <3> QED
      BY <3>1, <3>3
  <2>4. Last(s) = s[Len(s)] /\ Len(s) \in 1 .. Len(s)
    <3>1. Len(s) \in Nat /\ Len(s) # 0
      BY <2>2, LinkedLength, EmptySeq DEF Linked
    <3> QED
      BY <3>1 DEF Last
  <2>5. /\ Allocated' = Allocated \cup {n}
        /\ \A m \in Allocated : m # Last(s) => succ'[m] = succ[m]
    BY <1>3, <2>1, <2>2 DEF Extend, Allocated
  <2> DEFINE t == Append(s, n)
  <2> HIDE DEF t
  <2>6. /\ Linked(succ', t, q) /\ Len(t) = Len(s) + 1 /\ t[Len(s) + 1] = n
        /\ \A i \in 1 .. Len(s) : t[i] = s[i]
    BY <2>1, <2>3 DEF t
  <2> QED
    BY <1>3, <2>4, <2>5, <2>6
<1> QED
  BY <1>4, <1>5
(* A number is added behind the last: load.                                *)
LEMMA HeapBack ==
  ASSUME Heap, NEW v \in Ints, AddBack(list, v, list'), UNCHANGED built
  PROVE  /\ Heap' /\ Used' = Used + 1 /\ Len(Chain(list)') = Len(Chain(list)) + 1
         /\ Len(Elements(list)') = Len(Elements(list)) + 1
         /\ Elements(list)'[Len(Elements(list)) + 1] = v
         /\ \A i \in 1 .. Len(Elements(list)) : Elements(list)'[i] = Elements(list)[i]
<1> DEFINE c == Chain(list)
           b == Chain(built)
           l == Len(Chain(list))
<1>1. /\ Linked(succ, c, list) /\ Linked(succ, b, built)
      /\ Allocated \subseteq Nodes /\ DOMAIN element = Allocated
      /\ \A m \in Allocated : element[m] \in Ints
      /\ \A i \in 1 .. l, j \in 1 .. Len(b) : c[i] # b[j]
  BY DEF Heap
<1>2. /\ l \in Nat /\ Len(Elements(list)) = l
      /\ \A i \in 1 .. l : Elements(list)[i] = element[c[i]] /\ c[i] \in Allocated
  BY <1>1, ElementsOfList
<1>3. \A j \in 1 .. Len(b) : b[j] \in Allocated
  BY <1>1 DEF Linked, Allocated
<1> HIDE DEF c, b, l
<1>4. PICK n, t :
        /\ n \in Nodes \ Allocated /\ Allocated' = Allocated \cup {n}
        /\ element' = Extend(element, n, v)
        /\ Linked(succ', t, list') /\ Len(t) = l + 1 /\ t[l + 1] = n
        /\ \A i \in 1 .. l : t[i] = c[i]
        /\ \A m \in Allocated : (\A i \in 1 .. l : c[i] # m) => succ'[m] = succ[m]
  <2>1. Len(c) = l
    BY DEF c, l
  <2> QED
    BY <1>1, <2>1, AddBackLinks
<1>5. /\ Chain(list)' = t
      /\ Elements(list)' = [i \in 1 .. l + 1 |-> element'[t[i]]]
  BY <1>4, ListAfter
<1>6. /\ DOMAIN element' = Allocated' /\ element'[n] = v
      /\ \A m \in Allocated : element'[m] = element[m]
  BY <1>1, <1>4 DEF Extend
<1>7. Linked(succ', b, built')
  <2>1. ASSUME NEW j \in 1 .. Len(b) PROVE b[j] \in DOMAIN succ' /\ succ'[b[j]] = succ[b[j]]
    <3>1. b[j] \in Allocated /\ \A i \in 1 .. l : c[i] # b[j]
      BY <1>1, <1>3
    <3> QED
      BY <1>4, <3>1 DEF Allocated
  <2>2. built' = built
    OBVIOUS
  <2> QED
    BY <1>1, <2>1, <2>2, SameLinks
<1>8. Chain(built)' = b
  BY <1>7, BuiltAfter
<1>9. \A i \in 1 .. l + 1 : i \in 1 .. l \/ i = l + 1
  BY <1>2
<1>10. ASSUME NEW i \in 1 .. l + 1, NEW j \in 1 .. Len(b) PROVE t[i] # b[j]
  BY <1>1, <1>3, <1>4, <1>9
<1>11. Heap'
  <2>1. Allocated' \subseteq Nodes /\ \A m \in Allocated' : element'[m] \in Ints
    BY <1>1, <1>4, <1>6
  <2>2. Linked(succ', Chain(list)', list') /\ Linked(succ', Chain(built)', built')
    BY <1>4, <1>5, <1>7, <1>8
  <2>3. \A i \in 1 .. Len(Chain(list)'), j \in 1 .. Len(Chain(built)') :
          Chain(list)'[i] # Chain(built)'[j]
    BY <1>4, <1>5, <1>8, <1>10
  <2> QED
    BY <1>6, <2>1, <2>2, <2>3 DEF Heap
<1>12. Used' = Used + 1 /\ Len(Chain(list)') = l + 1
  BY <1>4, <1>5, OneMore
<1>13. /\ Len(Elements(list)') = l + 1 /\ Elements(list)'[l + 1] = v
       /\ \A i \in 1 .. l : Elements(list)'[i] = Elements(list)[i]
  <2>1. Len(Elements(list)') = l + 1
    BY <1>2, <1>5
  <2>2. \A i \in 1 .. l : i \in 1 .. l + 1
    BY <1>2
  <2>3. l + 1 \in 1 .. l + 1
    BY <1>2
  <2> QED
    BY <1>2, <1>4, <1>5, <1>6, <2>1, <2>2, <2>3
<1> QED
  BY <1>2, <1>11, <1>12, <1>13 DEF l, c

(* A number is added before the first: deserialize and the standard input. *)
LEMMA HeapFront ==
  ASSUME Heap, NEW v \in Ints, AddFront(v), UNCHANGED built
  PROVE  /\ Heap' /\ Used' = Used + 1 /\ Len(Chain(list)') = Len(Chain(list)) + 1
         /\ Len(Elements(list)') = Len(Elements(list)) + 1
         /\ Elements(list)'[1] = v
         /\ \A i \in 1 .. Len(Elements(list)) : Elements(list)'[i + 1] = Elements(list)[i]
<1> DEFINE c == Chain(list)
           b == Chain(built)
           l == Len(Chain(list))
           n == NewNode
           t == <<n>> \o c
<1>1. /\ Linked(succ, c, list) /\ Linked(succ, b, built)
      /\ Allocated \subseteq Nodes /\ DOMAIN element = Allocated
      /\ \A m \in Allocated : element[m] \in Ints
      /\ \A i \in 1 .. l, j \in 1 .. Len(b) : c[i] # b[j]
  BY DEF Heap
<1>2. /\ l \in Nat /\ Len(Elements(list)) = l
      /\ \A i \in 1 .. l : Elements(list)[i] = element[c[i]] /\ c[i] \in Allocated
  BY <1>1, ElementsOfList
<1>3. \A j \in 1 .. Len(b) : b[j] \in Allocated
  BY <1>1 DEF Linked, Allocated
<1>4. /\ n \in Nodes /\ n \notin Allocated /\ list' = n
      /\ element' = Extend(element, n, v) /\ succ' = Extend(succ, n, list)
  <2>1. Free # {} /\ list' = n /\ element' = Extend(element, n, v) /\ succ' = Extend(succ, n, list)
    BY DEF AddFront, Create
  <2> HIDE DEF n
  <2> QED
    BY <2>1, NewNodeIsFree DEF n
<1> HIDE DEF c, b, n
<1>5. /\ Linked(succ', t, list') /\ Len(t) = l + 1 /\ t[1] = n
      /\ \A i \in 1 .. l : t[i + 1] = c[i]
  <2>1. n \notin DOMAIN succ /\ Len(c) = l
    BY <1>4 DEF Allocated, c
  <2>2. /\ Linked(Extend(succ, n, list), t, n) /\ Len(t) = Len(c) + 1 /\ t[1] = n
        /\ \A i \in 1 .. Len(c) : t[i + 1] = c[i]
    BY <1>1, <1>4, <2>1, LinkedFront
  <2> HIDE DEF t, l
  <2> QED
    BY <1>4, <2>1, <2>2
<1> HIDE DEF l, t
<1>6. /\ Chain(list)' = t
      /\ Elements(list)' = [i \in 1 .. l + 1 |-> element'[t[i]]]
  BY <1>5, ListAfter
<1>7. /\ DOMAIN element' = Allocated' /\ element'[n] = v /\ Allocated' = Allocated \cup {n}
      /\ \A m \in Allocated : element'[m] = element[m] /\ succ'[m] = succ[m]
  BY <1>1, <1>4 DEF Extend, Allocated
<1>8. Linked(succ', b, built')
  <2>1. \A j \in 1 .. Len(b) : b[j] \in DOMAIN succ' /\ succ'[b[j]] = succ[b[j]]
    BY <1>3, <1>7 DEF Allocated
  <2>2. built' = built
    OBVIOUS
  <2> QED
    BY <1>1, <2>1, <2>2, SameLinks
<1>9. Chain(built)' = b
  BY <1>8, BuiltAfter
<1>10. \A i \in 1 .. l + 1 : i = 1 \/ (i - 1 \in 1 .. l /\ t[i] = c[i - 1])
  <2> SUFFICES ASSUME NEW i \in 1 .. l + 1, i # 1 PROVE i - 1 \in 1 .. l /\ t[i] = c[i - 1]
    OBVIOUS
  <2>1. i - 1 \in 1 .. l /\ (i - 1) + 1 = i
    BY <1>2
  <2> QED
    BY <1>5, <2>1
<1>11. Heap'
  <2>1. Allocated' \subseteq Nodes /\ \A m \in Allocated' : element'[m] \in Ints
    BY <1>1, <1>4, <1>7
  <2>2. Linked(succ', Chain(list)', list') /\ Linked(succ', Chain(built)', built')
    BY <1>5, <1>6, <1>8, <1>9
  <2>3. \A i \in 1 .. Len(Chain(list)'), j \in 1 .. Len(Chain(built)') :
          Chain(list)'[i] # Chain(built)'[j]
    <3> SUFFICES ASSUME NEW i \in 1 .. l + 1, NEW j \in 1 .. Len(b) PROVE t[i] # b[j]
      BY <1>5, <1>6, <1>9
    <3>1. CASE i = 1
      BY <1>3, <1>4, <1>5, <3>1
    <3>2. CASE i # 1
      BY <1>1, <1>10, <3>2
    <3> QED
      BY <3>1, <3>2
  <2> QED
    BY <1>7, <2>1, <2>2, <2>3 DEF Heap
<1>12. Used' = Used + 1 /\ Len(Chain(list)') = l + 1
  BY <1>4, <1>5, <1>6, <1>7, OneMore
<1>13. /\ Len(Elements(list)') = l + 1 /\ Elements(list)'[1] = v
       /\ \A i \in 1 .. l : Elements(list)'[i + 1] = Elements(list)[i]
  <2>1. Len(Elements(list)') = l + 1
    BY <1>2, <1>6
  <2>2. \A i \in 1 .. l : i + 1 \in 1 .. l + 1
    BY <1>2
  <2>3. 1 \in 1 .. l + 1
    BY <1>2
  <2>4. Elements(list)'[1] = v
    BY <1>5, <1>6, <1>7, <2>3
  <2>5. ASSUME NEW i \in 1 .. l PROVE Elements(list)'[i + 1] = Elements(list)[i]
    <3>1. Elements(list)'[i + 1] = element'[t[i + 1]] /\ t[i + 1] = c[i]
      BY <1>5, <1>6, <2>2
    <3> QED
      BY <1>2, <1>7, <3>1
  <2> QED
    BY <2>1, <2>4, <2>5
<1> QED
  BY <1>2, <1>11, <1>12, <1>13 DEF l

(* A number is added to built, the list map and iterate make: main's list  *)
(* is not touched.                                                         *)
LEMMA HeapBuilt ==
  ASSUME Heap, NEW v \in Ints, AddBack(built, v, built'), UNCHANGED list
  PROVE  /\ Heap' /\ Chain(list)' = Chain(list) /\ Elements(list)' = Elements(list)
         /\ Used' = Used + 1 /\ Len(Chain(built)') = Len(Chain(built)) + 1
         /\ \A m \in Allocated :
              (\A j \in 1 .. Len(Chain(built)) : Chain(built)[j] # m) => succ'[m] = succ[m]
<1> DEFINE c == Chain(list)
           b == Chain(built)
           l == Len(Chain(built))
<1>1. /\ Linked(succ, c, list) /\ Linked(succ, b, built)
      /\ Allocated \subseteq Nodes /\ DOMAIN element = Allocated
      /\ \A m \in Allocated : element[m] \in Ints
      /\ \A i \in 1 .. Len(c), j \in 1 .. l : c[i] # b[j]
  BY DEF Heap
<1>2. /\ l \in Nat /\ Elements(list) = [i \in 1 .. Len(c) |-> element[c[i]]]
      /\ \A j \in 1 .. l : b[j] \in Allocated
      /\ \A i \in 1 .. Len(c) : c[i] \in Allocated
  BY <1>1, LinkedLength DEF Linked, Allocated, Elements
<1> HIDE DEF c, b, l
<1>3. PICK n, t :
        /\ n \in Nodes \ Allocated /\ Allocated' = Allocated \cup {n}
        /\ element' = Extend(element, n, v)
        /\ Linked(succ', t, built') /\ Len(t) = l + 1 /\ t[l + 1] = n
        /\ \A i \in 1 .. l : t[i] = b[i]
        /\ \A m \in Allocated : (\A i \in 1 .. l : b[i] # m) => succ'[m] = succ[m]
  <2>1. Len(b) = l
    BY DEF b, l
  <2> QED
    BY <1>1, <2>1, AddBackLinks
<1>4. /\ DOMAIN element' = Allocated' /\ element'[n] = v
      /\ \A m \in Allocated : element'[m] = element[m]
  BY <1>1, <1>3 DEF Extend
<1>5. Linked(succ', c, list')
  <2>1. ASSUME NEW i \in 1 .. Len(c) PROVE c[i] \in DOMAIN succ' /\ succ'[c[i]] = succ[c[i]]
    <3>1. c[i] \in Allocated /\ \A j \in 1 .. l : b[j] # c[i]
      BY <1>1, <1>2
    <3> QED
      BY <1>3, <3>1 DEF Allocated
  <2>2. list' = list
    OBVIOUS
  <2> QED
    BY <1>1, <2>1, <2>2, SameLinks
<1>6. Chain(list)' = c /\ Chain(built)' = t
  BY <1>3, <1>5, ListAfter, BuiltAfter
<1>7. Elements(list)' = Elements(list)
  <2>1. Elements(list)' = [i \in 1 .. Len(c) |-> element'[c[i]]]
    BY <1>5, ListAfter
  <2> QED
    BY <1>2, <1>4, <2>1
<1>8. \A j \in 1 .. l + 1 : j \in 1 .. l \/ j = l + 1
  BY <1>2
<1>9. Heap'
  <2>1. Allocated' \subseteq Nodes /\ \A m \in Allocated' : element'[m] \in Ints
    BY <1>1, <1>3, <1>4
  <2>2. \A i \in 1 .. Len(Chain(list)'), j \in 1 .. Len(Chain(built)') :
          Chain(list)'[i] # Chain(built)'[j]
    BY <1>1, <1>2, <1>3, <1>6, <1>8
  <2> QED
    BY <1>3, <1>4, <1>5, <1>6, <2>1, <2>2 DEF Heap
<1>10. Used' = Used + 1
  BY <1>3, OneMore
<1> QED
  BY <1>3, <1>6, <1>7, <1>9, <1>10 DEF c, b, l

(* map_mut replaces one number and leaves the links.                       *)
LEMMA HeapReplaced ==
  ASSUME Heap, NEW k \in 1 .. Len(Chain(list)), NEW v \in Ints,
         element' = [element EXCEPT ![Chain(list)[k]] = v],
         UNCHANGED <<succ, list, built>>
  PROVE  /\ Heap' /\ Chain(list)' = Chain(list) /\ Used' = Used
         /\ Len(Elements(list)') = Len(Elements(list)) /\ Elements(list)'[k] = v
         /\ \A i \in 1 .. Len(Chain(list)) : i # k => Elements(list)'[i] = Elements(list)[i]
<1> DEFINE c == Chain(list)
<1>1. /\ Linked(succ, c, list) /\ Linked(succ, Chain(built), built)
      /\ Allocated \subseteq Nodes /\ DOMAIN element = Allocated /\ Allocated' = Allocated
      /\ \A m \in Allocated : element[m] \in Ints
      /\ succ' = succ /\ list' = list /\ built' = built /\ Used' = Used
  BY DEF Heap, Allocated, Used
<1>2. /\ Len(c) \in Nat /\ Len(Elements(list)) = Len(c)
      /\ \A i \in 1 .. Len(c) : Elements(list)[i] = element[c[i]] /\ c[i] \in Allocated
  BY <1>1, ElementsOfList
<1>3. /\ DOMAIN element' = Allocated /\ element'[c[k]] = v
      /\ \A m \in Allocated : m # c[k] => element'[m] = element[m]
  BY <1>1, <1>2
<1>4. Linked(succ', c, list') /\ Linked(succ', Chain(built), built')
  BY <1>1
<1>5. Chain(list)' = c /\ Chain(built)' = Chain(built)
  BY <1>4, ListAfter, BuiltAfter
<1>6. Elements(list)' = [i \in 1 .. Len(c) |-> element'[c[i]]]
  BY <1>4, ListAfter
<1>7. Heap'
  <2>1. \A m \in Allocated : element'[m] \in Ints
    BY <1>1, <1>3
  <2> QED
    BY <1>1, <1>3, <1>4, <1>5, <2>1 DEF Heap
<1>8. \A i \in 1 .. Len(c) : i # k => c[i] # c[k]
  BY <1>1 DEF Linked
<1>9. Len(Elements(list)') = Len(c)
  BY <1>2, <1>6
<1> HIDE DEF c
<1>10. k \in 1 .. Len(c)
  BY DEF c
<1> QED
  BY <1>1, <1>2, <1>3, <1>5, <1>6, <1>7, <1>8, <1>9, <1>10 DEF c
-----------------------------------------------------------------------------
(* The invariant.                                                          *)

Contents == Seq(Ints \cup {Junk, Sign})
Live == lpc \notin {"free", "end", "crashed"}
Reading == {"start", "menu", "load", "deserialize", "stdin"}

FilesInv ==
  /\ text = NoFile \/ text \in Contents
  /\ cut = <<>> \/ (cut \in Contents /\ text \in Contents)
  /\ binary = NoFile \/ binary \in Seq(Ints)
  /\ kept \in [text : Contents \cup {NoFile}, binary : Contents \cup {NoFile}]
  /\ FilesKept

(* The input is the rest of the file, which begins behind what was taken.  *)
RestOf(file, in) ==
  /\ Len(in) <= Len(file)
  /\ \A i \in 1 .. Len(in) : in[i] = file[Len(file) - Len(in) + i]

(* A file with numbers alone.                                              *)
Clean(file) == {Junk, Sign} \cap ToSet(file) = {}

TextTaken ==
  LET taken == Len(TextRead) - Len(input)
  IN  /\ Len(Elements(list)) = taken
      /\ \A i \in 1 .. taken : Elements(list)[i] = TextRead[i]

LoadInv ==
  lpc = "load" =>
    /\ TextRead \in Contents /\ RestOf(TextRead, input)
    /\ Clean(TextRead) => TextTaken

DeserializeInv ==
  lpc = "deserialize" =>
    LET taken == Len(binary) - Len(input)
    IN  /\ binary \in Seq(Ints) /\ RestOf(binary, input)
        /\ Len(Elements(list)) = taken
        /\ \A i \in 1 .. taken : Elements(list)[i] = binary[taken + 1 - i]

ReadInv ==
  lpc \in Reading =>
    /\ cursor = NULL /\ e \in Ints \cup {Junk} /\ input \in Contents
    /\ lpc \in {"start", "menu"} => list = NULL /\ input = <<>>
    /\ LoadInv /\ DeserializeInv

(* The first n numbers of the list are in x and then in y.                 *)
Halves(x, y, n) ==
  /\ Len(x) + Len(y) = n
  /\ \A i \in 1 .. Len(x) : x[i] = Elements(list)[i]
  /\ \A i \in 1 .. Len(y) : y[i] = Elements(list)[Len(x) + i]

(* The loops over the list stand at its node k or behind it; the numbers   *)
(* before it are copied, replaced or written.                              *)
WalkInv ==
  lpc \in {"squares", "cubes", "abs", "save"} =>
    \E k \in 1 .. Len(Chain(list)) + 1 :
      /\ cursor = At(Chain(list), k)
      /\ lpc \in {"squares", "cubes"} => Len(Chain(built)) = k - 1
      /\ lpc = "abs" => \A i \in 1 .. k - 1 : Positive(Elements(list)[i])
      /\ lpc = "save" => Halves(text, buffer, k - 1)

PositiveInv ==
  lpc \in {"powers", "menu2", "save", "serialize"} =>
    \A i \in 1 .. Len(Elements(list)) : Positive(Elements(list)[i])

SaveInv ==
  /\ lpc = "save" => /\ text \in Seq(Ints) /\ buffer \in Seq(Ints)
                     /\ kept.text = Elements(list) /\ "text" \in unfinished
  /\ lpc = "serialize" => /\ kept.binary = Elements(list) /\ "binary" \in unfinished
                          /\ binary \in Seq(Ints)
  /\ Live /\ lpc # "save" => buffer = <<>>
  /\ lpc = "start" => unfinished = {}

(* How many nodes are in use at most: those of the list, of the list that  *)
(* map or iterate makes, and of the ones they made before.                 *)
MemoryInv ==
  LET n == Len(Chain(list))
      b == Len(Chain(built))
  IN  /\ lpc \in Reading => built = NULL /\ Used <= n
      /\ lpc = "squares" => Used <= n + b
      /\ lpc = "cubes" => Used <= 2 * n + b
      /\ lpc = "abs" => Used <= 3 * n
      /\ lpc = "powers" => Used <= 3 * n + b /\ b <= PowerCount
      /\ lpc \in {"menu2", "save", "serialize"} => Used <= 3 * n + PowerCount
      /\ Live /\ lpc \notin Reading => input = <<>>

CrashInv ==
  lpc = "crashed" => \/ input # <<>> /\ Head(input) = Junk
                     \/ MaxNodes <= 3 * (Len(Chain(list)) + Len(input)) + PowerCount

IInv == /\ FilesInv /\ ReadInv /\ WalkInv /\ PositiveInv /\ SaveInv /\ MemoryInv /\ CrashInv
        /\ Live => Heap

(* What a step does to the sequence the list stands for.                   *)
ListStep == Sequence!Change(Value, Value') \/ Value' = Value
-----------------------------------------------------------------------------
(* Sequences of integers.                                                  *)

LEMMA PointwisePrefix ==
  ASSUME NEW S, NEW s \in Seq(S), NEW t \in Seq(S), Len(s) <= Len(t),
         \A i \in 1 .. Len(s) : s[i] = t[i]
  PROVE  IsPrefix(s, t) /\ SubSeq(t, 1, Len(s)) = s
<1> DEFINE l == Len(s)
           a == SubSeq(s, 1, l)
           b == SubSeq(t, 1, l)
<1>1. l \in Nat /\ Len(t) \in Nat /\ s \in [1 .. Len(s) -> S] /\ t \in [1 .. Len(t) -> S]
  OBVIOUS
<1> HIDE DEF l
<1>2. l <= Len(t) /\ \A i \in 1 .. l : s[i] \in S /\ t[i] \in S /\ s[i] = t[i]
  BY <1>1 DEF l
<1>3. /\ a \in Seq(S) /\ Len(a) = l /\ \A i \in 1 .. l : a[i] = s[i]
      /\ b \in Seq(S) /\ Len(b) = l /\ \A i \in 1 .. l : b[i] = t[i]
  <2>1. l - 1 + 1 = l /\ 1 \in Int /\ l \in Int /\ (1 <= l => l - 1 + 1 = l) /\ (~(1 <= l) => l = 0)
    BY <1>1
  <2>2. /\ a \in Seq(S) /\ Len(a) = l /\ \A i \in 1 .. l : a[i] = s[1 + i - 1]
        /\ b \in Seq(S) /\ Len(b) = l /\ \A i \in 1 .. l : b[i] = t[1 + i - 1]
    BY <1>2, <2>1, SubSeqProperties
  <2>3. \A i \in 1 .. l : 1 + i - 1 = i
    BY <1>1
  <2> QED
    BY <2>2, <2>3
<1> HIDE DEF a, b
<1>4. a = b
  BY <1>2, <1>3, SeqEqual
<1>5. b = s
  BY <1>2, <1>3, SeqEqual DEF l
<1>6. IsPrefix(s, t)
  BY <1>2, <1>4 DEF IsPrefix, a, b, l
<1> QED
  BY <1>5, <1>6 DEF b, l

(* What add_back, add_front and map_mut do, seen from the sequence.        *)
LEMMA GrownBack ==
  ASSUME NEW u \in Seq(Ints), NEW w \in Seq(Ints), Len(w) = Len(u) + 1,
         \A i \in 1 .. Len(u) : w[i] = u[i]
  PROVE  Sequence!Change(u, w)
<1>1. Len(u) \in Nat /\ Len(u) <= Len(w)
  OBVIOUS
<1>2. SubSeq(w, 1, Len(u)) = u
  BY <1>1, PointwisePrefix
<1> QED
  BY <1>2 DEF Sequence!Change, Sequence!AddBack

LEMMA GrownFront ==
  ASSUME NEW u \in Seq(Ints), NEW w \in Seq(Ints), Len(w) = Len(u) + 1,
         \A i \in 1 .. Len(u) : w[i + 1] = u[i]
  PROVE  Sequence!Change(u, w)
<1> DEFINE t == Tail(w)
<1>1. Len(u) \in Nat /\ w # <<>>
  OBVIOUS
<1>2. t \in Seq(Ints) /\ Len(t) = Len(u) /\ \A i \in 1 .. Len(u) : t[i] = w[i + 1]
  BY <1>1, HeadTailProperties
<1> HIDE DEF t
<1>3. t = u
  BY <1>2, SeqEqual
<1> QED
  BY <1>3 DEF Sequence!Change, Sequence!AddFront, t

LEMMA Replaced ==
  ASSUME NEW u, NEW w, Len(w) = Len(u), NEW k \in 1 .. Len(u),
         \A i \in 1 .. Len(u) : i # k => w[i] = u[i]
  PROVE  Sequence!Change(u, w)
<1>1. Sequence!Replace(u, w)
  BY DEF Sequence!Replace
<1> QED
  BY <1>1 DEF Sequence!Change

(* fscanf and fread take the first of the rest of a file.                  *)
LEMMA RestTaken ==
  ASSUME NEW S, NEW in \in Seq(S), in # <<>>, NEW file \in Seq(S), RestOf(file, in)
  PROVE  /\ Head(in) \in S /\ Tail(in) \in Seq(S) /\ Len(Tail(in)) = Len(in) - 1
         /\ Len(in) \in Nat /\ Len(in) >= 1 /\ Len(in) <= Len(file) /\ Len(file) \in Nat
         /\ Head(in) = file[Len(file) - Len(in) + 1]
         /\ RestOf(file, Tail(in))
<1> DEFINE l == Len(in)
           m == Len(file)
           t == Tail(in)
<1>1. l \in Nat /\ m \in Nat /\ l >= 1 /\ Head(in) = in[1] /\ in[1] \in S
  BY EmptySeq
<1>2. t \in Seq(S) /\ Len(t) = l - 1 /\ \A i \in 1 .. l - 1 : t[i] = in[i + 1]
  BY HeadTailProperties
<1>3. l <= m /\ \A i \in 1 .. l : in[i] = file[m - l + i]
  BY DEF RestOf
<1> HIDE DEF l, m, t
<1>4. Head(in) = file[m - l + 1]
  BY <1>1, <1>3
<1>5. ASSUME NEW i \in 1 .. l - 1 PROVE t[i] = file[m - (l - 1) + i]
  <2>1. i + 1 \in 1 .. l /\ m - (l - 1) + i = m - l + (i + 1)
    BY <1>1
  <2> QED
    BY <1>2, <1>3, <2>1
<1>6. l - 1 <= m
  BY <1>1, <1>3
<1>7. RestOf(file, t)
  BY <1>2, <1>5, <1>6 DEF RestOf, m
<1> QED
  BY <1>1, <1>2, <1>3, <1>4, <1>7 DEF l, m, t
-----------------------------------------------------------------------------
(* Every step keeps the invariant and is one of a sequence.                *)

LEMMA ListFacts ==
  ASSUME Heap
  PROVE  /\ Elements(list) \in Seq(Ints) /\ Elements(list) \in Contents
         /\ Len(Elements(list)) = Len(Chain(list)) /\ Len(Chain(list)) \in Nat
         /\ \A i \in 1 .. Len(Chain(list)) :
              /\ Elements(list)[i] = element[Chain(list)[i]] /\ Elements(list)[i] \in Ints
              /\ Chain(list)[i] \in Allocated /\ Chain(list)[i] \in Nodes
              /\ succ[Chain(list)[i]] = At(Chain(list), i + 1)
         /\ list = At(Chain(list), 1)
         /\ list = NULL <=> Len(Chain(list)) = 0
<1>1. Linked(succ, Chain(list), list) /\ \A n \in Allocated : element[n] \in Ints
  BY DEF Heap
<1>2. /\ Elements(list) \in Seq(Ints)
      /\ Len(Elements(list)) = Len(Chain(list)) /\ Len(Chain(list)) \in Nat
      /\ Len(Chain(list)) <= MaxNodes
      /\ \A i \in 1 .. Len(Chain(list)) : /\ Elements(list)[i] = element[Chain(list)[i]]
                                          /\ Chain(list)[i] \in Allocated
  BY <1>1, ElementsOfList
<1>3. Elements(list) \in Contents
  BY <1>2, SeqMonotonic DEF Contents
<1>4. \A i \in 1 .. Len(Chain(list)) : Chain(list)[i] \in Nodes
  BY <1>2 DEF Heap
<1>5. list = NULL <=> Chain(list) = <<>>
  BY <1>1, EmptyList
<1>6. Chain(list) = <<>> <=> Len(Chain(list)) = 0
  BY <1>1, EmptySeq DEF Linked
<1> QED
  BY <1>1, <1>2, <1>3, <1>4, <1>5, <1>6 DEF Linked

LEMMA IntsOfList == Heap => Elements(list) \in Seq(Ints)
BY ListFacts

LEMMA IntsAfter == Heap' => (Elements(list) \in Seq(Ints))'
BY IntsOfList, PTL

(* The nodes in use, and those of the lists, can be counted.               *)
LEMMA Counted ==
  ASSUME Heap
  PROVE  /\ Used \in Nat /\ Len(Chain(list)) \in Nat /\ Len(Chain(built)) \in Nat
         /\ built = NULL => Len(Chain(built)) = 0
         /\ Free = {} => MaxNodes <= Used
<1>1. Len(Chain(list)) \in Nat /\ Len(Chain(built)) \in Nat
  BY LinkedLength DEF Heap
<1>2. built = NULL => Len(Chain(built)) = 0
  BY EmptyList DEF Heap
<1>3. IsFiniteSet(Nodes) /\ Cardinality(Nodes) = MaxNodes
  BY FS_Interval, Bounds DEF Nodes
<1>4. Allocated \subseteq Nodes
  BY DEF Heap
<1>5. Used \in Nat
  BY <1>3, <1>4, FS_Subset, FS_CardinalityType DEF Used
<1>6. Free = {} => MaxNodes <= Used
  <2> SUFFICES ASSUME Free = {} PROVE MaxNodes <= Used
    OBVIOUS
  <2>1. Allocated = Nodes
    BY <1>4 DEF Free
  <2> QED
    BY <1>3, <2>1, Bounds DEF Used
<1> QED
  BY <1>1, <1>2, <1>5, <1>6

LEMMA CountedNow ==
  Heap => /\ Used \in Nat /\ Len(Chain(list)) \in Nat /\ Len(Chain(built)) \in Nat
          /\ built = NULL => Len(Chain(built)) = 0
BY Counted

LEMMA CountedAfter ==
  Heap' => (/\ Used \in Nat /\ Len(Chain(list)) \in Nat /\ Len(Chain(built)) \in Nat
            /\ built = NULL => Len(Chain(built)) = 0)'
BY CountedNow, PTL

(* The steps that touch neither the heap nor the list.                     *)
LEMMA KeptStep ==
  ASSUME IInv, Live, UNCHANGED <<memory, list>>, built' = built \/ built' = NULL
  PROVE  /\ Heap /\ Heap' /\ Chain(list)' = Chain(list) /\ Elements(list)' = Elements(list)
         /\ Used' = Used /\ (built' = built => Chain(built)' = Chain(built))
         /\ ListStep
<1>1. /\ Heap /\ Heap' /\ Chain(list)' = Chain(list) /\ Elements(list)' = Elements(list)
      /\ Used' = Used /\ (built' = built => Chain(built)' = Chain(built))
  BY HeapKept DEF IInv
<1>3. ListStep
  <2>1. Value = Elements(list)
    BY DEF Live, Value
  <2>2. Value' = Elements(list)' \/ Value' = <<>>
    BY DEF Value
  <2> QED
    BY <1>1, <2>1, <2>2 DEF ListStep, Sequence!Change, Sequence!Empty
<1> QED
  BY <1>1, <1>3

LEMMA FilesSame ==
  ASSUME FilesInv, UNCHANGED files
  PROVE  FilesInv' /\ TextRead' = TextRead /\ binary' = binary
BY DEF FilesInv, FilesKept, TextKept, BinaryKept, Begins, CutNext, files, TextRead

LEMMA SetupStep ==
  ASSUME IInv, Setup
  PROVE  IInv' /\ ListStep
<1>1. /\ lpc = "start" /\ lpc' = "menu" /\ text' \in TextFiles
      /\ kept' = [kept EXCEPT !.text = text']
      /\ UNCHANGED <<memory, list, cursor, built, e, input, buffer, cut, binary, unfinished>>
  BY DEF Setup, locals
<1>2. Live /\ unfinished = {} /\ FilesInv /\ ReadInv /\ SaveInv /\ MemoryInv
  BY <1>1 DEF IInv, SaveInv, Live
<1>3. Heap' /\ Chain(list)' = Chain(list) /\ Used' = Used /\ ListStep
  BY <1>1, <1>2, KeptStep
<1>4. FilesInv'
  <2>1. text' = NoFile \/ text' \in Contents
    <3>1. text' = NoFile \/ text' \in Seq(Ints \cup {Junk})
      BY <1>1, ListAssumption DEF Ints
    <3>2. ASSUME text' \in Seq(Ints \cup {Junk}) PROVE text' \in Contents
      BY <3>2, SeqMonotonic DEF Contents
    <3> QED
      BY <3>1, <3>2
  <2>2. kept \in [text : Contents \cup {NoFile}, binary : Contents \cup {NoFile}]
    BY <1>2 DEF FilesInv
  <2>3. /\ kept' \in [text : Contents \cup {NoFile}, binary : Contents \cup {NoFile}]
        /\ kept'["text"] = text' /\ kept'["binary"] = kept["binary"]
    <3>1. text' \in Contents \cup {NoFile}
      BY <2>1
    <3> QED
      BY <1>1, <2>2, <3>1
  <2>4. binary = kept["binary"] /\ cut = <<>>
    BY <1>2 DEF FilesInv, FilesKept, TextKept, BinaryKept
  <2>5. FilesKept'
    BY <1>1, <1>2, <2>3, <2>4 DEF FilesKept, TextKept, BinaryKept
  <2>6. (binary = NoFile \/ binary \in Seq(Ints))' /\ cut' = <<>>
    BY <1>1, <1>2, <2>4 DEF FilesInv
  <2> QED
    BY <2>1, <2>3, <2>5, <2>6 DEF FilesInv
<1>5. ReadInv'
  BY <1>1, <1>2, <1>3 DEF ReadInv, LoadInv, DeserializeInv, Reading
<1>6. WalkInv' /\ PositiveInv' /\ SaveInv' /\ CrashInv'
  BY <1>1, <1>2 DEF WalkInv, PositiveInv, SaveInv, CrashInv, Live
<1>7. MemoryInv'
  BY <1>1, <1>2, <1>3 DEF MemoryInv, Reading
<1> QED
  BY <1>3, <1>4, <1>5, <1>6, <1>7 DEF IInv

LEMMA OpenStep ==
  ASSUME IInv, OpenText \/ OpenBinary
  PROVE  IInv' /\ ListStep
<1>1. /\ lpc = "menu" /\ UNCHANGED <<memory, list, cursor, built, e, buffer, files>>
      /\ \/ lpc' = "squares" /\ input' = input
         \/ lpc' = "load" /\ input' = TextRead /\ TextRead # NoFile
         \/ lpc' = "deserialize" /\ input' = binary /\ binary # NoFile
  BY DEF OpenText, OpenBinary, Open, locals
<1>2. Live /\ FilesInv /\ ReadInv /\ SaveInv /\ MemoryInv
  BY <1>1 DEF IInv, Live
<1>3. /\ Heap' /\ Heap /\ Chain(list)' = Chain(list) /\ Elements(list)' = Elements(list)
      /\ Used' = Used /\ Chain(built)' = Chain(built) /\ ListStep
  BY <1>1, <1>2, KeptStep
<1>4. FilesInv' /\ TextRead' = TextRead /\ binary' = binary
  BY <1>1, <1>2, FilesSame
<1>5. /\ cursor = NULL /\ list = NULL /\ e \in Ints \cup {Junk} /\ input = <<>>
      /\ built = NULL /\ Used <= Len(Chain(list))
  BY <1>1, <1>2 DEF ReadInv, MemoryInv, Reading
<1>6. Len(Chain(list)) = 0 /\ Len(Elements(list)) = 0 /\ Len(Chain(built)) = 0 /\ Used \in Nat
  BY <1>3, <1>5, ListFacts, Counted
<1>7. ReadInv'
  <2>1. CASE lpc' = "squares"
    BY <2>1 DEF ReadInv, Reading
  <2>2. CASE lpc' = "load" /\ input' = TextRead /\ TextRead # NoFile
    <3>1. TextRead \in Contents
      <4>1. CASE cut = <<>>
        BY <1>2, <2>2, <4>1 DEF FilesInv, TextRead
      <4>2. CASE cut # <<>>
        <5>1. cut \in Contents /\ text \in Contents
          BY <1>2, <4>2 DEF FilesInv
        <5>2. text \o cut \in Contents
          BY <5>1, ConcatProperties DEF Contents
        <5> QED
          BY <4>2, <5>2 DEF TextRead
      <4> QED
        BY <4>1, <4>2
    <3>2. Len(TextRead) \in Nat /\ Len(TextRead) - Len(TextRead) = 0
      BY <3>1 DEF Contents
    <3>3. LoadInv'
      <4>1. RestOf(TextRead, TextRead)
        BY <3>2 DEF RestOf
      <4>2. TextTaken'
        BY <1>3, <1>4, <1>6, <2>2, <3>2 DEF TextTaken
      <4> QED
        BY <1>4, <2>2, <3>1, <4>1, <4>2 DEF LoadInv
    <3>4. (e \in Ints \cup {Junk} /\ input \in Contents)'
      BY <1>1, <1>5, <2>2, <3>1
    <3> QED
      BY <1>1, <1>5, <2>2, <3>3, <3>4 DEF ReadInv, DeserializeInv
  <2>3. CASE lpc' = "deserialize" /\ input' = binary /\ binary # NoFile
    <3>1. binary \in Seq(Ints)
      BY <1>2, <2>3 DEF FilesInv
    <3>2. Len(binary) \in Nat /\ Len(binary) - Len(binary) = 0 /\ binary \in Contents
      <4>1. binary \in Contents
        BY <3>1, SeqMonotonic DEF Contents
      <4> QED
        BY <3>1, <4>1
    <3>3. DeserializeInv'
      <4>1. RestOf(binary, binary)
        BY <3>2 DEF RestOf
      <4> QED
        BY <1>3, <1>4, <1>6, <2>3, <3>1, <3>2, <4>1 DEF DeserializeInv
    <3>4. (e \in Ints \cup {Junk} /\ input \in Contents)'
      BY <1>1, <1>5, <2>3, <3>2
    <3> QED
      BY <1>1, <1>5, <2>3, <3>3, <3>4 DEF ReadInv, LoadInv
  <2> QED
    BY <1>1, <2>1, <2>2, <2>3
<1>8. WalkInv'
  <2>1. 1 \in 1 .. Len(Chain(list)') + 1 /\ cursor' = At(Chain(list)', 1)
    BY <1>1, <1>3, <1>5, <1>6 DEF At
  <2>2. Len(Chain(built)') = 1 - 1
    BY <1>3, <1>6
  <2> QED
    BY <1>1, <2>1, <2>2 DEF WalkInv
<1>9. PositiveInv' /\ SaveInv' /\ CrashInv'
  BY <1>1, <1>2 DEF PositiveInv, SaveInv, CrashInv, Live
<1>10. MemoryInv'
  BY <1>1, <1>3, <1>5, <1>6 DEF MemoryInv, Reading
<1> QED
  BY <1>3, <1>4, <1>7, <1>8, <1>9, <1>10 DEF IInv

LEMMA ReadStdinStep ==
  ASSUME IInv, ReadStdin
  PROVE  IInv' /\ ListStep
<1>1. /\ lpc = "menu" /\ lpc' = "stdin"
      /\ UNCHANGED <<memory, list, cursor, built, e, input, buffer, files>>
  BY DEF ReadStdin, locals
<1>2. Live /\ FilesInv /\ ReadInv /\ SaveInv /\ MemoryInv
  BY <1>1 DEF IInv, Live
<1>3. Heap' /\ Chain(list)' = Chain(list) /\ Used' = Used /\ ListStep
  BY <1>1, <1>2, KeptStep
<1>4. FilesInv'
  BY <1>1, <1>2, FilesSame
<1>5. ReadInv' /\ MemoryInv'
  BY <1>1, <1>2, <1>3 DEF ReadInv, LoadInv, DeserializeInv, MemoryInv, Reading
<1>6. WalkInv' /\ PositiveInv' /\ SaveInv' /\ CrashInv'
  BY <1>1, <1>2 DEF WalkInv, PositiveInv, SaveInv, CrashInv, Live
<1> QED
  BY <1>3, <1>4, <1>5, <1>6 DEF IInv

(* The command that ends the program, and ^C.                              *)
LEMMA EndStep ==
  ASSUME IInv, UnknownCommand \/ Interrupt
  PROVE  IInv' /\ ListStep
<1>1. lpc' = "end" /\ UNCHANGED <<memory, list, built, files>>
  BY DEF UnknownCommand, Interrupt, locals
<1>2. FilesInv'
  BY <1>1, FilesSame DEF IInv
<1>3. /\ ReadInv' /\ WalkInv' /\ PositiveInv' /\ SaveInv' /\ MemoryInv' /\ CrashInv' /\ ~Live'
  BY <1>1 DEF ReadInv, WalkInv, PositiveInv, SaveInv, MemoryInv, CrashInv, Live, Reading
<1>4. ListStep
  BY <1>1 DEF ListStep, Value, Sequence!Change, Sequence!Empty
<1> QED
  BY <1>2, <1>3, <1>4 DEF IInv

(* fscanf reads a number, or the last one is added again.                  *)
LEMMA NumberRead ==
  ASSUME NEW v \in Ints \cup {Junk, Sign}, e \in Ints \cup {Junk}, ReadInto(v)
  PROVE  /\ e' \in Ints
         /\ v \in Ints => e' = v
         /\ v = Junk => input' = input
         /\ v # Junk => input' = Tail(input)
BY ListAssumption DEF ReadInto, Ints

LEMMA LoadStep ==
  ASSUME IInv, LoadNumber
  PROVE  IInv' /\ ListStep
<1>1. /\ lpc = "load" /\ lpc' = "load" /\ input # <<>>
      /\ ReadInto(Head(input)) /\ AddBack(list, e', list')
      /\ UNCHANGED <<cursor, built, buffer, files>>
  BY DEF LoadNumber
<1>2. Live /\ Heap /\ FilesInv /\ ReadInv /\ SaveInv /\ MemoryInv
  BY <1>1 DEF IInv, Live
<1> DEFINE f == TextRead
<1>3. /\ cursor = NULL /\ e \in Ints \cup {Junk} /\ input \in Contents
      /\ f \in Contents /\ RestOf(f, input) /\ (Clean(f) => TextTaken)
  BY <1>1, <1>2 DEF ReadInv, LoadInv, Reading
<1> HIDE DEF f
<1>4. /\ Head(input) \in Ints \cup {Junk, Sign} /\ Tail(input) \in Contents
      /\ Len(Tail(input)) = Len(input) - 1
      /\ Len(input) \in Nat /\ Len(input) >= 1 /\ Len(input) <= Len(f) /\ Len(f) \in Nat
      /\ Head(input) = f[Len(f) - Len(input) + 1] /\ RestOf(f, Tail(input))
  BY <1>1, <1>3, RestTaken DEF Contents
<1>5. /\ e' \in Ints
      /\ Head(input) \in Ints => e' = Head(input)
      /\ Head(input) = Junk => input' = input
      /\ Head(input) # Junk => input' = Tail(input)
  BY <1>1, <1>3, <1>4, NumberRead
<1>6. /\ Heap' /\ Used' = Used + 1 /\ Len(Chain(list)') = Len(Chain(list)) + 1
      /\ Len(Elements(list)') = Len(Elements(list)) + 1
      /\ Elements(list)'[Len(Elements(list)) + 1] = e'
      /\ \A i \in 1 .. Len(Elements(list)) : Elements(list)'[i] = Elements(list)[i]
  BY <1>1, <1>2, <1>5, HeapBack
<1>7. FilesInv' /\ f' = f
  BY <1>1, <1>2, FilesSame DEF f
<1>8. input' \in Contents /\ RestOf(f, input')
  BY <1>3, <1>4, <1>5
<1>9. ASSUME Clean(f) PROVE TextTaken'
  <2> DEFINE n == Len(f) - Len(input)
  <2>1. Len(Elements(list)) = n /\ \A i \in 1 .. n : Elements(list)[i] = f[i]
    BY <1>3, <1>9 DEF TextTaken, f
  <2>2. Head(input) \in Ints
    <3>1. DOMAIN f = 1 .. Len(f) /\ Len(f) - Len(input) + 1 \in 1 .. Len(f)
      BY <1>3, <1>4 DEF Contents
    <3>2. Head(input) \in ToSet(f)
      BY <1>4, <3>1 DEF ToSet
    <3> QED
      BY <1>4, <1>9, <3>2 DEF Clean
  <2>3. Head(input) # Junk
    BY <2>2, ListAssumption DEF Ints
  <2>4. n \in Nat /\ Len(f) - Len(input') = n + 1
    BY <1>4, <1>5, <2>3
  <2>5. f[n + 1] = e'
    BY <1>4, <1>5, <2>2
  <2> HIDE DEF n
  <2>6. \A i \in 1 .. n + 1 : i \in 1 .. n \/ i = n + 1
    BY <2>4
  <2>7. Len(Elements(list)') = n + 1 /\ \A i \in 1 .. n + 1 : Elements(list)'[i] = f[i]
    BY <1>6, <2>1, <2>5, <2>6
  <2> QED
    BY <1>7, <2>4, <2>7 DEF TextTaken, f
<1>10. ReadInv'
  <2>1. LoadInv'
    BY <1>3, <1>7, <1>8, <1>9 DEF LoadInv, f
  <2> QED
    BY <1>1, <1>3, <1>5, <1>8, <2>1 DEF ReadInv, DeserializeInv
<1>11. WalkInv' /\ PositiveInv' /\ SaveInv' /\ CrashInv'
  BY <1>1, <1>2 DEF WalkInv, PositiveInv, SaveInv, CrashInv, Live
<1>12. ListStep
  <2>1. Value = Elements(list) /\ Value' = Elements(list)'
    BY <1>1 DEF Value
  <2>2. Elements(list) \in Seq(Ints) /\ Elements(list)' \in Seq(Ints)
    BY <1>2, <1>6, ListFacts, IntsAfter
  <2> QED
    BY <1>6, <2>1, <2>2, GrownBack DEF ListStep
<1>13. MemoryInv'
  BY <1>1, <1>2, <1>6, Counted DEF MemoryInv, Reading
<1> QED
  BY <1>6, <1>7, <1>10, <1>11, <1>12, <1>13 DEF IInv

LEMMA DeserializeStep ==
  ASSUME IInv, DeserializeNumber
  PROVE  IInv' /\ ListStep
<1>1. /\ lpc = "deserialize" /\ lpc' = "deserialize" /\ input # <<>>
      /\ AddFront(Head(input)) /\ input' = Tail(input)
      /\ UNCHANGED <<cursor, built, e, buffer, files>>
  BY DEF DeserializeNumber
<1>2. Live /\ Heap /\ FilesInv /\ ReadInv /\ SaveInv /\ MemoryInv
  BY <1>1 DEF IInv, Live
<1> DEFINE n == Len(binary) - Len(input)
<1>3. /\ cursor = NULL /\ e \in Ints \cup {Junk} /\ input \in Contents
      /\ binary \in Seq(Ints) /\ RestOf(binary, input)
      /\ Len(Elements(list)) = n
      /\ \A i \in 1 .. n : Elements(list)[i] = binary[n + 1 - i]
  BY <1>1, <1>2 DEF ReadInv, DeserializeInv, Reading
<1>4. /\ Tail(input) \in Contents /\ Len(Tail(input)) = Len(input) - 1
      /\ Len(input) \in Nat /\ Len(input) >= 1 /\ Len(input) <= Len(binary) /\ Len(binary) \in Nat
      /\ Head(input) = binary[Len(binary) - Len(input) + 1] /\ RestOf(binary, Tail(input))
  <2>1. binary \in Contents
    BY <1>3, SeqMonotonic DEF Contents
  <2> QED
    BY <1>1, <1>3, <2>1, RestTaken DEF Contents
<1>5. Head(input) \in Ints
  <2>1. Len(binary) - Len(input) + 1 \in 1 .. Len(binary)
    BY <1>4
  <2>2. \A i \in 1 .. Len(binary) : binary[i] \in Ints
    BY <1>3, ElementOfSeq
  <2> QED
    BY <1>4, <2>1, <2>2
<1>6. /\ Heap' /\ Used' = Used + 1 /\ Len(Chain(list)') = Len(Chain(list)) + 1
      /\ Len(Elements(list)') = Len(Elements(list)) + 1
      /\ Elements(list)'[1] = Head(input)
      /\ \A i \in 1 .. Len(Elements(list)) : Elements(list)'[i + 1] = Elements(list)[i]
  BY <1>1, <1>2, <1>5, HeapFront
<1>7. FilesInv' /\ binary' = binary
  BY <1>1, <1>2, FilesSame
<1>8. n \in Nat /\ Len(binary) - Len(input') = n + 1 /\ binary[n + 1] = Head(input)
  BY <1>1, <1>4
<1> HIDE DEF n
<1>9. ASSUME NEW i \in 1 .. n + 1 PROVE Elements(list)'[i] = binary[n + 1 + 1 - i]
  <2>1. CASE i = 1
    BY <1>6, <1>8, <2>1
  <2>2. CASE i # 1
    <3> DEFINE k == i - 1
    <3>1. k \in 1 .. n /\ k + 1 = i /\ n + 1 + 1 - i = n + 1 - k
      BY <1>8, <2>2
    <3> HIDE DEF k
    <3>2. Elements(list)'[k + 1] = Elements(list)[k] /\ Elements(list)[k] = binary[n + 1 - k]
      BY <1>3, <1>6, <3>1
    <3> QED
      BY <3>1, <3>2
  <2> QED
    BY <2>1, <2>2
<1>10. DeserializeInv'
  <2>1. RestOf(binary, input)' /\ Len(Elements(list)') = n + 1
    BY <1>1, <1>3, <1>4, <1>6, <1>7
  <2> QED
    BY <1>3, <1>7, <1>8, <1>9, <2>1 DEF DeserializeInv
<1>11. ReadInv'
  BY <1>1, <1>3, <1>4, <1>10 DEF ReadInv, LoadInv
<1>12. WalkInv' /\ PositiveInv' /\ SaveInv' /\ CrashInv'
  BY <1>1, <1>2 DEF WalkInv, PositiveInv, SaveInv, CrashInv, Live
<1>13. ListStep
  <2>1. Value = Elements(list) /\ Value' = Elements(list)'
    BY <1>1 DEF Value
  <2>2. Elements(list) \in Seq(Ints) /\ Elements(list)' \in Seq(Ints)
    BY <1>2, <1>6, ListFacts, IntsAfter
  <2> QED
    BY <1>6, <2>1, <2>2, GrownFront DEF ListStep
<1>14. MemoryInv'
  BY <1>1, <1>2, <1>6, Counted DEF MemoryInv, Reading
<1> QED
  BY <1>6, <1>7, <1>11, <1>12, <1>13, <1>14 DEF IInv

LEMMA TypeInputStep ==
  ASSUME IInv, TypeInput
  PROVE  IInv' /\ ListStep
<1>1. /\ lpc = "stdin" /\ lpc' = "stdin"
      /\ UNCHANGED <<memory, list, cursor, built, e, buffer, files>>
  BY DEF TypeInput, locals
<1>2. PICK v \in Inputs : input' = <<v>>
  BY DEF TypeInput
<1>3. Live /\ FilesInv /\ ReadInv /\ SaveInv /\ MemoryInv
  BY <1>1 DEF IInv, Live
<1>4. Heap' /\ Chain(list)' = Chain(list) /\ Used' = Used /\ ListStep
  BY <1>1, <1>3, KeptStep
<1>5. FilesInv'
  BY <1>1, <1>3, FilesSame
<1>6. input' \in Contents
  <2>1. v \in Ints \cup {Junk, Sign}
    BY ListAssumption DEF Ints
  <2> QED
    BY <1>2, <2>1 DEF Contents
<1>7. ReadInv' /\ MemoryInv'
  BY <1>1, <1>3, <1>4, <1>6 DEF ReadInv, LoadInv, DeserializeInv, MemoryInv, Reading
<1>8. WalkInv' /\ PositiveInv' /\ SaveInv' /\ CrashInv'
  BY <1>1, <1>3 DEF WalkInv, PositiveInv, SaveInv, CrashInv, Live
<1> QED
  BY <1>4, <1>5, <1>7, <1>8 DEF IInv

LEMMA TakeTypedStep ==
  ASSUME IInv, TakeTyped
  PROVE  IInv' /\ ListStep
<1>1. /\ lpc = "stdin" /\ lpc' = "stdin" /\ input # <<>>
      /\ ReadInto(Head(input)) /\ AddFront(e')
      /\ UNCHANGED <<cursor, built, buffer, files>>
  BY DEF TakeTyped
<1>2. Live /\ Heap /\ FilesInv /\ ReadInv /\ SaveInv /\ MemoryInv
  BY <1>1 DEF IInv, Live
<1>3. cursor = NULL /\ e \in Ints \cup {Junk} /\ input \in Contents
  BY <1>1, <1>2 DEF ReadInv, Reading
<1>4. Head(input) \in Ints \cup {Junk, Sign} /\ Tail(input) \in Contents
  BY <1>1, <1>3, HeadTailProperties DEF Contents
<1>5. e' \in Ints /\ (input' = input \/ input' = Tail(input))
  BY <1>1, <1>3, <1>4, NumberRead
<1>6. /\ Heap' /\ Used' = Used + 1 /\ Len(Chain(list)') = Len(Chain(list)) + 1
      /\ Len(Elements(list)') = Len(Elements(list)) + 1
      /\ \A i \in 1 .. Len(Elements(list)) : Elements(list)'[i + 1] = Elements(list)[i]
  BY <1>1, <1>2, <1>5, HeapFront
<1>7. FilesInv'
  BY <1>1, <1>2, FilesSame
<1>8. input' \in Contents
  BY <1>3, <1>4, <1>5
<1>9. ReadInv'
  BY <1>1, <1>3, <1>5, <1>8 DEF ReadInv, LoadInv, DeserializeInv
<1>10. MemoryInv'
  BY <1>1, <1>2, <1>6, Counted DEF MemoryInv, Reading
<1>11. WalkInv' /\ PositiveInv' /\ SaveInv' /\ CrashInv'
  BY <1>1, <1>2 DEF WalkInv, PositiveInv, SaveInv, CrashInv, Live
<1>12. ListStep
  <2>1. Value = Elements(list) /\ Value' = Elements(list)'
    BY <1>1 DEF Value
  <2>2. Elements(list) \in Seq(Ints) /\ Elements(list)' \in Seq(Ints)
    BY <1>2, <1>6, ListFacts, IntsAfter
  <2> QED
    BY <1>6, <2>1, <2>2, GrownFront DEF ListStep
<1> QED
  BY <1>6, <1>7, <1>9, <1>10, <1>11, <1>12 DEF IInv

(* No node is left only when two copies of the list, and the powers, do    *)
(* not fit beside it.                                                      *)
LEMMA CrashStep ==
  ASSUME IInv, OutOfMemory
  PROVE  IInv' /\ ListStep
<1>1. /\ AsksForMemory /\ Free = {} /\ lpc' = "crashed"
      /\ UNCHANGED <<memory, list, input, files>>
  BY DEF OutOfMemory, locals
<1>2. Live /\ Heap /\ ReadInv /\ WalkInv /\ MemoryInv
  BY <1>1 DEF IInv, Live, AsksForMemory
<1> DEFINE n == Len(Chain(list))
           b == Len(Chain(built))
<1>3. n \in Nat /\ b \in Nat /\ Used \in Nat /\ MaxNodes <= Used
  BY <1>1, <1>2, Counted
<1>4. Len(input) \in Nat
  <2>1. lpc \in Reading => input \in Contents
    BY <1>2 DEF ReadInv
  <2>2. lpc \notin Reading => input = <<>>
    BY <1>2 DEF MemoryInv
  <2> QED
    BY <2>1, <2>2 DEF Contents
<1>5. Used <= 3 * n + PowerCount
  <2>1. CASE lpc \in {"load", "deserialize", "stdin"}
    <3>1. Used <= n
      BY <1>2, <2>1 DEF MemoryInv, Reading
    <3> HIDE DEF n
    <3> QED
      BY <1>3, <3>1, Bounds
  <2>2. CASE lpc \in {"squares", "cubes"}
    <3>1. b <= n
      <4>1. PICK k \in 1 .. n + 1 : b = k - 1
        BY <1>2, <2>2 DEF WalkInv
      <4> HIDE DEF n, b
      <4> QED
        BY <1>3, <4>1
    <3>2. Used <= n + b \/ Used <= 2 * n + b
      BY <1>2, <2>2 DEF MemoryInv
    <3> HIDE DEF n, b
    <3> QED
      BY <1>3, <3>1, <3>2, Bounds
  <2>3. CASE lpc = "powers"
    <3>1. Used <= 3 * n + b /\ b <= PowerCount
      BY <1>2, <2>3 DEF MemoryInv
    <3> HIDE DEF n, b
    <3> QED
      BY <1>3, <3>1, Bounds
  <2>4. CASE lpc = "serialize"
    BY <1>2, <2>4 DEF MemoryInv
  <2> QED
    BY <1>1, <2>1, <2>2, <2>3, <2>4 DEF AsksForMemory
<1>6. CrashInv'
  <2>1. Chain(list)' = Chain(list)
    BY <1>1, <1>2, ListAfter DEF Heap, memory
  <2>2. MaxNodes <= 3 * (n + Len(input)) + PowerCount
    <3> HIDE DEF n
    <3> QED
      BY <1>3, <1>4, <1>5, Bounds
  <2> QED
    BY <1>1, <2>1, <2>2 DEF CrashInv
<1>7. FilesInv'
  BY <1>1, FilesSame DEF IInv
<1>8. /\ ReadInv' /\ WalkInv' /\ PositiveInv' /\ SaveInv' /\ MemoryInv' /\ ~Live'
  BY <1>1 DEF ReadInv, WalkInv, PositiveInv, SaveInv, MemoryInv, Live, Reading
<1>9. ListStep
  BY <1>1 DEF ListStep, Value, Sequence!Change, Sequence!Empty
<1> QED
  BY <1>6, <1>7, <1>8, <1>9 DEF IInv

LEMMA InputEndsStep ==
  ASSUME IInv, InputEnds
  PROVE  IInv' /\ ListStep
<1>1. /\ lpc \in {"load", "deserialize", "stdin"} /\ lpc' = "squares" /\ cursor' = list
      /\ input = <<>> /\ UNCHANGED <<memory, list, built, input, buffer, files>>
  BY DEF InputEnds
<1>2. Live /\ FilesInv /\ SaveInv /\ MemoryInv
  BY <1>1 DEF IInv, Live
<1>3. /\ Heap /\ Heap' /\ Chain(list)' = Chain(list) /\ ListStep
      /\ Used' = Used /\ Chain(built)' = Chain(built)
  BY <1>1, <1>2, KeptStep
<1>7. Len(Chain(built)) = 0 /\ Len(Chain(list)) \in Nat /\ Used <= Len(Chain(list)) /\ Used \in Nat
  BY <1>1, <1>2, <1>3, Counted DEF MemoryInv, Reading
<1>4. FilesInv'
  BY <1>1, <1>2, FilesSame
<1>5. WalkInv'
  <2>1. 1 \in 1 .. Len(Chain(list)') + 1 /\ cursor' = At(Chain(list)', 1)
    BY <1>1, <1>3, ListFacts
  <2>2. Len(Chain(built)') = 1 - 1
    BY <1>3, <1>7
  <2> QED
    BY <1>1, <2>1, <2>2 DEF WalkInv
<1>6. ReadInv' /\ PositiveInv' /\ SaveInv' /\ CrashInv'
  BY <1>1, <1>2 DEF ReadInv, PositiveInv, SaveInv, CrashInv, Live, Reading
<1>8. MemoryInv'
  BY <1>1, <1>3, <1>7 DEF MemoryInv, Reading
<1> QED
  BY <1>3, <1>4, <1>5, <1>6, <1>8 DEF IInv

(* Where a loop over the list stands, and where it goes next.              *)
LEMMA CursorMoves ==
  ASSUME Heap, NEW k \in 1 .. Len(Chain(list)) + 1, cursor = At(Chain(list), k)
  PROVE  /\ cursor # NULL => /\ k \in 1 .. Len(Chain(list)) /\ cursor = Chain(list)[k]
                             /\ k + 1 \in 1 .. Len(Chain(list)) + 1
                             /\ cursor \in Allocated
                             /\ succ[cursor] = At(Chain(list), k + 1)
         /\ cursor = NULL => k = Len(Chain(list)) + 1
<1> DEFINE c == Chain(list)
           l == Len(c)
<1>1. /\ l \in Nat
      /\ \A i \in 1 .. l : c[i] \in Allocated /\ c[i] \in Nodes /\ succ[c[i]] = At(c, i + 1)
  BY ListFacts
<1>2. k \in 1 .. l \/ k = l + 1
  BY <1>1
<1>3. ASSUME k \in 1 .. l PROVE cursor = c[k] /\ cursor # NULL /\ k + 1 \in 1 .. l + 1
  <2>1. cursor = c[k]
    BY <1>3 DEF At
  <2>2. c[k] # NULL
    BY <1>1, <1>3, Bounds
  <2>3. k + 1 \in 1 .. l + 1
    BY <1>1, <1>3
  <2> QED
    BY <2>1, <2>2, <2>3
<1>4. k = l + 1 => cursor = NULL
  <2>1. l + 1 \notin 1 .. l
    BY <1>1
  <2> QED
    BY <2>1 DEF At
<1> QED
  BY <1>1, <1>2, <1>3, <1>4

LEMMA MapStepStep ==
  ASSUME IInv, MapStep
  PROVE  IInv' /\ ListStep
<1> DEFINE v == IF lpc = "squares" THEN Square(element[cursor]) ELSE Cube(element[cursor])
<1>1. /\ lpc \in {"squares", "cubes"} /\ lpc' = lpc /\ cursor # NULL
      /\ AddBack(built, v, built') /\ cursor' = succ[cursor]
      /\ UNCHANGED <<list, input, buffer, files>>
  BY DEF MapStep
<1>2. Live /\ Heap /\ FilesInv /\ WalkInv /\ SaveInv /\ MemoryInv
  BY <1>1 DEF IInv, Live
<1>3. PICK k \in 1 .. Len(Chain(list)) + 1 : /\ cursor = At(Chain(list), k)
                                          /\ Len(Chain(built)) = k - 1
  BY <1>1, <1>2 DEF WalkInv
<1>4. /\ k + 1 \in 1 .. Len(Chain(list)) + 1 /\ cursor \in Allocated
      /\ cursor' = At(Chain(list), k + 1)
  BY <1>1, <1>2, <1>3, CursorMoves
<1>5. v \in Ints
  <2>1. element[cursor] \in Ints
    BY <1>2, <1>4 DEF Heap
  <2> DEFINE x == element[cursor]
  <2>2. x \in Int
    BY <2>1, Bounds DEF Ints
  <2> HIDE DEF x
  <2>3. x * x \in Int /\ Wrap(x * x) \in Ints
    BY <2>2, WrapIsInt
  <2>4. Wrap(x * x) \in Int
    BY <2>3, Bounds DEF Ints
  <2>5. Wrap(x * x) * x \in Int
    BY <2>2, <2>4
  <2>6. Wrap(Wrap(x * x) * x) \in Ints
    BY <2>5, WrapIsInt
  <2> QED
    BY <2>3, <2>6 DEF Square, Cube, x
<1> HIDE DEF v
<1>6. /\ Heap' /\ Chain(list)' = Chain(list) /\ Elements(list)' = Elements(list)
      /\ Used' = Used + 1 /\ Len(Chain(built)') = Len(Chain(built)) + 1
  BY <1>1, <1>2, <1>5, HeapBuilt
<1>7. FilesInv'
  BY <1>1, <1>2, FilesSame
<1>8. WalkInv'
  <2>1. Len(Chain(built)') = (k + 1) - 1
    BY <1>2, <1>3, <1>6, Counted
  <2> QED
    BY <1>1, <1>4, <1>6, <2>1 DEF WalkInv
<1>9. ReadInv' /\ PositiveInv' /\ SaveInv' /\ CrashInv'
  BY <1>1, <1>2 DEF ReadInv, PositiveInv, SaveInv, CrashInv, Live, Reading
<1>10. ListStep
  BY <1>1, <1>6 DEF ListStep, Value
<1>11. MemoryInv'
  <2> DEFINE n == Len(Chain(list))
             b == Len(Chain(built))
  <2>1. n \in Nat /\ b \in Nat /\ Used \in Nat
    BY <1>2, Counted
  <2>2. /\ lpc = "squares" => Used <= n + b
        /\ lpc = "cubes" => Used <= 2 * n + b
        /\ input = <<>>
    BY <1>1, <1>2 DEF MemoryInv, Live, Reading
  <2>3. Len(Chain(list)') = n /\ Len(Chain(built)') = b + 1
    BY <1>6
  <2> HIDE DEF n, b
  <2>4. /\ lpc' = "squares" => Used' <= n + (b + 1)
        /\ lpc' = "cubes" => Used' <= 2 * n + (b + 1)
    BY <1>1, <1>6, <2>1, <2>2
  <2> QED
    BY <1>1, <2>2, <2>3, <2>4 DEF MemoryInv, Reading
<1> QED
  BY <1>6, <1>7, <1>8, <1>9, <1>10, <1>11 DEF IInv

LEMMA MapMutStepStep ==
  ASSUME IInv, MapMutStep
  PROVE  IInv' /\ ListStep
<1>1. /\ lpc = "abs" /\ lpc' = "abs" /\ cursor # NULL
      /\ element' = [element EXCEPT ![cursor] = Abs(element[cursor])]
      /\ cursor' = succ[cursor]
      /\ UNCHANGED <<succ, list, built, input, buffer, files>>
  BY DEF MapMutStep
<1>2. Live /\ Heap /\ FilesInv /\ WalkInv /\ SaveInv /\ MemoryInv
  BY <1>1 DEF IInv, Live
<1>3. PICK k \in 1 .. Len(Chain(list)) + 1 :
        /\ cursor = At(Chain(list), k)
        /\ \A i \in 1 .. k - 1 : Positive(Elements(list)[i])
  BY <1>1, <1>2 DEF WalkInv
<1>4. /\ k \in 1 .. Len(Chain(list)) /\ cursor = Chain(list)[k]
      /\ k + 1 \in 1 .. Len(Chain(list)) + 1 /\ cursor \in Allocated
      /\ cursor' = At(Chain(list), k + 1)
  BY <1>1, <1>2, <1>3, CursorMoves
<1> DEFINE v == Abs(element[cursor])
<1>5. v \in Ints /\ Positive(v)
  <2>1. element[cursor] \in Ints
    BY <1>2, <1>4 DEF Heap
  <2> QED
    BY <2>1, AbsIsPositive
<1>6. element' = [element EXCEPT ![Chain(list)[k]] = v]
  BY <1>1, <1>4
<1> HIDE DEF v
<1>7. /\ Heap' /\ Chain(list)' = Chain(list) /\ Used' = Used
      /\ Len(Elements(list)') = Len(Elements(list)) /\ Elements(list)'[k] = v
      /\ \A i \in 1 .. Len(Chain(list)) : i # k => Elements(list)'[i] = Elements(list)[i]
  BY <1>1, <1>2, <1>4, <1>5, <1>6, HeapReplaced
<1>8. FilesInv'
  BY <1>1, <1>2, FilesSame
<1>9. WalkInv'
  <2>1. Len(Chain(list)) \in Nat
    BY <1>2, ListFacts
  <2>2. \A i \in 1 .. k : i = k \/ (i \in 1 .. k - 1 /\ i \in 1 .. Len(Chain(list)) /\ i # k)
    BY <1>4, <2>1
  <2>3. \A i \in 1 .. k : Positive(Elements(list)'[i])
    BY <1>3, <1>5, <1>7, <2>2
  <2>4. (k + 1) - 1 = k
    BY <1>4, <2>1
  <2> QED
    BY <1>1, <1>4, <1>7, <2>3, <2>4 DEF WalkInv, Positive
<1>10. ReadInv' /\ PositiveInv' /\ SaveInv' /\ MemoryInv' /\ CrashInv'
  BY <1>1, <1>2, <1>7 DEF ReadInv, PositiveInv, SaveInv, MemoryInv, CrashInv, Live, Reading
<1>11. ListStep
  <2>1. Value = Elements(list) /\ Value' = Elements(list)'
    BY <1>1 DEF Value
  <2>2. Len(Elements(list)) = Len(Chain(list))
    BY <1>2, ListFacts
  <2>3. k \in 1 .. Len(Elements(list))
    BY <1>4, <2>2
  <2> DEFINE u == Elements(list)
             w == Elements(list)'
  <2>4. Len(w) = Len(u) /\ \A i \in 1 .. Len(u) : i # k => w[i] = u[i]
    BY <1>7, <2>2
  <2>5. k \in 1 .. Len(u)
    BY <2>3
  <2> HIDE DEF u, w
  <2>6. Sequence!Change(u, w)
    BY <2>4, <2>5, Replaced
  <2> QED
    BY <2>1, <2>6 DEF ListStep, u, w
<1> QED
  BY <1>7, <1>8, <1>9, <1>10, <1>11 DEF IInv

LEMMA MapEndsStep ==
  ASSUME IInv, MapEnds
  PROVE  IInv' /\ ListStep
<1>1. /\ lpc \in {"squares", "cubes", "abs"} /\ cursor = NULL /\ cursor' = list
      /\ lpc = "squares" => lpc' = "cubes"
      /\ lpc = "cubes" => lpc' = "abs"
      /\ lpc = "abs" => lpc' = "powers"
      /\ built' = NULL /\ UNCHANGED <<memory, list, input, buffer, files>>
  BY DEF MapEnds, NextTask
<1>2. Live /\ FilesInv /\ WalkInv /\ SaveInv /\ MemoryInv
  BY <1>1 DEF IInv, Live
<1>3. /\ Heap /\ Heap' /\ Chain(list)' = Chain(list) /\ Elements(list)' = Elements(list)
      /\ Used' = Used /\ ListStep
  BY <1>1, <1>2, KeptStep
<1>9. Len(Chain(built)') = 0
  BY <1>1, <1>3, CountedAfter
<1>4. FilesInv'
  BY <1>1, <1>2, FilesSame
<1>5. Len(Chain(list)) \in Nat /\ Len(Elements(list)) = Len(Chain(list)) /\ list = At(Chain(list), 1)
  BY <1>3, ListFacts
<1>6. WalkInv'
  <2>1. 1 \in 1 .. Len(Chain(list)') + 1 /\ cursor' = At(Chain(list)', 1)
    BY <1>1, <1>3, <1>5
  <2>3. Len(Chain(built)') = 1 - 1
    BY <1>9
  <2>2. \A i \in 1 .. 1 - 1 : FALSE
    OBVIOUS
  <2> QED
    BY <1>1, <2>1, <2>2, <2>3 DEF WalkInv
<1>7. PositiveInv'
  <2>1. CASE lpc = "abs"
    <3>1. PICK k \in 1 .. Len(Chain(list)) + 1 :
            /\ cursor = At(Chain(list), k)
            /\ \A i \in 1 .. k - 1 : Positive(Elements(list)[i])
      BY <1>2, <2>1 DEF WalkInv
    <3>2. k = Len(Chain(list)) + 1
      BY <1>1, <1>3, <3>1, CursorMoves
    <3>3. k - 1 = Len(Elements(list))
      BY <1>5, <3>2
    <3> QED
      BY <1>3, <3>1, <3>3 DEF PositiveInv, Positive
  <2>2. CASE lpc # "abs"
    BY <1>1, <2>2 DEF PositiveInv
  <2> QED
    BY <2>1, <2>2
<1>8. ReadInv' /\ SaveInv' /\ CrashInv'
  BY <1>1, <1>2 DEF ReadInv, SaveInv, CrashInv, Live, Reading
<1>10. MemoryInv'
  <2> DEFINE n == Len(Chain(list))
             b == Len(Chain(built))
  <2>1. n \in Nat /\ b \in Nat /\ Used \in Nat
    BY <1>3, Counted
  <2>2. /\ lpc = "squares" => Used <= n + b
        /\ lpc = "cubes" => Used <= 2 * n + b
        /\ lpc = "abs" => Used <= 3 * n
        /\ input = <<>>
    BY <1>1, <1>2 DEF MemoryInv, Live, Reading
  <2>3. lpc \in {"squares", "cubes"} => b = n
    <3> SUFFICES ASSUME lpc \in {"squares", "cubes"} PROVE b = n
      OBVIOUS
    <3>1. PICK k \in 1 .. n + 1 : cursor = At(Chain(list), k) /\ b = k - 1
      BY <1>2 DEF WalkInv
    <3>2. k = n + 1
      BY <1>1, <1>3, <3>1, CursorMoves
    <3> HIDE DEF n, b
    <3> QED
      BY <2>1, <3>1, <3>2
  <2>4. Len(Chain(list)') = n
    BY <1>3
  <2> HIDE DEF n, b
  <2>5. /\ lpc' = "cubes" => Used' <= 2 * n + 0
        /\ lpc' = "abs" => Used' <= 3 * n
        /\ lpc' = "powers" => Used' <= 3 * n + 0
    BY <1>1, <1>3, <2>1, <2>2, <2>3
  <2>6. 0 <= PowerCount
    BY Bounds
  <2> QED
    BY <1>1, <1>9, <2>2, <2>4, <2>5, <2>6 DEF MemoryInv, Reading
<1> QED
  BY <1>3, <1>4, <1>6, <1>7, <1>8, <1>10 DEF IInv

LEMMA IterateStepStep ==
  ASSUME IInv, IterateStep
  PROVE  IInv' /\ ListStep
<1> DEFINE v == IF built = NULL THEN 1 ELSE Wrap(2 * Last(Elements(built)))
<1>1. /\ lpc = "powers" /\ lpc' = "powers" /\ AddBack(built, v, built')
      /\ Len(Chain(built)) < PowerCount
      /\ UNCHANGED <<list, input, buffer, files>>
  BY DEF IterateStep
<1>2. Live /\ Heap /\ FilesInv /\ PositiveInv /\ SaveInv /\ MemoryInv
  BY <1>1 DEF IInv, Live
<1>3. v \in Ints
  <2>1. CASE built = NULL
    BY <2>1, Bounds DEF Ints
  <2>2. CASE built # NULL
    <3> DEFINE w == Elements(built)
    <3>1. Linked(succ, Chain(built), built) /\ \A n \in Allocated : element[n] \in Ints
      BY <1>2 DEF Heap
    <3>2. w \in Seq(Ints) /\ Len(w) = Len(Chain(built))
      BY <3>1, ElementsOfList
    <3>3. Chain(built) # <<>>
      BY <2>2, <3>1, EmptyList
    <3>4. Len(Chain(built)) \in Nat /\ Len(Chain(built)) # 0
      BY <3>1, <3>3, EmptySeq DEF Linked
    <3> HIDE DEF w
    <3>5. Len(w) \in 1 .. Len(w)
      BY <3>2, <3>4
    <3>6. Last(w) \in Ints
      BY <3>2, <3>5, ElementOfSeq DEF Last
    <3>7. 2 * Last(w) \in Int
      BY <3>6, Bounds DEF Ints
    <3>8. Wrap(2 * Last(w)) \in Ints
      BY <3>7, WrapIsInt
    <3> QED
      BY <2>2, <3>8 DEF w
  <2> QED
    BY <2>1, <2>2
<1> HIDE DEF v
<1>4. /\ Heap' /\ Chain(list)' = Chain(list) /\ Elements(list)' = Elements(list)
      /\ Used' = Used + 1 /\ Len(Chain(built)') = Len(Chain(built)) + 1
  BY <1>1, <1>2, <1>3, HeapBuilt
<1>5. FilesInv'
  BY <1>1, <1>2, FilesSame
<1>6. PositiveInv'
  BY <1>1, <1>2, <1>4 DEF PositiveInv, Positive
<1>7. ReadInv' /\ WalkInv' /\ SaveInv' /\ CrashInv'
  BY <1>1, <1>2 DEF ReadInv, WalkInv, SaveInv, CrashInv, Live, Reading
<1>8. ListStep
  BY <1>1, <1>4 DEF ListStep, Value
<1>9. MemoryInv'
  <2> DEFINE n == Len(Chain(list))
             b == Len(Chain(built))
  <2>1. n \in Nat /\ b \in Nat /\ Used \in Nat
    BY <1>2, Counted
  <2>2. Used <= 3 * n + b /\ b < PowerCount /\ input = <<>>
    BY <1>1, <1>2 DEF MemoryInv, Live, Reading
  <2>3. Len(Chain(list)') = n /\ Len(Chain(built)') = b + 1
    BY <1>4
  <2> HIDE DEF n, b
  <2>4. Used' <= 3 * n + (b + 1) /\ b + 1 <= PowerCount
    BY <1>4, <2>1, <2>2, Bounds
  <2> QED
    BY <1>1, <2>2, <2>3, <2>4 DEF MemoryInv, Reading
<1> QED
  BY <1>4, <1>5, <1>6, <1>7, <1>8, <1>9 DEF IInv

LEMMA IterateEndsStep ==
  ASSUME IInv, IterateEnds
  PROVE  IInv' /\ ListStep
<1>1. /\ lpc = "powers" /\ lpc' = "menu2" /\ built' = NULL
      /\ UNCHANGED <<memory, list, input, buffer, files>>
  BY DEF IterateEnds
<1>2. Live /\ FilesInv /\ PositiveInv /\ SaveInv /\ MemoryInv
  BY <1>1 DEF IInv, Live
<1>3. /\ Heap /\ Heap' /\ Chain(list)' = Chain(list) /\ Elements(list)' = Elements(list)
      /\ Used' = Used /\ ListStep
  BY <1>1, <1>2, KeptStep
<1>4. FilesInv'
  BY <1>1, <1>2, FilesSame
<1>5. PositiveInv'
  BY <1>1, <1>2, <1>3 DEF PositiveInv, Positive
<1>6. ReadInv' /\ WalkInv' /\ SaveInv' /\ CrashInv'
  BY <1>1, <1>2 DEF ReadInv, WalkInv, SaveInv, CrashInv, Live, Reading
<1>7. MemoryInv'
  <2> DEFINE n == Len(Chain(list))
             b == Len(Chain(built))
  <2>1. n \in Nat /\ b \in Nat /\ Used \in Nat
    BY <1>3, Counted
  <2>2. Used <= 3 * n + b /\ b <= PowerCount /\ input = <<>>
    BY <1>1, <1>2 DEF MemoryInv, Live, Reading
  <2>3. Len(Chain(list)') = n
    BY <1>3
  <2> HIDE DEF n, b
  <2>4. Used' <= 3 * n + PowerCount
    BY <1>3, <2>1, <2>2, Bounds
  <2> QED
    BY <1>1, <2>2, <2>3, <2>4 DEF MemoryInv, Reading
<1> QED
  BY <1>3, <1>4, <1>5, <1>6, <1>7 DEF IInv
(* Emptying a file and saving to it keeps the other one.                   *)
LEMMA EmptiedPrefix ==
  ASSUME NEW w \in Contents
  PROVE  <<>> \in Contents /\ <<>> \in Seq(Ints) /\ Len(<<>>) = 0 /\ IsPrefix(<<>>, w)
<1>1. <<>> \in Contents /\ <<>> \in Seq(Ints) /\ Len(<<>>) = 0
  BY DEF Contents
<1>2. Len(w) \in Nat
  BY DEF Contents
<1> DEFINE s == <<>>
<1>3. s \in Contents /\ Len(s) = 0
  BY <1>1
<1> HIDE DEF s
<1>4. IsPrefix(s, w)
  <2>1. Len(s) <= Len(w) /\ 1 .. Len(s) = {}
    BY <1>2, <1>3
  <2> QED
    BY <1>3, <2>1, PointwisePrefix DEF Contents
<1> QED
  BY <1>1, <1>4 DEF s

LEMMA SaveTextStep ==
  ASSUME IInv, SaveText
  PROVE  IInv' /\ ListStep
<1>1. /\ lpc = "menu2" /\ lpc' = "save" /\ text' = <<>> /\ cut' = <<>>
      /\ kept' = [kept EXCEPT !.text = Elements(list)]
      /\ unfinished' = unfinished \cup {"text"} /\ cursor' = list
      /\ UNCHANGED <<memory, list, built, input, buffer, binary>>
  BY DEF SaveText
<1>2. Live /\ FilesInv /\ PositiveInv /\ SaveInv /\ MemoryInv
  BY <1>1 DEF IInv, Live
<1>3. /\ Heap /\ Heap' /\ Chain(list)' = Chain(list) /\ Elements(list)' = Elements(list)
      /\ Used' = Used /\ ListStep
  BY <1>1, <1>2, KeptStep
<1>4. /\ Elements(list) \in Contents /\ Len(Chain(list)) \in Nat
      /\ list = At(Chain(list), 1)
  BY <1>3, ListFacts
<1>5. text' \in Contents /\ text' \in Seq(Ints) /\ Len(text') = 0 /\ IsPrefix(text', Elements(list))
  BY <1>1, <1>4, EmptiedPrefix
<1>6. /\ kept' \in [text : Contents \cup {NoFile}, binary : Contents \cup {NoFile}]
      /\ kept'["text"] = Elements(list) /\ kept'["binary"] = kept["binary"]
  <2>1. kept \in [text : Contents \cup {NoFile}, binary : Contents \cup {NoFile}]
    BY <1>2 DEF FilesInv
  <2> QED
    BY <1>1, <1>4, <2>1
<1>7. FilesInv'
  <2>1. FilesKept'
    BY <1>1, <1>2, <1>5, <1>6 DEF FilesInv, FilesKept, TextKept, BinaryKept, Begins
  <2> QED
    BY <1>1, <1>2, <1>5, <1>6, <2>1 DEF FilesInv
<1>8. buffer' = <<>> /\ buffer' \in Seq(Ints) /\ Len(buffer') = 0
  BY <1>1, <1>2 DEF SaveInv
<1>9. WalkInv'
  <2>1. 1 \in 1 .. Len(Chain(list)') + 1 /\ cursor' = At(Chain(list)', 1)
    BY <1>1, <1>3, <1>4
  <2>2. Halves(text, buffer, 1 - 1)'
    BY <1>5, <1>8 DEF Halves
  <2> QED
    BY <1>1, <2>1, <2>2 DEF WalkInv
<1>10. SaveInv'
  BY <1>1, <1>3, <1>5, <1>6, <1>8 DEF SaveInv
<1>11. ReadInv' /\ PositiveInv' /\ MemoryInv' /\ CrashInv'
  BY <1>1, <1>2, <1>3 DEF ReadInv, PositiveInv, Positive, MemoryInv, CrashInv, Live, Reading
<1> QED
  BY <1>3, <1>7, <1>9, <1>10, <1>11 DEF IInv

LEMMA SaveNumberStep ==
  ASSUME IInv, SaveNumber
  PROVE  IInv' /\ ListStep
<1>1. /\ lpc = "save" /\ lpc' = "save" /\ cursor # NULL
      /\ buffer' = Append(buffer, element[cursor]) /\ cursor' = succ[cursor]
      /\ UNCHANGED <<memory, list, built, input, files>>
  BY DEF SaveNumber
<1>2. Live /\ FilesInv /\ WalkInv /\ PositiveInv /\ SaveInv /\ MemoryInv
  BY <1>1 DEF IInv, Live
<1>3. /\ Heap /\ Heap' /\ Chain(list)' = Chain(list) /\ Elements(list)' = Elements(list)
      /\ Used' = Used /\ ListStep
  BY <1>1, <1>2, KeptStep
<1>4. PICK k \in 1 .. Len(Chain(list)) + 1 : cursor = At(Chain(list), k) /\ Halves(text, buffer, k - 1)
  BY <1>1, <1>2 DEF WalkInv
<1>5. /\ k \in 1 .. Len(Chain(list)) /\ cursor = Chain(list)[k]
      /\ k + 1 \in 1 .. Len(Chain(list)) + 1 /\ cursor' = At(Chain(list), k + 1)
  BY <1>1, <1>3, <1>4, CursorMoves
<1>6. /\ element[cursor] = Elements(list)[k] /\ Elements(list)[k] \in Ints
      /\ Len(Chain(list)) \in Nat
  BY <1>3, <1>5, ListFacts
<1>7. FilesInv' /\ text' = text /\ kept' = kept /\ unfinished' = unfinished
  BY <1>1, <1>2, FilesSame DEF files
<1> DEFINE b2 == Append(buffer, element[cursor])
           b == Len(buffer)
           t == Len(text)
<1>8. text \in Seq(Ints) /\ buffer \in Seq(Ints) /\ b \in Nat /\ t \in Nat
  BY <1>1, <1>2 DEF SaveInv
<1>9. /\ b2 \in Seq(Ints) /\ Len(b2) = b + 1 /\ b2[b + 1] = Elements(list)[k]
      /\ \A i \in 1 .. b : b2[i] = buffer[i]
  BY <1>6, <1>8, AppendProperties
<1>10. buffer' = b2
  BY <1>1
<1>11. /\ t + b = k - 1
       /\ \A i \in 1 .. t : text[i] = Elements(list)[i]
       /\ \A i \in 1 .. b : buffer[i] = Elements(list)[t + i]
  BY <1>4 DEF Halves
<1> HIDE DEF b2, b, t
<1>12. t + (b + 1) = k
  <2>1. k \in Int
    BY <1>5, <1>6
  <2>2. t + b = k - 1
    BY <1>11
  <2> QED
    BY <1>8, <2>1, <2>2
<1>13. ASSUME NEW i \in 1 .. b + 1 PROVE b2[i] = Elements(list)[t + i]
  <2>1. CASE i \in 1 .. b
    BY <1>9, <1>11, <2>1
  <2>2. CASE i = b + 1
    BY <1>9, <1>12, <2>2
  <2> QED
    BY <1>8, <2>1, <2>2
<1>14. Halves(text, buffer, k)'
  <2>1. Len(text') = t /\ Len(buffer') = b + 1
    BY <1>7, <1>9, <1>10 DEF t
  <2> QED
    BY <1>3, <1>7, <1>10, <1>11, <1>12, <1>13, <2>1 DEF Halves
<1>15. WalkInv'
  <2>1. (k + 1) - 1 = k
    BY <1>5, <1>6
  <2> QED
    BY <1>1, <1>3, <1>5, <1>14, <2>1 DEF WalkInv
<1>16. SaveInv'
  BY <1>1, <1>2, <1>3, <1>7, <1>9, <1>10 DEF SaveInv
<1>17. ReadInv' /\ PositiveInv' /\ MemoryInv' /\ CrashInv'
  BY <1>1, <1>2, <1>3 DEF ReadInv, PositiveInv, Positive, MemoryInv, CrashInv, Live, Reading
<1> QED
  BY <1>3, <1>7, <1>15, <1>16, <1>17 DEF IInv

(* Two parts of the list, one after the other, are a part of it.           *)
LEMMA HalvesJoin ==
  ASSUME Heap, NEW x \in Seq(Ints), NEW y \in Seq(Ints),
         NEW n \in Nat, n <= Len(Chain(list)), Halves(x, y, n)
  PROVE  /\ x \o y \in Seq(Ints) /\ x \o y \in Contents /\ Len(x \o y) = n
         /\ \A i \in 1 .. n : (x \o y)[i] = Elements(list)[i]
         /\ IsPrefix(x \o y, Elements(list))
         /\ n = Len(Chain(list)) => x \o y = Elements(list)
<1> DEFINE w == x \o y
           b == Len(y)
           t == Len(x)
           E == Elements(list)
<1>1. t \in Nat /\ b \in Nat
  OBVIOUS
<1>2. /\ w \in Seq(Ints) /\ Len(w) = t + b
      /\ \A i \in 1 .. t + b : w[i] = IF i <= t THEN x[i] ELSE y[i - t]
  BY ConcatProperties
<1>3. /\ t + b = n
      /\ \A i \in 1 .. t : x[i] = E[i]
      /\ \A i \in 1 .. b : y[i] = E[t + i]
  BY DEF Halves
<1>4. E \in Seq(Ints) /\ Len(E) = Len(Chain(list)) /\ Len(E) \in Nat
  BY ListFacts
<1> HIDE DEF w, b, t, E
<1>5. ASSUME NEW i \in 1 .. n PROVE w[i] = E[i]
  <2>1. CASE i <= t
    <3>1. i \in 1 .. t /\ i \in 1 .. t + b
      BY <1>1, <1>3, <2>1
    <3> QED
      BY <1>2, <1>3, <2>1, <3>1
  <2>2. CASE ~(i <= t)
    <3>1. i - t \in 1 .. b /\ i \in 1 .. t + b /\ t + (i - t) = i
      BY <1>1, <1>3, <2>2
    <3>2. w[i] = y[i - t]
      BY <1>2, <2>2, <3>1
    <3>3. y[i - t] = E[t + (i - t)]
      BY <1>3, <3>1
    <3> QED
      BY <3>1, <3>2, <3>3
  <2> QED
    BY <2>1, <2>2
<1>6. Len(w) = n /\ Len(w) <= Len(E)
  BY <1>2, <1>3, <1>4
<1>7. IsPrefix(w, E)
  BY <1>2, <1>4, <1>5, <1>6, PointwisePrefix
<1>8. w \in Contents
  BY <1>2, SeqMonotonic DEF Contents
<1>9. n = Len(Chain(list)) => w = E
  BY <1>2, <1>4, <1>5, <1>6, SeqEqual
<1> QED
  BY <1>2, <1>5, <1>6, <1>7, <1>8, <1>9 DEF w, E

(* A part of a number is one, or a sign.                                   *)
LEMMA CutsAreRead ==
  ASSUME NEW v \in Ints, NEW c \in Cuts(v)
  PROVE  c \in Ints \cup {Sign}
<1>1. v \in Int /\ MinInt <= v /\ v <= MaxInt
  BY Bounds DEF Ints
<1>2. CASE v < 0
  <2>1. c = Sign \/ \E p \in 1 .. -v : c = -p
    BY <1>2 DEF Cuts, Parts
  <2> QED
    BY <1>1, <1>2, <2>1, Bounds DEF Ints
<1>3. CASE ~(v < 0)
  <2>1. c \in 1 .. v
    BY <1>3 DEF Cuts, Parts
  <2> QED
    BY <1>1, <2>1, Bounds DEF Ints
<1> QED
  BY <1>2, <1>3

(* stdio writes what it has, the last number whole or cut.                 *)
LEMMA FlushStep ==
  ASSUME IInv, Flush
  PROVE  IInv' /\ ListStep
<1>1. /\ lpc = "save" /\ lpc' = "save" /\ buffer # <<>>
      /\ \/ text' = text \o buffer /\ cut' = <<>> /\ buffer' = <<>>
         \/ /\ \E c \in Cuts(Last(buffer)) : cut' = <<c>>
            /\ text' = text \o Front(buffer) /\ buffer' = <<Last(buffer)>>
      /\ UNCHANGED <<memory, list, cursor, built, input, binary, kept, unfinished>>
  BY DEF Flush, locals
<1>2. Live /\ FilesInv /\ WalkInv /\ PositiveInv /\ SaveInv /\ MemoryInv
  BY <1>1 DEF IInv, Live
<1>3. /\ Heap /\ Heap' /\ Chain(list)' = Chain(list) /\ Elements(list)' = Elements(list)
      /\ Used' = Used /\ ListStep
  BY <1>1, <1>2, KeptStep
<1>4. PICK k \in 1 .. Len(Chain(list)) + 1 :
        cursor = At(Chain(list), k) /\ Halves(text, buffer, k - 1)
  BY <1>1, <1>2 DEF WalkInv
<1>5. /\ text \in Seq(Ints) /\ buffer \in Seq(Ints)
      /\ kept.text = Elements(list) /\ "text" \in unfinished
  BY <1>1, <1>2 DEF SaveInv
<1> DEFINE n == k - 1
           E == Elements(list)
<1>6. /\ n \in Nat /\ n <= Len(Chain(list)) /\ Len(Chain(list)) \in Nat
      /\ E \in Seq(Ints) /\ Len(E) = Len(Chain(list))
  BY <1>3, ListFacts
<1>7. Halves(text, buffer, n)
  BY <1>4
<1> HIDE DEF n
<1>8. /\ text' \in Seq(Ints) /\ text' \in Contents /\ IsPrefix(text', E)
      /\ buffer' \in Seq(Ints) /\ Len(text') + Len(buffer') = n
      /\ \A i \in 1 .. Len(text') : text'[i] = E[i]
      /\ \A i \in 1 .. Len(buffer') : buffer'[i] = E[Len(text') + i]
      /\ cut' = <<>> \/ \E c \in Cuts(E[Len(text') + 1]) : cut' = <<c>> /\ Len(text') < Len(E)
  <2>1. CASE text' = text \o buffer /\ cut' = <<>> /\ buffer' = <<>>
    <3>1. /\ text' \in Seq(Ints) /\ text' \in Contents /\ IsPrefix(text', E)
          /\ Len(text') = n /\ \A i \in 1 .. n : text'[i] = E[i]
      BY <1>3, <1>5, <1>6, <1>7, <2>1, HalvesJoin
    <3>2. buffer' \in Seq(Ints) /\ Len(buffer') = 0 /\ n + 0 = n /\ 1 .. 0 = {}
      BY <1>6, <2>1
    <3> QED
      BY <2>1, <3>1, <3>2
  <2>2. CASE /\ \E c \in Cuts(Last(buffer)) : cut' = <<c>>
             /\ text' = text \o Front(buffer) /\ buffer' = <<Last(buffer)>>
    <3> DEFINE m == Len(buffer)
               y == Front(buffer)
               x == Last(buffer)
    <3>1. m \in Nat /\ m # 0 /\ Len(text) \in Nat
      BY <1>1, <1>5, EmptySeq
    <3>2. m \in 1 .. m /\ m - 1 \in Nat /\ m - 1 <= m /\ x = buffer[m]
      BY <3>1 DEF Last
    <3>3. x \in Ints
      BY <1>5, <3>2, ElementOfSeq
    <3>4. y \in Seq(Ints) /\ Len(y) = m - 1 /\ \A i \in 1 .. m - 1 : y[i] = buffer[i]
      <4>1. \A i \in 1 .. m - 1 : i \in 1 .. m /\ 1 + i - 1 = i
        BY <3>1
      <4>2. \A i \in 1 .. m - 1 : buffer[i] \in Ints
        BY <1>5, <4>1, ElementOfSeq
      <4>3. y = SubSeq(buffer, 1, m - 1)
        BY DEF Front
      <4>4. (IF 1 <= m - 1 THEN m - 1 - 1 + 1 ELSE 0) = m - 1 /\ m - 1 - 1 + 1 = m - 1
        <5> HIDE DEF m
        <5> QED
          BY <3>1
      <4> HIDE DEF m, y
      <4>5. /\ y \in Seq(Ints) /\ Len(y) = IF 1 <= m - 1 THEN m - 1 - 1 + 1 ELSE 0
            /\ \A i \in 1 .. m - 1 - 1 + 1 : y[i] = buffer[1 + i - 1]
        BY <3>2, <4>2, <4>3, SubSeqProperties
      <4> QED
        BY <4>1, <4>4, <4>5
    <3>5. /\ Len(text) + m = n /\ \A i \in 1 .. Len(text) : text[i] = E[i]
          /\ \A i \in 1 .. m : buffer[i] = E[Len(text) + i]
      BY <1>7 DEF Halves
    <3> HIDE DEF m, y, x
    <3>6. n - 1 \in Nat /\ n - 1 < Len(E) /\ n - 1 <= Len(Chain(list)) /\ Len(text) + (m - 1) = n - 1
      BY <1>6, <3>1, <3>5
    <3>7. Halves(text, y, n - 1)
      <4>1. \A i \in 1 .. m - 1 : i \in 1 .. m
        BY <3>1
      <4> QED
        BY <3>4, <3>5, <3>6, <4>1 DEF Halves
    <3>8. /\ text' \in Seq(Ints) /\ text' \in Contents /\ IsPrefix(text', E)
          /\ Len(text') = n - 1 /\ \A i \in 1 .. n - 1 : text'[i] = E[i]
      <4> DEFINE w == text \o y
      <4>1. /\ w \in Seq(Ints) /\ w \in Contents /\ IsPrefix(w, E)
            /\ Len(w) = n - 1 /\ \A i \in 1 .. n - 1 : w[i] = E[i]
        BY <1>3, <1>5, <3>4, <3>6, <3>7, HalvesJoin
      <4>2. text' = w
        BY <2>2 DEF y
      <4> HIDE DEF w
      <4> QED
        BY <4>1, <4>2
    <3>9. x = E[n] /\ (n - 1) + 1 = n
      BY <1>6, <3>2, <3>5
    <3>10. buffer' = <<x>> /\ \E c \in Cuts(x) : cut' = <<c>>
      BY <2>2 DEF x
    <3>11. /\ buffer' \in Seq(Ints) /\ Len(buffer') = 1 /\ buffer'[1] = x
           /\ \A i \in 1 .. Len(buffer') : i = 1
      BY <3>3, <3>10
    <3> HIDE DEF E
    <3> QED
      BY <3>6, <3>8, <3>9, <3>10, <3>11
  <2> QED
    BY <1>1, <2>1, <2>2
<1>9. FilesInv'
  <2>1. CASE cut' = <<>>
    <3>1. FilesKept'
      BY <1>1, <1>2, <1>5, <1>8, <2>1 DEF FilesInv, FilesKept, TextKept, BinaryKept, Begins
    <3> QED
      BY <1>1, <1>2, <1>8, <2>1, <3>1 DEF FilesInv
  <2>2. CASE cut' # <<>>
    <3>1. PICK c \in Cuts(E[Len(text') + 1]) : cut' = <<c>> /\ Len(text') < Len(E)
      BY <1>8, <2>2
    <3>2. E[Len(text') + 1] \in Ints
      <4>1. Len(text') + 1 \in 1 .. Len(E)
        BY <1>6, <1>8, <3>1
      <4> QED
        BY <1>6, <4>1, ElementOfSeq
    <3>3. cut' \in Contents /\ Head(cut') = c
      <4>1. c \in Ints \cup {Sign}
        BY <3>2, CutsAreRead
      <4> QED
        BY <3>1, <4>1 DEF Contents
    <3>4. FilesKept'
      BY <1>1, <1>2, <1>5, <1>8, <3>1, <3>3
         DEF FilesInv, FilesKept, TextKept, BinaryKept, Begins, CutNext
    <3> QED
      BY <1>1, <1>2, <1>8, <3>3, <3>4 DEF FilesInv
  <2> QED
    BY <2>1, <2>2
<1>10. WalkInv'
  <2>1. Halves(text, buffer, n)'
    BY <1>3, <1>8 DEF Halves
  <2> QED
    BY <1>1, <1>3, <1>4, <2>1 DEF WalkInv, n
<1>11. SaveInv'
  BY <1>1, <1>3, <1>5, <1>8 DEF SaveInv
<1>12. ReadInv' /\ PositiveInv' /\ MemoryInv' /\ CrashInv'
  BY <1>1, <1>2, <1>3 DEF ReadInv, PositiveInv, Positive, MemoryInv, CrashInv, Live, Reading
<1> QED
  BY <1>3, <1>9, <1>10, <1>11, <1>12 DEF IInv

LEMMA CloseTextStep ==
  ASSUME IInv, CloseText
  PROVE  IInv' /\ ListStep
<1>1. /\ lpc = "save" /\ cursor = NULL /\ lpc' = "free" /\ text' = text \o buffer
      /\ cut' = <<>>
      /\ unfinished' = unfinished \ {"text"}
      /\ UNCHANGED <<binary, kept>>
  BY DEF CloseText
<1>2. Live /\ FilesInv /\ WalkInv /\ SaveInv /\ Heap
  BY <1>1 DEF IInv, Live
<1>3. PICK k \in 1 .. Len(Chain(list)) + 1 :
        cursor = At(Chain(list), k) /\ Halves(text, buffer, k - 1)
  BY <1>1, <1>2 DEF WalkInv
<1>4. /\ text \in Seq(Ints) /\ buffer \in Seq(Ints) /\ kept.text = Elements(list)
  BY <1>1, <1>2 DEF SaveInv
<1>5. k = Len(Chain(list)) + 1
  BY <1>1, <1>2, <1>3, CursorMoves
<1>6. /\ Len(Chain(list)) \in Nat /\ Len(Chain(list)) <= Len(Chain(list))
      /\ Halves(text, buffer, Len(Chain(list)))
  <2>1. Len(Chain(list)) \in Nat
    BY <1>2, ListFacts
  <2>2. k - 1 = Len(Chain(list))
    BY <1>5, <2>1
  <2> QED
    BY <1>3, <2>1, <2>2
<1> DEFINE w == text \o buffer
<1>7. w \in Contents /\ w = Elements(list)
  BY <1>2, <1>4, <1>6, HalvesJoin
<1>8. text' = w
  BY <1>1
<1> HIDE DEF w
<1>9. FilesInv'
  <2>1. FilesKept'
    BY <1>1, <1>2, <1>4, <1>7, <1>8 DEF FilesInv, FilesKept, TextKept, BinaryKept, Begins
  <2> QED
    BY <1>1, <1>2, <1>7, <1>8, <2>1 DEF FilesInv
<1>10. /\ ReadInv' /\ WalkInv' /\ PositiveInv' /\ SaveInv' /\ MemoryInv' /\ CrashInv' /\ ~Live'
  BY <1>1 DEF ReadInv, WalkInv, PositiveInv, SaveInv, MemoryInv, CrashInv, Live, Reading
<1>11. ListStep
  BY <1>1 DEF ListStep, Value, Sequence!Change, Sequence!Empty
<1> QED
  BY <1>9, <1>10, <1>11 DEF IInv

LEMMA OpenToSerializeStep ==
  ASSUME IInv, OpenToSerialize
  PROVE  IInv' /\ ListStep
<1>1. /\ lpc = "menu2" /\ lpc' = "serialize" /\ binary' = <<>>
      /\ kept' = [kept EXCEPT !.binary = Elements(list)]
      /\ unfinished' = unfinished \cup {"binary"}
      /\ UNCHANGED <<memory, list, built, input, buffer, text, cut>>
  BY DEF OpenToSerialize, locals
<1>2. Live /\ FilesInv /\ PositiveInv /\ SaveInv /\ MemoryInv
  BY <1>1 DEF IInv, Live
<1>3. /\ Heap /\ Heap' /\ Chain(list)' = Chain(list) /\ Elements(list)' = Elements(list)
      /\ Used' = Used /\ ListStep
  BY <1>1, <1>2, KeptStep
<1>4. Elements(list) \in Contents
  BY <1>3, ListFacts
<1>5. binary' \in Seq(Ints) /\ Len(binary') = 0 /\ IsPrefix(binary', Elements(list))
  BY <1>1, <1>4, EmptiedPrefix
<1>6. /\ kept' \in [text : Contents \cup {NoFile}, binary : Contents \cup {NoFile}]
      /\ kept'["binary"] = Elements(list) /\ kept'["text"] = kept["text"]
  <2>1. kept \in [text : Contents \cup {NoFile}, binary : Contents \cup {NoFile}]
    BY <1>2 DEF FilesInv
  <2> QED
    BY <1>1, <1>4, <2>1
<1>7. FilesInv'
  <2>1. FilesKept'
    BY <1>1, <1>2, <1>5, <1>6 DEF FilesInv, FilesKept, TextKept, BinaryKept, Begins, CutNext
  <2> QED
    BY <1>1, <1>2, <1>5, <1>6, <2>1 DEF FilesInv
<1>8. SaveInv'
  BY <1>1, <1>2, <1>3, <1>5, <1>6 DEF SaveInv, Live
<1>9. ReadInv' /\ WalkInv' /\ PositiveInv' /\ MemoryInv' /\ CrashInv'
  BY <1>1, <1>2, <1>3
     DEF ReadInv, WalkInv, PositiveInv, Positive, MemoryInv, CrashInv, Live, Reading
<1> QED
  BY <1>3, <1>7, <1>8, <1>9 DEF IInv

(* fwrite writes the next blocks.                                          *)
LEMMA SerializeBlockStep ==
  ASSUME IInv, SerializeBlock
  PROVE  IInv' /\ ListStep
<1>1. /\ lpc = "serialize" /\ lpc' = "serialize"
      /\ \E n \in Len(binary) + 1 .. Len(Elements(list)) :
           binary' = SubSeq(Elements(list), 1, n)
      /\ UNCHANGED <<memory, list, built, input, buffer, text, cut, kept, unfinished>>
  BY DEF SerializeBlock, locals
<1>2. Live /\ FilesInv /\ PositiveInv /\ SaveInv /\ MemoryInv
  BY <1>1 DEF IInv, Live
<1>3. /\ Heap /\ Heap' /\ Chain(list)' = Chain(list) /\ Elements(list)' = Elements(list)
      /\ Used' = Used /\ ListStep
  BY <1>1, <1>2, KeptStep
<1>4. kept.binary = Elements(list) /\ "binary" \in unfinished /\ binary \in Seq(Ints)
  BY <1>1, <1>2 DEF SaveInv
<1>5. binary' \in Seq(Ints) /\ IsPrefix(binary', Elements(list))
  <2> DEFINE E == Elements(list)
  <2>1. PICK n \in Len(binary) + 1 .. Len(E) : binary' = SubSeq(E, 1, n)
    BY <1>1
  <2>2. E \in Seq(Ints) /\ Len(E) \in Nat /\ Len(binary) \in Nat
    BY <1>3, <1>4, ListFacts
  <2> HIDE DEF E
  <2> DEFINE w == SubSeq(E, 1, n)
  <2>3. n \in Nat /\ 1 <= n /\ n <= Len(E) /\ n - 1 + 1 = n
    BY <2>1, <2>2
  <2>4. \A i \in 1 .. n : i \in 1 .. Len(E) /\ 1 + i - 1 = i
    BY <2>2, <2>3
  <2>5. \A i \in 1 .. n : E[i] \in Ints
    BY <2>2, <2>4, ElementOfSeq
  <2>6. /\ w \in Seq(Ints) /\ Len(w) = IF 1 <= n THEN n - 1 + 1 ELSE 0
        /\ \A i \in 1 .. n - 1 + 1 : w[i] = E[1 + i - 1]
    BY <2>3, <2>5, SubSeqProperties
  <2> HIDE DEF w
  <2>7. Len(w) = n /\ \A i \in 1 .. Len(w) : w[i] = E[i]
    BY <2>3, <2>4, <2>6
  <2>8. IsPrefix(w, E)
    BY <2>2, <2>3, <2>6, <2>7, PointwisePrefix
  <2> QED
    BY <2>1, <2>6, <2>8 DEF w, E
<1>6. FilesInv'
  <2>1. FilesKept'
    BY <1>1, <1>2, <1>4, <1>5 DEF FilesInv, FilesKept, TextKept, BinaryKept, Begins, CutNext
  <2> QED
    BY <1>1, <1>2, <1>5, <2>1 DEF FilesInv
<1>7. SaveInv'
  BY <1>1, <1>2, <1>3, <1>4, <1>5 DEF SaveInv, Live
<1>8. ReadInv' /\ WalkInv' /\ PositiveInv' /\ MemoryInv' /\ CrashInv'
  BY <1>1, <1>2, <1>3
     DEF ReadInv, WalkInv, PositiveInv, Positive, MemoryInv, CrashInv, Live, Reading
<1> QED
  BY <1>3, <1>6, <1>7, <1>8 DEF IInv

LEMMA CloseBinaryStep ==
  ASSUME IInv, CloseBinary
  PROVE  IInv' /\ ListStep
<1>1. /\ lpc = "serialize" /\ lpc' = "free" /\ binary' = Elements(list)
      /\ unfinished' = unfinished \ {"binary"}
      /\ UNCHANGED <<text, cut, kept>>
  BY DEF CloseBinary
<1>2. Live /\ FilesInv /\ SaveInv /\ Heap
  BY <1>1 DEF IInv, Live
<1>3. kept.binary = Elements(list)
  BY <1>1, <1>2 DEF SaveInv
<1>4. Elements(list) \in Seq(Ints)
  BY <1>2, ListFacts
<1>5. FilesInv'
  <2>1. FilesKept'
    BY <1>1, <1>2, <1>3 DEF FilesInv, FilesKept, TextKept, BinaryKept, Begins, CutNext
  <2> QED
    BY <1>1, <1>2, <1>4, <2>1 DEF FilesInv
<1>6. /\ ReadInv' /\ WalkInv' /\ PositiveInv' /\ SaveInv' /\ MemoryInv' /\ CrashInv' /\ ~Live'
  BY <1>1 DEF ReadInv, WalkInv, PositiveInv, SaveInv, MemoryInv, CrashInv, Live, Reading
<1>7. ListStep
  BY <1>1 DEF ListStep, Value, Sequence!Change, Sequence!Empty
<1> QED
  BY <1>5, <1>6, <1>7 DEF IInv

(* Nothing is saved, and the list is freed.                                *)
LEMMA FreeStep ==
  ASSUME IInv, SaveNothing \/ FreeNode \/ FreeEnds
  PROVE  IInv' /\ ListStep
<1>1. lpc' \in {"free", "end"} /\ UNCHANGED files
  BY DEF SaveNothing, FreeNode, FreeEnds
<1>2. FilesInv'
  BY <1>1, FilesSame DEF IInv
<1>3. /\ ReadInv' /\ WalkInv' /\ PositiveInv' /\ SaveInv' /\ MemoryInv' /\ CrashInv' /\ ~Live'
  BY <1>1 DEF ReadInv, WalkInv, PositiveInv, SaveInv, MemoryInv, CrashInv, Live, Reading
<1>4. ListStep
  BY <1>1 DEF ListStep, Value, Sequence!Change, Sequence!Empty
<1> QED
  BY <1>2, <1>3, <1>4 DEF IInv

(* The heap of a program that begins is empty.                             *)
LEMMA EmptyHeap ==
  ASSUME element = <<>>, succ = <<>>, list = NULL, built = NULL
  PROVE  /\ Heap /\ Used = 0 /\ Chain(list) = <<>> /\ Elements(list) = <<>>
<1>1. DOMAIN succ = {} /\ DOMAIN element = {} /\ Allocated = {}
  BY DEF Allocated
<1>2. Linked(succ, <<>>, list) /\ Linked(succ, <<>>, built)
  BY EmptyList
<1>3. Chain(list) = <<>> /\ Chain(built) = <<>>
  BY <1>2, ChainIsLinked
<1>4. Elements(list) = <<>>
  BY <1>3 DEF Elements
<1>5. Len(<<>>) = 0 /\ 1 .. 0 = {}
  OBVIOUS
<1>6. Heap
  BY <1>1, <1>2, <1>3, <1>5 DEF Heap
<1>7. Used = 0
  BY <1>1, FS_EmptySet DEF Used
<1> QED
  BY <1>3, <1>4, <1>6, <1>7

LEMMA HeapIsEmpty ==
  (element = <<>> /\ succ = <<>> /\ list = NULL /\ built = NULL)
    => Heap /\ Used = 0 /\ Chain(list) = <<>> /\ Elements(list) = <<>>
BY EmptyHeap

LEMMA HeapIsEmptied ==
  (element = <<>> /\ succ = <<>> /\ list = NULL /\ built = NULL)'
    => (Heap /\ Used = 0 /\ Chain(list) = <<>> /\ Elements(list) = <<>>)'
BY HeapIsEmpty, PTL

LEMMA RestartStep ==
  ASSUME IInv, Restart
  PROVE  IInv' /\ ListStep
<1>1. /\ lpc \in {"end", "crashed"} /\ lpc' = "menu"
      /\ element' = <<>> /\ succ' = <<>>
      /\ list' = NULL /\ cursor' = NULL /\ built' = NULL /\ e' = Junk
      /\ input' = <<>> /\ buffer' = <<>> /\ UNCHANGED files
  BY DEF Restart
<1>2. (Heap /\ Used = 0 /\ Chain(list) = <<>> /\ Elements(list) = <<>>)'
  BY <1>1, HeapIsEmptied
<1>3. FilesInv'
  BY <1>1, FilesSame DEF IInv
<1>4. ReadInv'
  <2>1. input' \in Contents
    BY <1>1 DEF Contents
  <2> QED
    BY <1>1, <1>2, <2>1 DEF ReadInv, LoadInv, DeserializeInv
<1>5. WalkInv' /\ PositiveInv' /\ SaveInv' /\ CrashInv'
  BY <1>1 DEF WalkInv, PositiveInv, SaveInv, CrashInv
<1>6. ListStep
  <2>1. Value' = <<>>
    BY <1>1, <1>2 DEF Value
  <2> QED
    BY <2>1 DEF ListStep, Sequence!Change, Sequence!Empty
<1>7. MemoryInv'
  <2>1. Len(Chain(list)') = 0 /\ Used' = 0
    BY <1>2
  <2> QED
    BY <1>1, <2>1 DEF MemoryInv, Reading
<1> QED
  BY <1>2, <1>3, <1>4, <1>5, <1>6, <1>7 DEF IInv

LEMMA StepStep ==
  ASSUME IInv, [Next]_vars
  PROVE  IInv' /\ ListStep
<1>1. CASE UNCHANGED vars
  <2>1. UNCHANGED <<lpc, memory, list, cursor, built, e, input, buffer, files>>
    BY <1>1 DEF vars, locals
  <2>2. Value' = Value
    <3>1. Elements(list)' = Elements(list)
      BY <2>1 DEF Elements, Chain, memory
    <3> QED
      BY <2>1, <3>1 DEF Value
  <2>3. IInv'
    <3>1. FilesInv'
      BY <2>1, FilesSame DEF IInv
    <3>2. CASE Live
      <4>1. /\ Heap' /\ Chain(list)' = Chain(list) /\ Elements(list)' = Elements(list)
            /\ Used' = Used /\ Chain(built)' = Chain(built)
        BY <2>1, <3>2, KeptStep
      <4>2. /\ text' = text /\ binary' = binary /\ kept' = kept /\ unfinished' = unfinished
            /\ TextRead' = TextRead
        BY <2>1 DEF files, TextRead
      <4>3. ReadInv'
        <5>1. ReadInv /\ (TextTaken => TextTaken')
          BY <2>1, <4>1, <4>2 DEF IInv, TextTaken
        <5>2. lpc' = lpc /\ input' = input /\ cursor' = cursor /\ e' = e /\ list' = list
          BY <2>1
        <5>3. (lpc \in Reading => LoadInv') /\ (lpc \in Reading => DeserializeInv')
          BY <4>1, <4>2, <5>1, <5>2 DEF ReadInv, LoadInv, DeserializeInv
        <5> QED
          BY <5>1, <5>2, <5>3 DEF ReadInv
      <4>4. WalkInv' /\ PositiveInv'
        BY <2>1, <4>1, <4>2 DEF IInv, WalkInv, PositiveInv, Positive, Halves
      <4>5. SaveInv' /\ MemoryInv' /\ CrashInv'
        BY <2>1, <3>2, <4>1, <4>2 DEF IInv, SaveInv, MemoryInv, CrashInv, Live
      <4> QED
        BY <3>1, <4>1, <4>3, <4>4, <4>5 DEF IInv
    <3>3. CASE ~Live
      <4>1. /\ ReadInv' /\ WalkInv' /\ PositiveInv' /\ SaveInv' /\ ~Live'
            /\ Chain(list)' = Chain(list)
        BY <2>1, <3>3
           DEF IInv, ReadInv, WalkInv, PositiveInv, SaveInv, Live, Reading, Chain, memory
      <4>2. MemoryInv' /\ CrashInv'
        BY <2>1, <3>3, <4>1 DEF IInv, MemoryInv, CrashInv, Live, Reading
      <4> QED
        BY <3>1, <4>1, <4>2 DEF IInv
    <3> QED
      BY <3>2, <3>3
  <2> QED
    BY <2>2, <2>3 DEF ListStep
<1>2. CASE Next
  BY <1>2, SetupStep, OpenStep, ReadStdinStep, EndStep, LoadStep, CrashStep, DeserializeStep,
     TypeInputStep, TakeTypedStep, InputEndsStep, MapStepStep, MapMutStepStep, MapEndsStep,
     IterateStepStep, IterateEndsStep, SaveTextStep, SaveNumberStep, FlushStep, CloseTextStep,
     OpenToSerializeStep, SerializeBlockStep, CloseBinaryStep, FreeStep, RestartStep DEF Next
<1> QED
  BY <1>1, <1>2

-----------------------------------------------------------------------------
(* IInv is an invariant of the program, run after run over its files.      *)
THEOREM Invariance == Spec => []IInv
<1>1. Init => IInv
  <2> SUFFICES ASSUME Init PROVE IInv
    OBVIOUS
  <2>1. Heap /\ Used = 0 /\ Chain(list) = <<>> /\ Elements(list) = <<>>
    BY EmptyHeap DEF Init
  <2>2. FilesInv
    BY DEF Init, FilesInv, FilesKept, TextKept, BinaryKept
  <2>3. ReadInv
    <3>1. <<>> \in Contents
      BY DEF Contents
    <3> QED
      BY <2>1, <3>1 DEF Init, ReadInv, LoadInv, DeserializeInv
  <2>4. WalkInv /\ PositiveInv /\ SaveInv /\ CrashInv
    BY DEF Init, WalkInv, PositiveInv, SaveInv, CrashInv
  <2>5. MemoryInv
    <3>1. Len(Chain(list)) = 0
      BY <2>1
    <3> QED
      BY <2>1, <3>1 DEF Init, MemoryInv, Reading
  <2> QED
    BY <2>1, <2>2, <2>3, <2>4, <2>5 DEF IInv
<1>2. IInv /\ [Next]_vars => IInv'
  BY StepStep
<1> QED
  BY <1>1, <1>2, PTL DEF Spec

(* A list comes back from the text file in its order, from the binary file *)
(* in the opposite one; a file holds what the last save put there, or when *)
(* that save was interrupted the first numbers of it, in the text file     *)
(* perhaps with a part of the next one, and nothing else; what is saved    *)
(* has no negative number but INT_MIN; and the memory is used up only by   *)
(* input that is no number, or when there is none for three lists and the  *)
(* powers (load, save, serialize, deserialize, map, iterate and main of    *)
(* LAB4).                                                                  *)
THEOREM RoundTripCorrect == Spec => []FilesRoundTrip
<1>1. IInv => FilesRoundTrip
  <2> SUFFICES ASSUME IInv PROVE FilesRoundTrip
    OBVIOUS
  <2>1. FilesKept
    BY DEF IInv, FilesInv
  <2>2. ASSUME lpc = "load", Clean(TextRead) PROVE Elements(list) = TakenFrom(TextRead)
    <3> DEFINE f == TextRead
               n == Len(f) - Len(input)
    <3>1. Heap /\ LoadInv /\ input \in Contents
      BY <2>2 DEF IInv, ReadInv, Live, Reading
    <3>2. /\ f \in Contents /\ RestOf(f, input)
          /\ Len(Elements(list)) = n /\ \A i \in 1 .. n : Elements(list)[i] = f[i]
      BY <2>2, <3>1 DEF LoadInv, TextTaken
    <3>3. TakenFrom(TextRead) = SubSeq(f, 1, n)
      BY DEF TakenFrom
    <3> HIDE DEF f
    <3>4. Elements(list) \in Contents /\ Len(Elements(list)) <= Len(f)
      <4>1. Len(input) \in Nat /\ Len(f) \in Nat
        BY <3>1, <3>2 DEF Contents
      <4>2. n <= Len(f)
        BY <4>1
      <4> QED
        BY <3>1, <3>2, <4>2, ListFacts
    <3> HIDE DEF n
    <3>5. SubSeq(f, 1, Len(Elements(list))) = Elements(list)
      BY <3>2, <3>4, PointwisePrefix DEF Contents
    <3> QED
      BY <3>2, <3>3, <3>5
  <2>3. ASSUME lpc = "deserialize" PROVE Elements(list) = Reverse(TakenFrom(binary))
    <3> DEFINE n == Len(binary) - Len(input)
               s == SubSeq(binary, 1, n)
    <3>1. Heap /\ DeserializeInv /\ input \in Contents
      BY <2>3 DEF IInv, ReadInv, Live, Reading
    <3>2. /\ binary \in Seq(Ints) /\ RestOf(binary, input) /\ Len(Elements(list)) = n
          /\ \A i \in 1 .. n : Elements(list)[i] = binary[n + 1 - i]
      BY <2>3, <3>1 DEF DeserializeInv
    <3>3. Elements(list) \in Seq(Ints) /\ n \in Nat /\ n <= Len(binary) /\ Len(binary) \in Nat
      <4>1. Elements(list) \in Seq(Ints) /\ Len(binary) \in Nat /\ Len(input) \in Nat
        BY <3>1, <3>2, ListFacts DEF Contents
      <4>2. Len(input) <= Len(binary)
        BY <3>2 DEF RestOf
      <4> QED
        BY <4>1, <4>2
    <3>4. TakenFrom(binary) = s
      BY DEF TakenFrom
    <3> HIDE DEF n
    <3>5. Len(s) = n /\ \A i \in 1 .. n : s[i] = binary[i]
      <4>1. \A i \in 1 .. n : binary[i] \in Ints
        BY <3>2, <3>3, ElementOfSeq
      <4>2. /\ Len(s) = IF 1 <= n THEN n - 1 + 1 ELSE 0
            /\ \A i \in 1 .. n - 1 + 1 : s[i] = binary[1 + i - 1]
        BY <3>3, <4>1, SubSeqProperties
      <4> HIDE DEF s
      <4>3. n - 1 + 1 = n /\ (~(1 <= n) => n = 0) /\ \A i \in 1 .. n : 1 + i - 1 = i
        BY <3>3
      <4> QED
        BY <4>2, <4>3
    <3> HIDE DEF s
    <3> DEFINE r == Reverse(s)
    <3>6. r = [i \in 1 .. n |-> s[(n - i) + 1]]
      BY <3>5 DEF Reverse
    <3> HIDE DEF r
    <3>7. Elements(list) = [i \in 1 .. n |-> Elements(list)[i]]
      <4> DEFINE w == Elements(list)
      <4>1. w \in Seq(Ints) /\ Len(w) = n
        BY <3>2, <3>3
      <4> HIDE DEF w
      <4>2. w = [i \in 1 .. n |-> w[i]]
        BY <4>1
      <4> QED
        BY <4>2 DEF w
    <3>8. \A i \in 1 .. n : Elements(list)[i] = s[(n - i) + 1]
      <4> SUFFICES ASSUME NEW i \in 1 .. n PROVE Elements(list)[i] = s[(n - i) + 1]
        OBVIOUS
      <4>1. (n - i) + 1 \in 1 .. n /\ (n - i) + 1 = n + 1 - i
        BY <3>3
      <4> QED
        BY <3>2, <3>5, <4>1
    <3>9. Elements(list) = r
      BY <3>6, <3>7, <3>8
    <3> QED
      BY <3>4, <3>9 DEF r
  <2>4. LoadedInOrder
    BY <2>2, <2>3 DEF LoadedInOrder, Clean
  <2>5. NumbersInRange
    <3>1. ASSUME lpc \in {"menu2", "save", "serialize"}, NEW v \in ToSet(Elements(list))
          PROVE  v >= 0 \/ v = MinInt
      <4>1. Heap /\ PositiveInv
        BY <3>1 DEF IInv, Live
      <4> DEFINE w == Elements(list)
      <4>2. w \in Seq(Ints)
        BY <4>1, ListFacts
      <4> HIDE DEF w
      <4>3. PICK i \in 1 .. Len(w) : v = w[i]
        <5>1. DOMAIN w = 1 .. Len(w)
          BY <4>2
        <5> QED
          BY <3>1, <5>1 DEF ToSet, w
      <4> QED
        BY <3>1, <4>1, <4>3 DEF PositiveInv, Positive, w
    <3> QED
      BY <3>1 DEF IInv, CrashInv, NumbersInRange
  <2> QED
    BY <2>1, <2>4, <2>5 DEF FilesRoundTrip
<1> QED
  BY <1>1, Invariance, PTL

(* The nodes implement the sequence that linked_list.h promises: every step*)
(* of the program leaves it, adds one number at an end, replaces one, or   *)
(* empties it.                                                             *)
THEOREM Refinement == Spec => ListSpec
<1>1. Init => Sequence!Init
  BY EmptyHeap DEF Init, Value, Sequence!Init
<1>2. IInv /\ [Next]_vars => [Sequence!Next]_Value
  <2> SUFFICES ASSUME IInv, [Next]_vars PROVE [Sequence!Next]_Value
    OBVIOUS
  <2>1. Sequence!Change(Value, Value') \/ Value' = Value
    BY StepStep DEF ListStep
  <2> QED
    BY <2>1 DEF Sequence!Next
<1> QED
  BY <1>1, <1>2, Invariance, PTL DEF Spec, ListSpec, Sequence!Spec
-----------------------------------------------------------------------------
(* A loop reads, writes and frees nodes that are allocated: none after it  *)
(* was freed, none twice, although map, map_mut and save have walked along *)
(* the same nodes before list_free does (linked_list.c line 62).           *)
NodesInUse ==
  lpc \in {"squares", "cubes", "abs", "save", "free"} /\ cursor # NULL => cursor \in Allocated

(* What list_free has not freed yet is linked from the cursor on.          *)
FreeInv == lpc = "free" => \E s : Linked(succ, s, cursor)

(* Without its first node, a list is the rest of it.                       *)
LEMMA LinkedTail ==
  ASSUME NEW f, NEW s, NEW p, Linked(f, s, p), p # NULL
  PROVE  /\ p \in DOMAIN f
         /\ Linked([n \in DOMAIN f \ {p} |-> f[n]], Tail(s), f[p])
<1> DEFINE l == Len(s)
           t == Tail(s)
           g == [n \in DOMAIN f \ {p} |-> f[n]]
<1>1. s \in Seq(Nodes) /\ s # <<>> /\ l \in Nat
  BY EmptyList DEF Linked
<1>2. l >= 1
  BY <1>1, EmptySeq
<1>3. t \in Seq(Nodes) /\ Len(t) = l - 1 /\ \A i \in 1 .. l - 1 : t[i] = s[i + 1]
  BY <1>1, HeadTailProperties
<1>4. /\ \A i \in 1 .. l : s[i] \in DOMAIN f /\ f[s[i]] = At(s, i + 1)
      /\ \A i, j \in 1 .. l : s[i] = s[j] => i = j
      /\ p = s[1] /\ 1 \in 1 .. l
  BY <1>1, <1>2 DEF Linked, At
<1>5. \A n \in DOMAIN f : n # p => n \in DOMAIN g /\ g[n] = f[n]
  OBVIOUS
<1> HIDE DEF l, t, g
<1>6. \A i \in 1 .. l : At(s, i + 1) = At(t, i)
  <2> SUFFICES ASSUME NEW i \in 1 .. l PROVE At(s, i + 1) = At(t, i)
    OBVIOUS
  <2>1. CASE i \in 1 .. l - 1
    <3>1. i + 1 \in 1 .. l
      BY <1>1, <2>1
    <3> QED
      BY <1>3, <2>1, <3>1 DEF At, l
  <2>2. CASE i = l
    <3>1. i + 1 \notin 1 .. l /\ i \notin 1 .. l - 1
      BY <1>1, <2>2
    <3> QED
      BY <1>3, <3>1 DEF At, l
  <2> QED
    BY <1>1, <2>1, <2>2
<1>7. ASSUME NEW i \in 1 .. l - 1
      PROVE  t[i] \in DOMAIN g /\ g[t[i]] = At(t, i + 1)
  <2>1. i + 1 \in 1 .. l /\ i + 1 # 1
    BY <1>1
  <2>2. t[i] = s[i + 1] /\ s[i + 1] # p /\ s[i + 1] \in DOMAIN f
    BY <1>3, <1>4, <2>1
  <2>3. f[s[i + 1]] = At(s, (i + 1) + 1) /\ At(s, (i + 1) + 1) = At(t, i + 1)
    BY <1>4, <1>6, <2>1
  <2> QED
    BY <1>5, <2>2, <2>3
<1>8. ASSUME NEW i \in 1 .. l - 1, NEW j \in 1 .. l - 1, t[i] = t[j] PROVE i = j
  <2>1. i + 1 \in 1 .. l /\ j + 1 \in 1 .. l
    BY <1>1
  <2>2. i + 1 = j + 1
    BY <1>3, <1>4, <1>8, <2>1
  <2> QED
    BY <2>2
<1>9. f[p] = At(t, 1)
  BY <1>4, <1>6
<1>10. Linked(g, t, f[p])
  BY <1>3, <1>7, <1>8, <1>9 DEF Linked
<1> QED
  BY <1>4, <1>10 DEF t, g

(* No loop touches a node that is not allocated; list_free frees each node *)
(* once and does not read it afterwards.                                   *)
THEOREM NodesCorrect == Spec => []NodesInUse
<1>1. Init => FreeInv
  BY DEF Init, FreeInv
<1>2. IInv /\ FreeInv /\ [Next]_vars => FreeInv'
  <2> SUFFICES ASSUME IInv, FreeInv, [Next]_vars, lpc' = "free"
               PROVE  \E s : Linked(succ', s, cursor')
    BY DEF FreeInv
  <2>1. CASE CloseText \/ CloseBinary \/ SaveNothing
    <3>1. Heap /\ succ' = succ /\ cursor' = list
      BY <2>1 DEF IInv, Live, CloseText, CloseBinary, SaveNothing, memory
    <3>2. Linked(succ', Chain(list), cursor')
      BY <3>1 DEF Heap
    <3> QED
      BY <3>2
  <2>2. CASE FreeNode
    <3>1. /\ lpc = "free" /\ cursor # NULL /\ cursor' = succ[cursor]
          /\ succ' = [n \in DOMAIN succ \ {cursor} |-> succ[n]]
      BY <2>2 DEF FreeNode, Allocated
    <3>2. PICK s : Linked(succ, s, cursor)
      BY <3>1 DEF FreeInv
    <3>3. Linked([n \in DOMAIN succ \ {cursor} |-> succ[n]], Tail(s), succ[cursor])
      BY <3>1, <3>2, LinkedTail
    <3> QED
      BY <3>1, <3>3
  <2>3. CASE UNCHANGED vars
    BY <2>3 DEF FreeInv, vars, memory, locals
  <2>4. CASE OpenText \/ OpenBinary
    BY <2>4 DEF OpenText, OpenBinary, Open
  <2>5. CASE MapEnds
    BY <2>5 DEF MapEnds, NextTask
  <2>6. CASE LoadNumber \/ DeserializeNumber \/ TypeInput \/ TakeTyped \/ MapStep
               \/ MapMutStep \/ IterateStep \/ SaveNumber \/ Flush \/ SerializeBlock
    BY <2>6 DEF LoadNumber, DeserializeNumber, TypeInput, TakeTyped, MapStep,
                MapMutStep, IterateStep, SaveNumber, Flush, SerializeBlock
  <2>7. CASE Setup \/ ReadStdin \/ UnknownCommand \/ OutOfMemory \/ InputEnds \/ IterateEnds
               \/ SaveText \/ OpenToSerialize \/ FreeEnds \/ Interrupt \/ Restart
    BY <2>7 DEF Setup, ReadStdin, UnknownCommand, OutOfMemory, InputEnds, IterateEnds,
                SaveText, OpenToSerialize, FreeEnds, Interrupt, Restart
  <2> QED
    BY <2>1, <2>2, <2>3, <2>4, <2>5, <2>6, <2>7 DEF Next
<1>3. IInv /\ FreeInv => NodesInUse
  <2> SUFFICES ASSUME IInv, FreeInv, cursor # NULL,
                      lpc \in {"squares", "cubes", "abs", "save", "free"}
               PROVE  cursor \in Allocated
    BY DEF NodesInUse
  <2>1. CASE lpc = "free"
    <3>1. PICK s : Linked(succ, s, cursor)
      BY <2>1 DEF FreeInv
    <3> QED
      BY <3>1, LinkedTail DEF Allocated
  <2>2. CASE lpc # "free"
    <3>1. Heap /\ WalkInv
      BY <2>2 DEF IInv, Live
    <3>2. PICK k \in 1 .. Len(Chain(list)) + 1 : cursor = At(Chain(list), k)
      BY <2>2, <3>1 DEF WalkInv
    <3> QED
      BY <3>1, <3>2, CursorMoves
  <2> QED
    BY <2>1, <2>2
<1> QED
  BY <1>1, <1>2, <1>3, Invariance, PTL DEF Spec
=============================================================================
