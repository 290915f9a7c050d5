------------------------ MODULE AlphabetLocksProofs ------------------------
(***************************************************************************)
(* Proofs about AlphabetLocks, for an alphabet of any length and any of    *)
(* the four programs: type correctness, mutual exclusion, and what can be  *)
(* seen of the alphabet.                                                   *)
(***************************************************************************)
EXTENDS AlphabetLocks, TLAPS

(* What the loops add to the types: an index leaves the alphabet only at   *)
(* the end of a swap, and temp holds a letter between its two halves.      *)
LoopInv ==
  \A t \in AllThreads :
    /\ pc[t] # "swap" => index[t] <= N
    /\ pc[t] = "swap_back" => temp[t] \in Positions \X BOOLEAN

IInv == TypeOK /\ LoopInv /\ MutualExclusion

(* The value temp has outside of a swap.                                   *)
LEMMA NoLetterType == NoLetter \in (0 .. N) \X BOOLEAN
<1>1. 0 \in 0 .. N
  BY AlphabetAssumption
<1>2. FALSE \in BOOLEAN
  OBVIOUS
<1> QED
  BY <1>1, <1>2, Zenon DEF NoLetter

(* The invariant holds initially: everybody sleeps and the lock is free.   *)
LEMMA InitInv == Init => IInv
<1> SUFFICES ASSUME Init PROVE IInv
  OBVIOUS
<1> USE AlphabetAssumption DEF Init, Positions
<1>1. TypeOK
  <2>1. shown \in [AllThreads -> Seq(Positions \X BOOLEAN)]
    OBVIOUS
  <2>3. temp \in [AllThreads -> (0 .. N) \X BOOLEAN]
    BY NoLetterType
  <2>4. /\ program \in Programs /\ value \in {0, 1}
        /\ letter \in [Positions -> Positions] /\ upper \in [Positions -> BOOLEAN]
        /\ pc \in [AllThreads -> Places] /\ index \in [AllThreads -> 1 .. N + 1]
    BY DEF Places
  <2> QED
    BY <2>1, <2>3, <2>4 DEF TypeOK
<1>2. LoopInv
  BY DEF LoopInv
<1>3. MutualExclusion
  BY DEF MutualExclusion, Inside, Free, AllThreads
<1> QED
  BY <1>1, <1>2, <1>3 DEF IInv

(* The mirror image of a position in the first half is a position.         *)
LEMMA MirrorPosition ==
  ASSUME NEW i \in 1 .. N + 1, i < Mirror(i)
  PROVE  i \in Positions /\ Mirror(i) \in Positions
  BY AlphabetAssumption DEF Mirror, Positions

(* A loop goes on to the next letter ...                                   *)
LEMMA NextIndex ==
  ASSUME TypeOK, NEW t \in AllThreads, index[t] <= N, NextLetter(t)
  PROVE  /\ index' \in [AllThreads -> 1 .. N + 1]
         /\ index[t] < N => index'[t] <= N
<1>1. index[t] \in 1 .. N + 1 /\ N \in Nat
  BY AlphabetAssumption DEF TypeOK
<1>2. index[t] + 1 \in 1 .. N + 1 /\ (index[t] < N => index[t] + 1 <= N)
  BY <1>1
<1> QED
  BY <1>2 DEF TypeOK, NextLetter

(* ... and back to the first letter.                                       *)
LEMMA FirstIndex ==
  ASSUME TypeOK, NEW t \in AllThreads, FromFirst(t)
  PROVE  index' \in [AllThreads -> 1 .. N + 1] /\ index'[t] <= N
<1>1. 1 \in 1 .. N + 1 /\ 1 <= N
  BY AlphabetAssumption
<1> QED
  BY <1>1 DEF TypeOK, FromFirst

(* Every step keeps the types and the ranges of the loops.                 *)
LEMMA TypeStep == IInv /\ [Next]_vars => TypeOK' /\ LoopInv'
<1> SUFFICES ASSUME IInv, [Next]_vars PROVE TypeOK' /\ LoopInv'
  OBVIOUS
<1>0. TypeOK /\ LoopInv
  BY DEF IInv
<1> USE AlphabetAssumption DEF vars, data, locals, Go
<1>1. ASSUME NEW t \in AllThreads, Lock(t) PROVE TypeOK' /\ LoopInv'
  <2>1. value' \in {0, 1}
    BY <1>0, <1>1 DEF TypeOK, Lock, LockMutex, LockRw, LockPosix, LockSysv
  <2>2. FirstLoop(t) \in {"case", "swap", "show"}
    BY DEF FirstLoop
  <2> QED
    BY <1>0, <1>1, <2>1, <2>2 DEF TypeOK, LoopInv, Lock, Places
<1>2. ASSUME NEW t \in AllThreads, InvertCase(t) PROVE TypeOK' /\ LoopInv'
  <2>1. AfterChange \in {"show", "unlock"}
    BY DEF AfterChange
  <2>2. index[t] \in Positions
    BY <1>0, <1>2 DEF TypeOK, LoopInv, InvertCase, Positions
  <2>3. upper' \in [Positions -> BOOLEAN] /\ pc' \in [AllThreads -> Places]
    BY <1>0, <1>2, <2>1, <2>2 DEF TypeOK, InvertCase, Places
  <2>4. index' \in [AllThreads -> 1 .. N + 1] /\ index'[t] <= N
    <3>1. CASE index[t] < N
      BY <1>0, <1>2, <3>1, NextIndex DEF TypeOK, InvertCase
    <3>2. CASE ~(index[t] < N)
      BY <1>0, <1>2, <3>2, FirstIndex DEF TypeOK, InvertCase
    <3> QED
      BY <3>1, <3>2
  <2>5. TypeOK'
    BY <1>0, <1>2, <2>3, <2>4 DEF TypeOK, InvertCase
  <2>6. \A u \in AllThreads \ {t} : pc'[u] = pc[u] /\ index'[u] = index[u]
    BY <1>0, <1>2 DEF TypeOK, InvertCase, NextLetter, FromFirst
  <2>7. pc'[t] # "swap_back" /\ temp' = temp
    BY <1>0, <1>2, <2>1 DEF TypeOK, InvertCase
  <2> QED
    BY <1>0, <2>4, <2>5, <2>6, <2>7 DEF LoopInv
<1>3. ASSUME NEW t \in AllThreads, SwapFirst(t) PROVE TypeOK' /\ LoopInv'
  <2>1. index[t] \in Positions /\ Mirror(index[t]) \in Positions
    BY <1>0, <1>3, MirrorPosition DEF TypeOK, SwapFirst
  <2>2. /\ letter[index[t]] \in Positions /\ letter[Mirror(index[t])] \in Positions
        /\ upper[index[t]] \in BOOLEAN /\ upper[Mirror(index[t])] \in BOOLEAN
    BY <1>0, <2>1 DEF TypeOK
  <2>3. /\ letter' \in [Positions -> Positions] /\ upper' \in [Positions -> BOOLEAN]
        /\ pc' \in [AllThreads -> Places]
    BY <1>0, <1>3, <2>1, <2>2 DEF TypeOK, SwapFirst, Places
  <2>4. temp' = [temp EXCEPT ![t] = <<letter[index[t]], upper[index[t]]>>]
    BY <1>3 DEF SwapFirst
  <2>5. /\ temp' \in [AllThreads -> (0 .. N) \X BOOLEAN]
        /\ temp'[t] \in Positions \X BOOLEAN
    <3>1. <<letter[index[t]], upper[index[t]]>> \in Positions \X BOOLEAN
      BY <2>2
    <3>2. Positions \X BOOLEAN \subseteq (0 .. N) \X BOOLEAN
      BY DEF Positions
    <3> QED
      BY <1>0, <2>4, <3>1, <3>2 DEF TypeOK
  <2>6. TypeOK'
    BY <1>0, <1>3, <2>3, <2>5 DEF TypeOK, SwapFirst
  <2>7. LoopInv'
    BY <1>0, <1>3, <2>1, <2>4, <2>5 DEF TypeOK, LoopInv, SwapFirst, Positions
  <2> QED
    BY <2>6, <2>7
<1>4. ASSUME NEW t \in AllThreads, SwapSecond(t) PROVE TypeOK' /\ LoopInv'
  <2>1. index[t] \in Positions /\ temp[t][1] \in Positions /\ temp[t][2] \in BOOLEAN
    BY <1>0, <1>4 DEF TypeOK, LoopInv, SwapSecond, Positions
  <2>2. /\ letter' \in [Positions -> Positions] /\ upper' \in [Positions -> BOOLEAN]
        /\ pc' \in [AllThreads -> Places]
    BY <1>0, <1>4, <2>1 DEF TypeOK, SwapSecond, Places
  <2>3. index' \in [AllThreads -> 1 .. N + 1]
    <3>1. index[t] <= N /\ NextLetter(t)
      BY <1>0, <1>4, <2>1 DEF SwapSecond, Positions
    <3> QED
      BY <1>0, <3>1, NextIndex
  <2>5. temp' \in [AllThreads -> (0 .. N) \X BOOLEAN]
    BY <1>0, <1>4, NoLetterType DEF TypeOK, SwapSecond
  <2>6. TypeOK'
    BY <1>0, <1>4, <2>2, <2>3, <2>5 DEF TypeOK, SwapSecond
  <2>7. /\ pc'[t] = "swap"
        /\ \A u \in AllThreads \ {t} :
             pc'[u] = pc[u] /\ index'[u] = index[u] /\ temp'[u] = temp[u]
    BY <1>0, <1>4 DEF TypeOK, SwapSecond, NextLetter
  <2> QED
    BY <1>0, <2>6, <2>7 DEF LoopInv
<1>5. ASSUME NEW t \in AllThreads, SwapDone(t) PROVE TypeOK' /\ LoopInv'
  <2>1. AfterChange \in {"show", "unlock"}
    BY DEF AfterChange
  <2> QED
    BY <1>0, <1>5, <2>1 DEF TypeOK, LoopInv, SwapDone, FromFirst, Places, Positions
<1>6. ASSUME NEW t \in AllThreads, Show(t) PROVE TypeOK' /\ LoopInv'
  <2>1. index[t] \in Positions
    BY <1>0, <1>6 DEF TypeOK, LoopInv, Show, Positions
  <2>2. <<letter[index[t]], upper[index[t]]>> \in Positions \X BOOLEAN
    BY <1>0, <2>1 DEF TypeOK
  <2>3. shown' \in [AllThreads -> Seq(Positions \X BOOLEAN)]
    BY <1>0, <1>6, <2>2 DEF TypeOK, Show
  <2>4. pc' \in [AllThreads -> Places]
    BY <1>0, <1>6 DEF TypeOK, Show, Places
  <2>5. index' \in [AllThreads -> 1 .. N + 1] /\ index'[t] <= N
    <3>1. CASE index[t] < N
      BY <1>0, <1>6, <3>1, NextIndex DEF TypeOK, Show
    <3>2. CASE ~(index[t] < N)
      BY <1>0, <1>6, <3>2, FirstIndex DEF TypeOK, Show
    <3> QED
      BY <3>1, <3>2
  <2>6. TypeOK'
    BY <1>0, <1>6, <2>3, <2>4, <2>5 DEF TypeOK, Show
  <2>7. \A u \in AllThreads \ {t} : pc'[u] = pc[u] /\ index'[u] = index[u]
    BY <1>0, <1>6 DEF TypeOK, Show, NextLetter, FromFirst
  <2>8. pc'[t] # "swap_back" /\ temp' = temp
    BY <1>0, <1>6 DEF TypeOK, Show
  <2> QED
    BY <1>0, <2>5, <2>6, <2>7, <2>8 DEF LoopInv
<1>7. ASSUME NEW t \in AllThreads, Unlock(t) PROVE TypeOK' /\ LoopInv'
  <2>1. Inside(t)
    BY <1>7 DEF Unlock, Inside
  <2>2. ~Free
    BY <2>1 DEF IInv, MutualExclusion
  <2>3. value' \in {0, 1}
    BY <1>0, <1>7, <2>2
    DEF TypeOK, Free, Unlock, UnlockMutex, UnlockRw, UnlockPosix, UnlockSysv
  <2>4. shown' \in [AllThreads -> Seq(Positions \X BOOLEAN)]
    <3>1. <<>> \in Seq(Positions \X BOOLEAN)
      OBVIOUS
    <3> QED
      BY <1>0, <1>7, <3>1 DEF TypeOK, Unlock
  <2>5. pc' \in [AllThreads -> Places]
    BY <1>0, <1>7 DEF TypeOK, Unlock, Places
  <2>6. TypeOK'
    BY <1>0, <1>7, <2>3, <2>4, <2>5 DEF TypeOK, Unlock
  <2>7. LoopInv'
    BY <1>0, <1>7 DEF TypeOK, LoopInv, Unlock
  <2> QED
    BY <2>6, <2>7
<1>8. CASE UNCHANGED vars
  BY <1>0, <1>8 DEF TypeOK, LoopInv
<1> QED
  BY <1>1, <1>2, <1>3, <1>4, <1>5, <1>6, <1>7, <1>8 DEF Next, Thread

(* Every step keeps the lock in agreement with who is inside.  Only Lock   *)
(* and Unlock matter: the loops change the data, not who is inside.        *)
LEMMA ExclusionStep == IInv /\ [Next]_vars => MutualExclusion'
<1> SUFFICES ASSUME IInv, [Next]_vars PROVE MutualExclusion'
  OBVIOUS
<1>0. TypeOK /\ MutualExclusion
  BY DEF IInv
<1>1. ASSUME NEW t \in AllThreads, Lock(t) PROVE MutualExclusion'
  <2>1. Free /\ ~Free' /\ program' = program
    BY <1>0, <1>1
    DEF TypeOK, Free, Lock, LockMutex, LockRw, LockPosix, LockSysv
  <2>2. \A u \in AllThreads : ~Inside(u)
    BY <1>0, <2>1 DEF MutualExclusion
  <2>3. \A u \in AllThreads : Inside(u)' <=> u = t
    <3>1. FirstLoop(t) # "asleep"
      BY DEF FirstLoop
    <3> QED
      BY <1>0, <1>1, <2>2, <3>1 DEF TypeOK, Inside, Lock
  <2> QED
    BY <2>1, <2>3 DEF MutualExclusion
<1>2. ASSUME NEW t \in AllThreads, Unlock(t) PROVE MutualExclusion'
  <2>1. Inside(t) /\ ~Free
    BY <1>0, <1>2 DEF Unlock, Inside, MutualExclusion
  <2>2. Free'
    BY <1>0, <1>2, <2>1
    DEF TypeOK, Free, Unlock, UnlockMutex, UnlockRw, UnlockPosix, UnlockSysv
  <2>3. \A u \in AllThreads : ~Inside(u)'
    BY <1>0, <1>2, <2>1 DEF TypeOK, Inside, Unlock, Go, MutualExclusion
  <2> QED
    BY <2>2, <2>3 DEF MutualExclusion
<1>3. ASSUME NEW t \in AllThreads,
             InvertCase(t) \/ SwapFirst(t) \/ SwapSecond(t) \/ SwapDone(t) \/ Show(t)
      PROVE  MutualExclusion'
  <2>1. UNCHANGED <<program, value>> /\ pc[t] # "asleep"
    BY <1>3 DEF InvertCase, SwapFirst, SwapSecond, SwapDone, Show, data, locals
  <2>2. \E place : place # "asleep" /\ pc' = [pc EXCEPT ![t] = place]
    <3>1. AfterChange # "asleep"
      BY DEF AfterChange
    <3>2. pc = [pc EXCEPT ![t] = pc[t]]
      BY <1>0 DEF TypeOK
    <3> QED
      BY <1>3, <2>1, <3>1, <3>2
      DEF InvertCase, SwapFirst, SwapSecond, SwapDone, Show, Go, data
  <2>3. \A u \in AllThreads : Inside(u)' <=> Inside(u)
    BY <1>0, <2>1, <2>2 DEF TypeOK, Inside
  <2> QED
    BY <1>0, <2>1, <2>3 DEF MutualExclusion, Free
<1>4. CASE UNCHANGED vars
  BY <1>0, <1>4 DEF vars, MutualExclusion, Inside, Free
<1> QED
  BY <1>1, <1>2, <1>3, <1>4 DEF Next, Thread

(* The inductive invariant holds in every reachable state of the programs. *)
THEOREM Invariance == Spec => []IInv
<1>1. IInv /\ [Next]_vars => IInv'
  BY TypeStep, ExclusionStep DEF IInv
<1> QED
  BY InitInv, <1>1, PTL DEF Spec

(* Every variable keeps its type, and no loop leaves the alphabet          *)
(* (alphabet.c): indices and letters are in range when they are used.      *)
THEOREM TypeCorrect == Spec => []TypeOK
  BY Invariance, PTL DEF IInv

(* Whichever primitive is behind lock() and unlock(), one thread at a time *)
(* is between them, and the lock is free when nobody is.                   *)
THEOREM ExclusionCorrect == Spec => []MutualExclusion
  BY Invariance, PTL DEF IInv
-----------------------------------------------------------------------------
(* What the alphabet looks like while a thread is at work on it.  The      *)
(* thread found it in order rev and case up; the other order or case is    *)
(* where its loop has been.                                                *)
Turned(rev, i) == IF rev THEN Mirror(i) ELSE i
Whole(rev, up) == \A i \in Positions : letter[i] = Turned(rev, i) /\ upper[i] = up

Swapped(k, i) == i < k \/ i > Mirror(k)

CaseHalf(t, rev, up) ==
  \A i \in Positions :
    /\ letter[i] = Turned(rev, i)
    /\ upper[i] = IF i < index[t] THEN ~up ELSE up

SwapHalf(t, rev, up) ==
  /\ index[t] <= Mirror(index[t]) + 1
  /\ \A i \in Positions :
       /\ upper[i] = up
       /\ letter[i] = Turned(IF Swapped(index[t], i) THEN ~rev ELSE rev, i)

SwapMiddle(t, rev, up) ==
  /\ index[t] < Mirror(index[t])
  /\ temp[t] = <<Turned(rev, index[t]), up>>
  /\ \A i \in Positions :
       /\ upper[i] = up
       /\ letter[i] = Turned(IF Swapped(index[t], i) \/ i = index[t] THEN ~rev ELSE rev, i)

AtWork(t) ==
  \E rev, up \in BOOLEAN :
    /\ pc[t] = "case" => CaseHalf(t, rev, up)
    /\ pc[t] = "swap" => SwapHalf(t, rev, up)
    /\ pc[t] = "swap_back" => SwapMiddle(t, rev, up)
    /\ pc[t] \in {"show", "unlock"} => Whole(rev, up)

DataInv ==
  /\ (\A t \in AllThreads : ~Inside(t)) => \E rev, up \in BOOLEAN : Whole(rev, up)
  /\ \A t \in AllThreads : Inside(t) => AtWork(t)

(* What a thread has read, which is nothing unless it is printing, is what *)
(* the alphabet still is; and every loop starts at the first letter.       *)
ShownBy(t) ==
  /\ pc[t] \in {"asleep", "unlock"} => index[t] = 1
  /\ pc[t] \in {"asleep", "case", "swap", "swap_back"} => shown[t] = <<>>
  /\ pc[t] = "show" => Len(shown[t]) = index[t] - 1
  /\ pc[t] \in {"show", "unlock"} =>
       \A k \in DOMAIN shown[t] : k \in Positions /\ shown[t][k] = <<letter[k], upper[k]>>
ShownInv == \A t \in AllThreads : ShownBy(t)

FullInv == IInv /\ DataInv /\ ShownInv

(* At first the alphabet is in order and lower case.                       *)
LEMMA DataInit == Init => DataInv /\ ShownInv
<1> SUFFICES ASSUME Init PROVE DataInv /\ ShownInv
  OBVIOUS
<1> USE DEF Init
<1>1. Whole(FALSE, FALSE)
  BY DEF Whole, Turned
<1>2. DataInv
  BY <1>1 DEF DataInv, Inside
<1>3. ShownInv
  BY DEF ShownInv, ShownBy
<1> QED
  BY <1>2, <1>3

(* A step of one thread, while everybody else sleeps, is judged by what it *)
(* does to that thread.                                                    *)
LEMMA OneMoves ==
  ASSUME FullInv, NEW t \in AllThreads,
         \A u \in AllThreads \ {t} :
           /\ pc[u] = "asleep"
           /\ pc'[u] = pc[u] /\ index'[u] = index[u] /\ shown'[u] = shown[u],
         ShownBy(t)',
         Inside(t)' => AtWork(t)',
         ~Inside(t)' => (\E rev, up \in BOOLEAN : Whole(rev, up))'
  PROVE  DataInv' /\ ShownInv'
<1>1. DataInv'
  BY DEF DataInv, Inside
<1>2. ASSUME NEW u \in AllThreads \ {t} PROVE ShownBy(u)'
  BY <1>2 DEF FullInv, ShownInv, ShownBy
<1>3. ShownInv'
  BY <1>2 DEF ShownInv
<1> QED
  BY <1>1, <1>3

(* Mutual exclusion: who is inside is alone there.                         *)
LEMMA OthersAsleep ==
  ASSUME FullInv, NEW t \in AllThreads, Inside(t)
  PROVE  AtWork(t) /\ ShownBy(t) /\ \A u \in AllThreads \ {t} : pc[u] = "asleep"
  BY DEF FullInv, IInv, MutualExclusion, Inside, DataInv, ShownInv

(* Who gets the lock finds a whole alphabet, and starts at its beginning.  *)
LEMMA LockWhole ==
  ASSUME FullInv, NEW t \in AllThreads, Lock(t)
  PROVE  DataInv' /\ ShownInv'
<1> USE DEF Lock, data, locals
<1>0. TypeOK /\ MutualExclusion
  BY DEF FullInv, IInv
<1>1. \A u \in AllThreads : pc[u] = "asleep"
  <2>1. Free
    BY <1>0 DEF Free, LockMutex, LockRw, LockPosix, LockSysv, TypeOK
  <2> QED
    BY <1>0, <2>1 DEF MutualExclusion, Inside
<1>2. PICK rev \in BOOLEAN, up \in BOOLEAN : Whole(rev, up)
  BY <1>1 DEF FullInv, DataInv, Inside
<1>3. /\ pc'[t] = FirstLoop(t) /\ index'[t] = 1 /\ shown'[t] = <<>>
      /\ letter' = letter /\ upper' = upper
      /\ \A u \in AllThreads \ {t} :
           pc'[u] = pc[u] /\ index'[u] = index[u] /\ shown'[u] = shown[u]
  BY <1>0, <1>1 DEF TypeOK, FullInv, ShownInv, ShownBy
<1>4. FirstLoop(t) \in {"case", "swap", "show"}
  BY DEF FirstLoop
<1>5. AtWork(t)'
  <2>1. CaseHalf(t, rev, up)'
    BY <1>2, <1>3 DEF CaseHalf, Whole, Positions
  <2>2. SwapHalf(t, rev, up)'
    BY <1>2, <1>3, AlphabetAssumption DEF SwapHalf, Swapped, Whole, Mirror, Positions
  <2>3. Whole(rev, up)'
    BY <1>2, <1>3 DEF Whole
  <2> QED
    BY <1>3, <1>4, <2>1, <2>2, <2>3 DEF AtWork
<1>6. ShownBy(t)'
  BY <1>3, <1>4 DEF ShownBy
<1>7. Inside(t)'
  BY <1>3, <1>4 DEF Inside
<1> QED
  BY <1>1, <1>3, <1>5, <1>6, <1>7, OneMoves

(* The loop that changes the alphabet ends: print it, or let it go.         *)
LEMMA ChangeEnds ==
  ASSUME NEW t \in AllThreads, NEW rev \in BOOLEAN, NEW up \in BOOLEAN,
         pc'[t] = AfterChange, index'[t] = 1, shown'[t] = <<>>, Whole(rev, up)'
  PROVE  AtWork(t)' /\ ShownBy(t)' /\ Inside(t)'
<1>1. pc'[t] \in {"show", "unlock"}
  BY DEF AfterChange
<1>2. AtWork(t)'
  <2>1. /\ (pc[t] = "case" => CaseHalf(t, rev, up))'
        /\ (pc[t] = "swap" => SwapHalf(t, rev, up))'
        /\ (pc[t] = "swap_back" => SwapMiddle(t, rev, up))'
        /\ (pc[t] \in {"show", "unlock"} => Whole(rev, up))'
    BY <1>1
  <2> QED
    BY <2>1 DEF AtWork
<1>3. ShownBy(t)' /\ Inside(t)'
  BY <1>1 DEF ShownBy, Inside
<1> QED
  BY <1>2, <1>3

(* invert_case: the letters before the index are changed, all at the end.  *)
LEMMA InvertCaseWhole ==
  ASSUME FullInv, NEW t \in AllThreads, InvertCase(t)
  PROVE  DataInv' /\ ShownInv'
<1> USE AlphabetAssumption DEF InvertCase, Go, NextLetter, FromFirst
<1> DEFINE k == index[t]
<1>0. TypeOK /\ LoopInv
  BY DEF FullInv, IInv
<1>1. AtWork(t) /\ ShownBy(t) /\ \A u \in AllThreads \ {t} : pc[u] = "asleep"
  BY OthersAsleep DEF Inside
<1>2. PICK rev \in BOOLEAN, up \in BOOLEAN : CaseHalf(t, rev, up)
  BY <1>1 DEF AtWork
<1>3. k \in Positions
  BY <1>0 DEF TypeOK, LoopInv, Positions
<1>4. /\ letter' = letter /\ shown' = shown
      /\ upper'[k] = ~upper[k]
      /\ \A i \in Positions \ {k} : upper'[i] = upper[i]
      /\ \A u \in AllThreads \ {t} : pc'[u] = pc[u] /\ index'[u] = index[u]
  BY <1>0, <1>3 DEF TypeOK
<1>5. \A i \in Positions : upper'[i] = IF i <= k THEN ~up ELSE up
  BY <1>2, <1>3, <1>4 DEF CaseHalf, Positions
<1>6. shown[t] = <<>>
  BY <1>1 DEF ShownBy
<1>7. CASE k < N
  <2>1. pc'[t] = "case" /\ index'[t] = k + 1
    BY <1>0, <1>7 DEF TypeOK
  <2>2. CaseHalf(t, rev, up)'
    <3>1. \A i \in Positions : i < index'[t] <=> i <= k
      BY <1>3, <2>1 DEF Positions
    <3> QED
      BY <1>2, <1>4, <1>5, <3>1 DEF CaseHalf
  <2>3. AtWork(t)' /\ ShownBy(t)' /\ Inside(t)'
    BY <1>4, <1>6, <2>1, <2>2 DEF AtWork, ShownBy, Inside
  <2> QED
    BY <1>1, <1>4, <2>3, OneMoves
<1>8. CASE ~(k < N)
  <2>1. pc'[t] = AfterChange /\ index'[t] = 1
    BY <1>0, <1>8 DEF TypeOK
  <2>3. Whole(rev, ~up)'
    <3>1. \A i \in Positions : i <= k
      BY <1>3, <1>8 DEF Positions
    <3> QED
      BY <1>2, <1>4, <1>5, <3>1 DEF CaseHalf, Whole
  <2>4. AtWork(t)' /\ ShownBy(t)' /\ Inside(t)'
    BY <1>4, <1>6, <2>1, <2>3, ChangeEnds
  <2> QED
    BY <1>1, <1>4, <2>4, OneMoves
<1> QED
  BY <1>7, <1>8

(* Mirror turns the alphabet around.                                       *)
LEMMA MirrorTwice ==
  ASSUME NEW i \in Positions
  PROVE  Mirror(i) \in Positions /\ Mirror(Mirror(i)) = i
  BY AlphabetAssumption DEF Mirror, Positions

(* Reversing twice a letter turned over is reversing it once.              *)
LEMMA TurnedMirror ==
  ASSUME NEW rev \in BOOLEAN, NEW i \in Positions
  PROVE  Turned(rev, Mirror(i)) = Turned(~rev, i)
  BY MirrorTwice DEF Turned

(* swap_alphabet: letter i has its place taken by letter j, and waits.     *)
LEMMA SwapFirstWhole ==
  ASSUME FullInv, NEW t \in AllThreads, SwapFirst(t)
  PROVE  DataInv' /\ ShownInv'
<1> USE AlphabetAssumption DEF SwapFirst, Go
<1> DEFINE k == index[t]
<1>0. TypeOK /\ LoopInv
  BY DEF FullInv, IInv
<1>1. AtWork(t) /\ ShownBy(t) /\ \A u \in AllThreads \ {t} : pc[u] = "asleep"
  BY OthersAsleep DEF Inside
<1>2. PICK rev \in BOOLEAN, up \in BOOLEAN : SwapHalf(t, rev, up)
  BY <1>1 DEF AtWork
<1>3. k \in Positions /\ Mirror(k) \in Positions
  BY <1>0 DEF TypeOK, Positions, Mirror
<1>4. /\ index' = index /\ shown' = shown /\ pc'[t] = "swap_back"
      /\ temp'[t] = <<letter[k], upper[k]>>
      /\ letter'[k] = letter[Mirror(k)] /\ upper'[k] = upper[Mirror(k)]
      /\ \A i \in Positions \ {k} : letter'[i] = letter[i] /\ upper'[i] = upper[i]
      /\ \A u \in AllThreads \ {t} : pc'[u] = pc[u]
  BY <1>0, <1>3 DEF TypeOK
<1>5. ~Swapped(k, k) /\ ~Swapped(k, Mirror(k))
  BY <1>3 DEF Swapped, Mirror, Positions
<1>6. letter[k] = Turned(rev, k) /\ letter[Mirror(k)] = Turned(~rev, k)
  BY <1>2, <1>3, <1>5, TurnedMirror DEF SwapHalf
<1>7. SwapMiddle(t, rev, up)'
  <2>1. temp'[t] = <<Turned(rev, k), up>>
    BY <1>2, <1>3, <1>4, <1>6 DEF SwapHalf
  <2>2. ASSUME NEW i \in Positions
        PROVE  /\ upper'[i] = up
               /\ letter'[i] = Turned(IF Swapped(k, i) \/ i = k THEN ~rev ELSE rev, i)
    BY <1>2, <1>3, <1>4, <1>6 DEF SwapHalf
  <2> QED
    BY <1>4, <2>1, <2>2 DEF SwapMiddle
<1>8. AtWork(t)' /\ ShownBy(t)' /\ Inside(t)'
  BY <1>1, <1>4, <1>7 DEF AtWork, ShownBy, Inside
<1> QED
  BY <1>1, <1>4, <1>8, OneMoves

(* Letter i goes where letter j was: one more pair is turned around.       *)
LEMMA SwapSecondWhole ==
  ASSUME FullInv, NEW t \in AllThreads, SwapSecond(t)
  PROVE  DataInv' /\ ShownInv'
<1> USE AlphabetAssumption DEF SwapSecond, Go, NextLetter
<1> DEFINE k == index[t]
<1>0. TypeOK /\ LoopInv
  BY DEF FullInv, IInv
<1>1. AtWork(t) /\ ShownBy(t) /\ \A u \in AllThreads \ {t} : pc[u] = "asleep"
  BY OthersAsleep DEF Inside
<1>2. PICK rev \in BOOLEAN, up \in BOOLEAN : SwapMiddle(t, rev, up)
  BY <1>1 DEF AtWork
<1>3. k \in Positions /\ Mirror(k) \in Positions /\ k < Mirror(k)
  BY <1>0, <1>2 DEF TypeOK, LoopInv, Positions, Mirror, SwapMiddle
<1>4. /\ index'[t] = k + 1 /\ shown' = shown /\ pc'[t] = "swap"
      /\ letter'[Mirror(k)] = temp[t][1] /\ upper'[Mirror(k)] = temp[t][2]
      /\ \A i \in Positions \ {Mirror(k)} : letter'[i] = letter[i] /\ upper'[i] = upper[i]
      /\ \A u \in AllThreads \ {t} : pc'[u] = pc[u] /\ index'[u] = index[u]
  BY <1>0, <1>3 DEF TypeOK
<1>5. \A i \in Positions :
        Swapped(k + 1, i) <=> Swapped(k, i) \/ i = k \/ i = Mirror(k)
  BY <1>3 DEF Swapped, Mirror, Positions
<1>6. letter'[Mirror(k)] = Turned(~rev, Mirror(k)) /\ upper'[Mirror(k)] = up
  <2>1. temp[t] = <<Turned(rev, k), up>>
    BY <1>2 DEF SwapMiddle
  <2>2. Turned(~rev, Mirror(k)) = Turned(rev, k)
    BY <1>3, TurnedMirror, MirrorTwice DEF Turned
  <2> QED
    BY <1>4, <2>1, <2>2
<1>7. SwapHalf(t, rev, up)'
  <2>1. k + 1 <= Mirror(k + 1) + 1
    BY <1>3 DEF Mirror, Positions
  <2>2. ASSUME NEW i \in Positions
        PROVE  /\ upper'[i] = up
               /\ letter'[i] = Turned(IF Swapped(k + 1, i) THEN ~rev ELSE rev, i)
    BY <1>2, <1>3, <1>4, <1>5, <1>6 DEF SwapMiddle
  <2> QED
    BY <1>4, <2>1, <2>2 DEF SwapHalf
<1>8. AtWork(t)' /\ ShownBy(t)' /\ Inside(t)'
  BY <1>1, <1>4, <1>7 DEF AtWork, ShownBy, Inside
<1> QED
  BY <1>1, <1>4, <1>8, OneMoves

(* The loop ends in the middle, and the other order is whole.              *)
LEMMA SwapDoneWhole ==
  ASSUME FullInv, NEW t \in AllThreads, SwapDone(t)
  PROVE  DataInv' /\ ShownInv'
<1> USE AlphabetAssumption DEF SwapDone, Go, FromFirst, data
<1> DEFINE k == index[t]
<1>0. TypeOK
  BY DEF FullInv, IInv
<1>1. AtWork(t) /\ ShownBy(t) /\ \A u \in AllThreads \ {t} : pc[u] = "asleep"
  BY OthersAsleep DEF Inside
<1>2. PICK rev \in BOOLEAN, up \in BOOLEAN : SwapHalf(t, rev, up)
  BY <1>1 DEF AtWork
<1>3. /\ letter' = letter /\ upper' = upper /\ shown' = shown
      /\ pc'[t] = AfterChange /\ index'[t] = 1
      /\ \A u \in AllThreads \ {t} : pc'[u] = pc[u] /\ index'[u] = index[u]
  BY <1>0 DEF TypeOK
<1>4. Whole(~rev, up)'
  <2>1. ASSUME NEW i \in Positions, ~Swapped(k, i)
        PROVE  Mirror(i) = i
    BY <1>0, <1>2, <2>1 DEF TypeOK, Swapped, Mirror, Positions, SwapHalf
  <2>2. ASSUME NEW i \in Positions
        PROVE  letter[i] = Turned(~rev, i)
    BY <1>2, <2>1, <2>2 DEF SwapHalf, Turned
  <2> QED
    BY <1>2, <1>3, <2>2 DEF SwapHalf, Whole
<1>5. shown'[t] = <<>>
  BY <1>1, <1>3 DEF ShownBy
<1>6. AtWork(t)' /\ ShownBy(t)' /\ Inside(t)'
  BY <1>3, <1>4, <1>5, ChangeEnds
<1> QED
  BY <1>1, <1>3, <1>6, OneMoves

(* print_alphabet and count_uppercase: the next letter is the one the      *)
(* alphabet still has there.                                               *)
LEMMA ShowWhole ==
  ASSUME FullInv, NEW t \in AllThreads, Show(t)
  PROVE  DataInv' /\ ShownInv'
<1> USE AlphabetAssumption DEF Show, Go, NextLetter, FromFirst, data
<1> DEFINE k == index[t]
           old == shown[t]
           new == shown'[t]
<1>0. TypeOK /\ LoopInv
  BY DEF FullInv, IInv
<1>1. AtWork(t) /\ ShownBy(t) /\ \A u \in AllThreads \ {t} : pc[u] = "asleep"
  BY OthersAsleep DEF Inside
<1>2. PICK rev \in BOOLEAN, up \in BOOLEAN : Whole(rev, up)
  BY <1>1 DEF AtWork
<1>3. k \in Positions
  BY <1>0 DEF TypeOK, LoopInv, Positions
<1>4. /\ letter' = letter /\ upper' = upper
      /\ new = Append(old, <<letter[k], upper[k]>>)
      /\ IF k < N THEN pc' = pc /\ index'[t] = k + 1
                  ELSE pc'[t] = "unlock" /\ index'[t] = 1
      /\ \A u \in AllThreads \ {t} :
           pc'[u] = pc[u] /\ index'[u] = index[u] /\ shown'[u] = shown[u]
  BY <1>0 DEF TypeOK
<1>5. old \in Seq(Positions \X BOOLEAN) /\ Len(old) = k - 1
  BY <1>0, <1>1 DEF TypeOK, ShownBy
<1>6. /\ Len(new) = k
      /\ \A j \in DOMAIN new : j \in Positions /\ new[j] = <<letter[j], upper[j]>>
  <2>1. <<letter[k], upper[k]>> \in Positions \X BOOLEAN
    BY <1>0, <1>3 DEF TypeOK
  <2>2. Len(new) = k /\ DOMAIN new = 1 .. k /\ new[k] = <<letter[k], upper[k]>>
    BY <1>3, <1>4, <1>5, <2>1 DEF Positions
  <2>3. ASSUME NEW j \in 1 .. k, j # k
        PROVE  new[j] = old[j] /\ j \in DOMAIN old
    BY <1>3, <1>4, <1>5, <2>1, <2>3 DEF Positions
  <2>4. \A j \in DOMAIN old : old[j] = <<letter[j], upper[j]>>
    BY <1>1 DEF ShownBy
  <2> QED
    BY <1>3, <2>2, <2>3, <2>4 DEF Positions
<1>7. pc'[t] \in {"show", "unlock"}
  BY <1>4
<1>8. AtWork(t)'
  <2>1. Whole(rev, up)'
    BY <1>2, <1>4 DEF Whole
  <2> QED
    BY <1>7, <2>1 DEF AtWork
<1>9. ShownBy(t)'
  <2>1. pc'[t] = "unlock" => index'[t] = 1
    BY <1>4
  <2>2. pc'[t] = "show" => Len(new) = index'[t] - 1
    BY <1>3, <1>4, <1>6 DEF Positions
  <2>3. \A j \in DOMAIN new : j \in Positions /\ new[j] = <<letter'[j], upper'[j]>>
    BY <1>4, <1>6
  <2> QED
    BY <1>7, <2>1, <2>2, <2>3 DEF ShownBy
<1>10. Inside(t)'
  BY <1>7 DEF Inside
<1> QED
  BY <1>1, <1>4, <1>8, <1>9, <1>10, OneMoves

(* unlock: the alphabet is left whole.                                     *)
LEMMA UnlockWhole ==
  ASSUME FullInv, NEW t \in AllThreads, Unlock(t)
  PROVE  DataInv' /\ ShownInv'
<1> USE DEF Unlock, Go, data
<1>0. TypeOK
  BY DEF FullInv, IInv
<1>1. AtWork(t) /\ ShownBy(t) /\ \A u \in AllThreads \ {t} : pc[u] = "asleep"
  BY OthersAsleep DEF Inside
<1>2. PICK rev \in BOOLEAN, up \in BOOLEAN : Whole(rev, up)
  BY <1>1 DEF AtWork
<1>3. /\ letter' = letter /\ upper' = upper /\ index' = index
      /\ pc'[t] = "asleep" /\ shown'[t] = <<>>
      /\ \A u \in AllThreads \ {t} : pc'[u] = pc[u] /\ shown'[u] = shown[u]
  BY <1>0 DEF TypeOK
<1>4. Whole(rev, up)'
  BY <1>2, <1>3 DEF Whole
<1>5. ShownBy(t)' /\ ~Inside(t)'
  BY <1>1, <1>3 DEF ShownBy, Inside
<1> QED
  BY <1>1, <1>3, <1>4, <1>5, OneMoves

(* One step of a program keeps what is known of the alphabet.              *)
LEMMA DataStep == FullInv /\ [Next]_vars => DataInv' /\ ShownInv'
<1>1. CASE UNCHANGED vars
  BY <1>1 DEF vars, data, locals, FullInv, DataInv, ShownInv, Inside, AtWork, ShownBy,
              CaseHalf, SwapHalf, SwapMiddle, Whole
<1>2. ASSUME FullInv, NEW t \in AllThreads, Thread(t)
      PROVE  DataInv' /\ ShownInv'
  BY <1>2, LockWhole, InvertCaseWhole, SwapFirstWhole, SwapSecondWhole, SwapDoneWhole,
     ShowWhole, UnlockWhole DEF Thread
<1> QED
  BY <1>1, <1>2 DEF Next

(* The inductive invariant with the alphabet holds in every reachable      *)
(* state.                                                                  *)
THEOREM DataInvariance == Spec => []FullInv
<1>1. Init => FullInv
  BY InitInv, DataInit DEF FullInv
<1>2. FullInv /\ [Next]_vars => FullInv'
  <2>1. IInv /\ [Next]_vars => IInv'
    BY TypeStep, ExclusionStep DEF IInv
  <2> QED
    BY <2>1, DataStep DEF FullInv
<1> QED
  BY <1>1, <1>2, PTL DEF Spec

(* A whole alphabet is one of the four that may be seen.                   *)
LEMMA WholeArrangement ==
  ASSUME TypeOK, NEW rev \in BOOLEAN, NEW up \in BOOLEAN, Whole(rev, up)
  PROVE  /\ [i \in Positions |-> <<letter[i], upper[i]>>] = Arrangement(rev, up)
         /\ Arrangement(rev, up) \in Arrangements
<1>1. [i \in Positions |-> <<letter[i], upper[i]>>] = Arrangement(rev, up)
  BY DEF Whole, Turned, Arrangement
<1>2. Arrangement(rev, up) \in Arrangements
  BY DEF Arrangements
<1> QED
  BY <1>1, <1>2

(* Whenever the lock is free the alphabet is whole: in order or reversed,  *)
(* all upper case or all lower case, for an alphabet of any length.        *)
THEOREM WholeFree == Spec => []WholeWhenFree
<1>1. ASSUME FullInv, Free
      PROVE  [i \in Positions |-> <<letter[i], upper[i]>>] \in Arrangements
  <2>1. \A t \in AllThreads : ~Inside(t)
    BY <1>1 DEF FullInv, IInv, MutualExclusion
  <2>2. PICK rev \in BOOLEAN, up \in BOOLEAN : Whole(rev, up)
    BY <1>1, <2>1 DEF FullInv, DataInv
  <2> QED
    BY <1>1, <2>2, WholeArrangement DEF FullInv, IInv
<1>2. FullInv => WholeWhenFree
  BY <1>1 DEF WholeWhenFree
<1> QED
  BY <1>2, DataInvariance, PTL

(* Whatever a thread prints or counts, letter by letter, is a part of one  *)
(* whole alphabet.                                                         *)
THEOREM ShownCorrect == Spec => []ShownWhole
<1>1. ASSUME FullInv, NEW t \in AllThreads
      PROVE  \E a \in Arrangements : \A k \in DOMAIN shown[t] : shown[t][k] = a[k]
  <2>0. TypeOK /\ ShownBy(t)
    BY <1>1 DEF FullInv, IInv, ShownInv
  <2>1. CASE pc[t] \in {"show", "unlock"}
    <3>1. PICK rev \in BOOLEAN, up \in BOOLEAN : Whole(rev, up)
      BY <1>1, <2>1 DEF FullInv, DataInv, Inside, AtWork
    <3>2. ASSUME NEW k \in DOMAIN shown[t]
          PROVE  shown[t][k] = [i \in Positions |-> <<letter[i], upper[i]>>][k]
      BY <2>0, <2>1 DEF ShownBy
    <3> QED
      BY <2>0, <3>1, <3>2, WholeArrangement
  <2>2. CASE pc[t] \in {"asleep", "case", "swap", "swap_back"}
    <3>1. shown[t] = <<>>
      BY <2>0, <2>2 DEF ShownBy
    <3>2. Arrangement(FALSE, FALSE) \in Arrangements
      <4>1. ASSUME NEW rev \in BOOLEAN, NEW up \in BOOLEAN
            PROVE  Arrangement(rev, up) \in Arrangements
        BY DEF Arrangements
      <4> QED
        BY <4>1
    <3>3. DOMAIN shown[t] = {}
      BY <3>1
    <3> QED
      BY <3>2, <3>3, Zenon
  <2> QED
    BY <2>0, <2>1, <2>2 DEF TypeOK, Places
<1>2. FullInv => ShownWhole
  BY <1>1 DEF ShownWhole
<1> QED
  BY <1>2, DataInvariance, PTL
=============================================================================
