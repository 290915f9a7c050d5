---------------------------- MODULE AlphabetLocks ----------------------------
(***************************************************************************)
(* The four programs of lab5/part2 that change and print one shared        *)
(* alphabet, each with its own primitive behind lock() and unlock():       *)
(* mutex.c, rw.c (a write lock for everybody), sem_posix.c and sem_sysv.c  *)
(* (a semaphore that is 0 when it is free).  The loops of alphabet.c run   *)
(* letter by letter.                                                       *)
(***************************************************************************)
EXTENDS Naturals, Sequences, FiniteSets

CONSTANTS N,           \* letters of the alphabet, 26 in the code
          Programs     \* which of the four programs

ASSUME AlphabetAssumption ==
  /\ N \in Nat \ {0, 1}
  /\ Programs \subseteq {"mutex", "rw", "sem_posix", "sem_sysv"}

VARIABLES program,
          value,           \* the mutex (1 = held), rwlock or semaphore
          letter, upper,   \* the alphabet: letter and case at each position
          pc,              \* where each thread is
          index, temp,     \* each thread's loop index and temp
          shown            \* what each thread has read of the alphabet

data == <<letter, upper>>
locals == <<index, temp, shown>>
vars == <<program, value, data, pc, locals>>

Positions == 1 .. N
NoLetter == <<0, FALSE>>
Mirror(i) == N + 1 - i

(* main prints in two programs, and only rw.c counts.                      *)
Threads == {"change_case", "invert_alphabet"}
             \cup (IF program \in {"mutex", "rw"} THEN {"main"} ELSE {})
             \cup (IF program = "rw" THEN {"uppercase_count"} ELSE {})
AllThreads == {"change_case", "invert_alphabet", "main", "uppercase_count"}

(* A semaphore of sem_posix.c is initialised to 1.  In sem_sysv.c SETALL   *)
(* gets 1 for the address of an array and fails, so the value stays 0.     *)
Init ==
  /\ program \in Programs
  /\ value = IF program = "sem_posix" THEN 1 ELSE 0
  /\ letter = [i \in Positions |-> i]
  /\ upper = [i \in Positions |-> FALSE]
  /\ pc = [t \in AllThreads |-> "asleep"]
  /\ index = [t \in AllThreads |-> 1]
  /\ temp = [t \in AllThreads |-> NoLetter]
  /\ shown = [t \in AllThreads |-> <<>>]

-----------------------------------------------------------------------------

(* The loop a thread runs once it holds the lock.                          *)
FirstLoop(t) == CASE t = "change_case" -> "case"
                  [] t = "invert_alphabet" -> "swap"
                  [] OTHER -> "show"

(* lock() of the four programs.                                            *)
LockMutex == program = "mutex" /\ value = 0 /\ value' = 1
LockRw == program = "rw" /\ value = 0 /\ value' = 1
LockPosix == program = "sem_posix" /\ value > 0 /\ value' = value - 1

\* Fault: lock() adds one without waiting for zero (line 14 missing).
LockSysvWithoutWait == program = "sem_sysv" /\ value' = value + 1

(* Both operations of the semop are done at once, or it waits.             *)
LockSysv == program = "sem_sysv" /\ value = 0 /\ value' = value + 1

Lock(t) ==
  /\ t \in Threads /\ pc[t] = "asleep"
  /\ LockMutex \/ LockRw \/ LockPosix \/ LockSysv
  /\ pc' = [pc EXCEPT ![t] = FirstLoop(t)]
  /\ UNCHANGED <<program, data, locals>>

(* The semaphore programs print before they unlock; the others do not.     *)
AfterChange == IF program \in {"sem_posix", "sem_sysv"} THEN "show" ELSE "unlock"

Go(t, place) == pc' = [pc EXCEPT ![t] = place]
NextLetter(t) == index' = [index EXCEPT ![t] = @ + 1]
FromFirst(t) == index' = [index EXCEPT ![t] = 1]

\* Fault: the loop stops before the last letter.
InvertCaseShort(t) ==
  /\ pc[t] = "case"
  /\ upper' = [upper EXCEPT ![index[t]] = ~@]
  /\ IF index[t] < N - 1 THEN NextLetter(t) /\ UNCHANGED pc
                         ELSE FromFirst(t) /\ Go(t, AfterChange)
  /\ UNCHANGED <<program, value, letter, temp, shown>>

(* invert_case, lines 14-17.                                               *)
InvertCase(t) ==
  /\ pc[t] = "case"
  /\ upper' = [upper EXCEPT ![index[t]] = ~@]
  /\ IF index[t] < N THEN NextLetter(t) /\ UNCHANGED pc
                     ELSE FromFirst(t) /\ Go(t, AfterChange)
  /\ UNCHANGED <<program, value, letter, temp, shown>>

(* swap_alphabet, lines 19-28: temp keeps letter i while letter j is       *)
(* copied over it ...                                                      *)
SwapFirst(t) ==
  /\ pc[t] = "swap" /\ index[t] < Mirror(index[t])
  /\ LET i == index[t]  j == Mirror(i) IN
       /\ temp' = [temp EXCEPT ![t] = <<letter[i], upper[i]>>]
       /\ letter' = [letter EXCEPT ![i] = letter[j]]
       /\ upper' = [upper EXCEPT ![i] = upper[j]]
  /\ Go(t, "swap_back")
  /\ UNCHANGED <<program, value, index, shown>>

(* ... and is then written over letter j.                                  *)
SwapSecond(t) ==
  /\ pc[t] = "swap_back"
  /\ LET j == Mirror(index[t]) IN
       /\ letter' = [letter EXCEPT ![j] = temp[t][1]]
       /\ upper' = [upper EXCEPT ![j] = temp[t][2]]
  /\ temp' = [temp EXCEPT ![t] = NoLetter]
  /\ NextLetter(t) /\ Go(t, "swap")
  /\ UNCHANGED <<program, value, shown>>

SwapDone(t) ==
  /\ pc[t] = "swap" /\ index[t] >= Mirror(index[t])
  /\ FromFirst(t) /\ Go(t, AfterChange)
  /\ UNCHANGED <<program, value, data, temp, shown>>

(* print_alphabet, lines 7-12, and count_uppercase, lines 30-35, read the  *)
(* letters one by one.                                                     *)
Show(t) ==
  /\ pc[t] = "show"
  /\ shown' = [shown EXCEPT ![t] = Append(@, <<letter[index[t]], upper[index[t]]>>)]
  /\ IF index[t] < N THEN NextLetter(t) /\ UNCHANGED pc
                     ELSE FromFirst(t) /\ Go(t, "unlock")
  /\ UNCHANGED <<program, value, data, temp>>

(* unlock() of the four programs.                                          *)
UnlockMutex == program = "mutex" /\ value' = 0
UnlockRw == program = "rw" /\ value' = 0
UnlockPosix == program = "sem_posix" /\ value' = value + 1

\* Fault: the semaphore is not taken back to zero.
UnlockSysvSkipped == program = "sem_sysv" /\ value' = value

UnlockSysv == program = "sem_sysv" /\ value > 0 /\ value' = value - 1

Unlock(t) ==
  /\ pc[t] = "unlock"
  /\ UnlockMutex \/ UnlockRw \/ UnlockPosix \/ UnlockSysv
  /\ shown' = [shown EXCEPT ![t] = <<>>]
  /\ Go(t, "asleep")
  /\ UNCHANGED <<program, data, index, temp>>

Thread(t) == \/ Lock(t) \/ InvertCase(t) \/ SwapFirst(t) \/ SwapSecond(t)
             \/ SwapDone(t) \/ Show(t) \/ Unlock(t)

Next == \E t \in AllThreads : Thread(t)

Spec == Init /\ [][Next]_vars

(* A thread that is runnable runs; a lock promises no order among waiters. *)
FairSpec == Spec /\ \A t \in AllThreads : WF_vars(Thread(t))

-----------------------------------------------------------------------------
(* Correctness.                                                            *)

Places == {"asleep", "case", "swap", "swap_back", "show", "unlock"}

(* Type invariant: the values every variable ranges over.                  *)
TypeOK ==
  /\ program \in Programs
  /\ value \in {0, 1}
  /\ letter \in [Positions -> Positions]
  /\ upper \in [Positions -> BOOLEAN]
  /\ pc \in [AllThreads -> Places]
  /\ index \in [AllThreads -> 1 .. N + 1]
  /\ temp \in [AllThreads -> (0 .. N) \X BOOLEAN]
  /\ shown \in [AllThreads -> Seq(Positions \X BOOLEAN)]

Inside(t) == pc[t] # "asleep"
Free == IF program = "sem_posix" THEN value = 1 ELSE value = 0

(* One thread at a time holds the lock, and exactly while it is inside.    *)
MutualExclusion ==
  /\ \A t, u \in AllThreads : Inside(t) /\ Inside(u) => t = u
  /\ Free <=> \A t \in AllThreads : ~Inside(t)

(* The four alphabets anybody may ever see: in either order and case.      *)
Arrangement(rev, up) == [i \in Positions |-> <<IF rev THEN Mirror(i) ELSE i, up>>]
Arrangements == {Arrangement(rev, up) : rev, up \in BOOLEAN}

(* When nobody is inside, the alphabet is one of them.                     *)
WholeWhenFree ==
  Free => [i \in Positions |-> <<letter[i], upper[i]>>] \in Arrangements

(* What a thread reads, letter by letter, is one of them as well: neither  *)
(* a half swapped nor a half changed alphabet is ever printed, and the     *)
(* count of upper case letters is none or all.                             *)
ShownWhole ==
  \A t \in AllThreads :
    \E a \in Arrangements : \A k \in DOMAIN shown[t] : shown[t][k] = a[k]

(* The programs never stop: again and again some thread gets the lock.     *)
KeepsGoing == []<>Free /\ []<>~Free
=============================================================================
