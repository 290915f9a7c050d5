----------------------------- MODULE PrimeCheck -----------------------------
(***************************************************************************)
(* LAB3: the program reads a number and says whether it is prime.  The     *)
(* divisor i is an int, the number an unsigned long; i * i is an int, too. *)
(* The program is compiled without optimisation and wraps on overflow.     *)
(***************************************************************************)
EXTENDS Integers

CONSTANTS
  MaxInt,      \* INT_MAX
  MaxULong,    \* ULONG_MAX
  Words        \* what is typed: numbers, and words that are none

VARIABLES ppc, word, divisor, verdict

vars == <<ppc, word, divisor, verdict>>

(* An int kept in width, and the conversion of line 41 to unsigned long.   *)
Int_(v) == ((v + MaxInt + 1) % (2 * (MaxInt + 1))) - (MaxInt + 1)
ULong(v) == v % (MaxULong + 1)

Init == ppc = "start" /\ word = 0 /\ divisor = 2 /\ verdict = "none"

(* Lines 64-73: strtoul's ERANGE, a rest that is no digit, a minus sign.   *)
Accepted(w) == w \in 0 .. MaxULong

Enter ==
  /\ ppc = "start"
  /\ word' \in Words
  /\ ppc' = IF Accepted(word') THEN "test" ELSE "done"
  /\ verdict' = IF Accepted(word') THEN verdict ELSE "not a number"
  /\ UNCHANGED divisor

Conclude(v) == ppc' = "done" /\ verdict' = v /\ UNCHANGED <<word, divisor>>

\* Fault: the loop ends before the root (< for <= in line 41).
InLoopStrict == ULong(Int_(divisor * divisor)) < word

(* is_prime, lines 35-48.                                                  *)
InLoop == ULong(Int_(divisor * divisor)) <= word

TooSmall == /\ ppc = "test" /\ word < 2
            /\ Conclude("not prime")

Divides == /\ ppc = "test" /\ word >= 2 /\ InLoop
           /\ word % ULong(divisor) = 0
           /\ Conclude("not prime")

NextDivisor == /\ ppc = "test" /\ word >= 2 /\ InLoop
               /\ word % ULong(divisor) # 0
               /\ divisor' = Int_(divisor + 1)
               /\ UNCHANGED <<ppc, word, verdict>>

LoopEnds == /\ ppc = "test" /\ word >= 2 /\ ~InLoop
            /\ Conclude("prime")

Next == Enter \/ TooSmall \/ Divides \/ NextDivisor \/ LoopEnds

Spec == Init /\ [][Next]_vars

-----------------------------------------------------------------------------
HasDivisor(n, limit) == \E d \in 2 .. n : d * d <= n /\ d * d <= limit /\ n % d = 0

(* A number is called prime exactly when it has no divisor up to its root  *)
(* whose square fits in an int: the first square that does not wraps to a  *)
(* huge number and ends the loop, so a product of two primes above 46340   *)
(* is called prime, too (lines 41 and 76).  Left out are the numbers next  *)
(* to ULONG_MAX that are not below every wrapped square.                   *)
PrimeVerdict ==
  ppc = "done" /\ Accepted(word) /\ word < MaxULong - MaxInt =>
    ((verdict = "prime") <=> (word >= 2 /\ ~HasDivisor(word, MaxInt)))
=============================================================================
