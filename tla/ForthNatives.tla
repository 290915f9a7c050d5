---------------------------- MODULE ForthNatives ----------------------------
(***************************************************************************)
(* What the native words of the Forth do to the data stack, and what its   *)
(* number parser makes of a word.  The top of a stack is its last element. *)
(* Numbers are small: the 64 bits of a cell are not modelled.              *)
(***************************************************************************)
EXTENDS Integers, Sequences, SequencesExt

Truth(p) == IF p THEN 1 ELSE 0

Unary == {"drop", "dup", "not"}
Binary == {"swap", "+", "-", "*", "=", "<"}
Pure == Unary \cup Binary

(* How many values a native word takes from the stack.                     *)
Needs(op) == IF op \in Binary THEN 2
             ELSE IF op \in Unary \cup {">r", "execute", ",", "0branch"} THEN 1
             ELSE 0

(* What the two operands leave in place of them: + and *                   *)
(* (native_words.inc lines 73-83), and -, = and < (104-131).               *)
Calculated(op, a, b) == CASE op = "+" -> a + b
                          [] op = "*" -> a * b

Compared(op, a, b) == CASE op = "-" -> a - b
                        [] op = "=" -> Truth(a = b)
                        [] op = "<" -> Truth(a < b)

(* drop, swap and dup (native_words.inc lines 34-49), not (143-146) and    *)
(* the words with two operands.                                            *)
Apply(op, s) ==
  LET b == Last(s)  below == Front(s)  a == Last(below)  under == Front(below)
  IN CASE op = "drop" -> below
       [] op = "dup"  -> Append(s, b)
       [] op = "not"  -> Append(below, Truth(b = 0))
       [] op = "swap" -> under \o <<b, a>>
       [] op \in {"+", "*"} -> Append(under, Calculated(op, a, b))
       [] op \in {"-", "=", "<"} -> Append(under, Compared(op, a, b))

(* string-parse-number, colon.inc lines 412-494.  A spelling is the first  *)
(* character, unless it is a digit, and the digits from there on; what     *)
(* follows them is not looked at.  Any first character that is neither a   *)
(* digit nor a plus falls into the branch of the minus (line 468).         *)
IsNumber(spelling) == spelling.digits # <<>>
Number(spelling) ==
  LET n == FoldLeft(LAMBDA v, d : 10 * v + d, 0, spelling.digits)
  IN IF spelling.first \in {"", "+"} THEN n ELSE -n
=============================================================================
