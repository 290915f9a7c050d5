----------------------------- MODULE MCPrograms -----------------------------
(* An instance of the programs that are run by one user at a time: one of  *)
(* them is chosen and runs alone.                                          *)
EXTENDS LinkedList, UserPrograms

VARIABLES program,
          words, compiling, fpc, fw, stack, rstack, dict, code

\* Ints of 6 bits, unsigned longs of 12: the first square that wraps is 36.
SomeNumbers == (-1 .. 500) \cup (3950 .. 4100)

\* All shapes up to 5 by 5, so every padding.
SomeSides == 1 .. 5

\* Ints of 3 bits, printed in base 2; three numbers just fit in the memory.
SomeInputs == {-4, Junk}
SomeTextFiles == {NoFile, <<3, -4, 2>>, <<1, 2, 3, 1>>, <<-1, Junk>>}

\* Two definitions, a third with the name of the first, and a use of them.
Word(first, digits) == [first |-> first, digits |-> digits]
Words == [t \in {":", ";", "'", "IMMEDIATE", "dup", "+", "-", ">r", "r>", "r@", ",",
                 "here_ind", "execute", "0branch", "branch", "a", "b", "foo"}
            |-> Word("x", <<>>)]
         @@ ("x3" :> Word("x", <<3>>) @@ "1" :> Word("", <<1>>)
             @@ "2" :> Word("", <<2>>) @@ "9" :> Word("", <<9>>))
FirstBodies == BoundedSeq({"dup", "1", "foo"}, 2) \cup {<<"x3">>, <<"2", "x3", "-">>}
SecondBodies ==
  BoundedSeq({"a", ">r", "r>"}, 2)
    \cup {<<"a", ">r", "r>", "+">>, <<"a", ">r", "r@", "r>">>, <<"a", "b">>,
          <<"'", "a", "execute">>, <<"'", "foo">>, <<"a", "0branch", "9", "a">>,
          <<"branch", "9">>, <<"here_ind", ",", "1">>, <<":", "foo">>}
Uses == {<<"1", "2", "b", "a">>, <<"a", ":">>, <<"'", "foo">>,
         <<"'", "a", "b", "IMMEDIATE", ":", "foo", "a", ";", "foo">>,
         <<"1", "2", ",", "here_ind", "execute">>}
Sessions ==
  {<<":", "a">> \o x \o <<";", ":", "b">> \o y \o <<";", ":", "a", "a", "a", ";">> \o z :
     x \in FirstBodies, y \in SecondBodies, z \in Uses}
Machine == INSTANCE Forth
             WITH Programs <- Sessions \cup {<<>>}, Spelling <- Words, pc <- fpc, w <- fw

primeVars == <<ppc, word, divisor, verdict>>
bmpVars == <<bpc, disk, image, original, valid, turns>>
teeVars == <<tpc, append_mode, ignore_interrupts_mode, openable, output_ok,
             at, opened, data, pending, writing, unlisted, torn, taken, out, errors>>
forthVars == <<words, compiling, fpc, fw, stack, rstack, dict, code>>

Alone(name) == program \in {"none", name} /\ program' = name

ProgramsInit == /\ Machine!Init
                /\ program = IF words = <<>> THEN "none" ELSE "forth"
                /\ Init /\ Prime!Init /\ Bmp!Init /\ Filter!Init

ProgramsNext ==
  \/ Alone("list") /\ Next /\ UNCHANGED <<primeVars, bmpVars, teeVars, forthVars>>
  \/ Alone("prime") /\ Prime!Next /\ UNCHANGED <<vars, bmpVars, teeVars, forthVars>>
  \/ Alone("bmp") /\ Bmp!Next /\ UNCHANGED <<vars, primeVars, teeVars, forthVars>>
  \/ Alone("tee") /\ Filter!Next /\ UNCHANGED <<vars, primeVars, bmpVars, forthVars>>
  \/ Alone("forth") /\ Machine!Next /\ UNCHANGED <<vars, primeVars, bmpVars, teeVars>>

ProgramsSpec ==
  ProgramsInit
  /\ [][ProgramsNext]_<<program, vars, primeVars, bmpVars, teeVars, forthVars>>

(* A compiled word keeps its meaning (refinement of ForthWords).            *)
ForthSpec == Machine!ForthSpec
=============================================================================
