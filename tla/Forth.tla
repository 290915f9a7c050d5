------------------------------- MODULE Forth -------------------------------
(***************************************************************************)
(* The Forth of System-Level-Software-Coursework: the inner interpreter    *)
(* with its program counter, working register and two stacks (main.asm,    *)
(* native_words.inc), and the outer interpreter and compiler (colon.inc),  *)
(* whose words take a step each here.                                      *)
(*                                                                         *)
(* The names of natives are those of native_words.inc; "," ":" ";" and "'" *)
(* are colon words there.  Headers lie between the cells of user_dict; the *)
(* model keeps them apart and numbers the cells.  Natives lists the words  *)
(* that are modelled; left out are / and %, the bitwise and logical words  *)
(* but not, and those that fetch, store, print, read or make system calls. *)
(* What is typed never ends a definition with exit but by ";", and gives   *)
(* every branch in one a number.                                           *)
(***************************************************************************)
EXTENDS ForthNatives, FiniteSetsExt

CONSTANTS
  Programs,    \* what is typed: sequences of words
  Spelling     \* of each word that is typed, how its letters begin

VARIABLES
  words,       \* not yet read
  compiling,   \* state
  pc, w,       \* r15 and r14; w is None but between next and jmp [w]
  stack, rstack,
  dict,        \* the headers, oldest first
  code         \* the cells of user_dict

vars == <<words, compiling, pc, w, stack, rstack, dict, code>>

Natives == <<"drop", "swap", "dup", "+", "-", "*", "=", "<", "not",
             ">r", "r>", "r@", "execute", "branch", "0branch", "exit", "lit",
             "here_ind", "IMMEDIATE", ",", ":", ";", "'">>
Xt(op) == CHOOSE i \in DOMAIN Natives : Natives[i] = op
IsNative(xt) == xt \in DOMAIN Natives

None == 0
Outer == 0            \* pc in the loop of forth-interpret-fd
Wild == -1            \* pc after a jump to where no code is
Ended == -2
Back == 100           \* the cell after execute in forth-interpret (line 558)
Docol == -100         \* the cell that holds i_docol

Here == Back + 1 + Len(code)
InCode(a) == a \in Back .. Here - 1
Cell(a) == IF a = Back THEN Xt("exit") ELSE code[a - Back]
IsXt(c) == IsNative(c) \/ (InCode(c) /\ Cell(c) = Docol)

Init ==
  /\ words \in Programs
  /\ compiling = FALSE
  /\ pc = Outer /\ w = None
  /\ stack = <<>> /\ rstack = <<>>
  /\ dict = [i \in DOMAIN Natives |->
               [name |-> Natives[i], xt |-> i, before |-> FALSE,
                flag |-> Natives[i] \in {";", "'"}]]
  /\ code = <<>>

-----------------------------------------------------------------------------
(* The outer interpreter, colon.inc lines 511-582.                         *)

\* Fault: the search begins with the oldest word.
FindOldest(name) ==
  LET found == {k \in 1 .. Len(dict) - Truth(compiling) : dict[k].name = name}
  IN IF found = {} THEN 0 ELSE Min(found)

(* forth-find-word: while a word is compiled the search begins with the    *)
(* word before it (lines 287-291).                                         *)
Find(name) ==
  LET last == Len(dict) - Truth(compiling)
  IN Max({0} \cup {k \in 1 .. last : dict[k].name = name})

Read(found, number) ==
  /\ pc = Outer /\ w = None /\ words # <<>>
  /\ (Find(Head(words)) # 0) = found
  /\ ~found => IsNumber(Spelling[Head(words)]) = number
  /\ words' = Tail(words)
  /\ UNCHANGED <<compiling, dict>>

Found == dict[Find(Head(words))]
TypedNumber == Number(Spelling[Head(words)])

(* forth-xt-is-immediate reads the byte after the name.                    *)
RunWord ==
  /\ Read(TRUE, FALSE)
  /\ ~compiling \/ Found.flag
  /\ w' = Found.xt /\ pc' = Back
  /\ rstack' = Append(rstack, [ret |-> TRUE, cell |-> Outer])
  /\ UNCHANGED <<stack, code>>

CompileWord ==
  /\ Read(TRUE, FALSE)
  /\ compiling /\ ~Found.flag
  /\ code' = Append(code, Found.xt)
  /\ UNCHANGED <<pc, w, stack, rstack>>

PushNumber ==
  /\ Read(FALSE, TRUE) /\ ~compiling
  /\ stack' = Append(stack, TypedNumber)
  /\ UNCHANGED <<pc, w, rstack, code>>

(* forth-follows-branch looks at the last cell only.                       *)
FollowsBranch == Last(code) \in {Xt("branch"), Xt("0branch")}

CompileNumber ==
  /\ Read(FALSE, TRUE) /\ compiling
  /\ code' = code \o (IF FollowsBranch THEN <<>> ELSE <<Xt("lit")>>) \o <<TypedNumber>>
  /\ UNCHANGED <<pc, w, stack, rstack>>

(* "No such word" is printed, and the definition goes on without it.       *)
UnknownWord ==
  /\ Read(FALSE, FALSE)
  /\ UNCHANGED <<pc, w, stack, rstack, code>>

EndOfInput ==
  /\ pc = Outer /\ w = None /\ words = <<>>
  /\ pc' = Ended
  /\ UNCHANGED <<words, compiling, w, stack, rstack, dict, code>>

-----------------------------------------------------------------------------
(* The inner interpreter, main.asm lines 28-32, and the natives.           *)

Fetch ==
  /\ pc > 0 /\ w = None
  /\ w' = Cell(pc) /\ pc' = pc + 1
  /\ UNCHANGED <<words, compiling, stack, rstack, dict, code>>

Do(op) == w # None /\ w = Xt(op) /\ Len(stack) >= Needs(op)
Done == w' = None
Top == Last(stack)
Pop == stack' = Front(stack)
Push(v) == stack' = Append(stack, v)

DoDocol ==
  /\ w > Back
  /\ rstack' = Append(rstack, [ret |-> TRUE, cell |-> pc])
  /\ pc' = w + 1 /\ Done
  /\ UNCHANGED <<words, compiling, stack, dict, code>>

DoPure ==
  /\ \E op \in Pure : Do(op) /\ stack' = Apply(op, stack)
  /\ Done
  /\ UNCHANGED <<words, compiling, pc, rstack, dict, code>>

DoToR ==
  /\ Do(">r") /\ Pop /\ Done
  /\ rstack' = Append(rstack, [ret |-> FALSE, cell |-> Top])
  /\ UNCHANGED <<words, compiling, pc, dict, code>>

Held == rstack # <<>> /\ ~Last(rstack).ret

DoFromR ==
  /\ Do("r>") /\ Held /\ Done
  /\ Push(Last(rstack).cell)
  /\ rstack' = Front(rstack)
  /\ UNCHANGED <<words, compiling, pc, dict, code>>

DoCopyR ==
  /\ Do("r@") /\ Held /\ Done
  /\ Push(Last(rstack).cell)
  /\ UNCHANGED <<words, compiling, pc, rstack, dict, code>>

HasArgument == InCode(pc) /\ pc # Back

DoLit ==
  /\ Do("lit") /\ HasArgument /\ Done
  /\ Push(Cell(pc)) /\ pc' = pc + 1
  /\ UNCHANGED <<words, compiling, rstack, dict, code>>

JumpTo(a) == pc' = IF InCode(a) THEN a ELSE Wild

DoBranch ==
  /\ Do("branch") /\ HasArgument /\ Done
  /\ JumpTo(Cell(pc))
  /\ UNCHANGED <<words, compiling, stack, rstack, dict, code>>

DoBranch0 ==
  /\ Do("0branch") /\ HasArgument /\ Pop /\ Done
  /\ IF Top = 0 THEN JumpTo(Cell(pc)) ELSE pc' = pc + 1
  /\ UNCHANGED <<words, compiling, rstack, dict, code>>

DoExit ==
  /\ Do("exit") /\ ~Held /\ Done
  /\ pc' = Last(rstack).cell /\ rstack' = Front(rstack)
  /\ UNCHANGED <<words, compiling, stack, dict, code>>

DoExecute ==
  /\ Do("execute") /\ IsXt(Top) /\ Pop
  /\ w' = Top
  /\ UNCHANGED <<words, compiling, pc, rstack, dict, code>>

DoComma ==
  /\ Do(",") /\ Pop /\ Done
  /\ code' = Append(code, Top)
  /\ UNCHANGED <<words, compiling, pc, rstack, dict>>

DoHereInd ==
  /\ Do("here_ind") /\ Done
  /\ Push(Here)
  /\ UNCHANGED <<words, compiling, pc, rstack, dict, code>>

(* Lines 301-306 set the byte before the name of the last word.            *)
DoImmediate ==
  /\ Do("IMMEDIATE") /\ Done
  /\ dict' = [dict EXCEPT ![Len(dict)].before = TRUE]
  /\ UNCHANGED <<words, compiling, pc, stack, rstack, code>>

(* colon.inc lines 336-376; at the end of the input it reads for ever.     *)
DoColon ==
  /\ Do(":") /\ words # <<>> /\ Done
  /\ words' = Tail(words)
  /\ dict' = Append(dict, [name |-> Head(words), xt |-> Here,
                           before |-> FALSE, flag |-> FALSE])
  /\ code' = Append(code, Docol)
  /\ compiling' = TRUE
  /\ UNCHANGED <<pc, stack, rstack>>

DoSemicolon ==
  /\ Do(";") /\ Done
  /\ compiling' = FALSE
  /\ code' = Append(code, Xt("exit"))
  /\ UNCHANGED <<words, pc, stack, rstack, dict>>

(* Lines 584-597: line 593 tests the address of the state, which is never  *)
(* 0, so the token is compiled also when nothing is being compiled.        *)
DoTick ==
  /\ Do("'") /\ words # <<>> /\ Find(Head(words)) # 0 /\ Done
  /\ words' = Tail(words)
  /\ code' = code \o <<Xt("lit"), Found.xt>>
  /\ UNCHANGED <<compiling, pc, stack, rstack, dict>>

(* Too few values, a return address for a value or a value for an address, *)
(* no argument, a token that is none; and ' without a word it knows, which *)
(* takes the top of the stack for a text, or drops it (lines 598-605).     *)
GoWild ==
  /\ IsNative(w)
  /\ LET op == Natives[w]
     IN \/ Len(stack) < Needs(op)
        \/ op \in {"r>", "r@"} /\ ~Held
        \/ op = "exit" /\ Held
        \/ op \in {"lit", "branch", "0branch"} /\ ~HasArgument
        \/ op = "execute" /\ stack # <<>> /\ ~IsXt(Top)
        \/ op = "'" /\ (words = <<>> \/ Find(Head(words)) = 0)
  /\ pc' = Wild /\ Done
  /\ UNCHANGED <<words, compiling, stack, rstack, dict, code>>

Next ==
  \/ RunWord \/ CompileWord \/ PushNumber \/ CompileNumber \/ UnknownWord
  \/ EndOfInput \/ Fetch
  \/ DoDocol \/ DoPure \/ DoToR \/ DoFromR \/ DoCopyR \/ DoLit
  \/ DoBranch \/ DoBranch0 \/ DoExit \/ DoExecute \/ DoComma \/ DoHereInd
  \/ DoImmediate \/ DoColon \/ DoSemicolon \/ DoTick \/ GoWild

Spec == Init /\ [][Next]_vars

-----------------------------------------------------------------------------
(* The threaded code and the return stack implement the lists of native    *)
(* words of ForthWords: a word means what the words in it meant when it    *)
(* was compiled, whatever is defined later and under whatever name.        *)
Item(op, arg) == [op |-> op, arg |-> arg]
TakesArgument(c) == c \in {Xt("lit"), Xt("branch"), Xt("0branch")}

\* The native words from an address to the exit, calls expanded.
Listed ==
  LET from[a \in Back .. Here + 1] ==
        IF ~InCode(a) \/ Cell(a) = Xt("exit") \/ ~IsXt(Cell(a)) THEN <<>>
        ELSE LET c == Cell(a)
             IN IF TakesArgument(c)
                THEN <<Item(Natives[c], IF InCode(a + 1) THEN Cell(a + 1) ELSE 0)>>
                       \o from[a + 2]
                ELSE (IF IsNative(c) THEN <<Item(Natives[c], 0)>> ELSE from[c + 1])
                       \o from[a + 1]
  IN from

From(a) == IF InCode(a) THEN Listed[a] ELSE <<>>

\* What is still to be done in the words that have been called.
Callers == FoldRight(LAMBDA f, list : list \o (IF f.ret THEN From(f.cell) ELSE <<>>),
                     rstack, <<>>)

Todo ==
  IF pc <= 0 THEN <<>>
  ELSE (CASE w = None -> From(pc)
          [] w = Xt("exit") -> <<>>
          [] TakesArgument(w) ->
               <<Item(Natives[w], IF HasArgument THEN Cell(pc) ELSE 0)>> \o From(pc + 1)
          [] IsNative(w) /\ w # Xt("exit") /\ ~TakesArgument(w) ->
               <<Item(Natives[w], 0)>> \o From(pc)
          [] w > Back -> From(w + 1) \o From(pc))
       \o Callers

Aux == LET held == SelectSeq(rstack, LAMBDA f : ~f.ret)
       IN [i \in DOMAIN held |-> held[i].cell]

Bodies == [k \in DOMAIN dict |->
             [name |-> dict[k].name, xt |-> dict[k].xt, immediate |-> dict[k].flag,
              body |-> IF dict[k].xt < Back THEN <<Item(dict[k].name, 0)>>
                       ELSE From(dict[k].xt + 1)]]

Meaning == INSTANCE ForthWords
             WITH BuiltIn <- [i \in DOMAIN Natives |->
                                [name |-> Natives[i], xt |-> i,
                                 immediate |-> Natives[i] \in {";", "'"},
                                 body |-> <<Item(Natives[i], 0)>>]],
                  defs <- Bodies, aux <- Aux, todo <- Todo, lost <- pc = Wild
ForthSpec == Meaning!Spec
=============================================================================
