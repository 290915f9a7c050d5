----------------------------- MODULE ForthWords -----------------------------
(***************************************************************************)
(* What a user of the Forth relies on: a definition is a list of native    *)
(* words, in which every word it names is replaced by what that word meant *)
(* when the definition was read; to run a word is to perform its list.     *)
(* There is no return stack with addresses and no program counter.  Only   *)
(* the words that are built in as immediate are run inside a definition.   *)
(* What happens after a misuse of the stacks is not said.                  *)
(***************************************************************************)
EXTENDS ForthNatives, FiniteSetsExt

CONSTANTS Spelling, BuiltIn

VARIABLES words,       \* of the input, not yet read
          defs,        \* the dictionary: name, xt, immediate, body
          compiling,
          stack, aux,  \* the data stack, and what >r has put aside
          todo,        \* native words still to be performed
          lost         \* the stacks were misused

vars == <<words, defs, compiling, stack, aux, todo, lost>>

Item(op, arg) == [op |-> op, arg |-> arg]
Branches == {"branch", "0branch"}

(* The latest definition of a name but the one that is being read.         *)
Known == SubSeq(defs, 1, Len(defs) - Truth(compiling))
Latest(name) == Max({0} \cup {k \in 1 .. Len(Known) : Known[k].name = name})

Init ==
  /\ defs = BuiltIn /\ compiling = FALSE
  /\ stack = <<>> /\ aux = <<>> /\ todo = <<>> /\ lost = FALSE

Extend(items) == defs' = [defs EXCEPT ![Len(defs)].body = @ \o items]

Read ==
  /\ ~lost /\ todo = <<>> /\ words # <<>>
  /\ words' = Tail(words)
  /\ UNCHANGED <<compiling, aux, lost>>

ReadKnown ==
  /\ Read
  /\ LET k == Latest(Head(words)) IN
       /\ k # 0
       /\ IF compiling /\ ~defs[k].immediate
          THEN Extend(defs[k].body) /\ UNCHANGED todo
          ELSE todo' = defs[k].body /\ UNCHANGED defs
  /\ UNCHANGED stack

(* A number after a branch is where it goes.                               *)
ReadNumber ==
  /\ Read
  /\ Latest(Head(words)) = 0 /\ IsNumber(Spelling[Head(words)])
  /\ LET n == Number(Spelling[Head(words)])
         body == defs[Len(defs)].body
     IN IF ~compiling THEN stack' = Append(stack, n) /\ UNCHANGED defs
        ELSE /\ IF body # <<>> /\ Last(body).op \in Branches /\ Last(body).arg = 0
                THEN defs' = [defs EXCEPT ![Len(defs)].body[Len(body)].arg = n]
                ELSE Extend(<<Item("lit", n)>>)
             /\ UNCHANGED stack
  /\ UNCHANGED todo

ReadUnknown ==
  /\ Read
  /\ Latest(Head(words)) = 0 /\ ~IsNumber(Spelling[Head(words)])
  /\ UNCHANGED <<defs, stack, todo>>

Top == Last(stack)
Pop == stack' = Front(stack)
Push(v) == stack' = Append(stack, v)

(* To take a word off the list and perform it.                             *)
Perform(ops) ==
  /\ ~lost /\ todo # <<>>
  /\ Head(todo).op \in ops /\ Len(stack) >= Needs(Head(todo).op)
  /\ UNCHANGED lost

Goes == todo' = Tail(todo)

PerformPure ==
  /\ Perform(Pure) /\ Goes
  /\ stack' = Apply(Head(todo).op, stack)
  /\ UNCHANGED <<words, defs, compiling, aux>>

PerformLit ==
  /\ Perform({"lit"}) /\ Goes
  /\ Push(Head(todo).arg)
  /\ UNCHANGED <<words, defs, compiling, aux>>

PutAside ==
  /\ Perform({">r"}) /\ Goes /\ Pop
  /\ aux' = Append(aux, Top)
  /\ UNCHANGED <<words, defs, compiling>>

TakeBack ==
  /\ aux # <<>>
  /\ \/ Perform({"r>"}) /\ Goes /\ aux' = Front(aux)
     \/ Perform({"r@"}) /\ Goes /\ UNCHANGED aux
  /\ Push(Last(aux))
  /\ UNCHANGED <<words, defs, compiling>>

PerformExecute ==
  /\ Perform({"execute"}) /\ Pop
  /\ \E k \in DOMAIN defs : /\ defs[k].xt = Top
                            /\ todo' = defs[k].body \o Tail(todo)
  /\ UNCHANGED <<words, defs, compiling, aux>>

(* Only a branch that is not taken is followed.                            *)
PerformBranch0 ==
  /\ Perform({"0branch"}) /\ Goes /\ Pop
  /\ Top # 0
  /\ UNCHANGED <<words, defs, compiling, aux>>

(* The memory that "," fills is no part of any word.                       *)
PerformComma ==
  /\ Perform({","}) /\ Goes /\ Pop
  /\ UNCHANGED <<words, defs, compiling, aux>>

PerformHereInd ==
  /\ Perform({"here_ind"}) /\ Goes
  /\ stack' # <<>> /\ Front(stack') = stack
  /\ UNCHANGED <<words, defs, compiling, aux>>

(* IMMEDIATE has no effect, neither has exit at the end of a list.         *)
PerformNothing ==
  /\ Perform({"IMMEDIATE", "exit"}) /\ Goes
  /\ UNCHANGED <<words, defs, compiling, stack, aux>>

PerformColon ==
  /\ Perform({":"}) /\ Goes /\ words # <<>>
  /\ words' = Tail(words)
  /\ compiling' = TRUE
  /\ \E xt \in {defs'[Len(defs')].xt} :
       defs' = Append(defs, [name |-> Head(words), xt |-> xt,
                             immediate |-> FALSE, body |-> <<>>])
  /\ UNCHANGED <<stack, aux>>

PerformSemicolon ==
  /\ Perform({";"}) /\ Goes
  /\ compiling' = FALSE
  /\ UNCHANGED <<words, defs, stack, aux>>

(* Inside a definition, the next word's token is compiled; outside, the    *)
(* word is read and nothing else happens (line 593).                       *)
PerformTick ==
  /\ Perform({"'"}) /\ Goes /\ words # <<>> /\ Latest(Head(words)) # 0
  /\ words' = Tail(words)
  /\ IF compiling THEN Extend(<<Item("lit", defs[Latest(Head(words))].xt)>>)
                  ELSE UNCHANGED defs
  /\ UNCHANGED <<compiling, stack, aux>>

Tokens == {defs[k].xt : k \in DOMAIN defs}
Misuse ==
  \/ aux # <<>>
  \/ /\ todo # <<>>
     /\ LET op == Head(todo).op
        IN \/ Len(stack) < Needs(op)
           \/ op \in {"r>", "r@", "lit", "branch"}
           \/ op = "execute" /\ Top \notin Tokens
           \/ op = "0branch" /\ (Top = 0 \/ Head(todo).arg = 0)
           \/ op = "'" /\ (words = <<>> \/ Latest(Head(words)) = 0)

Lose == /\ ~lost /\ Misuse
        /\ lost'

Next ==
  \/ ReadKnown \/ ReadNumber \/ ReadUnknown
  \/ PerformPure \/ PerformLit \/ PutAside \/ TakeBack
  \/ PerformExecute \/ PerformBranch0 \/ PerformComma \/ PerformHereInd
  \/ PerformNothing \/ PerformColon \/ PerformSemicolon \/ PerformTick
  \/ Lose \/ (lost /\ lost')

Spec == Init /\ [][Next]_vars
=============================================================================
