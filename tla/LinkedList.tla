----------------------------- MODULE LinkedList -----------------------------
(***************************************************************************)
(* LAB4: the linked list over the nodes malloc hands out, its higher-order *)
(* functions, and the program that loads a list, maps it and saves it,     *)
(* run again and again over the same two files.                            *)
(*                                                                         *)
(* Reading a list (length, sum, foreach, foldl, printing) changes nothing  *)
(* and has no step.  An int has the values MinInt .. MaxInt and wraps.     *)
(***************************************************************************)
EXTENDS Integers, Sequences, SequencesExt, FiniteSetsExt

CONSTANTS
  MaxInt,      \* INT_MAX
  Base,        \* 10: numbers are printed in decimal
  Inputs,      \* what a user types in, numbers or Junk
  MaxTyped,    \* bound on how many
  TextFiles,   \* contents the text file may have before the first run
  Junk,        \* something in a text file that is no number
  Sign,        \* a minus sign at the end of a text file, its digits missing
  NoFile,      \* contents of a file that is not there
  MaxNodes,    \* bound on the nodes malloc can hand out
  PowerCount,  \* 10 in main.c (line 76)
  MaxRuns      \* bound on the runs of the program

MinInt == -MaxInt - 1

ASSUME ListAssumption ==
  /\ MaxInt \in Nat \ {0} /\ Base \in Nat \ {0, 1}
  /\ Inputs \subseteq (MinInt .. MaxInt) \cup {Junk}
  /\ TextFiles \subseteq Seq((MinInt .. MaxInt) \cup {Junk}) \cup {NoFile}
  /\ Junk \notin MinInt .. MaxInt /\ Sign \notin (MinInt .. MaxInt) \cup {Junk}
  /\ {MaxTyped, MaxNodes, PowerCount, MaxRuns} \subseteq Nat

VARIABLES
  lpc,              \* where main is
  element, succ,    \* the fields of the nodes; the domain is what is allocated
  list,             \* main's list
  cursor,           \* the list a loop walks along
  built,            \* new_list of map and iterate
  e,                \* the e numbers are read into; Junk before the first
  input,            \* what the open input file, or the user, has still to give
  buffer,           \* what stdio has not written to the open output file
  text, binary,     \* the files
  cut,              \* the part of a number the text file ends with, if any
  kept,             \* what the last save of each puts there
  unfinished,       \* the files whose last save was not completed
  runs

memory == <<element, succ>>
locals == <<list, cursor, built, e>>
files  == <<text, cut, binary, kept, unfinished>>
vars == <<lpc, memory, locals, input, buffer, files, runs>>

NULL == 0
Nodes == 1 .. MaxNodes
Allocated == DOMAIN succ

Wrap(v) == ((v - MinInt) % (MaxInt - MinInt + 1)) + MinInt
Abs(x) == IF x < 0 THEN Wrap(-x) ELSE x
Square(x) == Wrap(x * x)
Cube(x) == Wrap(Wrap(x * x) * x)

(* The nodes from p on, as list_length and list_node_at walk them.         *)
Chain(p) ==
  LET at[k \in 0 .. MaxNodes] ==
        IF k = 0 THEN p
        ELSE LET n == at[k - 1] IN IF n = NULL THEN NULL ELSE succ[n]
      before == {k \in 0 .. MaxNodes - 1 : at[k] # NULL}
  IN [k \in 1 .. Cardinality(before) |-> at[k - 1]]

Elements(p) == LET c == Chain(p) IN [i \in 1 .. Len(c) |-> element[c[i]]]

Init ==
  /\ lpc = "start"
  /\ element = <<>> /\ succ = <<>>
  /\ list = NULL /\ cursor = NULL /\ built = NULL /\ e = Junk
  /\ input = <<>> /\ buffer = <<>>
  /\ text = NoFile /\ cut = <<>> /\ binary = NoFile
  /\ kept = [text |-> NoFile, binary |-> NoFile] /\ unfinished = {}
  /\ runs = 0

-----------------------------------------------------------------------------
(* linked_list.c lines 5-34.                                               *)

Free == Nodes \ Allocated
NewNode == Min(Free)

Extend(f, n, v) == [m \in DOMAIN f \cup {n} |-> IF m = n THEN v ELSE f[m]]

(* list_create: malloc is not checked.                                     *)
Create(v, next) == /\ Free # {}
                   /\ element' = Extend(element, NewNode, v)
                   /\ succ' = Extend(succ, NewNode, next)

\* Fault: the new node is linked after the first node, not the last.
AddBackSecond(p, v, q) ==
  IF p = NULL THEN Create(v, NULL) /\ q = NewNode
  ELSE /\ Free # {}
       /\ element' = Extend(element, NewNode, v)
       /\ succ' = [Extend(succ, NewNode, succ[p]) EXCEPT ![p] = NewNode]
       /\ q = p

(* list_add_back: q is what *listptr becomes.                              *)
AddBack(p, v, q) ==
  IF p = NULL THEN Create(v, NULL) /\ q = NewNode
  ELSE /\ Free # {}
       /\ element' = Extend(element, NewNode, v)
       /\ succ' = [Extend(succ, NewNode, NULL) EXCEPT ![Last(Chain(p))] = NewNode]
       /\ q = p

(* list_add_front.                                                         *)
AddFront(v) == Create(v, list) /\ list' = NewNode

-----------------------------------------------------------------------------
(* main.c lines 22-54 with load and deserialize of file_io.c.              *)

(* A text file may have been there before; the program wrote the others.   *)
Setup ==
  /\ lpc = "start"
  /\ text' \in TextFiles
  /\ kept' = [kept EXCEPT !.text = text']
  /\ lpc' = "menu"
  /\ UNCHANGED <<memory, locals, input, buffer, cut, binary, unfinished, runs>>

Open(file, to) ==
  /\ lpc = "menu"
  /\ IF file = NoFile THEN lpc' = "squares" /\ UNCHANGED input
                      ELSE lpc' = to /\ input' = file
  /\ UNCHANGED <<memory, locals, buffer, files, runs>>

TextRead == IF cut = <<>> THEN text ELSE text \o cut
OpenText == Open(TextRead, "load")
OpenBinary == Open(binary, "deserialize")

ReadStdin ==
  /\ lpc = "menu"
  /\ lpc' = "stdin"
  /\ UNCHANGED <<memory, locals, input, buffer, files, runs>>

UnknownCommand ==
  /\ lpc = "menu"
  /\ lpc' = "end"
  /\ UNCHANGED <<memory, locals, input, buffer, files, runs>>

(* fscanf stays where it is at something that is no number, and returns 0, *)
(* not EOF: the loops of load and main add the last number again and again,*)
(* or whatever e holds before the first.  A sign without digits is read,   *)
(* and no number either.                                                   *)
ReadInto(v) ==
  /\ e' \in IF v \in MinInt .. MaxInt THEN {v}
             ELSE IF e = Junk THEN MinInt .. MaxInt ELSE {e}
  /\ input' = IF v = Junk THEN input ELSE Tail(input)

LoadNumber ==
  /\ lpc = "load" /\ input # <<>>
  /\ ReadInto(Head(input))
  /\ AddBack(list, e', list')
  /\ UNCHANGED <<lpc, cursor, built, buffer, files, runs>>

DeserializeNumber ==
  /\ lpc = "deserialize" /\ input # <<>>
  /\ AddFront(Head(input))
  /\ input' = Tail(input)
  /\ UNCHANGED <<lpc, cursor, built, e, buffer, files, runs>>

(* A user types a number, or something else.                               *)
TypeInput ==
  /\ lpc = "stdin" /\ input = <<>> /\ Len(Chain(list)) < MaxTyped
  /\ \E v \in Inputs : input' = <<v>>
  /\ UNCHANGED <<lpc, memory, locals, buffer, files, runs>>

TakeTyped ==
  /\ lpc = "stdin" /\ input # <<>>
  /\ ReadInto(Head(input))
  /\ AddFront(e')
  /\ UNCHANGED <<lpc, cursor, built, buffer, files, runs>>

InputEnds ==
  /\ lpc \in {"load", "deserialize", "stdin"} /\ input = <<>>
  /\ lpc' = "squares"
  /\ cursor' = list
  /\ UNCHANGED <<memory, list, built, e, input, buffer, files, runs>>

-----------------------------------------------------------------------------
(* list_higher_order.c: map, map_mut, iterate, in the order of main.c      *)
(* lines 68-76.  Nobody frees what map and iterate return.                 *)

NextTask == CASE lpc = "squares" -> "cubes" [] lpc = "cubes" -> "abs"
              [] lpc = "abs" -> "powers"

MapStep ==
  /\ lpc \in {"squares", "cubes"} /\ cursor # NULL
  /\ LET x == element[cursor]
     IN AddBack(built, IF lpc = "squares" THEN Square(x) ELSE Cube(x), built')
  /\ cursor' = succ[cursor]
  /\ UNCHANGED <<lpc, list, e, input, buffer, files, runs>>

MapMutStep ==
  /\ lpc = "abs" /\ cursor # NULL
  /\ element' = [element EXCEPT ![cursor] = Abs(@)]
  /\ cursor' = succ[cursor]
  /\ UNCHANGED <<lpc, succ, list, built, e, input, buffer, files, runs>>

MapEnds ==
  /\ lpc \in {"squares", "cubes", "abs"} /\ cursor = NULL
  /\ lpc' = NextTask
  /\ cursor' = list
  /\ built' = NULL
  /\ UNCHANGED <<memory, list, e, input, buffer, files, runs>>

IterateStep ==
  /\ lpc = "powers" /\ Len(Chain(built)) < PowerCount
  /\ AddBack(built, IF built = NULL THEN 1 ELSE Wrap(2 * Last(Elements(built))), built')
  /\ UNCHANGED <<lpc, list, cursor, e, input, buffer, files, runs>>

IterateEnds ==
  /\ lpc = "powers" /\ Len(Chain(built)) = PowerCount
  /\ lpc' = "menu2"
  /\ built' = NULL
  /\ UNCHANGED <<memory, list, cursor, e, input, buffer, files, runs>>

(* The callers of list_create, which writes through the NULL that malloc   *)
(* returned, and serialize, which does so with its own copy.               *)
AsksForMemory ==
  \/ lpc \in {"load", "deserialize", "stdin"} /\ input # <<>>
  \/ lpc \in {"squares", "cubes"} /\ cursor # NULL
  \/ lpc = "powers" /\ Len(Chain(built)) < PowerCount
  \/ lpc = "serialize" /\ list # NULL /\ binary = <<>>

OutOfMemory ==
  /\ AsksForMemory /\ Free = {}
  /\ lpc' = "crashed"
  /\ UNCHANGED <<memory, locals, input, buffer, files, runs>>

-----------------------------------------------------------------------------
(* main.c lines 78-100 with save and serialize: fopen empties the file.    *)

SaveText ==
  /\ lpc = "menu2"
  /\ text' = <<>> /\ cut' = <<>>
  /\ kept' = [kept EXCEPT !.text = Elements(list)]
  /\ unfinished' = unfinished \cup {"text"}
  /\ cursor' = list
  /\ lpc' = "save"
  /\ UNCHANGED <<memory, list, built, e, input, buffer, binary, runs>>

SaveNumber ==
  /\ lpc = "save" /\ cursor # NULL
  /\ buffer' = Append(buffer, element[cursor])
  /\ cursor' = succ[cursor]
  /\ UNCHANGED <<lpc, memory, list, built, e, input, files, runs>>

(* What a number printed in Base leaves in the file when only its first    *)
(* digits are there, or only its sign.                                     *)
Parts(v) == {w \in 1 .. v : \E k \in 1 .. MaxInt : w = v \div (Base ^ k)}
Cuts(v) == IF v < 0 THEN {Sign} \cup {-w : w \in Parts(-v)} ELSE Parts(v)

(* stdio writes its buffer out when it is full, which may be in the middle *)
(* of a number: the rest of it stays in the buffer.                        *)
Flush ==
  /\ lpc = "save" /\ buffer # <<>>
  /\ \/ /\ text' = text \o buffer /\ cut' = <<>>
        /\ buffer' = <<>>
     \/ /\ cut = <<>> \/ Len(buffer) > 1
        /\ \E w \in Cuts(Last(buffer)) : cut' = <<w>>
        /\ text' = text \o Front(buffer)
        /\ buffer' = <<Last(buffer)>>
  /\ UNCHANGED <<lpc, memory, locals, input, binary, kept, unfinished, runs>>

\* Fault: the file is not closed (line 34 missing).
CloseTextMissing ==
  /\ lpc = "save" /\ cursor = NULL
  /\ unfinished' = unfinished \ {"text"}
  /\ lpc' = "free" /\ cursor' = list
  /\ UNCHANGED <<memory, list, built, e, input, buffer, text, cut, binary, kept, runs>>

CloseText ==
  /\ lpc = "save" /\ cursor = NULL
  /\ text' = text \o buffer /\ cut' = <<>>
  /\ buffer' = <<>>
  /\ unfinished' = unfinished \ {"text"}
  /\ lpc' = "free" /\ cursor' = list
  /\ UNCHANGED <<memory, list, built, e, input, binary, kept, runs>>

OpenToSerialize ==
  /\ lpc = "menu2"
  /\ binary' = <<>>
  /\ kept' = [kept EXCEPT !.binary = Elements(list)]
  /\ unfinished' = unfinished \cup {"binary"}
  /\ lpc' = "serialize"
  /\ UNCHANGED <<memory, locals, input, buffer, text, cut, runs>>

(* fwrite puts whole blocks in the file, fclose the rest.                  *)
SerializeBlock ==
  /\ lpc = "serialize"
  /\ \E n \in Len(binary) + 1 .. Len(Elements(list)) :
       binary' = SubSeq(Elements(list), 1, n)
  /\ UNCHANGED <<lpc, memory, locals, input, buffer, text, cut, kept, unfinished, runs>>

CloseBinary ==
  /\ lpc = "serialize"
  /\ binary' = Elements(list)
  /\ unfinished' = unfinished \ {"binary"}
  /\ lpc' = "free" /\ cursor' = list
  /\ UNCHANGED <<memory, list, built, e, input, buffer, text, cut, kept, runs>>

(* No file is wanted, or it cannot be opened, which nobody notices.        *)
SaveNothing ==
  /\ lpc = "menu2"
  /\ lpc' = "free" /\ cursor' = list
  /\ UNCHANGED <<memory, list, built, e, input, buffer, files, runs>>

(* list_free, linked_list.c lines 58-67: succ is read before the node goes.*)
FreeNode ==
  /\ lpc = "free" /\ cursor # NULL
  /\ cursor' = succ[cursor]
  /\ element' = [n \in Allocated \ {cursor} |-> element[n]]
  /\ succ' = [n \in Allocated \ {cursor} |-> succ[n]]
  /\ UNCHANGED <<lpc, list, built, e, input, buffer, files, runs>>

FreeEnds ==
  /\ lpc = "free" /\ cursor = NULL
  /\ list' = NULL
  /\ lpc' = "end"
  /\ UNCHANGED <<memory, cursor, built, e, input, buffer, files, runs>>

(* ^C: what stdio has not written is lost.                                 *)
Interrupt ==
  /\ lpc \notin {"start", "menu", "end", "crashed"}
  /\ lpc' = "end"
  /\ UNCHANGED <<memory, locals, input, buffer, files, runs>>

(* The process is gone with its memory; the program is started again.      *)
Restart ==
  /\ lpc \in {"end", "crashed"} /\ runs < MaxRuns
  /\ lpc' = "menu"
  /\ element' = <<>> /\ succ' = <<>>
  /\ list' = NULL /\ cursor' = NULL /\ built' = NULL /\ e' = Junk
  /\ input' = <<>> /\ buffer' = <<>>
  /\ runs' = runs + 1
  /\ UNCHANGED files

Next ==
  \/ Setup \/ OpenText \/ OpenBinary \/ ReadStdin \/ UnknownCommand
  \/ LoadNumber \/ DeserializeNumber \/ TypeInput \/ TakeTyped \/ InputEnds
  \/ MapStep \/ MapMutStep \/ MapEnds \/ IterateStep \/ IterateEnds \/ OutOfMemory
  \/ SaveText \/ SaveNumber \/ Flush \/ CloseText
  \/ OpenToSerialize \/ SerializeBlock \/ CloseBinary \/ SaveNothing
  \/ FreeNode \/ FreeEnds \/ Interrupt \/ Restart

Spec == Init /\ [][Next]_vars

-----------------------------------------------------------------------------
(* The nodes implement a sequence: each step of the program leaves it, adds*)
(* one number at an end, replaces one, or empties it; list_free empties it *)
(* at once for the caller.                                                 *)
Value == IF lpc \in {"free", "end", "crashed"} THEN <<>> ELSE Elements(list)
Sequence == INSTANCE IntSequence WITH value <- Value
ListSpec == Sequence!Spec

(* A list comes back from the text file in the order it was saved in, from *)
(* the binary file in the opposite order (deserialize adds to the front).  *)
TakenFrom(file) == SubSeq(file, 1, Len(file) - Len(input))
LoadedInOrder ==
  /\ lpc = "load" /\ {Junk, Sign} \cap ToSet(TextRead) = {} =>
       Elements(list) = TakenFrom(TextRead)
  /\ lpc = "deserialize" => Elements(list) = Reverse(TakenFrom(binary))

(* A file holds what the last save put there, whatever ran since.  A save  *)
(* that was interrupted leaves the first numbers of the new list, in the   *)
(* text file perhaps with a part of the next, and nothing of the old one.  *)
Begins(file, name) == IsPrefix(file, kept[name])
CutNext == /\ Len(text) < Len(kept.text)
           /\ Head(cut) \in Cuts(kept.text[Len(text) + 1])
TextKept == IF "text" \in unfinished
            THEN Begins(text, "text") /\ (cut # <<>> => CutNext)
            ELSE text = kept.text /\ cut = <<>>
BinaryKept == IF "binary" \in unfinished THEN Begins(binary, "binary")
                                        ELSE binary = kept.binary
FilesKept == TextKept /\ BinaryKept

(* What is saved has no negative number but INT_MIN (line 72 of main.c     *)
(* says all values are absolute).  The program runs out of memory only if  *)
(* the input has something that is no number, or if two copies of the list *)
(* and the powers, which nobody frees, do not fit beside it.               *)
NumbersInRange ==
  /\ lpc \in {"menu2", "save", "serialize"} =>
       \A v \in ToSet(Elements(list)) : v >= 0 \/ v = MinInt
  /\ lpc = "crashed" => \/ input # <<>> /\ Head(input) = Junk
                        \/ MaxNodes <= 3 * (Len(Chain(list)) + Len(input)) + PowerCount

FilesRoundTrip == LoadedInOrder /\ FilesKept /\ NumbersInRange
=============================================================================
