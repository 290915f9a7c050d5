-------------------------------- MODULE Tee --------------------------------
(***************************************************************************)
(* tee of lab4: standard input to standard output, unbuffered, and to the  *)
(* files, through stdio.  SIGINT ends it by exit(), called in the handler  *)
(* wherever main is, or with -i does not; a signal that is not handled     *)
(* (SIGPIPE when nobody reads the output) ends it and stdio's buffers are  *)
(* lost.                                                                   *)
(*                                                                         *)
(* A byte is its position in the input; what a file held before is Old.    *)
(* Line 47 allocates 4 bytes for each pointer of 8.  malloc rounds up to   *)
(* 24, so that up to three files are safe; more are outside the model.     *)
(***************************************************************************)
EXTENDS Naturals, Sequences

CONSTANTS
  FileCount,   \* files on the command line, at most 3
  Length,      \* bytes of the input
  Old          \* what was in the files before

Files == 1 .. FileCount

VARIABLES
  tpc,            \* where main is, or that the handler has taken over
  append_mode, ignore_interrupts_mode,
  openable,       \* the files that fopen can open
  output_ok,      \* standard output takes what is written
  at,             \* the file that is next in a loop over the files
  opened,         \* files[i] # NULL
  data, pending,  \* a file, and the buffer stdio has for it
  writing,        \* the file whose buffer was written but not emptied, or 0
  unlisted,       \* files fclose has taken off the list that exit flushes
  torn,           \* the file whose write or close the handler broke off, or 0
  taken,          \* bytes read from the input
  out,            \* bytes written to the output
  errors          \* the exit status

options == <<append_mode, ignore_interrupts_mode, openable, output_ok>>
input   == <<taken, out>>
stdio   == <<data, pending, writing, unlisted, torn>>
vars == <<tpc, options, at, opened, stdio, input, errors>>

Init ==
  /\ tpc = "start"
  /\ append_mode = FALSE /\ ignore_interrupts_mode = FALSE
  /\ openable = {} /\ output_ok = FALSE /\ opened = {}
  /\ at = 1 /\ taken = 0 /\ out = <<>> /\ errors = 0
  /\ data = [f \in Files |-> <<Old>>]
  /\ pending = [f \in Files |-> <<>>]
  /\ writing = 0 /\ unlisted = {} /\ torn = 0

(* Lines 29-44.  Before getopt has seen -i, SIGINT still ends the program. *)
ParseOptions ==
  /\ tpc = "start"
  /\ append_mode' \in BOOLEAN /\ ignore_interrupts_mode' \in BOOLEAN
  /\ openable' \in SUBSET Files /\ output_ok' \in BOOLEAN
  /\ tpc' = "open"
  /\ UNCHANGED <<at, opened, stdio, input, errors>>

InvalidOption ==
  /\ tpc = "start"
  /\ tpc' = "exited" /\ errors' = 1
  /\ UNCHANGED <<options, at, opened, stdio, input>>

(* Lines 49-64.                                                            *)
OpenFile ==
  /\ tpc = "open" /\ at <= FileCount
  /\ IF at \in openable
     THEN /\ opened' = opened \cup {at}
          /\ data' = IF append_mode THEN data ELSE [data EXCEPT ![at] = <<>>]
          /\ UNCHANGED errors
     ELSE errors' = 1 /\ UNCHANGED <<opened, data>>
  /\ at' = at + 1
  /\ UNCHANGED <<tpc, options, pending, writing, unlisted, torn, input>>

AllOpened ==
  /\ tpc = "open" /\ at > FileCount
  /\ tpc' = "read"
  /\ UNCHANGED <<options, at, opened, stdio, input, errors>>

(* Line 68.                                                                *)
ReadByte ==
  /\ tpc = "read" /\ taken < Length
  /\ taken' = taken + 1
  /\ tpc' = "write"
  /\ UNCHANGED <<options, at, opened, stdio, out, errors>>

(* Line 69: nobody looks whether the byte was written.                     *)
WriteByte ==
  /\ tpc = "write"
  /\ out' = IF output_ok THEN Append(out, taken) ELSE out
  /\ at' = 1
  /\ tpc' = "copy"
  /\ UNCHANGED <<options, opened, stdio, taken, errors>>

(* stdio writes a buffer out: in fputc when it is full, whenever that is   *)
(* (line 72), in fclose (line 78), and in exit.  write(2) comes first, the *)
(* pointers into the buffer are reset later.                               *)
WriteBlock(f) ==
  /\ writing = 0 /\ pending[f] # <<>>
  /\ \/ tpc = "copy" /\ f = at
     \/ tpc = "close" /\ f = at /\ f \in unlisted
     \/ tpc \in {"exit", "handler"} /\ f \notin unlisted
  /\ data' = [data EXCEPT ![f] = @ \o pending[f]]
  /\ writing' = f
  /\ UNCHANGED <<tpc, options, at, opened, pending, unlisted, torn, input, errors>>

ResetBuffer(f) ==
  /\ tpc \notin {"exited", "killed"} /\ writing = f
  /\ pending' = [pending EXCEPT ![f] = <<>>]
  /\ writing' = 0
  /\ UNCHANGED <<tpc, options, at, opened, data, unlisted, torn, input, errors>>

(* Lines 70-74.                                                            *)
PutByte ==
  /\ tpc = "copy" /\ at <= FileCount /\ writing = 0
  /\ pending' = IF at \in opened
                THEN [pending EXCEPT ![at] = Append(@, taken)] ELSE pending
  /\ at' = at + 1
  /\ UNCHANGED <<tpc, options, opened, data, writing, unlisted, torn, input, errors>>

AllPut ==
  /\ tpc = "copy" /\ at > FileCount
  /\ tpc' = "read"
  /\ UNCHANGED <<options, at, opened, stdio, input, errors>>

(* Lines 77-79: all files but the first are closed.  fclose takes the file *)
(* off stdio's list before it writes the buffer out.                       *)
EndOfInput ==
  /\ tpc = "read" /\ taken = Length
  /\ tpc' = "close" /\ at' = 2
  /\ UNCHANGED <<options, opened, stdio, input, errors>>

Unlist ==
  /\ tpc = "close" /\ at \in opened \ unlisted
  /\ unlisted' = unlisted \cup {at}
  /\ UNCHANGED <<tpc, options, at, opened, data, pending, writing, torn, input, errors>>

CloseNext ==
  /\ tpc = "close" /\ at <= FileCount /\ writing = 0
  /\ at \in opened => at \in unlisted /\ pending[at] = <<>>
  /\ at' = at + 1
  /\ UNCHANGED <<tpc, options, opened, stdio, input, errors>>

Return ==
  /\ tpc = "close" /\ at > FileCount
  /\ tpc' = "exit"
  /\ UNCHANGED <<options, at, opened, stdio, input, errors>>

(* The handler, lines 20-25: it calls exit() wherever main is, in the      *)
(* middle of fputc or fclose too, or of exit itself.  It is not            *)
(* interrupted again by SIGINT.  With -i it returns and read() goes on.    *)
Interrupted ==
  /\ tpc \notin {"handler", "exited", "killed"} /\ ~ignore_interrupts_mode
  /\ torn' = IF writing = 0 /\ tpc = "close" /\ at \in unlisted THEN at ELSE writing
  /\ writing' = 0
  /\ tpc' = "handler"
  /\ UNCHANGED <<options, at, opened, data, pending, unlisted, input, errors>>

\* Fault: the handler calls _exit (line 23), which leaves the buffers.
ExitDoneAtOnce ==
  /\ tpc \in {"exit", "handler"} /\ writing = 0
  /\ tpc = "exit" => \A f \in Files \ unlisted : pending[f] = <<>>
  /\ tpc' = "exited"
  /\ UNCHANGED <<options, at, opened, stdio, input, errors>>

(* exit() has written out the buffers of all files that are on the list.   *)
ExitDone ==
  /\ tpc \in {"exit", "handler"} /\ writing = 0
  /\ \A f \in Files \ unlisted : pending[f] = <<>>
  /\ tpc' = "exited"
  /\ UNCHANGED <<options, at, opened, stdio, input, errors>>

Killed ==
  /\ tpc \notin {"exited", "killed"}
  /\ tpc' = "killed"
  /\ UNCHANGED <<options, at, opened, stdio, input, errors>>

Next == \/ ParseOptions \/ InvalidOption \/ OpenFile \/ AllOpened
        \/ ReadByte \/ WriteByte \/ PutByte \/ AllPut
        \/ EndOfInput \/ Unlist \/ CloseNext \/ Return
        \/ Interrupted \/ ExitDone \/ Killed
        \/ \E f \in Files : WriteBlock(f) \/ ResetBuffer(f)

Spec == Init /\ [][Next]_vars

-----------------------------------------------------------------------------
Bytes(n) == [i \in 1 .. n |-> i]
Block(k, n) == [i \in 1 .. n - k |-> k + i]     \* the bytes after the k-th
Before(f) == IF append_mode THEN <<Old>> ELSE <<>>

\* What a file holds when stdio has written out what it has for it.
Copied(f) == IF writing = f THEN data[f] ELSE data[f] \o pending[f]

(* Every file that could be opened gets what was read, after what it held  *)
(* under -a, and is at most one byte behind; also when SIGINT ends the     *)
(* program between two writes, when another file could not be opened or    *)
(* the output is broken.  Without an interrupt the files are complete at   *)
(* the end; a signal nobody handles costs a file the end of what was read. *)
(* SIGINT does no worse to all files but one: the one whose buffer was     *)
(* being written or closed may hold its last block twice or not at all.  A *)
(* file that could not be opened is left alone and shows in the exit       *)
(* status (lines 20-25 and 49-82).                                         *)
TeeCopies ==
  /\ output_ok => \E n \in {taken, taken - 1} : out = Bytes(n)
  /\ \A f \in opened \ {torn} :
       /\ \E n \in {taken, taken - 1} : Copied(f) = Before(f) \o Bytes(n)
       /\ \E k \in 0 .. taken : data[f] = Before(f) \o Bytes(k)
       /\ tpc = "exited" => Copied(f) = data[f]
  /\ torn \in opened =>
       \E n \in 0 .. taken : \E k \in 0 .. n :
         data[torn] \in {Before(torn) \o Bytes(n), (Before(torn) \o Bytes(n)) \o Block(k, n)}
  /\ \A f \in Files \ opened : data[f] = <<Old>> /\ pending[f] = <<>>
  /\ tpc \in {"read", "close", "exit"} =>
       /\ output_ok => out = Bytes(taken)
       /\ \A f \in opened : Copied(f) = Before(f) \o Bytes(taken)
       /\ (errors = 1) <=> (opened # Files)
  /\ tpc = "exited" /\ ignore_interrupts_mode =>
       \A f \in opened : data[f] = Before(f) \o Bytes(Length)
=============================================================================
