---------------------------- MODULE TaskPipeline ----------------------------
(***************************************************************************)
(* The task processor of lab5/additional/main.c: a reader thread takes     *)
(* tasks from standard input, executors compute them and send the results  *)
(* through a pipe to a writer thread, which appends them to a log.  The    *)
(* strategy decides who executes: a new thread for each task (PER_THREAD), *)
(* a thread for each type of task (PER_TASK), or nobody (THREAD_POOL, whose*)
(* case is empty in the code).                                             *)
(*                                                                         *)
(* A task is its index in the input.  What is abstracted is the arithmetic *)
(* of the tasks; what is kept is who points to whose memory.               *)
(***************************************************************************)
EXTENDS Naturals, Sequences, FiniteSets, Functions

CONSTANTS
  FIBONACCI, POW, BUBBLE_SORT,   \* the types of tasks (message_format.h)
  PER_THREAD, PER_TASK, THREAD_POOL,
  Strategies,                    \* the strategies the process is started with
  Inputs,                        \* the inputs: sequences of types
  PipeCap,                       \* messages a pipe holds before write() blocks
  Signals,                       \* whether SIGINT, SIGTERM or SIGHUP may come
  Junk,                          \* whatever the next calls leave on a dead frame
  Heap                           \* the location of data that is not on a stack

EmptyMessage == [task |-> 0, at |-> Heap]
Types == {FIBONACCI, POW, BUBBLE_SORT}
NONE == 0

ASSUME PipelineAssumption ==
  /\ Cardinality(Types) = 3 /\ Cardinality({PER_THREAD, PER_TASK, THREAD_POOL}) = 3
  /\ \A x \in Types \cup {Junk} : x \notin Nat
  /\ Strategies \subseteq {PER_THREAD, PER_TASK, THREAD_POOL}
  /\ \A s \in Inputs : s \in Seq(Types)
  /\ PipeCap \in Nat \ {0}
  /\ Signals \in BOOLEAN

VARIABLES
  strategy, input,          \* the command line and standard input
  pos, rpc, msg,            \* reader: tasks read, where it is, its local msg
  epc, work, cell,          \* executors: where, the task, the local result
  taskPipe, writerPipe,     \* the pipes
  wpc, wmsg, log,           \* writer: where, its local msg; the log file
  stop                      \* how far the signal handler has come

readerVars == <<pos, rpc, msg>>
executorVars == <<epc, work, cell>>
writerVars == <<wpc, wmsg, log>>
pipes == <<taskPipe, writerPipe>>
vars == <<strategy, input, readerVars, executorVars, pipes, writerVars, stop>>

Tasks == 1 .. Len(input)
Executors == Types \cup Tasks    \* handlers, and the thread created for a task
Alive == stop \in {"no", "cancelled", "closed"}
PipesOpen == stop \in {"no", "cancelled"}

Init ==
  /\ strategy \in Strategies /\ input \in Inputs
  /\ pos = 0 /\ rpc = "read" /\ msg = NONE
  /\ epc = [e \in Executors |->
              IF strategy = PER_TASK /\ e \in Types THEN "ready" ELSE "none"]
  /\ work = [e \in Executors |-> NONE]
  /\ cell = [e \in Executors |-> Junk]
  /\ taskPipe = [t \in Types |-> <<>>] /\ writerPipe = <<>>
  /\ wpc = "read" /\ wmsg = EmptyMessage /\ log = <<>>
  /\ stop = "no"

-----------------------------------------------------------------------------
(* The reader, lines 208-244.  msg is one stack slot in every round.       *)

\* Fault: the end of the input is not noticed (line 37).
ReadTaskPastEnd ==
  /\ Alive /\ rpc = "read"
  /\ pos' = pos + 1
  /\ rpc' = "store"
  /\ UNCHANGED <<msg, strategy, input, executorVars, pipes, writerVars, stop>>

ReadTask ==
  /\ Alive /\ rpc = "read" /\ pos < Len(input)
  /\ pos' = pos + 1
  /\ rpc' = "store"
  /\ UNCHANGED <<msg, strategy, input, executorVars, pipes, writerVars, stop>>

(* Line 210 stores the packed message in several pieces.                   *)
StoreTask ==
  /\ Alive /\ rpc = "store"
  /\ msg' = pos
  /\ rpc' = "dispatch"
  /\ UNCHANGED <<pos, strategy, input, executorVars, pipes, writerVars, stop>>

(* The end of the input reads as the empty message, and the reader returns.*)
ReadEnd ==
  /\ Alive /\ rpc = "read" /\ pos = Len(input)
  /\ msg' = NONE
  /\ rpc' = "exited"
  /\ UNCHANGED <<strategy, input, pos, executorVars, pipes, writerVars, stop>>

(* Line 218: the new thread gets the address of msg, not its value.        *)
CreateThread ==
  /\ Alive /\ rpc = "dispatch" /\ strategy = PER_THREAD
  /\ epc' = [epc EXCEPT ![pos] = "ready"]
  /\ rpc' = "read"
  /\ UNCHANGED <<strategy, input, pos, msg, work, cell, pipes, writerVars, stop>>

\* Fault: the cases of lines 222-233 fall through (no break).
SendToHandlerAndOn ==
  /\ PipesOpen /\ rpc = "dispatch" /\ strategy = PER_TASK
  /\ \A t \in Types : Len(taskPipe[t]) < PipeCap
  /\ taskPipe' = [t \in Types |->
       IF t = input[msg] \/ (input[msg] = FIBONACCI /\ t = POW)
       THEN Append(taskPipe[t], msg) ELSE taskPipe[t]]
  /\ rpc' = "read"
  /\ UNCHANGED <<strategy, input, pos, msg, executorVars, writerPipe, writerVars, stop>>

(* Lines 220-238: a copy of msg goes to the handler of its type.           *)
SendToHandler ==
  /\ PipesOpen /\ rpc = "dispatch" /\ strategy = PER_TASK
  /\ Len(taskPipe[input[msg]]) < PipeCap
  /\ taskPipe' = [taskPipe EXCEPT ![input[msg]] = Append(@, msg)]
  /\ rpc' = "read"
  /\ UNCHANGED <<strategy, input, pos, msg, executorVars, writerPipe, writerVars, stop>>

(* Lines 239-241: nothing is done with the task.                           *)
DropTask ==
  /\ Alive /\ rpc = "dispatch" /\ strategy = THREAD_POOL
  /\ rpc' = "read"
  /\ UNCHANGED <<strategy, input, pos, msg, executorVars, pipes, writerVars, stop>>

Reader == ReadTask \/ StoreTask \/ ReadEnd \/ CreateThread \/ SendToHandler \/ DropTask

-----------------------------------------------------------------------------
(* The executors: handle_tmessage, handle_fib, handle_pow, handle_bubble.  *)

(* What line 152 may read through the pointer: the reader's msg, whatever  *)
(* it is by now; while the reader stores the next one, either of the two   *)
(* or a pointer made of both; and after the reader's return, when its      *)
(* frame may hold anything, the empty message still, or junk.              *)
Seen == CASE rpc = "store" -> {msg, pos, Junk}
          [] rpc = "exited" -> {msg, Junk}
          [] OTHER -> {msg}

(* On junk, the thread follows a wild pointer.                             *)
StartThread(i) ==
  /\ Alive /\ epc[i] = "ready"
  /\ \E m \in Seen :
       /\ stop' = IF m = Junk THEN "crashed" ELSE stop
       /\ epc' = [epc EXCEPT ![i] = IF m \in Tasks THEN "compute" ELSE "done"]
       /\ work' = [work EXCEPT ![i] = IF m \in Tasks THEN m ELSE NONE]
  /\ UNCHANGED <<strategy, input, readerVars, cell, pipes, writerVars>>

\* Fault: the handler of POW keeps the tasks of BUBBLE_SORT (line 187 copied).
TakeTaskWrongFilter(t) ==
  /\ PipesOpen /\ epc[t] = "ready" /\ taskPipe[t] # <<>>
  /\ taskPipe' = [taskPipe EXCEPT ![t] = Tail(@)]
  /\ LET i == Head(taskPipe[t]) IN
       IF input[i] = IF t = POW THEN BUBBLE_SORT ELSE t
       THEN /\ epc' = [epc EXCEPT ![t] = "compute"]
            /\ work' = [work EXCEPT ![t] = i]
       ELSE UNCHANGED <<epc, work>>
  /\ UNCHANGED <<strategy, input, readerVars, cell, writerPipe, writerVars, stop>>

(* A handler takes a task from its pipe, and computes it if it is its own. *)
TakeTask(t) ==
  /\ PipesOpen /\ epc[t] = "ready" /\ taskPipe[t] # <<>>
  /\ taskPipe' = [taskPipe EXCEPT ![t] = Tail(@)]
  /\ LET i == Head(taskPipe[t]) IN
       IF input[i] = t
       THEN /\ epc' = [epc EXCEPT ![t] = "compute"]
            /\ work' = [work EXCEPT ![t] = i]
       ELSE UNCHANGED <<epc, work>>
  /\ UNCHANGED <<strategy, input, readerVars, cell, writerPipe, writerVars, stop>>

\* Fault: the sorted array is a local copy, like the results of the others.
PlaceOnStack(e) == e

(* Where the result of executor e is (lines 129, 138 and 147): on its own  *)
(* stack, in the frame of a function that has returned, or in the task's   *)
(* array on the heap.                                                      *)
Place(e) == IF input[work[e]] = BUBBLE_SORT THEN Heap ELSE e

(* make_out_*_message, lines 124-149.                                      *)
Compute(e) ==
  /\ Alive /\ epc[e] = "compute"
  /\ cell' = IF Place(e) = Heap THEN cell ELSE [cell EXCEPT ![e] = work[e]]
  /\ epc' = [epc EXCEPT ![e] = "send"]
  /\ UNCHANGED <<strategy, input, readerVars, work, pipes, writerVars, stop>>

\* Fault: the handler reads its first message only (line 174 above the loop).
SendResultAgain(e) ==
  /\ PipesOpen /\ epc[e] = "send" /\ Len(writerPipe) < PipeCap
  /\ writerPipe' = Append(writerPipe, [task |-> work[e], at |-> Place(e)])
  /\ cell' \in {cell, [cell EXCEPT ![e] = Junk]}
  /\ epc' = [epc EXCEPT ![e] = "compute"]
  /\ UNCHANGED <<strategy, input, readerVars, work, taskPipe, writerVars, stop>>

(* The calls between the return of make_out_*_message and the write of the *)
(* result message may or may not overwrite the dead frame it points to.    *)
SendResult(e) ==
  /\ PipesOpen /\ epc[e] = "send" /\ Len(writerPipe) < PipeCap
  /\ writerPipe' = Append(writerPipe, [task |-> work[e], at |-> Place(e)])
  /\ cell' \in {cell, [cell EXCEPT ![e] = Junk]}
  /\ epc' = [epc EXCEPT ![e] = IF e \in Types THEN "ready" ELSE "done"]
  /\ work' = [work EXCEPT ![e] = NONE]
  /\ UNCHANGED <<strategy, input, readerVars, taskPipe, writerVars, stop>>

Executor(e) == \/ e \in Tasks /\ StartThread(e)
               \/ e \in Types /\ TakeTask(e)
               \/ Compute(e) \/ SendResult(e)

-----------------------------------------------------------------------------
(* The writer, lines 114-122 and 91-95.                                    *)

ReadResult ==
  /\ PipesOpen /\ wpc = "read" /\ writerPipe # <<>>
  /\ wmsg' = Head(writerPipe)
  /\ writerPipe' = Tail(writerPipe)
  /\ wpc' = "type"
  /\ UNCHANGED <<strategy, input, readerVars, executorVars, taskPipe, log, stop>>

(* A record is written in three pieces, first its type ...                 *)
WriteType ==
  /\ Alive /\ wpc = "type"
  /\ log' = Append(log, [task |-> wmsg.task, pieces |-> 1, value |-> NONE])
  /\ wpc' = "size"
  /\ UNCHANGED <<strategy, input, readerVars, executorVars, pipes, wmsg, stop>>

(* ... then its size ...                                                   *)
WriteSize ==
  /\ Alive /\ wpc = "size"
  /\ log' = [log EXCEPT ![Len(log)].pieces = 2]
  /\ wpc' = "data"
  /\ UNCHANGED <<strategy, input, readerVars, executorVars, pipes, wmsg, stop>>

Count(s, i) == Cardinality({k \in DOMAIN s : s[k] = i})
LoggedTasks == [k \in DOMAIN log |-> log[k].task]
PipedTasks == [k \in DOMAIN writerPipe |-> writerPipe[k].task]

(* Two threads that took the same task sort one array at the same time.    *)
SortedByTwo(i) == Count(work, i) + Count(PipedTasks, i) + Count(LoggedTasks, i) > 1

(* ... and at last what the pointer points to at this moment.              *)
WriteData ==
  /\ Alive /\ wpc = "data"
  /\ \E v \in IF wmsg.at # Heap THEN {cell[wmsg.at]}
             ELSE {wmsg.task} \cup (IF SortedByTwo(wmsg.task) THEN {Junk} ELSE {}) :
       log' = [log EXCEPT ![Len(log)].pieces = 3, ![Len(log)].value = v]
  /\ wmsg' = EmptyMessage
  /\ wpc' = "read"
  /\ UNCHANGED <<strategy, input, readerVars, executorVars, pipes, stop>>

Writer == ReadResult \/ WriteType \/ WriteSize \/ WriteData

(* The k-th record of the log has not been cut off.                        *)
Complete(k) == log[k].pieces = 3

-----------------------------------------------------------------------------
(* goodbye, lines 49-62.  A cancelled thread goes on to its next           *)
(* cancellation point, so it may or may not take steps until the exit.     *)
(* Cancelling a thread that was never created is undefined: the process    *)
(* may crash, since the three handlers exist under PER_TASK only.          *)
Cancel ==
  /\ Signals /\ stop = "no"
  /\ stop' \in IF strategy = PER_TASK THEN {"cancelled"} ELSE {"cancelled", "crashed"}
  /\ UNCHANGED <<strategy, input, readerVars, executorVars, pipes, writerVars>>

ClosePipes ==
  /\ stop = "cancelled"
  /\ stop' = "closed"
  /\ taskPipe' = [t \in Types |-> <<>>] /\ writerPipe' = <<>>
  /\ UNCHANGED <<strategy, input, readerVars, executorVars, writerVars>>

Exit ==
  /\ stop = "closed"
  /\ stop' = "exited"
  /\ UNCHANGED <<strategy, input, readerVars, executorVars, pipes, writerVars>>

(* Without a signal main waits for the writer, which never returns.        *)
Next == \/ Reader
        \/ \E e \in Executors : Executor(e)
        \/ Writer
        \/ Cancel \/ ClosePipes \/ Exit

Spec == Init /\ [][Next]_vars

(* The scheduler runs every thread; executors of all inputs are named.     *)
AllExecutors == Types \cup UNION {1 .. Len(s) : s \in Inputs}
FairSpec ==
  /\ Spec
  /\ WF_vars(Reader) /\ WF_vars(Writer)
  /\ \A e \in AllExecutors : WF_vars(e \in Executors /\ Executor(e))

-----------------------------------------------------------------------------
(* Correctness.                                                            *)

(* Type invariant: the values every variable ranges over.                  *)
TypeOK ==
  /\ strategy \in Strategies /\ input \in Inputs
  /\ pos \in 0 .. Len(input) /\ msg \in 0 .. pos
  /\ rpc \in {"read", "store", "dispatch", "exited"}
  /\ epc \in [Executors -> {"none", "ready", "compute", "send", "done"}]
  /\ work \in [Executors -> 0 .. pos]
  /\ cell \in [Executors -> Tasks \cup {Junk}]
  /\ \A t \in Types : Len(taskPipe[t]) <= PipeCap /\ Range(taskPipe[t]) \subseteq 1 .. pos
  /\ Len(writerPipe) <= PipeCap
  /\ \A r \in Range(writerPipe) : r.task \in 1 .. pos /\ r.at \in Executors \cup {Heap}
  /\ wpc \in {"read", "type", "size", "data"}
  /\ \A i \in DOMAIN log : /\ log[i].task \in 1 .. pos /\ log[i].pieces \in 1 .. 3
                            /\ log[i].value \in 0 .. pos \cup {Junk}
  /\ stop \in {"no", "cancelled", "closed", "exited", "crashed"}

(* How often task i is in the system: with the reader, in the pipe of a    *)
(* handler, with an executor, in the writer's pipe, with the writer, or in *)
(* the log.                                                                *)
Places(i) ==
    (IF (rpc = "store" /\ pos = i) \/ (rpc = "dispatch" /\ msg = i) THEN 1 ELSE 0)
  + Count(taskPipe[FIBONACCI], i) + Count(taskPipe[POW], i)
  + Count(taskPipe[BUBBLE_SORT], i)
  + Count(work, i)
  + Count(PipedTasks, i)
  + (IF wpc = "type" /\ wmsg.task = i THEN 1 ELSE 0)
  + Count(LoggedTasks, i)

(* With a thread for each type, a task that was read is in one place, and  *)
(* in one only, until a signal ends the process: nothing is lost or done   *)
(* twice on the way from the input to the log.                             *)
TaskConserved ==
  strategy = PER_TASK /\ stop = "no" => \A i \in 1 .. pos : Places(i) = 1

(* With a thread for each type, the log holds the results of each type in  *)
(* the order of the input, without gaps: exactly the tasks of its type     *)
(* that were read before a task are logged before it.  Wherever a signal   *)
(* comes between the three writes of a record (lines 92-94), it leaves the *)
(* last one incomplete and no other.                                       *)
LoggedInOrder ==
  strategy = PER_TASK =>
    \A k \in DOMAIN log :
      /\ Complete(k) \/ k = Len(log)
      /\ \A i \in 1 .. pos :
           input[i] = input[log[k].task] =>
             (i < log[k].task <=> \E j \in 1 .. k - 1 : log[j].task = i)

(* A sorted array in the log is the one of its own task: it is on the heap *)
(* and never shared between tasks.                                         *)
SortedArraysIntact ==
  strategy = PER_TASK =>
    \A k \in DOMAIN log :
      input[log[k].task] = BUBBLE_SORT /\ Complete(k) => log[k].value = log[k].task

(* With a thread for each type, every task of the input is logged in the   *)
(* end, unless a signal comes: no pipe stays full for good.                *)
AllLogged ==
  \A n \in UNION {1 .. Len(s) : s \in Inputs} :
    <>(\/ n > Len(input) \/ strategy # PER_TASK \/ stop # "no"
       \/ n \in Range(LoggedTasks))

-----------------------------------------------------------------------------
(* What the task (task.pdf) and the messages of the program say, and the   *)
(* code does not do.                                                       *)

(* Line 217 announces a new thread for the task, and task.pdf a result per *)
(* task: no task is computed and logged twice.                             *)
EachTaskLoggedOnce ==
  \A j, k \in DOMAIN log : LoggedTasks[j] = LoggedTasks[k] => j = k

(* The writer logs the result of the task it names (task.pdf, line 118).   *)
ResultsAreOwn ==
  \A k \in DOMAIN log : Complete(k) => log[k].value = log[k].task
=============================================================================
