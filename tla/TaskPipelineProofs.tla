------------------------- MODULE TaskPipelineProofs -------------------------
(***************************************************************************)
(* Proofs about TaskPipeline, for any input, any strategies and any length *)
(* of the pipes: with a thread for each type, a task that was read is in   *)
(* one place until a signal ends the process, the log keeps the order of   *)
(* every type, and the arrays in it are sorted by one thread only.         *)
(***************************************************************************)
EXTENDS TaskPipeline, FiniteSetTheorems, TLAPS

(* The reader has a task and has not passed it on.                         *)
Reading(i) == (rpc = "store" /\ pos = i) \/ (rpc = "dispatch" /\ msg = i)

(* The values of the variables, those in the pipes and at the writer       *)
(* included; an executor has a task while it works on it.                  *)
ResultMessage == [task : Nat, at : Executors \cup {Heap}]
LogRecord == [task : Nat, pieces : 1 .. 3, value : Nat \cup {Junk}]

Typed ==
  /\ strategy \in Strategies /\ input \in Inputs
  /\ pos \in 0 .. Len(input) /\ msg \in 0 .. pos
  /\ rpc \in {"read", "store", "dispatch", "exited"}
  /\ epc \in [Executors -> {"none", "ready", "compute", "send", "done"}]
  /\ work \in [Executors -> 0 .. pos]
  /\ cell \in [Executors -> (1 .. pos) \cup {Junk}]
  /\ taskPipe \in [Types -> Seq(Nat)]
  /\ writerPipe \in Seq(ResultMessage)
  /\ wpc \in {"read", "type", "size", "data"}
  /\ wmsg \in ResultMessage
  /\ log \in Seq(LogRecord)
  /\ stop \in {"no", "cancelled", "closed", "exited", "crashed"}

(* Whatever is on its way is a task that was read, pipes keep to their     *)
(* length, the record under the writer's hand names its message and is the *)
(* only incomplete one, and a thread for a task is created once.           *)
Bounded ==
  /\ rpc = "store" => pos # 0
  /\ rpc = "dispatch" => pos # 0 /\ msg = pos
  /\ \A e \in Executors : work[e] = NONE <=> epc[e] \notin {"compute", "send"}
  /\ \A e \in Tasks : e > pos \/ Reading(e) => epc[e] = "none"
  /\ \A t \in Types : /\ Len(taskPipe[t]) <= PipeCap
                      /\ \A k \in DOMAIN taskPipe[t] : taskPipe[t][k] \in 1 .. pos
  /\ Len(writerPipe) <= PipeCap
  /\ \A k \in DOMAIN writerPipe : writerPipe[k].task \in 1 .. pos
  /\ wmsg.task \in 0 .. pos
  /\ wpc # "read" => wmsg.task # 0
  /\ wpc \in {"size", "data"} => log # <<>> /\ log[Len(log)].task = wmsg.task
  /\ \A k \in DOMAIN log :
       /\ log[k].task \in 1 .. pos /\ log[k].value \in 0 .. pos \cup {Junk}
       /\ log[k].pieces = 3 \/ (k = Len(log) /\ wpc \in {"size", "data"})

IInv == Typed /\ Bounded

-----------------------------------------------------------------------------
(* The other places of a task on its way from the input to the log.        *)
Queued(i) == \E k \in DOMAIN taskPipe[input[i]] : taskPipe[input[i]][k] = i
Executed(i) == work[input[i]] = i
Piped(i) == \E k \in DOMAIN writerPipe : writerPipe[k].task = i
Written(i) == wpc = "type" /\ wmsg.task = i
Logged(i) == \E k \in DOMAIN log : log[k].task = i

(* ... and how far it has come at least.                                   *)
Received(i) == Written(i) \/ Logged(i)
Sent(i) == Piped(i) \/ Received(i)
Taken(i) == Executed(i) \/ Sent(i)
Given(i) == Queued(i) \/ Taken(i)

(* Every handler has tasks of its own type only; there are no others.      *)
HandlersOwn ==
  /\ \A t \in Types : /\ \A k \in DOMAIN taskPipe[t] : input[taskPipe[t][k]] = t
                      /\ work[t] # NONE => input[work[t]] = t
  /\ \A e \in Tasks : epc[e] = "none"

(* No task is in two places, or twice in one; none is lost on the way.     *)
Once ==
  /\ \A t \in Types : \A j, k \in DOMAIN taskPipe[t] : taskPipe[t][j] = taskPipe[t][k] => j = k
  /\ \A j, k \in DOMAIN writerPipe : writerPipe[j].task = writerPipe[k].task => j = k
  /\ \A j, k \in DOMAIN log : log[j].task = log[k].task => j = k
  /\ \A i \in 1 .. pos : /\ Reading(i) => ~Given(i)
                         /\ Queued(i) => ~Taken(i)
                         /\ Executed(i) => ~Sent(i)
                         /\ Piped(i) => ~Received(i)
                         /\ Written(i) => ~Logged(i)
  /\ PipesOpen => \A i \in 1 .. pos : Reading(i) \/ Given(i)

(* Tasks of one type never overtake each other: before a task was, where   *)
(* it is, every earlier one of its type has come at least as far.          *)
Ordered(i, j) ==
  /\ \A k \in DOMAIN log : log[k].task = j => \E l \in 1 .. k - 1 : log[l].task = i
  /\ Written(j) => Logged(i)
  /\ PipesOpen =>
       /\ \A k \in DOMAIN writerPipe :
            writerPipe[k].task = j =>
              Received(i) \/ \E l \in 1 .. k - 1 : writerPipe[l].task = i
       /\ Executed(j) => Sent(i)
       /\ \A k \in DOMAIN taskPipe[input[j]] :
            taskPipe[input[j]][k] = j =>
              Taken(i) \/ \E l \in 1 .. k - 1 : taskPipe[input[j]][l] = i

InOrder == \A i, j \in 1 .. pos : i < j /\ input[i] = input[j] => Ordered(i, j)

(* A sorted array is passed by its address on the heap.                    *)
OnHeap ==
  /\ \A k \in DOMAIN writerPipe :
       input[writerPipe[k].task] = BUBBLE_SORT => writerPipe[k].at = Heap
  /\ wpc # "read" /\ input[wmsg.task] = BUBBLE_SORT => wmsg.at = Heap

LineInv == HandlersOwn /\ Once /\ InOrder /\ OnHeap /\ SortedArraysIntact

FullInv == IInv /\ (strategy = PER_TASK => LineInv)

-----------------------------------------------------------------------------
(* Names that were counted are distinct.                                   *)
LEMMA ThreeAreDistinct ==
  ASSUME NEW a, NEW b, NEW c, Cardinality({a, b, c}) = 3
  PROVE  a # b /\ a # c /\ b # c
<1>1. ASSUME NEW x, NEW y, {a, b, c} = {x, y} PROVE FALSE
  <2>1. IsFiniteSet({x}) /\ Cardinality({x}) = 1
    BY FS_Singleton
  <2>2. Cardinality({x} \cup {y}) <= 2
    BY <2>1, FS_AddElement
  <2>3. {x} \cup {y} = {a, b, c}
    BY <1>1
  <2> QED
    BY <2>2, <2>3
<1> QED
  BY <1>1

(* The names of the types and of the strategies are distinct.              *)
LEMMA DistinctNames ==
  /\ FIBONACCI # POW /\ FIBONACCI # BUBBLE_SORT /\ POW # BUBBLE_SORT
  /\ PER_THREAD # PER_TASK /\ PER_THREAD # THREAD_POOL /\ PER_TASK # THREAD_POOL
  BY ThreeAreDistinct, PipelineAssumption DEF Types

(* The ends of a queue.                                                    *)
LEMMA AppendFacts ==
  ASSUME NEW S, NEW q \in Seq(S), NEW x \in S
  PROVE  /\ Append(q, x) \in Seq(S) /\ Len(q) \in Nat
         /\ DOMAIN q = 1 .. Len(q)
         /\ DOMAIN Append(q, x) = 1 .. Len(q) + 1 /\ Len(Append(q, x)) = Len(q) + 1
         /\ \A k \in 1 .. Len(q) : Append(q, x)[k] = q[k]
         /\ Append(q, x)[Len(q) + 1] = x
  OBVIOUS

(* Taking from a queue.                                                    *)
LEMMA TailFacts ==
  ASSUME NEW S, NEW q \in Seq(S), q # <<>>
  PROVE  /\ Head(q) = q[1] /\ Head(q) \in S /\ 1 \in DOMAIN q
         /\ Tail(q) \in Seq(S) /\ Len(q) \in Nat \ {0}
         /\ DOMAIN q = 1 .. Len(q)
         /\ DOMAIN Tail(q) = 1 .. Len(q) - 1 /\ Len(Tail(q)) = Len(q) - 1
         /\ \A k \in 1 .. Len(q) - 1 : Tail(q)[k] = q[k + 1]
  OBVIOUS

(* The initial state.                                                      *)
LEMMA InitInv == Init => FullInv
<1> SUFFICES ASSUME Init PROVE FullInv
  OBVIOUS
<1>1. input \in Seq(Types) /\ PipeCap \in Nat \ {0}
  BY PipelineAssumption DEF Init
<1>2. Typed
  BY <1>1 DEF Init, Typed, ResultMessage, EmptyMessage, NONE
<1>3. Bounded
  <2>1. \A e \in Tasks : e \in Executors /\ e \notin Types
    BY PipelineAssumption, <1>1 DEF Executors, Tasks
  <2> QED
    BY <1>1, <2>1 DEF Init, Bounded, EmptyMessage, NONE
<1>4. HandlersOwn /\ OnHeap /\ SortedArraysIntact
  <2>1. \A e \in Tasks : e \in Executors /\ e \notin Types
    BY PipelineAssumption, <1>1 DEF Executors, Tasks
  <2>2. HandlersOwn
    BY <2>1 DEF Init, HandlersOwn, NONE, Executors
  <2>3. OnHeap /\ SortedArraysIntact
    BY DEF Init, OnHeap, SortedArraysIntact
  <2> QED
    BY <2>2, <2>3
<1>5. Once /\ InOrder
  BY <1>1 DEF Init, Once, InOrder
<1> QED
  BY <1>2, <1>3, <1>4, <1>5 DEF FullInv, IInv, LineInv

(* What the reader does to the types.                                      *)
LEMMA ReaderTypes == ASSUME IInv, Reader PROVE IInv'
<1>1. /\ input \in Seq(Types) /\ Len(input) \in Nat /\ pos \in Nat /\ msg \in Nat
      /\ PipeCap \in Nat \ {0} /\ msg <= pos /\ pos <= Len(input)
      /\ \A t \in Types : taskPipe[t] \in Seq(Nat) /\ Len(taskPipe[t]) \in Nat
      /\ writerPipe \in Seq(ResultMessage) /\ Len(writerPipe) \in Nat
      /\ 1 .. pos \subseteq 1 .. pos + 1 /\ 0 .. pos \subseteq 0 .. pos + 1
  BY PipelineAssumption DEF IInv, Typed
<1> USE DEF readerVars, executorVars, writerVars, pipes, NONE
<1>2. CASE ReadTask
  <2>1. /\ pos' = pos + 1 /\ pos + 1 <= Len(input) /\ rpc' = "store"
        /\ UNCHANGED <<msg, strategy, input, executorVars, pipes, writerVars, stop>>
    BY <1>1, <1>2 DEF ReadTask
  <2>2. Executors' = Executors /\ ResultMessage' = ResultMessage
    BY <2>1 DEF Executors, Tasks, ResultMessage
  <2>3. pos' \in 0 .. Len(input) /\ msg' \in 0 .. pos'
    BY <1>1, <2>1
  <2>4. work' \in [Executors -> 0 .. pos'] /\ cell' \in [Executors -> (1 .. pos') \cup {Junk}]
    BY <1>1, <2>1 DEF IInv, Typed
  <2>5. Typed'
    BY <2>1, <2>2, <2>3, <2>4 DEF IInv, Typed
  <2>6. Bounded'
    BY <1>1, <2>1, <2>2 DEF IInv, Bounded, Reading, Tasks
  <2> QED
    BY <2>5, <2>6 DEF IInv
<1>3. CASE StoreTask
  <2>1. /\ msg' = pos /\ rpc = "store" /\ rpc' = "dispatch"
        /\ UNCHANGED <<pos, strategy, input, executorVars, pipes, writerVars, stop>>
    BY <1>3 DEF StoreTask
  <2>2. Executors' = Executors /\ ResultMessage' = ResultMessage
    BY <2>1 DEF Executors, Tasks, ResultMessage
  <2>3. Typed'
    BY <1>1, <2>1, <2>2 DEF IInv, Typed
  <2>4. Bounded'
    BY <1>1, <2>1, <2>2 DEF IInv, Bounded, Reading, Tasks
  <2> QED
    BY <2>3, <2>4 DEF IInv
<1>4. CASE ReadEnd \/ DropTask
  <2>1. /\ msg' = msg \/ msg' = 0
        /\ rpc' \in {"read", "exited"}
        /\ UNCHANGED <<pos, strategy, input, executorVars, pipes, writerVars, stop>>
    BY <1>4 DEF ReadEnd, DropTask
  <2>2. Executors' = Executors /\ ResultMessage' = ResultMessage
    BY <2>1 DEF Executors, Tasks, ResultMessage
  <2>3. Typed'
    BY <1>1, <2>1, <2>2 DEF IInv, Typed
  <2>4. Bounded'
    BY <1>1, <2>1, <2>2 DEF IInv, Bounded, Reading, Tasks
  <2> QED
    BY <2>3, <2>4 DEF IInv
<1>5. CASE CreateThread
  <2>1. /\ epc' = [epc EXCEPT ![pos] = "ready"] /\ rpc' = "read"
        /\ rpc = "dispatch"
        /\ UNCHANGED <<strategy, input, pos, msg, work, cell, pipes, writerVars, stop>>
    BY <1>5 DEF CreateThread
  <2>2. Executors' = Executors /\ ResultMessage' = ResultMessage
    BY <2>1 DEF Executors, Tasks, ResultMessage
  <2>3. Typed'
    BY <1>1, <2>1, <2>2 DEF IInv, Typed
  <2>4. pos \in Tasks /\ epc[pos] = "none" /\ work[pos] = 0 /\ pos \in Executors
    BY <1>1, <2>1 DEF IInv, Bounded, Reading, Tasks, Executors
  <2>5. \A e \in Executors : epc'[e] = IF e = pos THEN "ready" ELSE epc[e]
    BY <2>1 DEF IInv, Typed
  <2>6. /\ \A e \in Executors : work'[e] = NONE <=> epc'[e] \notin {"compute", "send"}
        /\ \A e \in Tasks' : e > pos \/ Reading(e)' => epc'[e] = "none"
    BY <1>1, <2>1, <2>4, <2>5 DEF IInv, Bounded, Reading, Tasks, Executors
  <2>7. Bounded'
    BY <2>1, <2>2, <2>6 DEF IInv, Bounded
  <2> QED
    BY <2>3, <2>7 DEF IInv
<1>6. CASE SendToHandler
  <2> DEFINE t == input[msg]
  <2>1. /\ msg = pos /\ pos # 0 /\ Len(taskPipe[t]) < PipeCap /\ rpc' = "read"
        /\ taskPipe' = [taskPipe EXCEPT ![t] = Append(taskPipe[t], msg)]
        /\ UNCHANGED <<strategy, input, pos, msg, executorVars, writerPipe, writerVars, stop>>
    BY <1>6 DEF SendToHandler, IInv, Bounded
  <2>2. Executors' = Executors /\ ResultMessage' = ResultMessage
    BY <2>1 DEF Executors, Tasks, ResultMessage
  <2>3. t \in Types
    BY <1>1, <2>1
  <2> HIDE DEF t
  <2>4. /\ Append(taskPipe[t], msg) \in Seq(Nat)
        /\ Len(Append(taskPipe[t], msg)) <= PipeCap
        /\ \A k \in DOMAIN Append(taskPipe[t], msg) : Append(taskPipe[t], msg)[k] \in 1 .. pos
    <3>1. \A k \in 1 .. Len(taskPipe[t]) : taskPipe[t][k] \in 1 .. pos
      BY <1>1, <2>3 DEF IInv, Bounded
    <3> QED
      BY <1>1, <2>1, <2>3, <3>1, AppendFacts
  <2>5. Typed'
    BY <2>1, <2>2, <2>3, <2>4 DEF IInv, Typed
  <2>6. \A u \in Types : /\ Len(taskPipe'[u]) <= PipeCap
                         /\ \A k \in DOMAIN taskPipe'[u] : taskPipe'[u][k] \in 1 .. pos
    <3> SUFFICES ASSUME NEW u \in Types
                 PROVE  /\ Len(taskPipe'[u]) <= PipeCap
                        /\ \A k \in DOMAIN taskPipe'[u] : taskPipe'[u][k] \in 1 .. pos
      OBVIOUS
    <3>1. taskPipe'[u] = IF u = t THEN Append(taskPipe[t], msg) ELSE taskPipe[u]
      BY <2>1 DEF IInv, Typed
    <3> QED
      BY <2>4, <3>1 DEF IInv, Bounded
  <2>7. Bounded'
    BY <1>1, <2>1, <2>2, <2>6 DEF IInv, Bounded, Reading, Tasks
  <2> QED
    BY <2>5, <2>7 DEF IInv
<1> QED
  BY <1>2, <1>3, <1>4, <1>5, <1>6 DEF Reader

(* The executors.  What a thread reads of a task that was overwritten is a *)
(* task that was read, or junk.                                            *)
LEMMA SeenTypes == ASSUME IInv, NEW m \in Seen PROVE m = Junk \/ m \in 0 .. pos
<1>1. pos \in Nat /\ msg \in 0 .. pos
  BY PipelineAssumption DEF IInv, Typed
<1> QED
  BY <1>1 DEF Seen

(* The threads that compute.                                               *)
LEMMA ExecutorTypes == ASSUME IInv, NEW e \in Executors, Executor(e) PROVE IInv'
<1>1. /\ input \in Seq(Types) /\ Len(input) \in Nat /\ pos \in Nat
      /\ PipeCap \in Nat \ {0} /\ pos <= Len(input)
      /\ \A t \in Types : taskPipe[t] \in Seq(Nat) /\ Len(taskPipe[t]) \in Nat
      /\ writerPipe \in Seq(ResultMessage) /\ Len(writerPipe) \in Nat
  BY PipelineAssumption DEF IInv, Typed
<1>2. /\ \A i \in Executors : work[i] = NONE <=> epc[i] \notin {"compute", "send"}
      /\ \A i \in Tasks : i > pos \/ Reading(i) => epc[i] = "none"
      /\ epc \in [Executors -> {"none", "ready", "compute", "send", "done"}]
      /\ work \in [Executors -> 0 .. pos]
      /\ cell \in [Executors -> (1 .. pos) \cup {Junk}]
  BY DEF IInv, Typed, Bounded
<1>3. ASSUME UNCHANGED <<strategy, input, readerVars, writerVars>>,
             NEW p \in {"none", "ready", "compute", "send", "done"}, NEW w \in 0 .. pos,
             w = NONE <=> p \notin {"compute", "send"}, epc[e] # "none",
             epc' = [epc EXCEPT ![e] = p], work' = [work EXCEPT ![e] = w],
             cell' \in [Executors -> (1 .. pos) \cup {Junk}],
             stop' \in {stop, "crashed"},
             taskPipe' \in [Types -> Seq(Nat)],
             \A t \in Types : /\ Len(taskPipe'[t]) <= PipeCap
                              /\ \A k \in DOMAIN taskPipe'[t] : taskPipe'[t][k] \in 1 .. pos,
             writerPipe' \in Seq(ResultMessage), Len(writerPipe') <= PipeCap,
             \A k \in DOMAIN writerPipe' : writerPipe'[k].task \in 1 .. pos
      PROVE  IInv'
  <2>1. /\ Executors' = Executors /\ ResultMessage' = ResultMessage /\ Tasks' = Tasks
        /\ \A i : Reading(i)' <=> Reading(i)
    BY <1>3 DEF Executors, Tasks, ResultMessage, Reading, readerVars
  <2>2. \A i \in Executors : /\ epc'[i] = IF i = e THEN p ELSE epc[i]
                             /\ work'[i] = IF i = e THEN w ELSE work[i]
    BY <1>2, <1>3
  <2>3. Typed'
    BY <1>2, <1>3, <2>1 DEF IInv, Typed, readerVars, writerVars
  <2>4. /\ \A i \in Executors : work'[i] = NONE <=> epc'[i] \notin {"compute", "send"}
        /\ \A i \in Tasks : i > pos \/ Reading(i) => epc'[i] = "none"
    BY <1>2, <1>3, <2>2 DEF Executors
  <2>5. Bounded'
    BY <1>3, <2>1, <2>4 DEF IInv, Bounded, readerVars, writerVars
  <2> QED
    BY <2>3, <2>5 DEF IInv
<1>4. /\ taskPipe \in [Types -> Seq(Nat)] /\ Len(writerPipe) <= PipeCap
      /\ \A t \in Types : /\ Len(taskPipe[t]) <= PipeCap
                          /\ \A k \in DOMAIN taskPipe[t] : taskPipe[t][k] \in 1 .. pos
      /\ \A k \in DOMAIN writerPipe : writerPipe[k].task \in 1 .. pos
  BY DEF IInv, Typed, Bounded
<1>5. CASE e \in Tasks /\ StartThread(e)
  <2>1. PICK m \in Seen :
          /\ stop' = IF m = Junk THEN "crashed" ELSE stop
          /\ epc' = [epc EXCEPT ![e] = IF m \in Tasks THEN "compute" ELSE "done"]
          /\ work' = [work EXCEPT ![e] = IF m \in Tasks THEN m ELSE NONE]
    BY <1>5 DEF StartThread
  <2>2. /\ UNCHANGED <<strategy, input, readerVars, cell, pipes, writerVars>>
        /\ epc[e] = "ready"
    BY <1>5 DEF StartThread
  <2>3. m = Junk \/ m \in 0 .. pos
    BY SeenTypes
  <2>4. m \in Tasks => m \in 1 .. pos
    <3>1. Junk \notin Nat
      BY PipelineAssumption
    <3> QED
      BY <1>1, <2>3, <3>1 DEF Tasks
  <2> DEFINE p == IF m \in Tasks THEN "compute" ELSE "done"
             w == IF m \in Tasks THEN m ELSE NONE
  <2>5. /\ p \in {"none", "ready", "compute", "send", "done"} /\ w \in 0 .. pos
        /\ w = NONE <=> p \notin {"compute", "send"}
    BY <1>1, <2>4 DEF NONE
  <2>6. epc' = [epc EXCEPT ![e] = p] /\ work' = [work EXCEPT ![e] = w]
    BY <2>1
  <2> HIDE DEF p, w
  <2> QED
    BY <1>1, <1>2, <1>3, <1>4, <2>1, <2>2, <2>5, <2>6 DEF pipes
<1>6. CASE e \in Types /\ TakeTask(e)
  <2> DEFINE i == Head(taskPipe[e])
  <2>1. /\ epc[e] = "ready" /\ taskPipe[e] # <<>>
        /\ taskPipe' = [taskPipe EXCEPT ![e] = Tail(taskPipe[e])]
        /\ \/ epc' = [epc EXCEPT ![e] = "compute"] /\ work' = [work EXCEPT ![e] = i]
           \/ epc' = epc /\ work' = work
        /\ UNCHANGED <<strategy, input, readerVars, cell, writerPipe, writerVars, stop>>
    BY <1>6 DEF TakeTask
  <2>2. /\ i \in 1 .. pos
        /\ Tail(taskPipe[e]) \in Seq(Nat) /\ Len(Tail(taskPipe[e])) <= PipeCap
        /\ \A k \in DOMAIN Tail(taskPipe[e]) : Tail(taskPipe[e])[k] \in 1 .. pos
    <3> DEFINE q == taskPipe[e]
    <3>1. /\ q \in Seq(Nat) /\ q # <<>> /\ Len(q) <= PipeCap
          /\ \A k \in DOMAIN q : q[k] \in 1 .. pos
      BY <1>1, <1>4, <1>6, <2>1
    <3> HIDE DEF q
    <3>2. /\ Head(q) \in 1 .. pos /\ Tail(q) \in Seq(Nat) /\ Len(Tail(q)) <= PipeCap
          /\ \A k \in DOMAIN Tail(q) : Tail(q)[k] \in 1 .. pos
      BY <1>1, <3>1, TailFacts
    <3> QED
      BY <3>2 DEF q
  <2>3. /\ taskPipe' \in [Types -> Seq(Nat)]
        /\ \A t \in Types : taskPipe'[t] = IF t = e THEN Tail(taskPipe[e]) ELSE taskPipe[t]
    BY <1>4, <2>1, <2>2
  <2>4. \A t \in Types : /\ Len(taskPipe'[t]) <= PipeCap
                         /\ \A k \in DOMAIN taskPipe'[t] : taskPipe'[t][k] \in 1 .. pos
    BY <1>4, <2>2, <2>3
  <2> HIDE DEF i
  <2>5. CASE epc' = [epc EXCEPT ![e] = "compute"] /\ work' = [work EXCEPT ![e] = i]
    <3>1. i \in 0 .. pos /\ i # NONE
      BY <1>1, <2>2 DEF NONE
    <3> QED
      BY <1>1, <1>2, <1>3, <1>4, <2>1, <2>3, <2>4, <2>5, <3>1
  <2>6. CASE epc' = epc /\ work' = work
    <3>1. /\ epc' = [epc EXCEPT ![e] = "ready"] /\ work' = [work EXCEPT ![e] = NONE]
          /\ NONE \in 0 .. pos
      BY <1>1, <1>2, <2>1, <2>6 DEF NONE
    <3> QED
      BY <1>1, <1>2, <1>3, <1>4, <2>1, <2>3, <2>4, <3>1
  <2> QED
    BY <2>1, <2>5, <2>6
<1>7. CASE Compute(e)
  <2>1. /\ epc[e] = "compute" /\ epc' = [epc EXCEPT ![e] = "send"]
        /\ cell' = cell \/ cell' = [cell EXCEPT ![e] = work[e]]
        /\ UNCHANGED <<strategy, input, readerVars, work, pipes, writerVars, stop>>
    BY <1>7 DEF Compute
  <2>2. /\ work[e] \in 1 .. pos /\ work[e] \in 0 .. pos /\ work[e] # NONE
        /\ work' = [work EXCEPT ![e] = work[e]]
    BY <1>1, <1>2, <2>1 DEF NONE
  <2>3. cell' \in [Executors -> (1 .. pos) \cup {Junk}]
    BY <1>2, <2>1, <2>2
  <2> QED
    BY <1>1, <1>3, <1>4, <2>1, <2>2, <2>3 DEF pipes
<1>8. CASE SendResult(e)
  <2> DEFINE r == [task |-> work[e], at |-> Place(e)]
             p == IF e \in Types THEN "ready" ELSE "done"
  <2>1. /\ epc[e] = "send" /\ Len(writerPipe) < PipeCap
        /\ writerPipe' = Append(writerPipe, r)
        /\ cell' \in {cell, [cell EXCEPT ![e] = Junk]}
        /\ epc' = [epc EXCEPT ![e] = p]
        /\ work' = [work EXCEPT ![e] = NONE]
        /\ UNCHANGED <<strategy, input, readerVars, taskPipe, writerVars, stop>>
    BY <1>8 DEF SendResult
  <2>2. work[e] \in 1 .. pos /\ NONE \in 0 .. pos
    BY <1>1, <1>2, <2>1 DEF NONE
  <2>3. r \in ResultMessage /\ r.task \in 1 .. pos
    BY <1>1, <2>2 DEF ResultMessage, Place
  <2>4. /\ p \in {"none", "ready", "compute", "send", "done"}
        /\ p \notin {"compute", "send"}
    OBVIOUS
  <2> HIDE DEF r, p
  <2>5. /\ writerPipe' \in Seq(ResultMessage) /\ Len(writerPipe') <= PipeCap
        /\ \A k \in DOMAIN writerPipe' : writerPipe'[k].task \in 1 .. pos
    BY <1>1, <1>4, <2>1, <2>3, AppendFacts
  <2>6. cell' \in [Executors -> (1 .. pos) \cup {Junk}]
    BY <1>2, <2>1
  <2> QED
    BY <1>1, <1>2, <1>3, <1>4, <2>1, <2>2, <2>4, <2>5, <2>6
<1> QED
  BY <1>5, <1>6, <1>7, <1>8 DEF Executor

(* The size and the data go to the last record of the log, which names the *)
(* message that the writer holds.                                          *)
LEMMA RecordStep ==
  ASSUME IInv, WriteSize \/ WriteData
  PROVE  \E r \in LogRecord :
           /\ r.task = wmsg.task /\ log[Len(log)].task = wmsg.task
           /\ r.value \in 0 .. pos \cup {Junk}
           /\ WriteSize => r.pieces = 2
           /\ WriteData => /\ r.pieces = 3
                           /\ wmsg.at = Heap /\ ~SortedByTwo(wmsg.task) => r.value = wmsg.task
           /\ log' \in Seq(LogRecord) /\ log' # <<>>
           /\ Len(log') = Len(log) /\ DOMAIN log' = DOMAIN log /\ Len(log) \in DOMAIN log
           /\ \A k \in DOMAIN log : log'[k] = IF k = Len(log) THEN r ELSE log[k]
<1> DEFINE n == Len(log)
<1>1. /\ wpc \in {"size", "data"} /\ pos \in Nat /\ wmsg.task \in 0 .. pos
      /\ log \in Seq(LogRecord) /\ log # <<>> /\ log[n].task = wmsg.task
      /\ ~(WriteSize /\ WriteData)
  BY PipelineAssumption DEF IInv, Typed, Bounded, WriteSize, WriteData
<1>2. /\ n \in DOMAIN log /\ DOMAIN log = 1 .. n /\ n \in Nat
      /\ log[n] \in LogRecord
  BY <1>1
<1>3. log[n].value \in 0 .. pos \cup {Junk}
  BY <1>2 DEF IInv, Bounded
<1>4. ASSUME NEW r \in LogRecord, log' = [log EXCEPT ![n] = r]
      PROVE  /\ log' \in Seq(LogRecord) /\ log' # <<>>
             /\ Len(log') = n /\ DOMAIN log' = DOMAIN log
             /\ \A k \in DOMAIN log : log'[k] = IF k = n THEN r ELSE log[k]
  <2>1. /\ log' \in Seq(LogRecord) /\ DOMAIN log' = DOMAIN log
        /\ \A k \in DOMAIN log : log'[k] = IF k = n THEN r ELSE log[k]
    BY <1>1, <1>2, <1>4
  <2>2. Len(log') = n /\ log' # <<>>
    BY <1>1, <1>2, <2>1
  <2> QED
    BY <2>1, <2>2
<1>5. CASE WriteSize
  <2> DEFINE r == [log[n] EXCEPT !.pieces = 2]
  <2>1. r \in LogRecord /\ r.task = log[n].task /\ r.pieces = 2 /\ r.value = log[n].value
    BY <1>2 DEF LogRecord
  <2>2. log' = [log EXCEPT ![n] = r]
    BY <1>2, <1>5 DEF WriteSize
  <2> HIDE DEF r
  <2> QED
    BY <1>1, <1>2, <1>3, <1>4, <1>5, <2>1, <2>2
<1>6. CASE WriteData
  <2>1. PICK v \in IF wmsg.at # Heap THEN {cell[wmsg.at]}
                   ELSE {wmsg.task} \cup (IF SortedByTwo(wmsg.task) THEN {Junk} ELSE {}) :
             log' = [log EXCEPT ![n].pieces = 3, ![n].value = v]
    BY <1>6 DEF WriteData
  <2>2. v \in 0 .. pos \cup {Junk} /\ v \in Nat \cup {Junk}
    <3>1. wmsg.at # Heap => cell[wmsg.at] \in (1 .. pos) \cup {Junk}
      BY DEF IInv, Typed, ResultMessage
    <3> QED
      BY <1>1, <2>1, <3>1
  <2> DEFINE r == [log[n] EXCEPT !.pieces = 3, !.value = v]
  <2>3. r \in LogRecord /\ r.task = log[n].task /\ r.pieces = 3 /\ r.value = v
    <3>1. ASSUME NEW x \in LogRecord
          PROVE  LET y == [x EXCEPT !.pieces = 3, !.value = v]
                 IN  y \in LogRecord /\ y.task = x.task /\ y.pieces = 3 /\ y.value = v
      <4> DEFINE y == [x EXCEPT !.pieces = 3]
      <4>1. y \in LogRecord /\ y.task = x.task /\ y.pieces = 3
        BY DEF LogRecord
      <4> DEFINE z == [y EXCEPT !.value = v]
      <4>2. z = [x EXCEPT !.pieces = 3, !.value = v]
        OBVIOUS
      <4> HIDE DEF y
      <4>3. z \in LogRecord /\ z.task = y.task /\ z.pieces = y.pieces /\ z.value = v
        BY <2>2, <4>1 DEF LogRecord
      <4> QED
        BY <4>1, <4>2, <4>3
    <3> QED
      BY <1>2, <3>1
  <2>4. log' = [log EXCEPT ![n] = r]
    BY <1>2, <2>1
  <2>5. wmsg.at = Heap /\ ~SortedByTwo(wmsg.task) => v = wmsg.task
    BY <2>1
  <2> HIDE DEF r
  <2> QED
    BY <1>1, <1>2, <1>4, <1>6, <2>2, <2>3, <2>4, <2>5
<1> QED
  BY <1>5, <1>6

(* The writer, and the end of the process.                                 *)
LEMMA WriterTypes ==
  ASSUME IInv, Writer \/ Cancel \/ ClosePipes \/ Exit \/ UNCHANGED vars
  PROVE  IInv'
<1>1. /\ input \in Seq(Types) /\ Len(input) \in Nat /\ pos \in Nat
      /\ PipeCap \in Nat \ {0} /\ pos <= Len(input)
      /\ writerPipe \in Seq(ResultMessage) /\ Len(writerPipe) \in Nat
      /\ log \in Seq(LogRecord) /\ Len(log) \in Nat
  BY PipelineAssumption DEF IInv, Typed
<1>2. CASE Writer
  <2>1. UNCHANGED <<strategy, input, readerVars, executorVars, taskPipe, stop>>
    BY <1>2 DEF Writer, ReadResult, WriteType, WriteSize, WriteData, pipes
  <2>2. /\ Executors' = Executors /\ ResultMessage' = ResultMessage /\ Tasks' = Tasks
        /\ \A i : Reading(i)' <=> Reading(i)
    BY <2>1 DEF Executors, Tasks, ResultMessage, Reading, readerVars
  <2>3. SUFFICES
          /\ writerPipe' \in Seq(ResultMessage) /\ Len(writerPipe') <= PipeCap
          /\ \A k \in DOMAIN writerPipe' : writerPipe'[k].task \in 1 .. pos
          /\ wpc' \in {"read", "type", "size", "data"} /\ wmsg' \in ResultMessage
          /\ wmsg'.task \in 0 .. pos /\ (wpc' # "read" => wmsg'.task # 0)
          /\ wpc' \in {"size", "data"} => log' # <<>> /\ log'[Len(log')].task = wmsg'.task
          /\ log' \in Seq(LogRecord)
          /\ \A k \in DOMAIN log' :
               /\ log'[k].task \in 1 .. pos /\ log'[k].value \in 0 .. pos \cup {Junk}
               /\ log'[k].pieces = 3 \/ (k = Len(log') /\ wpc' \in {"size", "data"})
    <3>1. Typed'
      BY <2>1, <2>2, <2>3 DEF IInv, Typed, LogRecord, readerVars, executorVars
    <3>2. Bounded'
      BY <2>1, <2>2, <2>3 DEF IInv, Bounded, Complete, readerVars, executorVars
    <3> QED
      BY <3>1, <3>2 DEF IInv
  <2>4. /\ Len(writerPipe) <= PipeCap
        /\ \A k \in DOMAIN writerPipe : writerPipe[k].task \in 1 .. pos
        /\ wmsg \in ResultMessage /\ wmsg.task \in 0 .. pos
        /\ wpc # "read" => wmsg.task # 0
        /\ \A k \in DOMAIN log :
             /\ log[k].task \in 1 .. pos /\ log[k].value \in 0 .. pos \cup {Junk}
             /\ log[k].pieces = 3 \/ (k = Len(log) /\ wpc \in {"size", "data"})
    BY DEF IInv, Typed, Bounded, Complete
  <2>5. CASE ReadResult
    <3>1. /\ writerPipe # <<>> /\ wmsg' = Head(writerPipe) /\ writerPipe' = Tail(writerPipe)
          /\ wpc = "read" /\ wpc' = "type" /\ log' = log
      BY <2>5 DEF ReadResult
    <3>2. Head(writerPipe) \in ResultMessage /\ Head(writerPipe).task \in 1 .. pos
      BY <1>1, <2>4, <3>1, TailFacts
    <3>3. /\ Tail(writerPipe) \in Seq(ResultMessage) /\ Len(Tail(writerPipe)) <= PipeCap
          /\ \A k \in DOMAIN Tail(writerPipe) : Tail(writerPipe)[k].task \in 1 .. pos
      BY <1>1, <2>4, <3>1, TailFacts
    <3> QED
      BY <1>1, <2>4, <3>1, <3>2, <3>3
  <2>6. CASE WriteType
    <3> DEFINE r == [task |-> wmsg.task, pieces |-> 1, value |-> NONE]
    <3>1. /\ log' = Append(log, r) /\ wpc = "type" /\ wpc' = "size"
          /\ UNCHANGED <<writerPipe, wmsg>>
      BY <2>6 DEF WriteType, pipes
    <3>2. /\ r \in LogRecord /\ r.task = wmsg.task
          /\ r.task \in 1 .. pos /\ r.value \in 0 .. pos \cup {Junk}
      BY <1>1, <2>4, <3>1 DEF NONE, LogRecord
    <3> HIDE DEF r
    <3>3. /\ log' \in Seq(LogRecord) /\ log' # <<>>
          /\ log'[Len(log')].task = wmsg.task
          /\ \A k \in DOMAIN log' :
               /\ log'[k].task \in 1 .. pos /\ log'[k].value \in 0 .. pos \cup {Junk}
               /\ log'[k].pieces = 3 \/ k = Len(log')
      <4> DEFINE S == LogRecord
      <4>1. log \in Seq(S) /\ r \in S /\ log' = Append(log, r)
        BY <1>1, <3>1, <3>2
      <4> HIDE DEF S
      <4>2. /\ log' \in Seq(S) /\ DOMAIN log' = 1 .. Len(log) + 1 /\ Len(log') = Len(log) + 1
            /\ \A k \in 1 .. Len(log) : log'[k] = log[k]
            /\ log'[Len(log) + 1] = r /\ DOMAIN log = 1 .. Len(log)
        BY <4>1, AppendFacts
      <4>3. log'[Len(log')].task = wmsg.task
        BY <3>2, <4>2
      <4>5. ASSUME NEW k \in DOMAIN log'
            PROVE  /\ log'[k].task \in 1 .. pos /\ log'[k].value \in 0 .. pos \cup {Junk}
                   /\ log'[k].pieces = 3 \/ k = Len(log')
        <5>1. k \in 1 .. Len(log) \/ k = Len(log) + 1
          BY <1>1, <4>2
        <5>2. CASE k \in 1 .. Len(log)
          BY <2>4, <3>1, <4>2, <5>2
        <5>3. CASE k = Len(log) + 1
          BY <3>2, <4>2, <5>3
        <5> QED
          BY <5>1, <5>2, <5>3
      <4>4. log' # <<>>
        BY <1>1, <4>2
      <4> QED
        BY <4>2, <4>3, <4>4, <4>5 DEF S
    <3> QED
      BY <1>1, <2>4, <3>1, <3>3
  <2>7. CASE WriteSize \/ WriteData
    <3>1. PICK r \in LogRecord :
            /\ r.task = wmsg.task /\ log[Len(log)].task = wmsg.task
            /\ r.value \in 0 .. pos \cup {Junk}
            /\ WriteData => r.pieces = 3
            /\ log' \in Seq(LogRecord) /\ log' # <<>>
            /\ Len(log') = Len(log) /\ DOMAIN log' = DOMAIN log /\ Len(log) \in DOMAIN log
            /\ \A k \in DOMAIN log : log'[k] = IF k = Len(log) THEN r ELSE log[k]
      BY <2>7, RecordStep
    <3>2. /\ wpc \in {"size", "data"} /\ writerPipe' = writerPipe
          /\ WriteSize => wpc' = "data" /\ wmsg' = wmsg
          /\ WriteData => wpc' = "read" /\ wmsg' = EmptyMessage
      BY <2>7 DEF WriteSize, WriteData, pipes
    <3>3. EmptyMessage \in ResultMessage /\ EmptyMessage.task = 0
      BY DEF EmptyMessage, ResultMessage
    <3>4. \A k \in DOMAIN log' :
            /\ log'[k].task \in 1 .. pos /\ log'[k].value \in 0 .. pos \cup {Junk}
            /\ log'[k].pieces = 3 \/ (k = Len(log') /\ wpc' \in {"size", "data"})
      BY <2>4, <2>7, <3>1, <3>2
    <3>5. log'[Len(log')].task = wmsg.task
      BY <3>1
    <3> QED
      BY <1>1, <2>4, <2>7, <3>1, <3>2, <3>3, <3>4, <3>5
  <2> QED
    BY <1>2, <2>5, <2>6, <2>7 DEF Writer
<1>3. CASE Cancel \/ ClosePipes \/ Exit \/ UNCHANGED vars
  <2>1. /\ UNCHANGED <<strategy, input, readerVars, executorVars, writerVars>>
        /\ stop' \in {"no", "cancelled", "closed", "exited", "crashed"}
        /\ \/ taskPipe' = taskPipe /\ writerPipe' = writerPipe
           \/ taskPipe' = [t \in Types |-> <<>>] /\ writerPipe' = <<>>
    BY <1>3 DEF Cancel, ClosePipes, Exit, vars, pipes, IInv, Typed
  <2>2. /\ Executors' = Executors /\ ResultMessage' = ResultMessage /\ Tasks' = Tasks
        /\ \A i : Reading(i)' <=> Reading(i)
    BY <2>1 DEF Executors, Tasks, ResultMessage, Reading, readerVars
  <2>3. taskPipe' \in [Types -> Seq(Nat)] /\ writerPipe' \in Seq(ResultMessage)
    <3>1. <<>> \in Seq(Nat) /\ <<>> \in Seq(ResultMessage)
      OBVIOUS
    <3> QED
      BY <2>1, <2>2, <3>1 DEF IInv, Typed
  <2>4. Typed'
    BY <2>1, <2>2, <2>3 DEF IInv, Typed, readerVars, executorVars, writerVars
  <2>5. /\ \A t \in Types : /\ Len(taskPipe'[t]) <= PipeCap
                            /\ \A k \in DOMAIN taskPipe'[t] : taskPipe'[t][k] \in 1 .. pos
        /\ Len(writerPipe') <= PipeCap
        /\ \A k \in DOMAIN writerPipe' : writerPipe'[k].task \in 1 .. pos
    BY <1>1, <2>1 DEF IInv, Bounded
  <2>6. Bounded'
    BY <2>1, <2>2, <2>5 DEF IInv, Bounded, readerVars, executorVars, writerVars
  <2> QED
    BY <2>4, <2>6 DEF IInv
<1> QED
  BY <1>2, <1>3

(* Every step keeps the types.                                             *)
LEMMA TypeStep == IInv /\ [Next]_vars => IInv'
  BY ReaderTypes, ExecutorTypes, WriterTypes DEF Next

-----------------------------------------------------------------------------
(* With a thread for each type.  What the proofs below use of the types.   *)
LEMMA LineFacts ==
  ASSUME IInv
  PROVE  /\ pos \in Nat /\ NONE = 0 /\ BUBBLE_SORT \in Types
         /\ \A i \in 1 .. pos : input[i] \in Types /\ i \in Nat /\ i # NONE
         /\ \A t \in Types : /\ taskPipe[t] \in Seq(Nat) /\ Len(taskPipe[t]) \in Nat
                             /\ DOMAIN taskPipe[t] = 1 .. Len(taskPipe[t])
                             /\ \A k \in DOMAIN taskPipe[t] : taskPipe[t][k] \in 1 .. pos
         /\ writerPipe \in Seq(ResultMessage) /\ Len(writerPipe) \in Nat
         /\ DOMAIN writerPipe = 1 .. Len(writerPipe)
         /\ \A k \in DOMAIN writerPipe : writerPipe[k].task \in 1 .. pos
         /\ Len(log) \in Nat /\ DOMAIN log = 1 .. Len(log)
         /\ \A k \in DOMAIN log : log[k].task \in 1 .. pos
         /\ wpc = "type" => wmsg.task \in 1 .. pos
         /\ Types \subseteq Executors /\ Tasks \subseteq Executors
<1>1. input \in Seq(Types) /\ pos \in 0 .. Len(input)
  BY PipelineAssumption DEF IInv, Typed
<1>2. pos \in Nat /\ \A i \in 1 .. pos : input[i] \in Types /\ i \in Nat /\ i # 0
  BY <1>1
<1>3. \A t \in Types : /\ taskPipe[t] \in Seq(Nat) /\ Len(taskPipe[t]) \in Nat
                       /\ DOMAIN taskPipe[t] = 1 .. Len(taskPipe[t])
                       /\ \A k \in DOMAIN taskPipe[t] : taskPipe[t][k] \in 1 .. pos
  BY DEF IInv, Typed, Bounded
<1>4. /\ writerPipe \in Seq(ResultMessage) /\ Len(writerPipe) \in Nat
      /\ DOMAIN writerPipe = 1 .. Len(writerPipe)
      /\ \A k \in DOMAIN writerPipe : writerPipe[k].task \in 1 .. pos
  BY DEF IInv, Typed, Bounded
<1>5. /\ Len(log) \in Nat /\ DOMAIN log = 1 .. Len(log)
      /\ \A k \in DOMAIN log : log[k].task \in 1 .. pos
  BY DEF IInv, Typed, Bounded
<1>6. wpc = "type" => wmsg.task \in 1 .. pos
  BY <1>2 DEF IInv, Bounded
<1> QED
  BY <1>2, <1>3, <1>4, <1>5, <1>6 DEF NONE, Types, Executors

(* Steps that move no task from one place to another.                      *)
LEMMA NothingMoves ==
  ASSUME IInv, LineInv,
         UNCHANGED <<input, pos, work, taskPipe, writerPipe, wpc, wmsg, log>>,
         strategy' = strategy,
         \A i \in 1 .. pos : Reading(i)' <=> Reading(i),
         PipesOpen' => PipesOpen,
         \A e \in Tasks : epc'[e] = epc[e]
  PROVE  LineInv'
<1>1. \A i : /\ (Queued(i)' <=> Queued(i)) /\ (Executed(i)' <=> Executed(i))
             /\ (Piped(i)' <=> Piped(i)) /\ (Written(i)' <=> Written(i))
             /\ (Logged(i)' <=> Logged(i))
  BY DEF Queued, Executed, Piped, Written, Logged
<1>2. \A i : /\ (Received(i)' <=> Received(i)) /\ (Sent(i)' <=> Sent(i))
             /\ (Taken(i)' <=> Taken(i)) /\ (Given(i)' <=> Given(i))
  BY <1>1 DEF Received, Sent, Taken, Given
<1>3. HandlersOwn' /\ OnHeap' /\ SortedArraysIntact'
  BY DEF LineInv, HandlersOwn, OnHeap, SortedArraysIntact, Complete, Tasks
<1>4. Once'
  BY <1>1, <1>2 DEF LineInv, Once
<1>5. InOrder'
  <2>1. \A i, j : Ordered(i, j) => Ordered(i, j)'
    BY <1>1, <1>2 DEF Ordered
  <2> QED
    BY <2>1 DEF LineInv, InOrder
<1> QED
  BY <1>3, <1>4, <1>5 DEF LineInv

(* Only handlers execute, and what they execute is of their type.          *)
LEMMA OnlyHandlers ==
  ASSUME IInv, LineInv, NEW e \in Executors, Executor(e)
  PROVE  /\ e \in Types /\ (TakeTask(e) \/ Compute(e) \/ SendResult(e))
         /\ \A i \in Tasks : epc'[i] = epc[i]
<1>1. \A i \in Tasks : i \notin Types
  <2>1. input \in Seq(Types) /\ \A x \in Types : x \notin Nat
    BY PipelineAssumption DEF IInv, Typed
  <2>2. \A i \in Tasks : i \in Nat
    BY <2>1 DEF Tasks
  <2> QED
    BY <2>1, <2>2
<1>2. e \in Types /\ (TakeTask(e) \/ Compute(e) \/ SendResult(e))
  BY DEF Executor, Executors, LineInv, HandlersOwn, StartThread, Compute, SendResult
<1>3. \A i \in Tasks : i \in Executors /\ i # e
  BY <1>1, <1>2 DEF Executors
<1> QED
  BY <1>2, <1>3 DEF TakeTask, Compute, SendResult, IInv, Typed

(* A new task is with the reader, and nowhere else.                        *)
LEMMA ReadLine == ASSUME IInv, LineInv, ReadTask PROVE LineInv'
<1> DEFINE n == pos + 1
<1>1. /\ rpc = "read" /\ rpc' = "store" /\ pos' = n
      /\ UNCHANGED <<msg, strategy, input, executorVars, pipes, writerVars, stop>>
  BY DEF ReadTask
<1>2. UNCHANGED <<epc, work, taskPipe, writerPipe, wpc, wmsg, log>>
  BY <1>1 DEF executorVars, writerVars, pipes
<1>3. /\ n \in Nat /\ n \notin 1 .. pos /\ n # NONE
      /\ \A i \in 1 .. n : i \in 1 .. pos \/ i = n
      /\ \A i \in 1 .. n : i > 0 /\ i <= n
  BY LineFacts
<1>4. /\ \A i : /\ (Queued(i)' <=> Queued(i)) /\ (Executed(i)' <=> Executed(i))
                /\ (Piped(i)' <=> Piped(i)) /\ (Written(i)' <=> Written(i))
                /\ (Logged(i)' <=> Logged(i))
      /\ \A i : Reading(i)' <=> i = n
      /\ \A i : ~Reading(i)
  BY <1>1, <1>2 DEF Queued, Executed, Piped, Written, Logged, Reading
<1>5. \A i : /\ (Received(i)' <=> Received(i)) /\ (Sent(i)' <=> Sent(i))
             /\ (Taken(i)' <=> Taken(i)) /\ (Given(i)' <=> Given(i))
  BY <1>4 DEF Received, Sent, Taken, Given
<1>t. input[n] \in Types /\ work \in [Executors -> 0 .. pos]
  <2>1. input \in Seq(Types) /\ pos \in 0 .. Len(input) /\ pos < Len(input)
    BY PipelineAssumption DEF IInv, Typed, ReadTask
  <2> QED
    BY <2>1 DEF IInv, Typed
<1>6. ~Given(n) /\ ~Taken(n) /\ ~Executed(n) /\ ~Queued(n)
  <2>1. ~Queued(n) /\ ~Piped(n) /\ ~Logged(n) /\ ~Written(n)
    BY <1>t, <1>3, LineFacts DEF Queued, Piped, Logged, Written
  <2>2. ~Executed(n)
    BY <1>t, <1>3, LineFacts DEF Executed
  <2> QED
    BY <2>1, <2>2 DEF Given, Taken, Sent, Received
<1>7. HandlersOwn' /\ OnHeap' /\ SortedArraysIntact'
  BY <1>1, <1>2 DEF LineInv, HandlersOwn, OnHeap, SortedArraysIntact, Complete, Tasks
<1>8. Once'
  <2>1. PipesOpen' <=> PipesOpen
    BY <1>1 DEF PipesOpen
  <2>2. \A i \in 1 .. n : /\ Queued(i) => ~Taken(i)
                          /\ Executed(i) => ~Sent(i)
                          /\ Piped(i) => ~Received(i)
                          /\ Written(i) => ~Logged(i)
                          /\ Reading(i)' => ~Given(i)
    <3>1. ~Piped(n) /\ ~Written(n)
      BY <1>6 DEF Taken, Sent, Received
    <3> QED
      BY <1>3, <1>4, <1>6, <3>1 DEF LineInv, Once
  <2>3. PipesOpen => \A i \in 1 .. n : Reading(i)' \/ Given(i)
    BY <1>3, <1>4 DEF LineInv, Once
  <2> QED
    BY <1>1, <1>2, <1>4, <1>5, <2>1, <2>2, <2>3 DEF LineInv, Once
<1>9. InOrder'
  <2> SUFFICES ASSUME NEW i \in 1 .. n, NEW j \in 1 .. n, i < j, input[i] = input[j]
               PROVE  Ordered(i, j)'
    BY <1>1, <1>2 DEF InOrder
  <2>1. CASE j \in 1 .. pos
    <3>1. i \in 1 .. pos
      BY <1>3, <2>1, LineFacts
    <3> QED
      BY <1>1, <1>2, <1>4, <1>5, <2>1, <3>1 DEF LineInv, InOrder, Ordered, PipesOpen
  <2>2. CASE j = n
    BY <1>1, <1>2, <1>4, <1>5, <1>6, <2>2 DEF Ordered, Given, Taken, Sent, Received,
       Queued, Piped, Logged
  <2> QED
    BY <1>3, <2>1, <2>2
<1> QED
  BY <1>7, <1>8, <1>9 DEF LineInv

(* A task goes from the reader to the end of the pipe of its handler.      *)
LEMMA SendLine == ASSUME IInv, LineInv, SendToHandler PROVE LineInv'
<1> DEFINE t == input[pos]
           q == taskPipe[t]
<1>1. /\ rpc = "dispatch" /\ rpc' = "read" /\ msg = pos /\ pos \in 1 .. pos /\ PipesOpen
      /\ taskPipe' = [taskPipe EXCEPT ![t] = Append(q, pos)]
      /\ UNCHANGED <<strategy, input, pos, msg, executorVars, writerPipe, writerVars, stop>>
  BY LineFacts DEF SendToHandler, IInv, Bounded
<1>2. UNCHANGED <<epc, work, wpc, wmsg, log>>
  BY <1>1 DEF executorVars, writerVars
<1>3. t \in Types /\ q \in Seq(Nat) /\ pos \in Nat
  BY <1>1, LineFacts
<1>4. /\ \A u \in Types \ {t} : taskPipe'[u] = taskPipe[u]
      /\ taskPipe'[t] = Append(q, pos)
      /\ DOMAIN taskPipe'[t] = 1 .. Len(q) + 1 /\ DOMAIN q = 1 .. Len(q) /\ Len(q) \in Nat
      /\ \A k \in 1 .. Len(q) : taskPipe'[t][k] = q[k]
      /\ taskPipe'[t][Len(q) + 1] = pos
  <2>1. /\ \A u \in Types \ {t} : taskPipe'[u] = taskPipe[u]
        /\ taskPipe'[t] = Append(q, pos)
    BY <1>1, <1>3 DEF IInv, Typed
  <2> HIDE DEF q
  <2> QED
    BY <1>3, <2>1, AppendFacts
<1>5. Reading(pos) /\ ~Given(pos) /\ ~Queued(pos) /\ ~Taken(pos)
  BY <1>1 DEF Reading, LineInv, Once, Given
<1>6. \A k \in 1 .. Len(q) : q[k] \in 1 .. pos /\ q[k] # pos
  BY <1>1, <1>4, <1>5, LineFacts DEF Queued
<1> HIDE DEF t, q
<1>7. /\ \A i \in 1 .. pos : Queued(i)' <=> Queued(i) \/ i = pos
      /\ \A i \in 1 .. pos : Reading(i) <=> i = pos
      /\ \A i \in 1 .. pos : ~Reading(i)'
      /\ \A i : /\ (Executed(i)' <=> Executed(i)) /\ (Piped(i)' <=> Piped(i))
                /\ (Written(i)' <=> Written(i)) /\ (Logged(i)' <=> Logged(i))
  <2>1. \A i \in 1 .. pos : Queued(i)' <=> Queued(i) \/ i = pos
    <3> SUFFICES ASSUME NEW i \in 1 .. pos PROVE Queued(i)' <=> Queued(i) \/ i = pos
      OBVIOUS
    <3>1. input' = input /\ input[i] \in Types
      BY <1>1, LineFacts
    <3>2. CASE input[i] = t
      <4>1. Queued(i) <=> \E k \in 1 .. Len(q) : q[k] = i
        BY <1>4, <3>2 DEF Queued, q
      <4>2. Queued(i)' <=> \E k \in 1 .. Len(q) + 1 : taskPipe'[t][k] = i
        BY <1>4, <3>1, <3>2 DEF Queued
      <4>3. \A k : k \in 1 .. Len(q) + 1 <=> k \in 1 .. Len(q) \/ k = Len(q) + 1
        BY <1>4
      <4> QED
        BY <1>4, <4>1, <4>2, <4>3
    <3>3. CASE input[i] # t
      BY <1>4, <3>1, <3>3 DEF Queued, t
    <3> QED
      BY <3>2, <3>3
  <2>2. \A i : /\ (Executed(i)' <=> Executed(i)) /\ (Piped(i)' <=> Piped(i))
               /\ (Written(i)' <=> Written(i)) /\ (Logged(i)' <=> Logged(i))
    BY <1>1, <1>2 DEF Executed, Piped, Written, Logged
  <2> QED
    BY <1>1, <2>1, <2>2 DEF Reading
<1>8. /\ \A i : /\ (Received(i)' <=> Received(i)) /\ (Sent(i)' <=> Sent(i))
                /\ (Taken(i)' <=> Taken(i))
      /\ \A i \in 1 .. pos : Given(i)' <=> Given(i) \/ i = pos
  <2>1. \A i : /\ (Received(i)' <=> Received(i)) /\ (Sent(i)' <=> Sent(i))
               /\ (Taken(i)' <=> Taken(i))
    BY <1>7 DEF Received, Sent, Taken
  <2> QED
    BY <1>7, <2>1 DEF Given
<1>9. HandlersOwn'
  <2>1. \A u \in Types : \A k \in DOMAIN taskPipe'[u] : input[taskPipe'[u][k]] = u
    <3>1. \A k \in 1 .. Len(q) : input[q[k]] = t
      BY <1>3, <1>4 DEF LineInv, HandlersOwn, q
    <3>2. \A k \in 1 .. Len(q) + 1 : k \in 1 .. Len(q) \/ k = Len(q) + 1
      BY <1>4
    <3>3. \A k \in 1 .. Len(q) + 1 : input[taskPipe'[t][k]] = t
      BY <1>4, <3>1, <3>2 DEF t
    <3>4. \A u \in Types \ {t} : \A k \in DOMAIN taskPipe'[u] : input[taskPipe'[u][k]] = u
      BY <1>4 DEF LineInv, HandlersOwn
    <3> QED
      BY <1>4, <3>3, <3>4
  <2> QED
    BY <1>1, <1>2, <2>1 DEF LineInv, HandlersOwn, Tasks
<1>10. Once'
  <2>1. \A u \in Types : \A j, k \in DOMAIN taskPipe'[u] : taskPipe'[u][j] = taskPipe'[u][k] => j = k
    <3>1. \A j, k \in 1 .. Len(q) : q[j] = q[k] => j = k
      BY <1>3, <1>4 DEF LineInv, Once, q
    <3>2. \A k \in 1 .. Len(q) + 1 : k \in 1 .. Len(q) \/ k = Len(q) + 1
      BY <1>4
    <3>3. \A j, k \in 1 .. Len(q) + 1 : taskPipe'[t][j] = taskPipe'[t][k] => j = k
      BY <1>4, <1>6, <3>1, <3>2
    <3>4. \A u \in Types \ {t} : \A j, k \in DOMAIN taskPipe'[u] :
             taskPipe'[u][j] = taskPipe'[u][k] => j = k
      BY <1>4 DEF LineInv, Once
    <3> QED
      BY <1>4, <3>3, <3>4
  <2>2. PipesOpen' <=> PipesOpen
    BY <1>1 DEF PipesOpen
  <2>3. \A i \in 1 .. pos : /\ Reading(i)' => ~Given(i)'
                            /\ Queued(i)' => ~Taken(i)'
                            /\ Executed(i)' => ~Sent(i)'
                            /\ Piped(i)' => ~Received(i)'
                            /\ Written(i)' => ~Logged(i)'
    BY <1>5, <1>7, <1>8 DEF LineInv, Once
  <2>4. PipesOpen => \A i \in 1 .. pos : Reading(i)' \/ Given(i)'
    BY <1>7, <1>8 DEF LineInv, Once
  <2> QED
    BY <1>1, <1>2, <2>1, <2>2, <2>3, <2>4 DEF LineInv, Once
<1>11. InOrder'
  <2> SUFFICES ASSUME NEW i \in 1 .. pos, NEW j \in 1 .. pos, i < j, input[i] = input[j]
               PROVE  Ordered(i, j)'
    BY <1>1 DEF InOrder
  <2>1. Ordered(i, j) /\ input[j] \in Types /\ i # pos
    BY LineFacts DEF LineInv, InOrder
  <2>2. ASSUME NEW k \in DOMAIN taskPipe'[input[j]], taskPipe'[input[j]][k] = j
        PROVE  Taken(i) \/ \E l \in 1 .. k - 1 : taskPipe'[input[j]][l] = i
    <3>1. CASE input[j] # t
      BY <1>1, <1>4, <2>1, <2>2, <3>1 DEF Ordered
    <3>2. CASE input[j] = t /\ k \in 1 .. Len(q)
      <4>1. Taken(i) \/ \E l \in 1 .. k - 1 : q[l] = i
        BY <1>1, <1>4, <2>1, <2>2, <3>2 DEF Ordered, q
      <4>2. \A l \in 1 .. k - 1 : l \in 1 .. Len(q)
        BY <1>4, <3>2
      <4> QED
        BY <1>4, <3>2, <4>1, <4>2
    <3>3. CASE input[j] = t /\ k = Len(q) + 1
      <4>1. j = pos /\ Given(i)
        BY <1>1, <1>4, <1>7, <2>1, <2>2, <3>3 DEF LineInv, Once
      <4>2. CASE Queued(i)
        <5>1. PICK l \in 1 .. Len(q) : q[l] = i
          BY <1>4, <3>3, <4>2 DEF Queued, q
        <5> QED
          BY <1>4, <3>3, <5>1
      <4> QED
        BY <4>1, <4>2 DEF Given
    <3> QED
      BY <1>4, <2>2, <3>1, <3>2, <3>3
  <2> QED
    BY <1>1, <1>2, <1>7, <1>8, <2>1, <2>2 DEF Ordered, PipesOpen
<1>12. OnHeap' /\ SortedArraysIntact'
  BY <1>1, <1>2 DEF LineInv, OnHeap, SortedArraysIntact, Complete
<1> QED
  BY <1>9, <1>10, <1>11, <1>12 DEF LineInv

(* A handler takes the oldest task of its pipe, which is of its type.      *)
LEMMA TakeLine ==
  ASSUME IInv, LineInv, NEW e \in Types, TakeTask(e), \A i \in Tasks : epc'[i] = epc[i]
  PROVE  LineInv'
<1> DEFINE q == taskPipe[e]
           h == Head(q)
<1>1. /\ epc[e] = "ready" /\ q # <<>> /\ PipesOpen
      /\ taskPipe' = [taskPipe EXCEPT ![e] = Tail(q)]
      /\ UNCHANGED <<strategy, input, readerVars, cell, writerPipe, writerVars, stop>>
  BY DEF TakeTask
<1>2. UNCHANGED <<pos, rpc, msg, wpc, wmsg, log>>
  BY <1>1 DEF readerVars, writerVars
<1>3. q \in Seq(Nat) /\ pos \in Nat
  BY LineFacts
<1>4. /\ h = q[1] /\ 1 \in 1 .. Len(q) /\ Len(q) \in Nat /\ DOMAIN q = 1 .. Len(q)
      /\ \A u \in Types \ {e} : taskPipe'[u] = taskPipe[u]
      /\ taskPipe'[e] = Tail(q) /\ DOMAIN taskPipe'[e] = 1 .. Len(q) - 1
      /\ \A k \in 1 .. Len(q) - 1 : taskPipe'[e][k] = q[k + 1]
  <2>1. /\ \A u \in Types \ {e} : taskPipe'[u] = taskPipe[u]
        /\ taskPipe'[e] = Tail(q)
    BY <1>1 DEF IInv, Typed
  <2> HIDE DEF q
  <2>2. /\ h = q[1] /\ 1 \in 1 .. Len(q) /\ Len(q) \in Nat /\ DOMAIN q = 1 .. Len(q)
        /\ DOMAIN Tail(q) = 1 .. Len(q) - 1
        /\ \A k \in 1 .. Len(q) - 1 : Tail(q)[k] = q[k + 1]
    BY <1>1, <1>3, TailFacts
  <2> QED
    BY <2>1, <2>2
<1>5. /\ h \in 1 .. pos /\ input[h] = e
      /\ \A k \in 1 .. Len(q) : q[k] \in 1 .. pos /\ input[q[k]] = e /\ (q[k] = h => k = 1)
      /\ \A j, k \in 1 .. Len(q) : q[j] = q[k] => j = k
  <2>1. \A k \in 1 .. Len(q) : q[k] \in 1 .. pos /\ input[q[k]] = e
    BY <1>4, LineFacts DEF LineInv, HandlersOwn
  <2>2. \A j, k \in 1 .. Len(q) : q[j] = q[k] => j = k
    BY <1>4, LineFacts DEF LineInv, Once
  <2> QED
    BY <1>4, <2>1, <2>2
<1>6. /\ work' = [work EXCEPT ![e] = h] /\ work[e] = NONE
  BY <1>1, <1>5, LineFacts DEF TakeTask, IInv, Bounded
<1>7. Queued(h) /\ ~Taken(h)
  <2>1. Queued(h)
    BY <1>4, <1>5 DEF Queued
  <2> QED
    BY <1>5, <2>1 DEF LineInv, Once
<1>8. \A u \in Types : work'[u] = IF u = e THEN h ELSE work[u]
  BY <1>6, LineFacts DEF IInv, Typed
<1> HIDE DEF q, h
<1>9. /\ \A i \in 1 .. pos : Queued(i)' <=> Queued(i) /\ i # h
      /\ \A i \in 1 .. pos : Executed(i)' <=> Executed(i) \/ i = h
      /\ \A i \in 1 .. pos : input[i] = e => ~Executed(i)
      /\ \A i : /\ (Reading(i)' <=> Reading(i)) /\ (Piped(i)' <=> Piped(i))
                /\ (Written(i)' <=> Written(i)) /\ (Logged(i)' <=> Logged(i))
  <2>1. \A i \in 1 .. pos : Queued(i)' <=> Queued(i) /\ i # h
    <3> SUFFICES ASSUME NEW i \in 1 .. pos PROVE Queued(i)' <=> Queued(i) /\ i # h
      OBVIOUS
    <3>1. input' = input /\ input[i] \in Types
      BY <1>1, LineFacts
    <3>2. CASE input[i] = e
      <4>1. Queued(i) <=> \E k \in 1 .. Len(q) : q[k] = i
        BY <1>4, <3>2 DEF Queued, q
      <4>2. Queued(i)' <=> \E k \in 1 .. Len(q) - 1 : taskPipe'[e][k] = i
        BY <1>4, <3>1, <3>2 DEF Queued
      <4>3. ASSUME NEW k \in 1 .. Len(q), q[k] = i, i # h
            PROVE  \E l \in 1 .. Len(q) - 1 : taskPipe'[e][l] = i
        <5>1. k - 1 \in 1 .. Len(q) - 1 /\ (k - 1) + 1 = k
          BY <1>4, <4>3
        <5> QED
          BY <1>4, <4>3, <5>1
      <4>4. ASSUME NEW k \in 1 .. Len(q) - 1, taskPipe'[e][k] = i
            PROVE  i # h /\ \E l \in 1 .. Len(q) : q[l] = i
        <5>1. k + 1 \in 1 .. Len(q) /\ k + 1 # 1
          BY <1>4
        <5> QED
          BY <1>4, <1>5, <4>4, <5>1
      <4> QED
        BY <4>1, <4>2, <4>3, <4>4
    <3>3. CASE input[i] # e
      BY <1>4, <1>5, <3>1, <3>3 DEF Queued
    <3> QED
      BY <3>2, <3>3
  <2>2. \A i \in 1 .. pos : /\ Executed(i)' <=> Executed(i) \/ i = h
                            /\ input[i] = e => ~Executed(i)
    BY <1>1, <1>5, <1>6, <1>8, LineFacts DEF Executed
  <2>3. \A i : /\ (Reading(i)' <=> Reading(i)) /\ (Piped(i)' <=> Piped(i))
               /\ (Written(i)' <=> Written(i)) /\ (Logged(i)' <=> Logged(i))
    BY <1>1, <1>2 DEF Reading, Piped, Written, Logged
  <2> QED
    BY <2>1, <2>2, <2>3
<1>10. /\ \A i : /\ (Received(i)' <=> Received(i)) /\ (Sent(i)' <=> Sent(i))
       /\ \A i \in 1 .. pos : Taken(i)' <=> Taken(i) \/ i = h
       /\ \A i \in 1 .. pos : Given(i)' <=> Given(i)
  <2>1. \A i : /\ (Received(i)' <=> Received(i)) /\ (Sent(i)' <=> Sent(i))
    BY <1>9 DEF Received, Sent
  <2>2. \A i \in 1 .. pos : Taken(i)' <=> Taken(i) \/ i = h
    BY <1>9, <2>1 DEF Taken
  <2> QED
    BY <1>7, <1>9, <2>1, <2>2 DEF Given
<1>11. HandlersOwn'
  <2>1. \A k \in DOMAIN taskPipe'[e] : input[taskPipe'[e][k]] = e
    <3>1. \A k \in 1 .. Len(q) - 1 : k + 1 \in 1 .. Len(q)
      BY <1>4
    <3> QED
      BY <1>4, <1>5, <3>1
  <2>2. \A u \in Types \ {e} : \A k \in DOMAIN taskPipe'[u] : input[taskPipe'[u][k]] = u
    BY <1>4 DEF LineInv, HandlersOwn
  <2>3. \A u \in Types : work'[u] # NONE => input[work'[u]] = u
    BY <1>5, <1>8 DEF LineInv, HandlersOwn
  <2>4. \A i \in Tasks : epc'[i] = "none"
    BY DEF LineInv, HandlersOwn
  <2> QED
    BY <1>1, <2>1, <2>2, <2>3, <2>4 DEF HandlersOwn, Tasks
<1>12. Once'
  <2>1. \A u \in Types : \A j, k \in DOMAIN taskPipe'[u] : taskPipe'[u][j] = taskPipe'[u][k] => j = k
    <3>1. \A j, k \in 1 .. Len(q) - 1 : taskPipe'[e][j] = taskPipe'[e][k] => j = k
      <4>1. \A k \in 1 .. Len(q) - 1 : k + 1 \in 1 .. Len(q) /\ k \in Int
        BY <1>4
      <4>2. \A j, k \in 1 .. Len(q) - 1 : q[j + 1] = q[k + 1] => j + 1 = k + 1
        BY <1>5, <4>1
      <4> QED
        BY <1>4, <4>1, <4>2
    <3>2. \A u \in Types \ {e} : \A j, k \in DOMAIN taskPipe'[u] :
             taskPipe'[u][j] = taskPipe'[u][k] => j = k
      BY <1>4 DEF LineInv, Once
    <3> QED
      BY <1>4, <3>1, <3>2
  <2>2. PipesOpen' <=> PipesOpen
    BY <1>1 DEF PipesOpen
  <2>3. \A i \in 1 .. pos : /\ Reading(i)' => ~Given(i)'
                            /\ Queued(i)' => ~Taken(i)'
                            /\ Executed(i)' => ~Sent(i)'
                            /\ Piped(i)' => ~Received(i)'
                            /\ Written(i)' => ~Logged(i)'
    BY <1>7, <1>9, <1>10 DEF LineInv, Once, Taken
  <2>4. PipesOpen => \A i \in 1 .. pos : Reading(i)' \/ Given(i)'
    BY <1>9, <1>10 DEF LineInv, Once
  <2> QED
    BY <1>1, <1>2, <2>1, <2>2, <2>3, <2>4 DEF LineInv, Once
<1>13. InOrder'
  <2> SUFFICES ASSUME NEW i \in 1 .. pos, NEW j \in 1 .. pos, i < j, input[i] = input[j]
               PROVE  Ordered(i, j)'
    BY <1>1, <1>2 DEF InOrder
  <2>1. Ordered(i, j) /\ input[j] \in Types
    BY LineFacts DEF LineInv, InOrder
  <2>2. ASSUME NEW k \in DOMAIN taskPipe'[input[j]], taskPipe'[input[j]][k] = j
        PROVE  Taken(i)' \/ \E l \in 1 .. k - 1 : taskPipe'[input[j]][l] = i
    <3>1. CASE input[j] # e
      BY <1>1, <1>4, <1>10, <2>1, <2>2, <3>1 DEF Ordered
    <3>2. CASE input[j] = e
      <4>1. k + 1 \in 1 .. Len(q) /\ q[k + 1] = j /\ k \in 1 .. Len(q) - 1
        BY <1>4, <2>2, <3>2
      <4>2. Taken(i) \/ \E l \in 1 .. (k + 1) - 1 : q[l] = i
        BY <1>1, <1>4, <2>1, <3>2, <4>1 DEF Ordered, q
      <4>3. ASSUME NEW l \in 1 .. (k + 1) - 1, q[l] = i
            PROVE  Taken(i)' \/ \E m \in 1 .. k - 1 : taskPipe'[e][m] = i
        <5>1. CASE l = 1
          BY <1>4, <1>10, <4>3, <5>1
        <5>2. CASE l # 1
          <6>1. l - 1 \in 1 .. k - 1 /\ l - 1 \in 1 .. Len(q) - 1 /\ (l - 1) + 1 = l
            BY <1>4, <4>1, <5>2
          <6> QED
            BY <1>4, <4>3, <6>1
        <5> QED
          BY <5>1, <5>2
      <4> QED
        BY <1>10, <3>2, <4>2, <4>3
    <3> QED
      BY <3>1, <3>2
  <2>3. PipesOpen => (Executed(j)' => Sent(i)')
    <3> SUFFICES ASSUME j = h, PipesOpen PROVE Sent(i)
      BY <1>9, <1>10, <2>1 DEF Ordered
    <3>1. Taken(i) \/ \E l \in 1 .. 1 - 1 : q[l] = i
      BY <1>4, <1>5, <2>1 DEF Ordered, q
    <3>2. ~Executed(i)
      BY <1>5, <1>9
    <3> QED
      BY <3>1, <3>2 DEF Taken
  <2> QED
    BY <1>1, <1>2, <1>9, <1>10, <2>1, <2>2, <2>3 DEF Ordered, PipesOpen
<1>14. OnHeap' /\ SortedArraysIntact'
  BY <1>1, <1>2 DEF LineInv, OnHeap, SortedArraysIntact, Complete
<1> QED
  BY <1>11, <1>12, <1>13, <1>14 DEF LineInv

(* A result goes from the handler to the end of the writer's pipe.         *)
LEMMA ResultLine ==
  ASSUME IInv, LineInv, NEW e \in Types, SendResult(e), \A i \in Tasks : epc'[i] = epc[i]
  PROVE  LineInv'
<1> DEFINE w == work[e]
           r == [task |-> w, at |-> Place(e)]
           n == Len(writerPipe) + 1
<1>1. /\ epc[e] = "send" /\ PipesOpen
      /\ writerPipe' = Append(writerPipe, r)
      /\ work' = [work EXCEPT ![e] = NONE]
      /\ UNCHANGED <<strategy, input, readerVars, taskPipe, writerVars, stop>>
  BY DEF SendResult
<1>2. UNCHANGED <<pos, rpc, msg, wpc, wmsg, log>>
  BY <1>1 DEF readerVars, writerVars
<1>3. w \in 1 .. pos /\ input[w] = e /\ Executed(w) /\ w # NONE
  <2>1. w \in 0 .. pos /\ w # NONE
    BY <1>1, LineFacts DEF IInv, Typed, Bounded
  <2>2. input[w] = e
    BY <2>1 DEF LineInv, HandlersOwn
  <2> QED
    BY <2>1, <2>2, LineFacts DEF Executed
<1>4. /\ DOMAIN writerPipe = 1 .. Len(writerPipe) /\ DOMAIN writerPipe' = 1 .. n
      /\ n \in Nat /\ Len(writerPipe) \in Nat
      /\ \A k \in 1 .. Len(writerPipe) : writerPipe'[k] = writerPipe[k]
      /\ writerPipe'[n].task = w /\ writerPipe'[n].at = Place(e)
      /\ \A k : k \in 1 .. n <=> k \in 1 .. Len(writerPipe) \/ k = n
  <2>1. writerPipe \in Seq(ResultMessage) /\ r \in ResultMessage
    BY <1>3, LineFacts DEF ResultMessage, Place
  <2>2. r.task = w /\ r.at = Place(e)
    OBVIOUS
  <2> HIDE DEF r
  <2>3. /\ DOMAIN writerPipe = 1 .. Len(writerPipe) /\ DOMAIN writerPipe' = 1 .. n
        /\ Len(writerPipe) \in Nat
        /\ \A k \in 1 .. Len(writerPipe) : writerPipe'[k] = writerPipe[k]
        /\ writerPipe'[n] = r
    BY <1>1, <2>1, AppendFacts
  <2> QED
    BY <2>2, <2>3
<1>5. \A u \in Types : work'[u] = IF u = e THEN NONE ELSE work[u]
  BY <1>1, LineFacts DEF IInv, Typed
<1> HIDE DEF w, r, n
<1>6. /\ \A i \in 1 .. pos : Executed(i)' <=> Executed(i) /\ i # w
      /\ \A i \in 1 .. pos : input[i] = e /\ Executed(i) => i = w
      /\ \A i : Piped(i)' <=> Piped(i) \/ i = w
      /\ \A i : /\ (Reading(i)' <=> Reading(i)) /\ (Queued(i)' <=> Queued(i))
                /\ (Written(i)' <=> Written(i)) /\ (Logged(i)' <=> Logged(i))
  <2>1. \A i \in 1 .. pos : /\ Executed(i)' <=> Executed(i) /\ i # w
                            /\ input[i] = e /\ Executed(i) => i = w
    BY <1>1, <1>3, <1>5, LineFacts DEF Executed, w
  <2>2. \A i : Piped(i)' <=> Piped(i) \/ i = w
    BY <1>4 DEF Piped
  <2>3. \A i : /\ (Reading(i)' <=> Reading(i)) /\ (Queued(i)' <=> Queued(i))
               /\ (Written(i)' <=> Written(i)) /\ (Logged(i)' <=> Logged(i))
    BY <1>1, <1>2 DEF Reading, Queued, Written, Logged
  <2> QED
    BY <2>1, <2>2, <2>3
<1>7. /\ \A i : Received(i)' <=> Received(i)
      /\ \A i \in 1 .. pos : Sent(i)' <=> Sent(i) \/ i = w
      /\ \A i \in 1 .. pos : Taken(i)' <=> Taken(i)
      /\ \A i \in 1 .. pos : Given(i)' <=> Given(i)
  <2>1. \A i : Received(i)' <=> Received(i)
    BY <1>6 DEF Received
  <2>2. \A i \in 1 .. pos : Sent(i)' <=> Sent(i) \/ i = w
    BY <1>6, <2>1 DEF Sent
  <2>3. \A i \in 1 .. pos : Taken(i)' <=> Taken(i)
    BY <1>3, <1>6, <2>2 DEF Taken
  <2> QED
    BY <1>6, <2>1, <2>2, <2>3 DEF Given
<1>8. ~Sent(w) /\ ~Piped(w) /\ ~Received(w)
  BY <1>3 DEF LineInv, Once, Sent
<1>9. HandlersOwn'
  <2>1. \A i \in Tasks : epc'[i] = "none"
    BY DEF LineInv, HandlersOwn
  <2> QED
    BY <1>1, <1>5, <2>1 DEF LineInv, HandlersOwn, Tasks
<1>10. Once'
  <2>1. \A j, k \in 1 .. n : writerPipe'[j].task = writerPipe'[k].task => j = k
    <3>1. \A k \in 1 .. Len(writerPipe) : writerPipe[k].task # w
      BY <1>4, <1>8 DEF Piped
    <3>2. \A j, k \in 1 .. Len(writerPipe) : writerPipe[j].task = writerPipe[k].task => j = k
      BY <1>4 DEF LineInv, Once
    <3> QED
      BY <1>4, <3>1, <3>2
  <2>2. PipesOpen' <=> PipesOpen
    BY <1>1 DEF PipesOpen
  <2>3. \A i \in 1 .. pos : /\ Reading(i)' => ~Given(i)'
                            /\ Queued(i)' => ~Taken(i)'
                            /\ Executed(i)' => ~Sent(i)'
                            /\ Piped(i)' => ~Received(i)'
                            /\ Written(i)' => ~Logged(i)'
    BY <1>6, <1>7, <1>8 DEF LineInv, Once
  <2>4. PipesOpen => \A i \in 1 .. pos : Reading(i)' \/ Given(i)'
    BY <1>6, <1>7 DEF LineInv, Once
  <2> QED
    BY <1>1, <1>2, <1>4, <2>1, <2>2, <2>3, <2>4 DEF LineInv, Once
<1>11. InOrder'
  <2> SUFFICES ASSUME NEW i \in 1 .. pos, NEW j \in 1 .. pos, i < j, input[i] = input[j]
               PROVE  Ordered(i, j)'
    BY <1>1, <1>2 DEF InOrder
  <2>1. Ordered(i, j) /\ i # j
    BY LineFacts DEF LineInv, InOrder
  <2>2. ASSUME NEW k \in 1 .. n, writerPipe'[k].task = j
        PROVE  Received(i) \/ \E l \in 1 .. k - 1 : writerPipe'[l].task = i
    <3>1. CASE k \in 1 .. Len(writerPipe)
      <4>1. Received(i) \/ \E l \in 1 .. k - 1 : writerPipe[l].task = i
        BY <1>1, <1>4, <2>1, <2>2, <3>1 DEF Ordered
      <4>2. \A l \in 1 .. k - 1 : l \in 1 .. Len(writerPipe)
        BY <1>4, <3>1
      <4> QED
        BY <1>4, <4>1, <4>2
    <3>2. CASE k = n
      <4>1. j = w /\ Sent(i)
        BY <1>1, <1>3, <1>4, <2>1, <2>2, <3>2 DEF Ordered
      <4>2. CASE Piped(i)
        <5>1. PICK l \in 1 .. Len(writerPipe) : writerPipe[l].task = i
          BY <1>4, <4>2 DEF Piped
        <5>2. l \in 1 .. k - 1
          BY <1>4, <3>2, <5>1 DEF n
        <5> QED
          BY <1>4, <5>1, <5>2
      <4> QED
        BY <4>1, <4>2 DEF Sent
    <3> QED
      BY <1>4, <3>1, <3>2
  <2> QED
    BY <1>1, <1>2, <1>4, <1>6, <1>7, <2>1, <2>2 DEF Ordered, PipesOpen
<1>12. OnHeap' /\ SortedArraysIntact'
  <2>1. input[w] = BUBBLE_SORT => Place(e) = Heap
    BY DEF Place, w
  <2>2. \A k \in 1 .. n : input[writerPipe'[k].task] = BUBBLE_SORT => writerPipe'[k].at = Heap
    BY <1>4, <2>1 DEF LineInv, OnHeap
  <2> QED
    BY <1>1, <1>2, <1>4, <2>2 DEF LineInv, OnHeap, SortedArraysIntact, Complete
<1> QED
  BY <1>9, <1>10, <1>11, <1>12 DEF LineInv

(* The writer takes the oldest result of its pipe.                         *)
LEMMA ReceiveLine == ASSUME IInv, LineInv, ReadResult PROVE LineInv'
<1> DEFINE q == writerPipe
           h == Head(q).task
<1>1. /\ wpc = "read" /\ wpc' = "type" /\ q # <<>> /\ PipesOpen
      /\ wmsg' = Head(q) /\ writerPipe' = Tail(q)
      /\ UNCHANGED <<strategy, input, readerVars, executorVars, taskPipe, log, stop>>
  BY DEF ReadResult
<1>2. UNCHANGED <<pos, rpc, msg, work, epc>>
  BY <1>1 DEF readerVars, executorVars
<1>3. /\ h = q[1].task /\ Head(q) = q[1] /\ 1 \in 1 .. Len(q)
      /\ Len(q) \in Nat /\ DOMAIN q = 1 .. Len(q)
      /\ DOMAIN writerPipe' = 1 .. Len(q) - 1
      /\ \A k \in 1 .. Len(q) - 1 : writerPipe'[k] = q[k + 1]
  <2>1. q \in Seq(ResultMessage)
    BY LineFacts
  <2> HIDE DEF q
  <2>2. /\ Head(q) = q[1] /\ 1 \in 1 .. Len(q) /\ Len(q) \in Nat /\ DOMAIN q = 1 .. Len(q)
        /\ DOMAIN Tail(q) = 1 .. Len(q) - 1
        /\ \A k \in 1 .. Len(q) - 1 : Tail(q)[k] = q[k + 1]
    BY <1>1, <2>1, TailFacts
  <2> QED
    BY <1>1, <2>2
<1>4. /\ h \in 1 .. pos
      /\ \A k \in 1 .. Len(q) : q[k].task = h => k = 1
      /\ \A j, k \in 1 .. Len(q) : q[j].task = q[k].task => j = k
  BY <1>3, LineFacts DEF LineInv, Once
<1> HIDE DEF h
<1>5. /\ \A i : Piped(i)' <=> Piped(i) /\ i # h
      /\ \A i : Written(i)' <=> i = h
      /\ \A i : ~Written(i)
      /\ Piped(h)
      /\ \A i : /\ (Reading(i)' <=> Reading(i)) /\ (Queued(i)' <=> Queued(i))
                /\ (Executed(i)' <=> Executed(i)) /\ (Logged(i)' <=> Logged(i))
  <2>1. \A i : Piped(i)' <=> Piped(i) /\ i # h
    <3> TAKE i
    <3>1. Piped(i) <=> \E k \in 1 .. Len(q) : q[k].task = i
      BY <1>3 DEF Piped
    <3>2. Piped(i)' <=> \E k \in 1 .. Len(q) - 1 : writerPipe'[k].task = i
      BY <1>3 DEF Piped
    <3>3. ASSUME NEW k \in 1 .. Len(q), q[k].task = i, i # h
          PROVE  \E l \in 1 .. Len(q) - 1 : writerPipe'[l].task = i
      <4>1. k # 1
        BY <1>3, <3>3
      <4>2. k - 1 \in 1 .. Len(q) - 1 /\ (k - 1) + 1 = k
        BY <1>3, <4>1
      <4> QED
        BY <1>3, <3>3, <4>2
    <3>4. ASSUME NEW k \in 1 .. Len(q) - 1, writerPipe'[k].task = i
          PROVE  i # h /\ \E l \in 1 .. Len(q) : q[l].task = i
      <4>1. k + 1 \in 1 .. Len(q) /\ k + 1 # 1
        BY <1>3
      <4> QED
        BY <1>3, <1>4, <3>4, <4>1
    <3> QED
      BY <3>1, <3>2, <3>3, <3>4
  <2>2. (\A i : Written(i)' <=> i = h) /\ (\A i : ~Written(i))
    BY <1>1 DEF Written, h
  <2>3. Piped(h)
    BY <1>3 DEF Piped
  <2>4. \A i : /\ (Reading(i)' <=> Reading(i)) /\ (Queued(i)' <=> Queued(i))
               /\ (Executed(i)' <=> Executed(i)) /\ (Logged(i)' <=> Logged(i))
    BY <1>1, <1>2 DEF Reading, Queued, Executed, Logged
  <2> QED
    BY <2>1, <2>2, <2>3, <2>4
<1>6. /\ \A i : Received(i)' <=> Received(i) \/ i = h
      /\ \A i : /\ (Sent(i)' <=> Sent(i)) /\ (Taken(i)' <=> Taken(i))
                /\ (Given(i)' <=> Given(i))
  <2>1. \A i : Received(i)' <=> Received(i) \/ i = h
    BY <1>5 DEF Received
  <2>2. \A i : Sent(i)' <=> Sent(i)
    BY <1>5, <2>1 DEF Sent
  <2> QED
    BY <1>5, <2>1, <2>2 DEF Taken, Given
<1>7. ~Received(h)
  BY <1>4, <1>5 DEF LineInv, Once
<1>8. HandlersOwn' /\ SortedArraysIntact'
  BY <1>1, <1>2 DEF LineInv, HandlersOwn, SortedArraysIntact, Complete, Tasks
<1>9. OnHeap'
  <2>1. \A k \in 1 .. Len(q) - 1 : k + 1 \in 1 .. Len(q)
    BY <1>3
  <2>2. \A k \in 1 .. Len(q) : input[q[k].task] = BUBBLE_SORT => q[k].at = Heap
    BY <1>3 DEF LineInv, OnHeap
  <2>3. wmsg' = q[1]
    BY <1>1, <1>3
  <2>4. input' = input
    BY <1>1
  <2> HIDE DEF q
  <2> QED
    BY <1>3, <2>1, <2>2, <2>3, <2>4 DEF OnHeap
<1>10. Once'
  <2>1. \A j, k \in 1 .. Len(q) - 1 : writerPipe'[j].task = writerPipe'[k].task => j = k
    <3>1. \A k \in 1 .. Len(q) - 1 : k + 1 \in 1 .. Len(q) /\ k \in Int
      BY <1>3
    <3>2. \A j, k \in 1 .. Len(q) - 1 : q[j + 1].task = q[k + 1].task => j + 1 = k + 1
      BY <1>4, <3>1
    <3> QED
      BY <1>3, <3>1, <3>2
  <2>2. PipesOpen' <=> PipesOpen
    BY <1>1 DEF PipesOpen
  <2>3. \A i \in 1 .. pos : /\ Reading(i)' => ~Given(i)'
                            /\ Queued(i)' => ~Taken(i)'
                            /\ Executed(i)' => ~Sent(i)'
                            /\ Piped(i)' => ~Received(i)'
                            /\ Written(i)' => ~Logged(i)'
    BY <1>5, <1>6, <1>7 DEF LineInv, Once, Received
  <2>4. PipesOpen => \A i \in 1 .. pos : Reading(i)' \/ Given(i)'
    BY <1>5, <1>6 DEF LineInv, Once
  <2> QED
    BY <1>1, <1>2, <1>3, <2>1, <2>2, <2>3, <2>4 DEF LineInv, Once
<1>11. InOrder'
  <2> SUFFICES ASSUME NEW i \in 1 .. pos, NEW j \in 1 .. pos, i < j, input[i] = input[j]
               PROVE  Ordered(i, j)'
    BY <1>1, <1>2 DEF InOrder
  <2>1. Ordered(i, j)
    BY DEF LineInv, InOrder
  <2>2. \A k \in 1 .. Len(q) :
          q[k].task = j => Received(i) \/ \E l \in 1 .. k - 1 : q[l].task = i
    BY <1>1, <1>3, <2>1 DEF Ordered
  <2>3. ASSUME NEW k \in 1 .. Len(q) - 1, writerPipe'[k].task = j
        PROVE  Received(i)' \/ \E l \in 1 .. k - 1 : writerPipe'[l].task = i
    <3>1. k + 1 \in 1 .. Len(q) /\ q[k + 1].task = j
      BY <1>3, <2>3
    <3>2. Received(i) \/ \E l \in 1 .. (k + 1) - 1 : q[l].task = i
      BY <2>2, <3>1
    <3>3. ASSUME NEW l \in 1 .. (k + 1) - 1, q[l].task = i
          PROVE  Received(i)' \/ \E m \in 1 .. k - 1 : writerPipe'[m].task = i
      <4>1. CASE l = 1
        BY <1>3, <1>6, <3>3, <4>1
      <4>2. CASE l # 1
        <5>1. l - 1 \in 1 .. k - 1 /\ l - 1 \in 1 .. Len(q) - 1 /\ (l - 1) + 1 = l
          BY <1>3, <3>1, <4>2
        <5> QED
          BY <1>3, <3>3, <5>1
      <4> QED
        BY <4>1, <4>2
    <3> QED
      BY <1>6, <3>2, <3>3
  <2>4. Written(j)' => Logged(i)'
    <3> SUFFICES ASSUME j = h PROVE Logged(i)
      BY <1>5
    <3>1. Received(i) \/ \E l \in 1 .. 1 - 1 : q[l].task = i
      BY <1>3, <2>2
    <3> QED
      BY <1>5, <3>1 DEF Received
  <2> QED
    BY <1>1, <1>2, <1>3, <1>5, <1>6, <2>1, <2>3, <2>4 DEF Ordered, PipesOpen
<1> QED
  BY <1>8, <1>9, <1>10, <1>11 DEF LineInv

(* The writer appends the task it has received to the log.                 *)
LEMMA TypeLine == ASSUME IInv, LineInv, WriteType PROVE LineInv'
<1> DEFINE w == wmsg.task
           n == Len(log) + 1
<1>1. /\ wpc = "type" /\ wpc' = "size"
      /\ log' = Append(log, [task |-> w, pieces |-> 1, value |-> NONE])
      /\ UNCHANGED <<strategy, input, readerVars, executorVars, pipes, wmsg, stop>>
  BY DEF WriteType
<1>2. UNCHANGED <<pos, rpc, msg, work, epc, taskPipe, writerPipe>>
  BY <1>1 DEF readerVars, executorVars, pipes
<1>3. /\ DOMAIN log = 1 .. Len(log) /\ DOMAIN log' = 1 .. n /\ Len(log') = n
      /\ n \in Nat /\ Len(log) \in Nat
      /\ \A k \in 1 .. Len(log) : log'[k] = log[k]
      /\ log'[n].task = w /\ log'[n].pieces = 1
      /\ \A k : k \in 1 .. n <=> k \in 1 .. Len(log) \/ k = n
  <2> DEFINE S == LogRecord
             r == [task |-> w, pieces |-> 1, value |-> NONE]
  <2>1. log \in Seq(S) /\ r \in S /\ r.task = w /\ r.pieces = 1
    BY <1>1, LineFacts DEF IInv, Typed, LogRecord
  <2>2. log' = Append(log, r)
    BY <1>1
  <2> HIDE DEF S, r
  <2>3. /\ DOMAIN log = 1 .. Len(log) /\ DOMAIN log' = 1 .. n /\ Len(log') = n
        /\ Len(log) \in Nat
        /\ \A k \in 1 .. Len(log) : log'[k] = log[k]
        /\ log'[n] = r
    BY <2>1, <2>2, AppendFacts
  <2> QED
    BY <2>1, <2>3
<1>4. w \in 1 .. pos /\ Written(w) /\ ~Logged(w)
  BY <1>1, LineFacts DEF Written, LineInv, Once
<1> HIDE DEF w, n
<1>5. /\ \A i : Logged(i)' <=> Logged(i) \/ i = w
      /\ \A i : Written(i) <=> i = w
      /\ \A i : ~Written(i)'
      /\ \A i : /\ (Reading(i)' <=> Reading(i)) /\ (Queued(i)' <=> Queued(i))
                /\ (Executed(i)' <=> Executed(i)) /\ (Piped(i)' <=> Piped(i))
  <2>1. \A i : Logged(i)' <=> Logged(i) \/ i = w
    BY <1>3 DEF Logged
  <2>2. (\A i : Written(i) <=> i = w) /\ (\A i : ~Written(i)')
    BY <1>1 DEF Written, w
  <2>3. \A i : /\ (Reading(i)' <=> Reading(i)) /\ (Queued(i)' <=> Queued(i))
               /\ (Executed(i)' <=> Executed(i)) /\ (Piped(i)' <=> Piped(i))
    BY <1>1, <1>2 DEF Reading, Queued, Executed, Piped
  <2> QED
    BY <2>1, <2>2, <2>3
<1>6. \A i : /\ (Received(i)' <=> Received(i)) /\ (Sent(i)' <=> Sent(i))
             /\ (Taken(i)' <=> Taken(i)) /\ (Given(i)' <=> Given(i))
  <2>1. \A i : Received(i)' <=> Received(i)
    BY <1>5 DEF Received
  <2>2. \A i : Sent(i)' <=> Sent(i)
    BY <1>5, <2>1 DEF Sent
  <2> QED
    BY <1>5, <2>1, <2>2 DEF Taken, Given
<1>7. HandlersOwn' /\ OnHeap'
  BY <1>1, <1>2 DEF LineInv, HandlersOwn, OnHeap, Tasks
<1>8. SortedArraysIntact'
  <2>1. \A k \in 1 .. n : k # n => /\ k \in 1 .. Len(log)
                                   /\ log'[k] = log[k]
    BY <1>3
  <2>2. \A k \in 1 .. n : k = n => ~Complete(k)'
    BY <1>3 DEF Complete
  <2> QED
    BY <1>1, <1>3, <2>1, <2>2 DEF LineInv, SortedArraysIntact, Complete
<1>9. Once'
  <2>1. \A j, k \in 1 .. n : log'[j].task = log'[k].task => j = k
    <3>1. \A k \in 1 .. Len(log) : log[k].task # w
      BY <1>3, <1>4 DEF Logged
    <3>2. \A j, k \in 1 .. Len(log) : log[j].task = log[k].task => j = k
      BY <1>3 DEF LineInv, Once
    <3> QED
      BY <1>3, <3>1, <3>2
  <2>2. PipesOpen' <=> PipesOpen
    BY <1>1 DEF PipesOpen
  <2>3. \A i \in 1 .. pos : /\ Reading(i)' => ~Given(i)'
                            /\ Queued(i)' => ~Taken(i)'
                            /\ Executed(i)' => ~Sent(i)'
                            /\ Piped(i)' => ~Received(i)'
                            /\ Written(i)' => ~Logged(i)'
    BY <1>5, <1>6 DEF LineInv, Once
  <2>4. PipesOpen => \A i \in 1 .. pos : Reading(i)' \/ Given(i)'
    BY <1>5, <1>6 DEF LineInv, Once
  <2> QED
    BY <1>1, <1>2, <1>3, <2>1, <2>2, <2>3, <2>4 DEF LineInv, Once
<1>10. InOrder'
  <2> SUFFICES ASSUME NEW i \in 1 .. pos, NEW j \in 1 .. pos, i < j, input[i] = input[j]
               PROVE  Ordered(i, j)'
    BY <1>1, <1>2 DEF InOrder
  <2>1. Ordered(i, j)
    BY DEF LineInv, InOrder
  <2>2. ASSUME NEW k \in 1 .. n, log'[k].task = j
        PROVE  \E l \in 1 .. k - 1 : log'[l].task = i
    <3>1. CASE k \in 1 .. Len(log)
      <4>1. \E l \in 1 .. k - 1 : log[l].task = i
        BY <1>3, <2>1, <2>2, <3>1 DEF Ordered
      <4>2. \A l \in 1 .. k - 1 : l \in 1 .. Len(log)
        BY <1>3, <3>1
      <4> QED
        BY <1>3, <4>1, <4>2
    <3>2. CASE k = n
      <4>1. Logged(i)
        BY <1>3, <1>4, <2>1, <2>2, <3>2 DEF Ordered
      <4>2. PICK l \in 1 .. Len(log) : log[l].task = i
        BY <1>3, <4>1 DEF Logged
      <4>3. l \in 1 .. k - 1
        BY <1>3, <3>2, <4>2 DEF n
      <4> QED
        BY <1>3, <4>2, <4>3
    <3> QED
      BY <1>3, <3>1, <3>2
  <2> QED
    BY <1>1, <1>2, <1>3, <1>5, <1>6, <2>1, <2>2 DEF Ordered, PipesOpen
<1> QED
  BY <1>7, <1>8, <1>9, <1>10 DEF LineInv

(* What is at most once in a queue is counted zero times or once.          *)
LEMMA CountOnce ==
  ASSUME NEW f, NEW i, \A j, k \in DOMAIN f : f[j] = i /\ f[k] = i => j = k
  PROVE  /\ (\E k \in DOMAIN f : f[k] = i) => Count(f, i) = 1
         /\ (\A k \in DOMAIN f : f[k] # i) => Count(f, i) = 0
<1> DEFINE At == {k \in DOMAIN f : f[k] = i}
<1>1. ASSUME NEW k \in DOMAIN f, f[k] = i PROVE Count(f, i) = 1
  <2>1. At = {k}
    BY <1>1
  <2> QED
    BY <2>1, FS_Singleton DEF Count
<1>2. ASSUME \A k \in DOMAIN f : f[k] # i PROVE Count(f, i) = 0
  <2>1. At = {}
    BY <1>2
  <2> QED
    BY <2>1, FS_EmptySet DEF Count
<1> QED
  BY <1>1, <1>2

(* How often a task is counted with the executors, in the writer's pipe    *)
(* and in the log.                                                         *)
LEMMA TailCounts ==
  ASSUME IInv, LineInv, NEW i \in 1 .. pos
  PROVE  /\ Count(work, i) = IF Executed(i) THEN 1 ELSE 0
         /\ Count(PipedTasks, i) = IF Piped(i) THEN 1 ELSE 0
         /\ Count(LoggedTasks, i) = IF Logged(i) THEN 1 ELSE 0
<1>1. Count(work, i) = IF Executed(i) THEN 1 ELSE 0
  <2>1. DOMAIN work = Types \cup Tasks /\ i # NONE /\ input[i] \in Types
    BY LineFacts DEF IInv, Typed, Executors
  <2>2. \A e \in Tasks : work[e] = NONE
    BY LineFacts DEF IInv, Bounded, LineInv, HandlersOwn
  <2>3. \A e \in DOMAIN work : work[e] = i => e = input[i]
    BY <2>1, <2>2 DEF LineInv, HandlersOwn
  <2>4. Executed(i) <=> \E e \in DOMAIN work : work[e] = i
    BY <2>1, <2>3 DEF Executed
  <2>5. \A j, k \in DOMAIN work : work[j] = i /\ work[k] = i => j = k
    BY <2>3
  <2> QED
    BY <2>4, <2>5, CountOnce
<1>2. Count(PipedTasks, i) = IF Piped(i) THEN 1 ELSE 0
  <2>1. /\ DOMAIN PipedTasks = DOMAIN writerPipe
        /\ \A k \in DOMAIN writerPipe : PipedTasks[k] = writerPipe[k].task
    BY DEF PipedTasks
  <2>2. Piped(i) <=> \E k \in DOMAIN PipedTasks : PipedTasks[k] = i
    BY <2>1 DEF Piped
  <2>3. \A j, k \in DOMAIN PipedTasks : PipedTasks[j] = i /\ PipedTasks[k] = i => j = k
    BY <2>1 DEF LineInv, Once
  <2> QED
    BY <2>2, <2>3, CountOnce
<1>3. Count(LoggedTasks, i) = IF Logged(i) THEN 1 ELSE 0
  <2>1. /\ DOMAIN LoggedTasks = DOMAIN log
        /\ \A k \in DOMAIN log : LoggedTasks[k] = log[k].task
    BY DEF LoggedTasks
  <2>2. Logged(i) <=> \E k \in DOMAIN LoggedTasks : LoggedTasks[k] = i
    BY <2>1 DEF Logged
  <2>3. \A j, k \in DOMAIN LoggedTasks : LoggedTasks[j] = i /\ LoggedTasks[k] = i => j = k
    BY <2>1 DEF LineInv, Once
  <2> QED
    BY <2>2, <2>3, CountOnce
<1> QED
  BY <1>1, <1>2, <1>3

(* The array whose address the writer holds is sorted by nobody else.      *)
LEMMA NotSortedByTwo ==
  ASSUME IInv, LineInv, wpc = "data"
  PROVE  ~SortedByTwo(wmsg.task)
<1>1. wmsg.task \in 1 .. pos /\ Logged(wmsg.task)
  <2>1. log # <<>> /\ log[Len(log)].task = wmsg.task
    BY DEF IInv, Bounded
  <2>2. Len(log) \in DOMAIN log
    <3>1. log \in Seq(LogRecord)
      BY DEF IInv, Typed
    <3> QED
      BY <2>1, <3>1
  <2> QED
    BY <2>1, <2>2, LineFacts DEF Logged
<1>2. ~Executed(wmsg.task) /\ ~Piped(wmsg.task)
  BY <1>1 DEF LineInv, Once, Sent, Received
<1> QED
  BY <1>1, <1>2, TailCounts DEF SortedByTwo

(* The writer adds the size and the data to the record.                    *)
LEMMA DataLine ==
  ASSUME IInv, IInv', LineInv, strategy = PER_TASK, WriteSize \/ WriteData
  PROVE  LineInv'
<1>1. /\ wpc \in {"size", "data"} /\ wpc' # "type"
      /\ wpc' = "read" \/ wmsg' = wmsg
      /\ UNCHANGED <<strategy, input, readerVars, executorVars, pipes, stop>>
      /\ WriteData => wpc = "data"
  BY DEF WriteSize, WriteData
<1>2. UNCHANGED <<pos, rpc, msg, work, epc, taskPipe, writerPipe>>
  BY <1>1 DEF readerVars, executorVars, pipes
<1>3. PICK r \in LogRecord :
        /\ r.task = wmsg.task /\ log[Len(log)].task = wmsg.task
        /\ WriteSize => r.pieces = 2
        /\ WriteData /\ wmsg.at = Heap /\ ~SortedByTwo(wmsg.task) => r.value = wmsg.task
        /\ Len(log') = Len(log) /\ DOMAIN log' = DOMAIN log /\ Len(log) \in DOMAIN log
        /\ \A k \in DOMAIN log : log'[k] = IF k = Len(log) THEN r ELSE log[k]
  BY RecordStep
<1>4. /\ DOMAIN log' = DOMAIN log /\ Len(log') = Len(log)
      /\ \A k \in DOMAIN log : log'[k].task = log[k].task
  BY <1>3
<1>5. /\ \A i : /\ (Reading(i)' <=> Reading(i)) /\ (Queued(i)' <=> Queued(i))
                /\ (Executed(i)' <=> Executed(i)) /\ (Piped(i)' <=> Piped(i))
                /\ (Written(i)' <=> Written(i)) /\ (Logged(i)' <=> Logged(i))
  BY <1>1, <1>2, <1>4 DEF Reading, Queued, Executed, Piped, Written, Logged
<1>6. \A i : /\ (Received(i)' <=> Received(i)) /\ (Sent(i)' <=> Sent(i))
             /\ (Taken(i)' <=> Taken(i)) /\ (Given(i)' <=> Given(i))
  BY <1>5 DEF Received, Sent, Taken, Given
<1>7. HandlersOwn' /\ OnHeap'
  BY <1>1, <1>2 DEF LineInv, HandlersOwn, OnHeap, Tasks
<1>8. SortedArraysIntact'
  <2> SUFFICES ASSUME NEW k \in DOMAIN log, input[log[k].task] = BUBBLE_SORT, Complete(k)'
               PROVE  log'[k].value = log'[k].task
    BY <1>1, <1>4 DEF SortedArraysIntact
  <2>1. CASE k # Len(log)
    BY <1>3, <2>1 DEF LineInv, SortedArraysIntact, Complete
  <2>2. CASE k = Len(log)
    <3>1. WriteData
      BY <1>3, <2>2 DEF Complete
    <3>2. wmsg.at = Heap /\ ~SortedByTwo(wmsg.task)
      BY <1>1, <1>3, <2>2, <3>1, NotSortedByTwo DEF LineInv, OnHeap
    <3> QED
      BY <1>3, <2>2, <3>1, <3>2
  <2> QED
    BY <2>1, <2>2
<1>9. Once'
  <2>1. PipesOpen' <=> PipesOpen
    BY <1>1 DEF PipesOpen
  <2> QED
    BY <1>1, <1>2, <1>4, <1>5, <1>6, <2>1 DEF LineInv, Once
<1>10. InOrder'
  <2> SUFFICES ASSUME NEW i \in 1 .. pos, NEW j \in 1 .. pos, i < j, input[i] = input[j]
               PROVE  Ordered(i, j)'
    BY <1>1, <1>2 DEF InOrder
  <2>1. Ordered(i, j)
    BY DEF LineInv, InOrder
  <2>2. ASSUME NEW k \in DOMAIN log', log'[k].task = j
        PROVE  \E l \in 1 .. k - 1 : log'[l].task = i
    <3>1. \E l \in 1 .. k - 1 : log[l].task = i
      BY <1>4, <2>1, <2>2 DEF Ordered
    <3>2. \A l \in 1 .. k - 1 : l \in DOMAIN log
      BY <1>4, LineFacts
    <3> QED
      BY <1>4, <3>1, <3>2
  <2> QED
    BY <1>1, <1>2, <1>5, <1>6, <2>1, <2>2 DEF Ordered, PipesOpen
<1> QED
  BY <1>7, <1>8, <1>9, <1>10 DEF LineInv

(* Closing the pipes loses what is in them, and nothing else.              *)
LEMMA CloseLine == ASSUME IInv, LineInv, ClosePipes PROVE LineInv'
<1>1. /\ UNCHANGED <<strategy, input, readerVars, executorVars, writerVars>>
      /\ \A t \in Types : taskPipe'[t] = <<>>
      /\ writerPipe' = <<>> /\ ~PipesOpen'
  BY DEF ClosePipes, PipesOpen
<1>2. UNCHANGED <<pos, rpc, msg, work, epc, wpc, wmsg, log>>
  BY <1>1 DEF readerVars, executorVars, writerVars
<1>3. /\ \A i \in 1 .. pos : ~Queued(i)' /\ ~Piped(i)'
      /\ \A i : /\ (Reading(i)' <=> Reading(i)) /\ (Executed(i)' <=> Executed(i))
                /\ (Written(i)' <=> Written(i)) /\ (Logged(i)' <=> Logged(i))
  <2>1. \A i \in 1 .. pos : ~Queued(i)' /\ ~Piped(i)'
    BY <1>1, <1>2, LineFacts DEF Queued, Piped
  <2> QED
    BY <1>1, <1>2, <2>1 DEF Reading, Executed, Written, Logged
<1>4. /\ \A i : Received(i)' <=> Received(i)
      /\ \A i \in 1 .. pos : (Sent(i)' => Sent(i)) /\ (Given(i)' => Given(i))
  BY <1>3 DEF Received, Sent, Taken, Given
<1>5. HandlersOwn' /\ OnHeap' /\ SortedArraysIntact'
  BY <1>1, <1>2 DEF LineInv, HandlersOwn, OnHeap, SortedArraysIntact, Complete, Tasks
<1>6. Once'
  BY <1>1, <1>2, <1>3, <1>4 DEF LineInv, Once
<1>7. InOrder'
  BY <1>1, <1>2, <1>3 DEF LineInv, InOrder, Ordered
<1> QED
  BY <1>5, <1>6, <1>7 DEF LineInv

(* Every step keeps the order of the line.                                 *)
LEMMA LineStep == ASSUME FullInv, IInv', [Next]_vars, strategy = PER_TASK PROVE LineInv'
<1>1. IInv /\ LineInv
  BY DEF FullInv
<1>2. ASSUME UNCHANGED <<strategy, input, pos, work, taskPipe, writerPipe, writerVars>>,
             \A i \in 1 .. pos : Reading(i)' <=> Reading(i),
             PipesOpen' => PipesOpen, \A e \in Tasks : epc'[e] = epc[e]
      PROVE  LineInv'
  BY <1>1, <1>2, NothingMoves DEF writerVars
<1>3. CASE Reader
  <2>1. CASE StoreTask \/ ReadEnd
    BY <1>2, <2>1 DEF StoreTask, ReadEnd, executorVars, pipes, Reading, PipesOpen
  <2>2. ~CreateThread /\ ~DropTask
    BY DistinctNames DEF CreateThread, DropTask
  <2> QED
    BY <1>1, <1>3, <2>1, <2>2, ReadLine, SendLine DEF Reader
<1>4. ASSUME NEW e \in Executors, Executor(e) PROVE LineInv'
  <2>1. /\ e \in Types /\ (TakeTask(e) \/ Compute(e) \/ SendResult(e))
        /\ \A i \in Tasks : epc'[i] = epc[i]
    BY <1>1, <1>4, OnlyHandlers
  <2>2. CASE Compute(e)
    BY <1>2, <2>1, <2>2 DEF Compute, readerVars, pipes, Reading, PipesOpen
  <2> QED
    BY <1>1, <2>1, <2>2, TakeLine, ResultLine
<1>5. CASE Writer
  BY <1>1, <1>5, ReceiveLine, TypeLine, DataLine DEF Writer
<1>6. CASE Cancel \/ Exit \/ UNCHANGED vars
  BY <1>2, <1>6 DEF Cancel, Exit, vars, readerVars, executorVars, pipes, Reading, PipesOpen
<1>7. CASE ClosePipes
  BY <1>1, <1>7, CloseLine
<1> QED
  BY <1>3, <1>4, <1>5, <1>6, <1>7 DEF Next

(* The invariant holds in every state.                                     *)
THEOREM Invariance == Spec => []FullInv
<1>1. FullInv /\ [Next]_vars => FullInv'
  <2> SUFFICES ASSUME FullInv, [Next]_vars PROVE FullInv'
    OBVIOUS
  <2>1. IInv'
    BY TypeStep DEF FullInv
  <2>2. strategy' = strategy
    BY DEF Next, Reader, ReadTask, StoreTask, ReadEnd, CreateThread, SendToHandler, DropTask,
           Executor, StartThread, TakeTask, Compute, SendResult, Writer, ReadResult,
           WriteType, WriteSize, WriteData, Cancel, ClosePipes, Exit, vars
  <2> QED
    BY <2>1, <2>2, LineStep DEF FullInv
<1> QED
  BY <1>1, InitInv, PTL DEF Spec

(* Every variable keeps to its values, for any input and any strategies.   *)
THEOREM TypeCorrect == Spec => []TypeOK
<1>1. FullInv => TypeOK
  <2> SUFFICES ASSUME FullInv PROVE TypeOK
    OBVIOUS
  <2>1. IInv
    BY DEF FullInv
  <2>2. input \in Seq(Types) /\ pos \in Nat /\ 1 .. pos \subseteq Tasks
    <3>1. input \in Seq(Types) /\ pos \in 0 .. Len(input)
      BY <2>1, PipelineAssumption DEF IInv, Typed
    <3> QED
      BY <3>1 DEF Tasks
  <2>3. cell \in [Executors -> Tasks \cup {Junk}]
    BY <2>1, <2>2 DEF IInv, Typed
  <2>4. \A t \in Types : Len(taskPipe[t]) <= PipeCap /\ Range(taskPipe[t]) \subseteq 1 .. pos
    BY <2>1 DEF IInv, Bounded, Range
  <2>5. \A k \in DOMAIN log : log[k].pieces \in 1 .. 3
    <3>1. log \in Seq(LogRecord)
      BY <2>1 DEF IInv, Typed
    <3>2. \A k \in DOMAIN log : log[k] \in LogRecord
      BY <3>1
    <3> QED
      BY <3>2 DEF LogRecord
  <2>6. \A r \in Range(writerPipe) : r.task \in 1 .. pos /\ r.at \in Executors \cup {Heap}
    <3>1. writerPipe \in Seq(ResultMessage)
      BY <2>1 DEF IInv, Typed
    <3>2. \A k \in DOMAIN writerPipe : writerPipe[k] \in ResultMessage
      BY <3>1
    <3>3. \A k \in DOMAIN writerPipe : writerPipe[k].at \in Executors \cup {Heap}
      BY <3>2 DEF ResultMessage
    <3> QED
      BY <2>1, <3>3 DEF IInv, Bounded, Range
  <2> QED
    BY <2>1, <2>3, <2>4, <2>5, <2>6 DEF IInv, Typed, Bounded, TypeOK
<1> QED
  BY <1>1, Invariance, PTL

(* Nothing is lost or done twice on the way from the input to the log.     *)
THEOREM ConservationCorrect == Spec => []TaskConserved
<1>1. FullInv => TaskConserved
  <2> SUFFICES ASSUME FullInv, strategy = PER_TASK, stop = "no", NEW i \in 1 .. pos
               PROVE  Places(i) = 1
    BY DEF TaskConserved
  <2>1. IInv /\ LineInv /\ PipesOpen
    BY DEF FullInv, PipesOpen
  <2>2. /\ Count(work, i) = IF Executed(i) THEN 1 ELSE 0
        /\ Count(PipedTasks, i) = IF Piped(i) THEN 1 ELSE 0
        /\ Count(LoggedTasks, i) = IF Logged(i) THEN 1 ELSE 0
    BY <2>1, TailCounts
  <2>3. \A t \in Types : Count(taskPipe[t], i) = IF Queued(i) /\ t = input[i] THEN 1 ELSE 0
    <3> SUFFICES ASSUME NEW t \in Types
                 PROVE  Count(taskPipe[t], i) = IF Queued(i) /\ t = input[i] THEN 1 ELSE 0
      OBVIOUS
    <3>1. \A j, k \in DOMAIN taskPipe[t] :
             taskPipe[t][j] = i /\ taskPipe[t][k] = i => j = k
      BY <2>1 DEF LineInv, Once
    <3>2. (Queued(i) /\ t = input[i]) <=> \E k \in DOMAIN taskPipe[t] : taskPipe[t][k] = i
      BY <2>1 DEF LineInv, HandlersOwn, Queued
    <3> QED
      BY <3>1, <3>2, CountOnce
  <2>4. Count(taskPipe[FIBONACCI], i) + Count(taskPipe[POW], i)
          + Count(taskPipe[BUBBLE_SORT], i) = IF Queued(i) THEN 1 ELSE 0
    <3>1. input[i] \in {FIBONACCI, POW, BUBBLE_SORT}
      BY <2>1, LineFacts DEF Types
    <3>2. {FIBONACCI, POW, BUBBLE_SORT} \subseteq Types
      BY DEF Types
    <3> QED
      BY <2>3, <3>1, <3>2, DistinctNames
  <2>5. /\ Reading(i) => ~Queued(i) /\ ~Executed(i) /\ ~Piped(i) /\ ~Written(i) /\ ~Logged(i)
        /\ Queued(i) => ~Executed(i) /\ ~Piped(i) /\ ~Written(i) /\ ~Logged(i)
        /\ Executed(i) => ~Piped(i) /\ ~Written(i) /\ ~Logged(i)
        /\ Piped(i) => ~Written(i) /\ ~Logged(i)
        /\ Written(i) => ~Logged(i)
        /\ Reading(i) \/ Queued(i) \/ Executed(i) \/ Piped(i) \/ Written(i) \/ Logged(i)
    BY <2>1 DEF LineInv, Once, Given, Taken, Sent, Received
  <2> DEFINE reading == IF Reading(i) THEN 1 ELSE 0
             written == IF Written(i) THEN 1 ELSE 0
             fib == Count(taskPipe[FIBONACCI], i)
             pow == Count(taskPipe[POW], i)
             bubble == Count(taskPipe[BUBBLE_SORT], i)
             executed == Count(work, i)
             piped == Count(PipedTasks, i)
             logged == Count(LoggedTasks, i)
  <2>6. Places(i) = reading + fib + pow + bubble + executed + piped + written + logged
    BY DEF Places, Reading, Written
  <2>7. fib \in Nat /\ pow \in Nat /\ bubble \in Nat
    BY <2>3 DEF Types
  <2>8. /\ reading = (IF Reading(i) THEN 1 ELSE 0) /\ written = (IF Written(i) THEN 1 ELSE 0)
        /\ fib + pow + bubble = (IF Queued(i) THEN 1 ELSE 0)
        /\ executed = (IF Executed(i) THEN 1 ELSE 0) /\ piped = (IF Piped(i) THEN 1 ELSE 0)
        /\ logged = (IF Logged(i) THEN 1 ELSE 0)
    BY <2>2, <2>4
  <2> HIDE DEF reading, written, fib, pow, bubble, executed, piped, logged
  <2>9. reading + fib + pow + bubble + executed + piped + written + logged = 1
    BY <2>5, <2>7, <2>8
  <2> QED
    BY <2>6, <2>9
<1> QED
  BY <1>1, Invariance, PTL

(* The log has the results of each type in the order of the input, and no  *)
(* incomplete record but the last.                                         *)
THEOREM OrderCorrect == Spec => []LoggedInOrder
<1>1. FullInv => LoggedInOrder
  <2>0. FullInv => \A k \in DOMAIN log : Complete(k) \/ k = Len(log)
    BY DEF FullInv, IInv, Bounded, Complete
  <2> SUFFICES ASSUME FullInv, strategy = PER_TASK, NEW k \in DOMAIN log, NEW i \in 1 .. pos,
                      input[i] = input[log[k].task]
               PROVE  i < log[k].task <=> \E j \in 1 .. k - 1 : log[j].task = i
    BY <2>0 DEF LoggedInOrder
  <2>1. IInv /\ LineInv
    BY DEF FullInv
  <2>2. /\ log[k].task \in 1 .. pos /\ pos \in Nat /\ Len(log) \in Nat
        /\ DOMAIN log = 1 .. Len(log)
    BY <2>1, LineFacts
  <2>3. ASSUME i < log[k].task PROVE \E j \in 1 .. k - 1 : log[j].task = i
    BY <2>1, <2>2, <2>3 DEF LineInv, InOrder, Ordered
  <2>4. ASSUME NEW j \in 1 .. k - 1, log[j].task = i, ~(i < log[k].task) PROVE FALSE
    <3>1. j \in DOMAIN log /\ j # k /\ j < k
      BY <2>2
    <3>2. i # log[k].task
      BY <2>1, <2>4, <3>1 DEF LineInv, Once
    <3>3. log[k].task < i
      BY <2>2, <2>4, <3>2
    <3>4. PICK l \in 1 .. j - 1 : log[l].task = log[k].task
      BY <2>1, <2>2, <2>4, <3>1, <3>3 DEF LineInv, InOrder, Ordered
    <3>5. l \in DOMAIN log /\ l # k
      BY <2>2, <3>1
    <3> QED
      BY <2>1, <3>4, <3>5 DEF LineInv, Once
  <2> QED
    BY <2>3, <2>4
<1> QED
  BY <1>1, Invariance, PTL

(* A sorted array in the log is the one of its own task.                   *)
THEOREM SortsCorrect == Spec => []SortedArraysIntact
<1>1. FullInv => SortedArraysIntact
  BY DEF FullInv, LineInv, SortedArraysIntact, Complete
<1> QED
  BY <1>1, Invariance, PTL
=============================================================================
