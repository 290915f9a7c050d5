--------------------------- MODULE MCTaskPipeline ---------------------------
(* Instances of TaskPipeline for TLC.                                      *)
EXTENDS TaskPipeline

AllStrategies == {PER_THREAD, PER_TASK, THREAD_POOL}
PerThreadOnly == {PER_THREAD}
PerTaskOnly == {PER_TASK}

\* Three tasks of one type, more than the pipe of a handler and the handler
\* hold at once, and types that overtake each other.
ShortInputs == {<<FIBONACCI, FIBONACCI, FIBONACCI>>, <<BUBBLE_SORT, POW, BUBBLE_SORT>>}
=============================================================================
