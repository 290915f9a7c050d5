\* A thread for each type of task.
SPECIFICATION Spec
CONSTANTS
  FIBONACCI = FIBONACCI
  POW = POW
  BUBBLE_SORT = BUBBLE_SORT
  PER_THREAD = PER_THREAD
  PER_TASK = PER_TASK
  THREAD_POOL = THREAD_POOL
  Junk = Junk
  Heap = Heap
  PipeCap = 1
  Strategies <- PerTaskOnly
  Inputs <- ShortInputs
  Signals = FALSE
INVARIANTS ResultsAreOwn
CHECK_DEADLOCK FALSE
