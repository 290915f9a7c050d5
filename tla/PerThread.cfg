\* A new thread for each task.
SPECIFICATION Spec
CONSTANTS
  FIBONACCI = FIBONACCI
  POW = POW
  BUBBLE_SORT = BUBBLE_SORT
  PER_THREAD = PER_THREAD
  PER_TASK = PER_TASK
  THREAD_POOL = THREAD_POOL
  Junk = Junk
  Heap = Heap
  PipeCap = 1
  Strategies <- PerThreadOnly
  Inputs <- ShortInputs
  Signals = FALSE
INVARIANTS EachTaskLoggedOnce
CHECK_DEADLOCK FALSE
