\* All strategies, with signals; pipes that hold one message fill up often.
SPECIFICATION FairSpec
CONSTANTS
  FIBONACCI = FIBONACCI
  POW = POW
  BUBBLE_SORT = BUBBLE_SORT
  PER_THREAD = PER_THREAD
  PER_TASK = PER_TASK
  THREAD_POOL = THREAD_POOL
  Junk = Junk
  Heap = Heap
  PipeCap = 1
  Strategies <- AllStrategies
  Inputs <- ShortInputs
  Signals = TRUE
INVARIANTS TypeOK TaskConserved LoggedInOrder SortedArraysIntact
PROPERTIES AllLogged
\* Without a signal main waits for the writer for ever.
CHECK_DEADLOCK FALSE
