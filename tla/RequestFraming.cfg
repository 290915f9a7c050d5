\* Every way to cut the requests of PathLists into reads of at most four bytes.
SPECIFICATION FairSpec
CONSTANTS
  a = a
  b = b
  CR = CR
  LF = LF
  Letters = {a, b}
  Requests <- PathLists
  BufSize = 4
INVARIANTS AnswersThePaths
PROPERTIES RequestSpec WholeRequestSettled
\* The connection ends.
CHECK_DEADLOCK FALSE
