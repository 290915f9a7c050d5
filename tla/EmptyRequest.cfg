\* The only path is the empty string: "\r\n\r\n".
SPECIFICATION FairSpec
CONSTANTS
  a = a
  b = b
  CR = CR
  LF = LF
  Letters = {a, b}
  Requests <- EmptyPath
  BufSize = 4
PROPERTIES WholeRequestSettled
\* The connection ends.
CHECK_DEADLOCK FALSE
