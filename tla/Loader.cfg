\* Files of up to three lines; arrays of up to three records fit on the stack.
CONSTANTS
  MAX_PID = 9
  TIMEOUT = 10
  STACK = 3
  Lines <- MCLines
  Headers <- MCHeaders
  MaxLines = 3
SPECIFICATION LoaderSpec
INVARIANTS WorkloadValid TruncatedFileRefused RefusalIsAboutNextLine
\* main returns.
CHECK_DEADLOCK FALSE
