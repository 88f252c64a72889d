\* Values of which 8 * v + 6 fits a byte (31) and does not (32).
CONSTANTS
  N = 3
  Values = {1, 31, 32}
  BYTE = 256
  Garbage = {0, 7}
SPECIFICATION FairSpec
INVARIANTS PrintedTotal
PROPERTIES NoLostUpdate Terminates
\* The programs end.
CHECK_DEADLOCK FALSE
