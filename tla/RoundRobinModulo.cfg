\* The quantum of rr.c; bursts of more than two of it.
CONSTANTS
  Pids = {1, 2}
  Arrivals = {0, 1}
  Bursts = {2, 7}
  TIMEOUT = 20
  UINT = 32
  QUANTUM = 3
SPECIFICATION FairSpec
PROPERTY SwitchesByModulo
\* The simulation ends.
CHECK_DEADLOCK FALSE
