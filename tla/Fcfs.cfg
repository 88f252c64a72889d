\* The arrival and processing times of the example of readme.md; the longest
\* workloads do not fit in TIMEOUT.
CONSTANTS
  Pids = {1, 2, 3}
  Arrivals = {0, 2, 6}
  Bursts = {1, 2, 10}
  TIMEOUT = 25
  UINT = 32
SPECIFICATION FairSpec
INVARIANTS ListFaithful FcfsTimes
PROPERTY ImplementsContract
\* The simulation ends.
CHECK_DEADLOCK FALSE
