\* The quantum of rr.c; bursts that end within a turn, with it, and after it.
CONSTANTS
  Pids = {1, 2, 3}
  Arrivals = {0, 1, 2, 5}
  Bursts = {1, 3, 4, 7}
  TIMEOUT = 17
  UINT = 32
  QUANTUM = 3
SPECIFICATION FairSpec
INVARIANTS ListFaithful TurnsInArrivalOrder FirstTurnsComplete
PROPERTIES SecondTurnRunsToCompletion ImplementsContract
\* The simulation ends.
CHECK_DEADLOCK FALSE
