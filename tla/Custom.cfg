\* Bursts that end in the first turn, with it, in the second turn, with it
\* and after several, two of them so close that rounding can hide it.
CONSTANTS
  Pids = {1, 2, 3}
  Arrivals = {0, 1, 4, 9}
  Bursts = {1, 2, 5, 15, 16}
  TIMEOUT = 50
  UINT = 64
  PRECISION = 200
SPECIFICATION FairSpec
INVARIANTS HistoriesExact FirstServiceIsBounded
PROPERTIES NoDominatedChoice ImplementsContract
\* The simulation ends.
CHECK_DEADLOCK FALSE
