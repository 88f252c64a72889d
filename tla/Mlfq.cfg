\* Both submissions.  Bursts that end in level 0 and, of the constant one, fill
\* its quantum (3) and reach the second turn of the last level
\* (31); of the exponential one, fill the quantum (2), reach the
\* last level (31) and its second turn (61).  Three of the longest time out.
CONSTANTS
  Pids = {1, 2, 3}
  Arrivals = {0, 1, 4}
  Bursts = {2, 3, 31, 61}
  TIMEOUT = 130
  UINT = 256
  NUM_PRIORITY_QUEUES = 4
SPECIFICATION FairSpec
INVARIANTS LevelMatchesService FirstServiceIsBounded
PROPERTIES LeastServedFirst ImplementsContract
\* The simulation ends.
CHECK_DEADLOCK FALSE
