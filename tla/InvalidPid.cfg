\* Two processes, and a submission that may return the PID of none.
CONSTANTS
  Pids = {1, 2}
  Arrivals = {0, 1}
  Bursts = {1, 2}
  TIMEOUT = 5
  UINT = 64
  Unknown = 9
SPECIFICATION Spec
INVARIANT InvalidProcessStops
\* The simulation ends.
CHECK_DEADLOCK FALSE
