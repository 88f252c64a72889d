\* Three processes, a submission that returns anything.
CONSTANTS
  Pids = {1, 2, 3}
  Arrivals = {0, 1, 3}
  Bursts = {1, 2}
  TIMEOUT = 5
  UINT = 64
  Unknown = 9
SPECIFICATION Spec
INVARIANTS VerdictSound OneProcessPerUnit AdmittedOnTime
PROPERTY Terminates
\* The simulation ends.
CHECK_DEADLOCK FALSE
