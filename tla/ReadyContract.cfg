\* Three processes; workloads that fit in TIMEOUT and workloads that do not.
CONSTANTS
  Pids = {1, 2, 3}
  Arrivals = {0, 1, 3, 6}
  Bursts = {1, 2, 4}
  TIMEOUT = 9
  UINT = 16
SPECIFICATION Spec
INVARIANTS ReadyExact NeverStopped StatisticsDoNotWrap MakespanIsFixed
PROPERTY IdleOnlyWhenDone
\* The simulation ends.
CHECK_DEADLOCK FALSE
