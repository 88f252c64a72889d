CONSTANTS
  Submissions = {s1, s2}
  Solutions = algorithms
  Contents = {x}
  MaxExecutions = 2
  MaxEdits = 1
  MaxSignals = 2
SPECIFICATION ScriptSpec
INVARIANTS CollectedOnce FreshMarks CompetitionFair
PROPERTY SimulatorRemoved
\* Executions and edits are bounded.
CHECK_DEADLOCK FALSE
