SPECIFICATION Spec
CONSTANTS
  Run <- MCTwoRuns
  NoRun = NoRun
  Continuation = {2}
  Failing = {}
  MaxFaults = 0
  MaxAnswers = 2
INVARIANTS
  OnlyUnstartedIsWithdrawn
CHECK_DEADLOCK FALSE
