SPECIFICATION FairSpec
CONSTANTS
  Run <- MCTwoRuns
  NoRun = NoRun
  Continuation = {2}
  Failing = {"call", "reply", "release"}
  MaxFaults = 2
  MaxAnswers = 2
INVARIANTS
  MessageEntersOnce
  WaitingRunBlocksNobody
PROPERTIES
  RevokedMessageStaysOut
  MessageIsNotStuck
CHECK_DEADLOCK FALSE
