SPECIFICATION Spec
CONSTANTS
  Run <- MCRun
  NoRun = NoRun
  Continuation = {3}
  Failing = {"call"}
  MaxFaults = 1
  MaxAnswers = 1
INVARIANTS
  TypeOK
  MessageEntersOnce
  StopCoversLateMessages
  SteeredInOrder
  SealLeavesNobodyBehind
  WaitingRunBlocksNobody
PROPERTIES
  ImplementsMailbox
CHECK_DEADLOCK FALSE
