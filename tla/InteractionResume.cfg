CONSTANTS
  Handler = {h1, h2}
  None = None
  MaxAsked = 2
  MaxFaults = 1
SPECIFICATION FairSpec
INVARIANTS TypeOK AnswerIsAgreed ReadyIsDurable AcknowledgedIsNotAwaited
PROPERTIES AcknowledgedIsApplied StagedIsRecovered
CHECK_DEADLOCK FALSE
