CONSTANTS
  w1 = w1
  w2 = w2
  s1 = s1
  NoWorker = NoWorker
  Run <- MCRun
  Session = {s1}
  SessionOf <- MCSessionOf
  BackgroundCommand = {2}
  Worker = {w1, w2}
  LegacyWorker = {w1}
  LeaseTime = 1
  Grace = 0
  ReleaseStatus = {"waiting_approval", "waiting_user", "failed"}
SPECIFICATION FairSpec
INVARIANTS RunningRunIsRecoverable ExclusiveToolExecution
PROPERTIES AbandonedRunIsResolved
