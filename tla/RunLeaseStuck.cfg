CONSTANTS
  w1 = w1
  w2 = w2
  s1 = s1
  NoWorker = NoWorker
  Run <- MCOneRun
  Session = {s1}
  SessionOf <- MCOneSessionOf
  BackgroundCommand = {}
  Worker = {w1, w2}
  LegacyWorker = {}
  LeaseTime = 1
  Grace = 1
  ReleaseStatus = {"waiting_approval", "waiting_user", "failed", "running"}
SPECIFICATION Spec
INVARIANTS RunningRunIsRecoverable
