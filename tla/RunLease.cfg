CONSTANTS
  w1 = w1
  w2 = w2
  s1 = s1
  NoWorker = NoWorker
  Run <- MCRun
  Session = {s1}
  SessionOf <- MCSessionOf
  BackgroundCommand = {}
  Worker = {w1, w2}
  LegacyWorker = {}
  LeaseTime = 1
  Grace = 0
  ReleaseStatus = {"waiting_approval", "waiting_user", "failed", "running"}
SYMMETRY MCSymmetry
SPECIFICATION Spec
INVARIANTS TypeOK OneExecutingRunPerSession ExclusiveToolExecution RetriedRunIsQuiet HandedOverRunIsReplayable
PROPERTIES TerminalIsFinal ValidLeaseIsRespected ImplementsLifecycle
