SPECIFICATION Spec
CONSTANTS
  r1 = r1
  r2 = r2
  t1 = t1
  t2 = t2
  Run = {r1}
  Task = {t1, t2}
  NoTask = NoTask
  Verdict <- MCVerdict
  Unresolvable = {}
  ClaimTtl = 1
  Backoff = 1
  ScanLag = 1
  MaxFaults = 2
  MaxNotes = 2
  MaxDeliveries = 2
INVARIANTS
  LastStateEventIsVerdict
