SPECIFICATION FairSpec
CONSTANTS
  r1 = r1
  r2 = r2
  t1 = t1
  t2 = t2
  Run = {r1, r2}
  Task = {t1, t2}
  NoTask = NoTask
  Verdict <- MCVerdictLive
  Unresolvable = {r2}
  ClaimTtl = 1
  Backoff = 1
  ScanLag = 1
  MaxFaults = 1
  MaxNotes = 1
  MaxDeliveries = 2
INVARIANTS
  TypeOK
  OneVerdictPublished
  DeliveredIsPublished
PROPERTIES
  OnlyTheHolderSettles
  FreshClaimIsKept
  EveryVerdictIsPublished
