SPECIFICATION FairSpec
CONSTANTS
  d1 = d1
  d2 = d2
  l1 = l1
  l2 = l2
  Process = {d1, d2, l1, l2}
  Dual = {d1, d2}
  Nobody = Nobody
  LeaseTime = 2
  MaxFaults = 1
INVARIANTS
  TypeOK
  BeliefIsBacked
  DualDispatchesAreSerial
PROPERTIES
  LeaseIsNotJoined
  SessionIsServed
