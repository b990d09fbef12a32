\* Lock holders finish in time and breaks are not interleaved; callers of each part die
\* and their calls are sent again.
SPECIFICATION RecoverySpec
CONSTANTS
  p1 = p1
  p2 = p2
  p3 = p3
  Proc = {p1, p2, p3}
  None = None
  Ttl = 1
  MaxCrashes = 2
  Short <- QuickHolders
  o1 = o1
  o2 = o2
  Operation <- TwoOperations
  Origin = Origin
  MaxRevision = 3
  MaxCaptureCrashes = 2
  w1 = w1
  w2 = w2
  Worker <- TwoWorkers
  MaxAdoptionDeaths = 2
INVARIANTS TypeOK Exclusive OneSuccessor AdoptionIsSafe
PROPERTIES ImplementsTtlLock AbandonedIsReclaimed ResumesEnd
\* Requests, and an adoption, may all be answered.
CHECK_DEADLOCK FALSE
