\* Every mutation of the owner service, the generic transition and a host with stale
\* contracts; colliding requests, a caller that dies and a lock that expires under a
\* live one.
SPECIFICATION MCGoalServiceSpec
CONSTANTS
  e1 = e1
  e2 = e2
  k1 = k1
  t1 = t1
  t2 = t2
  Crit = {k1}
  Ref = {e1, e2}
  Token = {t1}
  Budgets <- MCBudgets
  GateSets <- MCGateSets
  Supplies <- MCSupplies
  Unlimited = Unlimited
  None = None
  MaxVersion = 5
  MaxTime = 1
  MostTurns = 3
  c1 = c1
  c2 = c2
  o1 = o1
  o2 = o2
  o3 = o3
  g1 = g1
  g2 = g2
  a = a
  b = b
  GoalId <- TwoGoals
  Caller <- TwoCallers
  Op <- SomeOps
  Variant <- TwoVariants
  CreatedBy <- FirstTwoOps
  Requests <- CollidingRequests
  MaxRequests = 4
  MaxCrashes = 1
  MaxOverruns = 1
SYMMETRY Callers
INVARIANTS TypeOK CompletionIsEarned TurnsAreBounded ReceiptMeansApplied
PROPERTIES ProgressIsCurrent EpochFences ReceiptIsFinal ImplementsIdempotentGoals
\* A goal may be complete or cleared for good, and every request made.
CHECK_DEADLOCK FALSE
