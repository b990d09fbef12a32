\* A lock that may be overrun, and each service with two workers that race, die and
\* send again.
SPECIFICATION ServicesSpec
CONSTANTS
  p1 = p1
  p2 = p2
  p3 = p3
  Proc = {p1, p2, p3}
  None = None
  Ttl = 1
  MaxCrashes = 2
  Short <- SlowHolders
  Worker <- Workers
  Strategy <- ThreeStrategies
  Restoration <- TwoRestorations
  MaxStrategyCalls = 4
  MaxStrategyCrashes = 1
  MaxOutcomes = 1
  MaxAge = 2
  LastDay = 2
  MaxBeliefCalls = 3
  MaxBeliefCrashes = 1
  Objective <- TwoObjectives
  Crit <- OneCriterion
  StateToken <- OneToken
  Cap = 1
  MaxAttempts = 1
  StallAfter = 1
  Floor = 2
  Beginnings <- Waiting
  Evaluations <- HandedIn
  MaxWorkCalls = 4
  MaxWorkCrashes = 1
  Opportunity <- TwoOpportunities
  Initiative <- ThreeInitiatives
  WipCap = 1
  Cooldown = 1
  LastCooldownDay = 1
  MaxProposalCalls = 3
  MaxProposalCrashes = 1
  Copy <- ThreeCopies
  MaxApplyCalls = 5
  MaxApplyCrashes = 2
  MaxRevivals = 1
  Draft <- TwoDrafts
  Ref <- ThreeRefs
  Class <- Classed
  Batches <- FourBatches
  MaxLearningCalls = 4
  MaxLearningCrashes = 1
  MaxCommands = 4
  MaxCommandCrashes = 1
  MaxEdits = 1
  Base = Base
  Never = Never
  Gap = Gap
  Elder = Elder
  w1 = w1
  w2 = w2
  s1 = s1
  s2 = s2
  x1 = x1
  x2 = x2
  k1 = k1
  t1 = t1
  job1 = job1
  job2 = job2
  op1 = op1
  op2 = op2
  n1 = n1
  n2 = n2
  c1 = c1
  c2 = c2
  c3 = c3
  d1 = d1
  d2 = d2
  e1 = e1
  e2 = e2
  e3 = e3
SYMMETRY Symmetry
INVARIANTS ServicesTypeOK StrategiesHold ContradictionSticks LimitsHold
  VerdictsAreEarned AppliedOnce AttachmentIsHonest
PROPERTY ReleaseIsOwn
\* Every caller may have made its calls.
CHECK_DEADLOCK FALSE
