\* Evidence of class MODEL_INFERENCE offered for a verification gate.
SPECIFICATION Spec
CONSTANTS
  e1 = e1
  e2 = e2
  k1 = k1
  t1 = t1
  t2 = t2
  Crit = {k1}
  Ref = {e1, e2}
  Token = {t1, t2}
  Budgets <- MCBudgets
  GateSets <- MCGateSets
  Supplies <- ModelOnly
  Unlimited = Unlimited
  None = None
  MaxVersion = 3
  MaxTime = 1
  MostTurns = 3
INVARIANT GatesOutrankModelOpinion
\* A goal may be complete or cleared for good.
CHECK_DEADLOCK FALSE
