\* Interrupted handovers run again under fairness.  Processes stop when their
\* operations are used up.
SPECIFICATION FairSpec
CONSTANTS
  c1 = c1
  c2 = c2
  operator = operator
  studio = studio
  growth = growth
  quality = quality
  None = None
  Client <- Clients
  Scope <- Alone
  Operator = operator
  Item <- Items
  Horizon <- Goals
  FirstSection <- AloneSection
  MaxOperations = 2
  MaxMishaps = 1
PROPERTIES HandoverCompletes
CHECK_DEADLOCK FALSE
