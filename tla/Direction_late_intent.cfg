\* An intent write that asked for the owner before a handback and saves after it.
SPECIFICATION Spec
CONSTANTS
  c1 = c1
  c2 = c2
  operator = operator
  studio = studio
  growth = growth
  quality = quality
  None = None
  Client <- Clients
  Scope <- Alone
  Operator = operator
  Item <- Items
  Horizon <- Goals
  FirstSection <- AloneSection
  MaxOperations = 3
  MaxMishaps = 0
PROPERTIES OnlyOwnerConfirms
CHECK_DEADLOCK FALSE
