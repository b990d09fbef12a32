\* Handovers, handbacks and intent writes interleaved, with one crash or one
\* expired lock.  Processes stop when their operations are used up.
SPECIFICATION Spec
CONSTANTS
  c1 = c1
  c2 = c2
  operator = operator
  studio = studio
  growth = growth
  quality = quality
  None = None
  Client <- Clients
  Scope <- Scopes
  Operator = operator
  Item <- Items
  Horizon <- Goals
  FirstSection <- Sections
  MaxOperations = 3
  MaxMishaps = 1
INVARIANTS TypeOK ActiveMeansImported
PROPERTIES OwnershipCycle ReturnCarriesDirection
SYMMETRY Processes
CHECK_DEADLOCK FALSE
