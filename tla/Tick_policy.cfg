\* Ticks of two triggers, with a crash or a closing write gate and a recovery.  They
\* stop when both triggers are done and the days are over.
SPECIFICATION Spec
CONSTANTS
  p1 = p1
  p2 = p2
  k1 = k1
  k2 = k2
  s1 = s1
  gap = gap
  offer = offer
  None = None
  NoSession = NoSession
  Proc <- Runners
  Key <- Triggers
  Fingerprint <- Findings
  Session <- OneSession
  MaxInterruptions = 1
  MaxPerSession = 2
  Cooldown = 2
  KeptDays = 2
  KeptSessions = 2
  RecoveryAge = 2
  Short <- NothingOverruns
  MaxItems = 1
  MaxClock = 2
  MaxMishaps = 1
SYMMETRY Symmetry
INVARIANTS TypeOK WithinAttentionPolicy
PROPERTIES ImplementsTriggerOnce
CHECK_DEADLOCK FALSE
