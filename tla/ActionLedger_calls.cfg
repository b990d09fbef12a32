\* Racing executions and reconciliations, one death, one lock lost to a slow host.
SPECIFICATION Spec
CONSTANTS
  c1 = c1
  c2 = c2
  idem = idem
  plain = plain
  k1 = k1
  scope = scope
  runtime = runtime
  Caller = {c1, c2}
  Host = {idem, plain}
  Idempotent = {idem}
  Key = {k1}
  Place = {scope, runtime}
  Requests <- MCRequests
  None = None
  MaxCalls = 3
  MaxMishaps = 1
SYMMETRY Symmetry
INVARIANTS TypeOK EffectAtMostOnce SafeMeansNoEffect CompletedMeansEffect
PROPERTY CompletedIsFinal
\* Every call may have been made.
CHECK_DEADLOCK FALSE
