\* A correction that was cut short is sent again after the intent was corrected twice.
SPECIFICATION Spec
CONSTANTS
  o1 = o1
  o2 = o2
  o3 = o3
  Operation = {o1, o2, o3}
  Origin = Origin
  None = None
  MaxRevision = 1
  MaxCaptureCrashes = 1
SYMMETRY Symmetry
INVARIANT StaleCorrectionsFail
CHECK_DEADLOCK FALSE
