\* Two crashes and one saver that outlives its lock.
SPECIFICATION Spec
CONSTANTS
  p1 = p1
  p2 = p2
  p3 = p3
  Proc = {p1, p2, p3}
  None = None
  MaxSaves = 2
  MaxCrashes = 2
  MaxOverruns = 1
SYMMETRY Symmetry
INVARIANTS TypeOK NoLostUpdate RefusedIsAbsent
PROPERTY OneHistory
\* Every caller may have made its saves.
CHECK_DEADLOCK FALSE
