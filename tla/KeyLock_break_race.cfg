\* Two processes break the same expired lock.
SPECIFICATION Spec
CONSTANTS
  p1 = p1
  p2 = p2
  p3 = p3
  Proc = {p1, p2, p3}
  None = None
  Ttl = 1
  MaxCrashes = 2
  Short <- RacyBreak
INVARIANT Exclusive
