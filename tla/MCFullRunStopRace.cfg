SPECIFICATION Spec
CONSTANTS
  m1 = m1
  m2 = m2
  r1 = r1
  r2 = r2
  None = None
  Run = {r1, r2}
  Manager = {m1, m2}
  Stale = 1
INVARIANT StopsOnlyOnRequest
