SPECIFICATION Spec
CONSTANTS
  c1 = c1
  c2 = c2
  c3 = c3
  Calls = {c1, c2, c3}
  k1 = k1
  k2 = k2
  r1 = r1
  r2 = r2
  Keys = {k1}
  Requests = {r1, r2}
  MaxAttempts = 2
  Faults = {"crash"}
PROPERTIES
  InProgressIsTrue
CHECK_DEADLOCK FALSE
