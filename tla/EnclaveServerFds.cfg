\* An NSM device that never fails, clients whose evidence is always accepted.
CONSTANTS
  k1 = k1
  k2 = k2
  c1 = c1
  d1 = d1
  Requests = {r1, r2, r3}
  Bodies <- Good
  FdLimit = 5
  NsmMayFail = FALSE
  Image <- MCImage
SPECIFICATION Spec
PROPERTY VerifiedCarriesDocument
CHECK_DEADLOCK FALSE
