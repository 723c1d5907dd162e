\* Boot, bridge and handlers, three concurrent requests, scarce descriptors.
CONSTANTS
  k1 = k1
  k2 = k2
  c1 = c1
  d1 = d1
  Requests = {r1, r2, r3}
  Bodies <- MCBodies
  FdLimit = 6
  NsmMayFail = TRUE
  Image <- MCImage
SPECIFICATION Spec
INVARIANTS
  TypeOK
  SuccessIsBound
PROPERTIES
  ImplementsAttestation
  EveryRequestSettles
CHECK_DEADLOCK FALSE
