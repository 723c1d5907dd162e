\* The app with overlapping tasks, failures, and a kill at any point.
CONSTANTS
  Keys = {k1, k2}
  Attests = {a1, a2}
  Asserts = {s1}
  MaxRestarts = 1
SPECIFICATION Spec
INVARIANTS
  TypeOK
  CaptureVerifies
  ActiveKeyAttested
PROPERTIES
  FlagsEnd
CHECK_DEADLOCK FALSE
