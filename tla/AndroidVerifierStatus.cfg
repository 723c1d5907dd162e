\* Status lists with one serial of one hex digit.
CONSTANTS
  Roots <- MCRoots
  Inputs <- StatusInputs
  TagModulus <- MCTagModulus
SPECIFICATION Spec
INVARIANT
  RevokedIsRejected
CHECK_DEADLOCK FALSE
