\* One genuine chain, any description, policies that leave the boot state open.
CONSTANTS
  Roots <- MCRoots
  Inputs <- BootInputs
  TagModulus <- MCTagModulus
SPECIFICATION Spec
INVARIANT
  BootReported
CHECK_DEADLOCK FALSE
