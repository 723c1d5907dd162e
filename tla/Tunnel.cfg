\* One connection; peers and relays close in every order.
CONSTANTS
  ReqLen = 3
  RespLen = 3
  Window = 2
SPECIFICATION Spec
INVARIANTS
  TypeOK
  InOrder
PROPERTIES
  PatientClientServed
  NothingLeaks
CHECK_DEADLOCK FALSE
