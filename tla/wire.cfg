SPECIFICATION Spec
CONSTANT
  Messages <- MCMessages
INVARIANTS
  RoundTrip
  CutRefused
CHECK_DEADLOCK FALSE
