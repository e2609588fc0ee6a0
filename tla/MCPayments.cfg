SPECIFICATION Spec
CONSTANTS
  a = a
  b = b
  cod = cod
  paymob = paymob
  Calls = {a, b}
  Methods = {cod, paymob}
  MayFail = {paymob}
  MaxNow = 1
  MaxCalls = 5
SYMMETRY MCSymmetry
INVARIANTS
  TypeOK
  StatusesAgree
  GivenReferenceStored
CHECK_DEADLOCK FALSE
