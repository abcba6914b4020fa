\* A charge whose connection is lost after the bank was asked.
SPECIFICATION Spec
CONSTANTS
  Charges = {c1}
  Refunds = {r1}
  WithUid = {c1}
  NoOp = NoOp
INVARIANTS
  FailedIsNoGuess
CHECK_DEADLOCK FALSE
