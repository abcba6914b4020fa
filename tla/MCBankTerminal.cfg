SPECIFICATION Spec
CONSTANTS
  Charges = {c1, c2}
  Refunds = {c2}
  Queries = {q1}
  NoOp = NoOp
  Exclusive = TRUE
  Late = FALSE
INVARIANTS AnswerIsOwn
PROPERTIES PortIsFreed
CHECK_DEADLOCK FALSE
