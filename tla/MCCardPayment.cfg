\* Two charges and a refund on one terminal, one of them with a uid.  The
\* system may stop: operations are used up.
SPECIFICATION Spec
CONSTANTS
  Charges = {c1, c2}
  Refunds = {r1}
  WithUid = {c1}
  NoOp = NoOp
INVARIANTS
  RecoveryIsTrue
PROPERTIES
  OutcomeKept
  EveryAttemptRecorded
CHECK_DEADLOCK FALSE
