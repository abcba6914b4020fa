SPECIFICATION Spec
CONSTANTS
  Documents = {d1, d2}
  Reports = {r1}
  Totals = {1000}
  Amounts = {4, 500, 506}
  Upwards = {}
  Types = {0, 3}
SYMMETRY Same
INVARIANTS SplitIsTrue RefusedMeansNoReceipt ReceiptIdIsOwn
CHECK_DEADLOCK FALSE
