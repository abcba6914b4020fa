SPECIFICATION Spec
CONSTANTS
  Activations = {a1, a2}
  Children = {p1, p2}
  NoConfig = NoConfig
  NoKey = NoKey
  NoChild = NoChild
  NoAnswer = NoAnswer
  Overlapping = FALSE
  MaxSales = 1
  MaxFaults = 2
INVARIANTS NobodysChild KeyOpensCopy LostWereLate
PROPERTIES ServiceComesBack SwitchOffHolds
CHECK_DEADLOCK FALSE
