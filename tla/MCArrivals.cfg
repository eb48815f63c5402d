SPECIFICATION SuiteSpec
CONSTANTS
  None = None
  OnRoll = {"s1"}
  Sheet = {"c1"}
  Excuse <- Expected
  MaxSessions = 1
  Loads = 1
  MaxOverrides = 0
  SheetFeatures = {"thread"}
  Limit = 2
  Duration = 1
  Waiting = 1
  Unset = Unset
INVARIANTS
  SheetTruthful
PROPERTIES
  EverythingArrives EverySettles
CHECK_DEADLOCK FALSE
