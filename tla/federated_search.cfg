SPECIFICATION SearchSpec
CONSTANTS
  M = 2
  Kinds = {"local", "native", "skipped", "unable"}
  Weights = {1, 2}
  K = 2
  Scale = 2520
  Limit = 3
  Window = 4
  PageSize = 3
  Budget = 4
  MaxLen = 4
  MaxPages = 2
  Signals <- AllSignals
INVARIANTS StableIsTop
PROPERTY Terminates
CHECK_DEADLOCK FALSE
