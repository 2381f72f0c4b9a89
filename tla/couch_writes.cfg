SPECIFICATION Spec
CHECK_DEADLOCK FALSE
CONSTANTS
  a = a
  b = b
  Calls = {a, b}
  Device = dev
  Texts = {t1, t2}
  MaxRev = 2
  Faults <- Mixed
SYMMETRY TextSymmetry
INVARIANT NoLostUpdate
PROPERTY ImplementsRegister
