SPECIFICATION Spec
CONSTANTS
  Callers = {c1}
  Armers = {"handshake", "subscribe"}
  MaxChanges = 1
  MaxChildren = 2
  MaxEpoch = 1
  Faults <- AnyFault
INVARIANTS ToldIsListed OnlySlipsAreLost
