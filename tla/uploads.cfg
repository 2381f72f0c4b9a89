SPECIFICATION Spec
CONSTANTS
  t1 = t1
  t2 = t2
  p1 = p1
  p2 = p2
  p3 = p3
  Tokens = {t1, t2}
  Puts = {p1, p2, p3}
  Cap = 1
  Others = {other}
  Nobody = nobody
  Faults <- AnyFault
SYMMETRY TokenSymmetry
INVARIANTS LandsAtMostOnce DestinationIsWhole AnswersAreHonest StagingIsTidy
