SPECIFICATION ToolsSpec
CONSTANTS
  c1 = c1
  c2 = c2
  Calls = {c1, c2}
  Words <- MCWords
  Trimmed <- MCTrimmed
  Requests <- AllRequests
  Texts <- Persons
  Original <- Note
  MaxCalls = 2
  MaxWrites = 2
SYMMETRY CallSymmetry
INVARIANTS WritesKeepTheRest RetryIsHarmless WholeUnlessOverlapped
PROPERTIES LandsOnWhatItSaw DisagreementsShow
CHECK_DEADLOCK FALSE
