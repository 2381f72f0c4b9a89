SPECIFICATION TransferSpec
CONSTANTS
  Notes = {1}
  Attachments = {2}
  Texts = {"t1", "t2"}
  OptedOut = {"t2"}
  MaxRevisions = 4
  MaxEdits = 2
  MaxTransfers = 2
INVARIANTS SnapshotIsTrue RestoreBringsBack MovedWasHeld
PROPERTY NothingIsBuried
CHECK_DEADLOCK FALSE
