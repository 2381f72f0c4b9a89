SPECIFICATION FairSpec
CONSTANTS
  Clients = {c1}
  Features <- AllFeatures
  IndexFiles <- AnyFile
  Faults <- AnyFault
  MaxChanges = 1
  MaxFaults = 1
  MaxRenewals = 1
INVARIANTS MarkedIsIndexed RefreshedSinceMarked WaitedBuildIsFresh
PROPERTY NeverGoesBack EventuallyIndexed
