SPECIFICATION FairSpec
CONSTANTS
  p1 = p1  p2 = p2
  n1 = n1  n2 = n2
  None = None
  Processes = {p1, p2}
  Names = {n1, n2}
  Sites <- MCSites
  Workers = 2
  LeaseDuration = 3
  RenewDeadline = 1
  RetryPeriod = 1
  MaxEdits = 1
  MaxFaults = 2
INVARIANTS TypeOK OneWorkerPerName OnlyLeaverOverlaps NoneForgotten EditStaysPending
PROPERTIES EditsAreRead Recurs
