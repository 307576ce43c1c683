SPECIFICATION FairSpec
CONSTANTS
  w1 = w1  w2 = w2
  c1 = c1  c2 = c2
  Branch = Branch
  Namesake = None
  Partial = Partial
  None = None
  Workers = {w1, w2}
  Commits = {c1, c2}
  History <- Ancestry
  MaxPushes = 1
  MaxFaults = 2
INVARIANTS TypeOK HandedOutIsComplete FetchHasOrigin NoLockIsLeaked
PROPERTIES ServesSnapshots NoCallGoesInCircles CallsReturn HealsAlone
