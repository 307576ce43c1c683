SPECIFICATION Spec
CONSTANTS
  w1 = w1  w2 = w2
  c1 = c1  c2 = c2
  Branch = Branch
  Namesake = c2
  Partial = Partial
  None = None
  Workers = {w1, w2}
  Commits = {c1, c2}
  History <- Ancestry
  MaxPushes = 0
  MaxFaults = 0
PROPERTY RequestedIsResolved
