SPECIFICATION Spec
CONSTANTS
  a1 = a1  a2 = a2
  p = p  q = q
  r1 = r1  r2 = r2
  x = x  y = y  z = z
  v1 = v1  v2 = v2
  None = None
  Apps = {a1, a2}
  Objects = {x, y, z}
  Versions = {v1}
  Paths = {p, q}
  Revisions = {r1, r2}
  Manifest <- DisjointManifest
  RenderError <- NoErrors
  PolicyError <- NoErrors
  Specs <- PlainSpecs
  Priority <- KindPriority
  KeyOrder <- SortedKeys
  ConcurrentReconciles = 2
  MaxIncarnations = 2
  MaxGeneration = 1
  MaxPushes = 1
  MaxFaults = 0
  MaxMeddles = 0
INVARIANTS SuccessMeansApplied NoOrphan PruneDeletesOnlyOwn
PROPERTY StaysInSync
