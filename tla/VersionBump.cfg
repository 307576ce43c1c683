SPECIFICATION Spec
CONSTANTS
  a1 = a1  a2 = a2
  p = p  q = q
  r1 = r1  r2 = r2
  x = x  y = y  z = z
  v1 = v1  v2 = v2
  None = None
  Apps = {a1}
  Objects = {x}
  Versions = {v1, v2}
  Paths = {p}
  Revisions = {r1, r2}
  Manifest <- UpgradedManifest
  RenderError <- NoErrors
  PolicyError <- NoErrors
  Specs <- SoloPlainSpecs
  Priority <- KindPriority
  KeyOrder <- SortedKeys
  ConcurrentReconciles = 1
  MaxIncarnations = 1
  MaxGeneration = 1
  MaxPushes = 1
  MaxFaults = 0
  MaxMeddles = 0
INVARIANT PruneSparesDesired
