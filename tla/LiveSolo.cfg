SPECIFICATION FairSpec
CONSTANTS
  a1 = a1  a2 = a2
  p = p  q = q
  r1 = r1  r2 = r2
  x = x  y = y  z = z
  v1 = v1  v2 = v2
  None = None
  Apps = {a1}
  Objects = {x, y}
  Versions = {v1}
  Paths = {p, q}
  Revisions = {r1, r2}
  Manifest <- SoloManifest
  RenderError <- QBroken
  PolicyError <- PRefused
  Specs <- SoloSpecs
  Priority <- KindPriority
  KeyOrder <- SortedKeys
  ConcurrentReconciles = 1
  MaxIncarnations = 2
  MaxGeneration = 2
  MaxPushes = 1
  MaxFaults = 1
  MaxMeddles = 1
PROPERTIES Converges SuspendSettles
