SPECIFICATION FairSpec
CONSTANTS
  c1 = c1  c2 = c2  c3 = c3  c4 = c4  c5 = c5  c6 = c6  c7 = c7
  Commits = {c1, c2, c3, c4, c5, c6, c7}
  Tree <- MCTree
  Paths <- MCPaths
  Root <- MCRoot
  Destination = "apps"
  Custom = "Widget"
  AllowClusterScoped = TRUE
  AllowedClusterScopedKinds = {"Namespace", "CustomResourceDefinition"}
  MaxChanges = 3
  MaxFaults = 2
  None = None
  Foreign = Foreign
INVARIANTS TypeOK StaysInside WholeOrNothing ContainerFirst TwoFilesMerge PathsResolve
PROPERTIES Settles RestartHeals
