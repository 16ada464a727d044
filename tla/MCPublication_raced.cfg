SPECIFICATION Spec
CONSTANTS
  p1 = p1
  p2 = p2
  p3 = p3
  Procs = {p1, p2}
  Tables <- MCTables
  Prefixes <- MCPrefixes
  Under <- MCUnder
  Outer <- MCOuter
  Pairs <- MCSelfTwin
  Selections <- MCRaced
  Exclusive = FALSE
  MaxVersion = 2
SYMMETRY Symmetric
INVARIANTS
  SidecarBacked
PROPERTIES
  CompleteNeverLost
  WritesNeedFormat
  FormatImmutable
