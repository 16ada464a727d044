SPECIFICATION Spec
CONSTANTS
  p1 = p1
  p2 = p2
  p3 = p3
  Procs = {p1, p2}
  Tables <- MCTables
  Prefixes <- MCPrefixes
  Under <- MCUnder
  Outer <- MCOuter
  Pairs <- MCPairs
  Selections <- MCSelections
  Exclusive = TRUE
  MaxVersion = 1
SYMMETRY Symmetric
INVARIANTS
  SummaryFresh
  SummariesNested
  AggregateCurrent
