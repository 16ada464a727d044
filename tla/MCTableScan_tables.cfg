CONSTANTS
  Pairs <- MCPairs
SPECIFICATION Spec
INVARIANTS
  IndexRespectsSymmetry
  TalliesExact
  CountersMatchUnmoves
  UnmovesAreMoves
