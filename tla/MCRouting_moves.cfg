SPECIFICATION GameSpec
CONSTANTS
  Files = 4
  Slots = 3
  MaxPieces = 6
  Roles <- MCRoles
INVARIANTS NamesIdentifyTables RoutingRespectsSymmetry
PROPERTY MovesFollowTables
