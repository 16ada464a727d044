SPECIFICATION Spec
CONSTANTS
  Files = 4
  Slots = 3
  MaxPieces = 6
  Roles <- MCRoles
  Requests <- MCRequests
  Holdings <- MCHoldings
INVARIANTS SelectionExact PrerequisitesPrecede BuiltFromThisRun VerifiesWhatItMade
