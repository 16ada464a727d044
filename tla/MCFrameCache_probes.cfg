CONSTANTS
  Thread = {t1, t2, t3}
  Table = {ta, tb}
  File = {f1, f2, f3}
  Frame <- TwoFrames
  Bytes <- ShortTail
  Budgets = {2}
  Unlimited = Unlimited
  NoFile = NoFile
  Admin = {}
  MaxOps = 3
SYMMETRY Symmetry
SPECIFICATION Spec
INVARIANTS EveryFrameCounted BudgetBetweenOperations
PROPERTIES EvictsLeastRecentlyUsed EvictsOnlyOverBudget
