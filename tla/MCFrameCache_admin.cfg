CONSTANTS
  Thread = {t1, t2}
  Table = {ta}
  File = {f1, f2, f3, f4}
  Frame <- TwoFrames
  Bytes <- ShortTail
  Budgets = {0, 2, Unlimited}
  Unlimited = Unlimited
  NoFile = NoFile
  Admin = {"insert", "remove", "clear", "resize"}
  MaxOps = 4
SYMMETRY Symmetry
SPECIFICATION Spec
INVARIANTS ResidentExact EntriesResident
PROPERTIES RegisteredOnce
