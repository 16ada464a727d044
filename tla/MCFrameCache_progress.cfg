CONSTANTS
  Thread = {t1, t2}
  Table = {ta}
  File = {f1, f2, f3}
  Frame <- TwoFrames
  Bytes <- ShortTail
  Budgets = {0, 2}
  Unlimited = Unlimited
  NoFile = NoFile
  Admin = {"insert", "remove", "clear", "resize"}
  MaxOps = 3
SPECIFICATION FairSpec
PROPERTIES OperationsReturn
