\* Three runs, readers or editors, in processes that keep up unless they crash.
CONSTANTS
  Request = {r1, r2, r3}
  w1 = w1
  Workspace = {w1}
  ReaderLimit = 2
  Lease = 3
  NoRow = NoRow
  NoAsk = NoAsk
  Asks <- ReaderEditor
  QueueBudget = 2
  MaxTime = 5
SPECIFICATION PromptSpec
SYMMETRY Symmetry
INVARIANTS HolderKeepsAdmission AdmittedFindsLockFree
\* Every run ends and the clock is bounded.
CHECK_DEADLOCK FALSE
