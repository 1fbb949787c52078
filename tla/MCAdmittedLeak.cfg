\* Where the documentation is wrong: a row outlives its run.
CONSTANTS
  Request = {r1, r2}
  w1 = w1
  Workspace = {w1}
  ReaderLimit = 2
  Lease = 3
  NoRow = NoRow
  NoAsk = NoAsk
  Asks <- ReaderEditor
  QueueBudget = 2
  MaxTime = 5
SPECIFICATION PromptSpec
INVARIANTS ReleasedWhenDone
\* Every run ends and the clock is bounded.
CHECK_DEADLOCK FALSE
