\* Two runs, each a reader, an editor or a browser driver, in processes that
\* stall past their leases and stores that fail;
\* the holder may never end.
CONSTANTS
  Request = {r1, r2}
  w1 = w1
  Workspace = {w1}
  ReaderLimit = 2
  Lease = 3
  NoRow = NoRow
  NoAsk = NoAsk
  Asks <- ReaderEditorBrowser
  QueueBudget = 2
  MaxTime = 6
SPECIFICATION FairSpec
INVARIANTS TypeOK EditorAlone
PROPERTIES ImplementsReadersWriter QueueWaitEnds
\* Every run ends and the clock is bounded.
CHECK_DEADLOCK FALSE
