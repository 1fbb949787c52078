\* Where the documentation is wrong: active agents join a full history.
CONSTANTS
  Agent = {a1, a2, a3, a4}
  Conversation = {}
  MaxActive = 2
  MaxHistory = 1
  MaxEvents = 1
  StaleAfter = 2
  Updates <- NoUpdates
  MaxLag = 1
  MaxTime = 4
  MaxSequence = 1
  NoAgent = NoAgent
  NoConversation = NoConversation
SPECIFICATION Spec
SYMMETRY Symmetry
INVARIANTS HistoryBounded
\* The clock is bounded.
CHECK_DEADLOCK FALSE
