\* Four agents for two active places and a history of one; what they report
\* and whether they are cancelled does not matter here.
CONSTANTS
  Agent = {a1, a2, a3, a4}
  Conversation = {}
  MaxActive = 2
  MaxHistory = 1
  MaxEvents = 1
  StaleAfter = 2
  Updates <- NoUpdates
  MaxLag = 1
  MaxTime = 4
  MaxSequence = 1
  NoAgent = NoAgent
  NoConversation = NoConversation
SPECIFICATION Spec
SYMMETRY Symmetry
INVARIANTS CapacityHolds StoreBounded
PROPERTIES OldestPruned
\* The clock is bounded.
CHECK_DEADLOCK FALSE
