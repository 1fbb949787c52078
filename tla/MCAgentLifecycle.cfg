\* One agent from creation to its end, with stale stamps, late updates and a
\* feed that is trimmed.
CONSTANTS
  Agent = {a1}
  Conversation = {c1, c2}
  MaxActive = 1
  MaxHistory = 1
  MaxEvents = 2
  StaleAfter = 2
  Updates <- RunUpdates
  MaxLag = 1
  MaxTime = 5
  MaxSequence = 4
  NoAgent = NoAgent
  NoConversation = NoConversation
SPECIFICATION Spec
INVARIANTS TypeOK FeedOrdered ViewsAgree
PROPERTIES TerminalImmutable CancelHonoured FeedAppendOnly LiveAgentKept
\* The clock is bounded, and the history of a terminal agent is never pruned.
CHECK_DEADLOCK FALSE
