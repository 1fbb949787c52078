\* One agent, two servers that die, three interrupts at once, and a store that fails.
CONSTANTS
  Agent = {a1}
  Server = {s1, s2}
  Caller = {c1, c2, c3}
  MaxActive = 1
  StoreFails = TRUE
  Nobody = Nobody
SPECIFICATION FairSpec
INVARIANTS TypeOK ExecutionManaged ActiveManaged
PROPERTIES InterruptStops AgentStops ImplementsAgentLife
\* Agents end and servers die.
CHECK_DEADLOCK FALSE
