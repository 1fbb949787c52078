\* Two calls of one server, two changes of the world, streams of up to three lines.
CONSTANTS
  MaxChars = 4
  FailureBytes = 1
  IdBytes = 1
  None = None
  NoFile = NoFile
  local = local
  path = path
  mine = mine
  other = other
  Conversation = {mine, other}
  Paths <- CandidatePaths
  Run = {r1}
  Doctor = {d1}
  Package = {p1, p2}
  Version = {v1}
  Event <- Events
  MaxEvents = 3
  Diagnostics <- Stderr
  Troubles <- Trouble
  MaxChanges = 2
SPECIFICATION Spec
INVARIANTS TypeOK SuccessOnPinnedRuntime StaleExplained ReviewAgrees AnswerIsReference RootCauseKept
