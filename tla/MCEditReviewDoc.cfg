\* Where the documentation is wrong: edits after the run has gone.
CONSTANTS
  Run = {r1}
  Jobs = {FALSE}
  MaxEdits = 1
  Nobody = Nobody
SPECIFICATION Spec
INVARIANTS UnreviewedAlwaysMarked
\* Runs end.
CHECK_DEADLOCK FALSE
