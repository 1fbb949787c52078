\* Three editing runs, with and without a job object, and two changes of the tree.
CONSTANTS
  Run = {r1, r2, r3}
  Jobs = {TRUE, FALSE}
  MaxEdits = 2
  Nobody = Nobody
SPECIFICATION FairSpec
INVARIANTS TypeOK UnreviewedMarked CliHasWorkspace
PROPERTIES EditsGated WorkspaceGivenBack
\* Runs end.
CHECK_DEADLOCK FALSE
