\* Three requests for one workspace and two reader slots: a third reader, an
\* editor between readers, and stale calls on both sides of a lease all happen.
CONSTANTS
  Request = {r1, r2, r3}
  Workspace = {w1}
  ReaderLimit = 2
  Lease = 2
  NoRow = NoRow
  MaxTime = 3
  MaxTicket = 4
SPECIFICATION Spec
SYMMETRY Symmetry
INVARIANTS TypeOK ExclusiveAlone NoOvertaking ReadersBounded BlockersExplainWait
PROPERTIES OnlyExpiredRowsReaped LeaseNeverShortened
