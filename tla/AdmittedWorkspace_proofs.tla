---------------------- MODULE AdmittedWorkspace_proofs ----------------------
(***************************************************************************)
(* What is proved of the two layers of admitted_workspace, for any number  *)
(* of runs.  The lock file alone keeps editors alone, whatever the         *)
(* processes do (Spec); while they keep up (PromptSpec) the admission      *)
(* table is as strict as the lock.                                         *)
(***************************************************************************)
EXTENDS AdmittedWorkspace, AdmissionTable_proofs

-----------------------------------------------------------------------------
(* The lock file, under Spec.                                               *)

(* A run that has started knows what it was called with.                    *)
AskedFor == \A r \in Request : pc[r] # "idle" => ask[r] \in Ask

(* The lock file is held while the body runs, and at no other time.         *)
HeldWhileWorking == \A r \in Request : flock[r] <=> pc[r] = "working"

(* Two holders of the lock file of one workspace are both readers.          *)
HoldersShare ==
  \A r, s \in Request :
    r # s /\ flock[r] /\ flock[s] /\ ask[r].workspace = ask[s].workspace
    => AccessOf(ask[r]) = "shared"

LockInv == TypeOK /\ AskedFor /\ HeldWhileWorking /\ HoldersShare

(* An ask is for shared or exclusive access.                                *)
LEMMA AccessOfAsk ==
  ASSUME NEW a \in Ask
  PROVE  /\ AccessOf(a) \in Access /\ a.workspace \in Workspace
         /\ AccessOf(a) = "shared" <=> a.mode = "plan" /\ a.browser = "disabled"
BY DEF AccessOf, Ask, Access

(* Closing a run keeps the types.                                           *)
LEMMA CloseTypes ==
  ASSUME TypeOK, NEW r \in Request, Close(r)
  PROVE  TypeOK'
<1>1. rows' \in Table
  BY RemovedDeletes DEF TypeOK, Close, Deletes
<1>2. pc' \in [Request -> PC] /\ renewal' \in [Request -> {"none", "running", "stopped"}]
  BY DEF TypeOK, Close, Goto, PC
<1> QED BY <1>1, <1>2 DEF TypeOK, Close

(* Every step of a run keeps the types.                                     *)
LEMMA RunStepTypes ==
  ASSUME TypeOK, NEW r \in Request, RunStep(r) \/ RenewFails(r) \/ ReleaseFails(r)
  PROVE  TypeOK'
<1> USE DEF Goto, PC
<1>1. ASSUME NEW a \in Asks, Start(r, a) PROVE TypeOK'
  <2>1. a \in Ask
    BY AsksAssumption
  <2>2. rows' \in Table
    BY <1>1, <2>1, AccessOfAsk, EnqueuedRow DEF TypeOK, Start
  <2> QED BY <1>1, <2>1, <2>2, BudgetAssumption DEF TypeOK, Start
<1>2. CASE Poll(r)
  <2>1. rows' \in Table
    BY <1>2, TryAcquiredRow DEF TypeOK, Poll
  <2>2. clock + Lease \div 3 \in Nat
    BY LeaseAssumption DEF TypeOK
  <2> QED BY <1>2, <2>1, <2>2 DEF TypeOK, Poll
<1>3. CASE TimeOut(r) \/ Leave(r)
  BY <1>3, CloseTypes DEF TimeOut, Leave
<1>4. CASE TryLock(r)
  BY <1>4 DEF TypeOK, TryLock
<1>5. CASE Release(r)
  <2>1. rows' \in Table
    BY <1>5, RemovedDeletes DEF TypeOK, Release, Deletes
  <2> QED BY <1>5, <2>1 DEF TypeOK, Release
<1>6. CASE CancelAgain(r) \/ Crash(r) \/ RenewFails(r) \/ ReleaseFails(r)
  BY <1>6 DEF TypeOK, CancelAgain, Crash, RenewFails, ReleaseFails
<1>7. CASE Renew(r)
  <2>1. rows' \in Table
    BY <1>7, RenewedRow DEF TypeOK, Renew
  <2>2. clock + Lease \div 3 \in Nat
    BY LeaseAssumption DEF TypeOK
  <2>3. renewal' \in [Request -> {"none", "running", "stopped"}]
    BY <1>7 DEF TypeOK, Renew
  <2> QED BY <1>7, <2>1, <2>2, <2>3 DEF TypeOK, Renew
<1> QED BY <1>1, <1>2, <1>3, <1>4, <1>5, <1>6, <1>7 DEF RunStep

(* So does time, and a call for another workspace.                          *)
LEMMA OtherTypes ==
  ASSUME TypeOK, Tick \/ Reconcile \/ UNCHANGED vars
  PROVE  TypeOK'
<1>1. CASE Tick \/ UNCHANGED vars
  BY <1>1 DEF TypeOK, Tick, vars
<1>2. CASE Reconcile
  <2>1. rows' \in Table
    BY <1>2, ExpireDeletes DEF TypeOK, Reconcile, Deletes
  <2> QED BY <1>2, <2>1 DEF TypeOK, Reconcile
<1> QED BY <1>1, <1>2

(* What a step of run r does to the lock file: it touches no other run, and *)
(* it holds the file afterwards only if it held it before or found it free. *)
LEMMA LockMoves ==
  ASSUME LockInv, NEW r \in Request, RunStep(r) \/ RenewFails(r) \/ ReleaseFails(r)
  PROVE  /\ \A s \in Request \ {r} :
              pc'[s] = pc[s] /\ ask'[s] = ask[s] /\ flock'[s] = flock[s]
         /\ pc'[r] # "idle" => ask'[r] \in Ask
         /\ flock'[r] <=> pc'[r] = "working"
         /\ flock'[r] => /\ pc[r] # "idle" /\ ask'[r] = ask[r]
                         /\ flock[r] \/ ~Busy(r)
<1>1. /\ pc \in [Request -> PC] /\ ask \in [Request -> Ask \cup {NoAsk}]
      /\ flock \in [Request -> BOOLEAN]
      /\ pc[r] # "idle" => ask[r] \in Ask
      /\ flock[r] <=> pc[r] = "working"
  BY DEF LockInv, TypeOK, AskedFor, HeldWhileWorking
<1> USE <1>1 DEF Goto
<1>2. CASE \E a \in Asks : Start(r, a)
  BY <1>2, AsksAssumption DEF Start
<1>3. CASE Poll(r)
  BY <1>3 DEF Poll
<1>4. CASE TimeOut(r) \/ Leave(r)
  BY <1>4 DEF TimeOut, Leave, Close
<1>5. CASE TryLock(r)
  BY <1>5 DEF TryLock
<1>6. CASE Release(r) \/ CancelAgain(r) \/ Crash(r) \/ Renew(r) \/ RenewFails(r)
          \/ ReleaseFails(r)
  BY <1>6 DEF Release, CancelAgain, Crash, Renew, RenewFails, ReleaseFails
<1> QED BY <1>2, <1>3, <1>4, <1>5, <1>6 DEF RunStep

(* A file found free has no holder that the run conflicts with.             *)
LEMMA FreeFile ==
  ASSUME LockInv, NEW r \in Request, pc[r] # "idle", ~Busy(r),
         NEW s \in Request \ {r}, flock[s], ask[s].workspace = ask[r].workspace
  PROVE  AccessOf(ask[r]) = "shared" /\ AccessOf(ask[s]) = "shared"
<1>1. ask[r] \in Ask /\ ask[s] \in Ask
  BY DEF LockInv, AskedFor, HeldWhileWorking
<1>2. AccessOf(ask[r]) \in Access /\ AccessOf(ask[s]) \in Access
  BY <1>1, AccessOfAsk
<1> QED BY <1>2 DEF Busy, Access

(* The invariant of the lock file is inductive.                             *)
LEMMA LockInvStep == LockInv /\ [Next]_vars => LockInv'
<1> SUFFICES ASSUME LockInv, [Next]_vars PROVE LockInv'
  OBVIOUS
<1>1. ASSUME NEW r \in Request, RunStep(r) \/ RenewFails(r) \/ ReleaseFails(r) PROVE LockInv'
  <2>1. TypeOK'
    BY <1>1, RunStepTypes DEF LockInv
  <2>2. AskedFor' /\ HeldWhileWorking'
    BY <1>1, LockMoves DEF LockInv, AskedFor, HeldWhileWorking
  <2>3. HoldersShare'
    <3> SUFFICES ASSUME NEW s \in Request, NEW t \in Request, s # t,
                        flock'[s], flock'[t], ask'[s].workspace = ask'[t].workspace
                 PROVE  AccessOf(ask'[s]) = "shared"
      BY DEF HoldersShare, AccessOf
    <3>1. ask'[s] = ask[s] /\ ask'[t] = ask[t]
      BY <1>1, LockMoves
    <3>2. CASE flock[s] /\ flock[t]
      BY <3>1, <3>2 DEF LockInv, HoldersShare
    <3>3. CASE s = r /\ ~Busy(r)
      <4>1. flock[t] /\ pc[r] # "idle"
        BY <1>1, <3>3, LockMoves
      <4> QED BY <3>1, <3>3, <4>1, FreeFile
    <3>4. CASE t = r /\ ~Busy(r)
      <4>1. flock[s] /\ pc[r] # "idle"
        BY <1>1, <3>4, LockMoves
      <4> QED BY <3>1, <3>4, <4>1, FreeFile
    <3> QED BY <1>1, <3>2, <3>3, <3>4, LockMoves
  <2> QED BY <2>1, <2>2, <2>3 DEF LockInv
<1>2. CASE Tick \/ Reconcile \/ UNCHANGED vars
  <2>1. TypeOK'
    BY <1>2, OtherTypes DEF LockInv
  <2> QED BY <1>2, <2>1
          DEF Tick, Reconcile, vars, LockInv, AskedFor, HeldWhileWorking, HoldersShare
<1> QED BY <1>1, <1>2 DEF Next

(* It holds of the start.                                                   *)
LEMMA InitLockInv == Init => LockInv
BY DEF Init, LockInv, TypeOK, Table, PC, AskedFor, HeldWhileWorking, HoldersShare

(* And so of every behaviour.                                               *)
LEMMA LockInvariance == Spec => []LockInv
BY InitLockInv, LockInvStep, PTL DEF Spec

(* The state keeps its types.                                               *)
THEOREM TypeCorrect == Spec => []TypeOK
<1>1. LockInv => TypeOK
  BY DEF LockInv
<1> QED BY <1>1, LockInvariance, PTL

(* A run that may edit the workspace or drive a browser works alone in it:  *)
(* the operating-system lock alone ensures it, for runs whose leases ran    *)
(* out, whose store fails and whose processes crash.                        *)
THEOREM EditorAloneHolds == Spec => []EditorAlone
<1>1. LockInv => EditorAlone
  <2> SUFFICES ASSUME LockInv, NEW r \in Request, NEW s \in Request, r # s,
                      pc[r] = "working", pc[s] = "working",
                      ask[r].workspace = ask[s].workspace
               PROVE  ~MayEdit(r)
    BY DEF EditorAlone
  <2>1. AccessOf(ask[r]) = "shared" /\ ask[r] \in Ask
    BY DEF LockInv, AskedFor, HeldWhileWorking, HoldersShare
  <2> QED BY <2>1, AccessOfAsk DEF MayEdit
<1> QED BY <1>1, LockInvariance, PTL

(* A step of the two layers is a step of the readers-writer lock, or none.  *)
LEMMA StepLocks ==
  LockInv /\ [Next]_vars => [Lock!Next]_([r \in Request |-> Held(r)])
<1> SUFFICES ASSUME LockInv, [Next]_vars
             PROVE  [Lock!Next]_([r \in Request |-> Held(r)])
  OBVIOUS
<1> DEFINE holds == [r \in Request |-> Held(r)]
<1>1. ASSUME NEW r \in Request, RunStep(r) \/ RenewFails(r) \/ ReleaseFails(r)
      PROVE  Lock!Next \/ UNCHANGED holds
  <2>1. \A s \in Request \ {r} : Held(s)' = Held(s)
    BY <1>1, LockMoves DEF Held, AccessOf
  <2>2. CASE flock'[r] <=> flock[r]
    <3>1. Held(r)' = Held(r)
      BY <1>1, <2>2, LockMoves DEF Held, AccessOf
    <3> QED BY <2>1, <3>1
  <2>3. CASE flock'[r] /\ ~flock[r]
    <3> DEFINE w == ask[r].workspace
               a == AccessOf(ask[r])
    <3>1. pc[r] # "idle" /\ ask[r] \in Ask /\ ~Busy(r) /\ ask'[r] = ask[r]
      BY <1>1, <2>3, LockMoves DEF LockInv, AskedFor
    <3>2. w \in Workspace /\ a \in Access
      BY <3>1, AccessOfAsk
    <3>3. Held(r) = NoAsk /\ Held(r)' = [workspace |-> w, access |-> a]
      BY <2>3, <3>1 DEF Held, AccessOf
    <3>4. ASSUME NEW s \in Request, holds[s] # NoAsk, holds[s].workspace = w
          PROVE  a = "shared" /\ holds[s].access = "shared"
      <4>1. flock[s] /\ s # r /\ ask[s].workspace = w /\ holds[s].access = AccessOf(ask[s])
        BY <2>3, <3>4 DEF Held
      <4> QED BY <3>1, <4>1, FreeFile
    <3>5. holds' = [holds EXCEPT ![r] = [workspace |-> w, access |-> a]]
      BY <2>1, <3>3
    <3>6. Lock!Enter(r, w, a)
      BY <3>3, <3>4, <3>5 DEF Lock!Enter
    <3> QED BY <3>2, <3>6 DEF Lock!Next, Lock!Access, Access
  <2>4. CASE ~flock'[r] /\ flock[r]
    <3>1. ask[r] \in Ask
      BY <2>4 DEF LockInv, AskedFor, HeldWhileWorking
    <3>2. Held(r) # NoAsk /\ Held(r)' = NoAsk
      BY <2>4, <3>1, AccessOfAsk, NobodyAssumption DEF Held
    <3>3. holds' = [holds EXCEPT ![r] = NoAsk]
      <4>1. \A s \in Request : Held(s)' = IF s = r THEN NoAsk ELSE Held(s)
        BY <2>1, <3>2
      <4> QED BY <4>1
    <3>4. Lock!Leave(r)
      BY <3>2, <3>3 DEF Lock!Leave
    <3> QED BY <3>4 DEF Lock!Next
  <2> QED BY <2>2, <2>3, <2>4
<1>2. CASE Tick \/ Reconcile \/ UNCHANGED vars
  BY <1>2 DEF Tick, Reconcile, vars, Held
<1> QED BY <1>1, <1>2 DEF Next

(* Whatever the processes do, the runs hold their workspaces as under a     *)
(* readers-writer lock.                                                     *)
THEOREM ReadersWriterImplemented == Spec => ImplementsReadersWriter
<1>1. Init => Lock!Init
  BY DEF Init, Lock!Init, Held
<1> QED BY <1>1, LockInvariance, StepLocks, PTL DEF Spec, ImplementsReadersWriter, Lock!Spec

-----------------------------------------------------------------------------
(* The admission table, under Spec.                                         *)

(* The claims of AdmissionTable hold of the table, and the next ticket is   *)
(* above every one that was given.                                          *)
TableInv == Safe(rows) /\ TicketsBelow(rows, lastTicket + 1)

(* The tickets stay below the next one when a step writes one row, of an    *)
(* old request or under the next ticket.                                    *)
LEMMA TicketsStayBelow ==
  ASSUME NEW t \in Table, NEW u \in Table, NEW r \in Request,
         NEW m \in Nat, NEW n \in Nat, m <= n, TicketsBelow(t, m + 1),
         \A s \in Request : s # r => u[s] = t[s] \/ u[s] = NoRow,
         u[r] # NoRow => u[r].ticket = n \/ (t[r] # NoRow /\ u[r].ticket = t[r].ticket)
  PROVE  TicketsBelow(u, n + 1)
<1> SUFFICES ASSUME NEW s \in Present(u) PROVE u[s].ticket < n + 1
  BY DEF TicketsBelow
<1>1. s \in Request /\ u[s] \in Row /\ u[s] # NoRow
  BY PresentRow
<1>2. CASE t[s] # NoRow /\ u[s].ticket = t[s].ticket
  <2>1. t[s].ticket < m + 1
    BY <1>1, <1>2 DEF TicketsBelow, Present
  <2> QED BY <1>1, <1>2, <2>1 DEF Row
<1>3. CASE u[s].ticket = n
  BY <1>3
<1> QED BY <1>1, <1>2, <1>3

(* Starting a run enqueues a row under the next ticket.                     *)
LEMMA StartKeepsTable ==
  ASSUME TypeOK, TableInv, NEW r \in Request, NEW a \in Asks, Start(r, a)
  PROVE  TableInv'
<1> DEFINE v == Expire(rows, clock)
<1>1. /\ rows \in Table /\ clock \in Nat /\ lastTicket \in Nat
      /\ Safe(rows) /\ TicketsBelow(rows, lastTicket + 1)
      /\ lastTicket' = lastTicket + 1
      /\ rows' = Enqueued(rows, r, a.workspace, AccessOf(a), clock, lastTicket + 1)
  BY DEF TypeOK, TableInv, Start
<1>2. AccessOf(a) \in Access /\ a.workspace \in Workspace
  BY AsksAssumption, AccessOfAsk
<1>3. \A s \in Request : v[s] = rows[s] \/ v[s] = NoRow
  BY <1>1, ExpireDeletes DEF Deletes
<1>4. /\ rows' \in Table
      /\ \A s \in Request : s # r => rows'[s] = v[s]
      /\ v[r] # NoRow => rows'[r] = v[r]
      /\ v[r] = NoRow => rows'[r].ticket = lastTicket'
  BY <1>1, <1>2, EnqueuedRow
<1>5. Safe(rows')
  BY <1>1, <1>2, EnqueuedSafe
<1> HIDE DEF v
<1>6. rows'[r] # NoRow =>
        rows'[r].ticket = lastTicket' \/ (rows[r] # NoRow /\ rows'[r].ticket = rows[r].ticket)
  BY <1>3, <1>4
<1>7. \A s \in Request : s # r => rows'[s] = rows[s] \/ rows'[s] = NoRow
  BY <1>3, <1>4
<1>8. lastTicket' \in Nat /\ lastTicket <= lastTicket'
  BY <1>1
<1> QED BY <1>1, <1>4, <1>5, <1>6, <1>7, <1>8, TicketsStayBelow DEF TableInv

(* A poll and a renewal write the row of the run, under its old ticket.     *)
LEMMA UpdateKeepsTable ==
  ASSUME TypeOK, TableInv, NEW r \in Request, Poll(r) \/ Renew(r)
  PROVE  TableInv'
<1> DEFINE v == Expire(rows, clock)
<1>1. /\ rows \in Table /\ clock \in Nat /\ lastTicket \in Nat
      /\ Safe(rows) /\ TicketsBelow(rows, lastTicket + 1)
      /\ lastTicket' = lastTicket
      /\ rows' = TryAcquired(rows, r, clock) \/ rows' = Renewed(rows, r, clock)
  BY DEF TypeOK, TableInv, Poll, Renew
<1>2. v \in Table /\ \A s \in Request : v[s] = rows[s] \/ v[s] = NoRow
  BY <1>1, ExpireDeletes DEF Deletes
<1>3. /\ rows' \in Table
      /\ \A s \in Request : s # r => rows'[s] = v[s]
      /\ rows'[r] = v[r] \/ (v[r] # NoRow /\ SameRequest(rows'[r], v[r]))
  <2>1. v[r] = NoRow \/ v[r].state = "acquired" \/ v[r].state = "queued"
    BY <1>2 DEF Table, Row
  <2>2. CASE rows' = TryAcquired(rows, r, clock)
    BY <1>1, <2>1, <2>2, TryAcquiredRow
  <2>3. CASE rows' = Renewed(rows, r, clock)
    <3>1. /\ rows' \in Table
          /\ \A s \in Request : s # r => rows'[s] = v[s]
          /\ v[r] = NoRow => rows'[r] = NoRow
          /\ v[r] # NoRow => SameRequest(rows'[r], v[r])
      BY <1>1, <2>3, RenewedRow
    <3> QED BY <3>1
  <2> QED BY <1>1, <2>2, <2>3
<1>4. Safe(rows')
  BY <1>1, TryAcquiredSafe, RenewedSafe
<1> HIDE DEF v
<1>5. rows'[r] # NoRow => rows[r] # NoRow /\ rows'[r].ticket = rows[r].ticket
  BY <1>2, <1>3 DEF SameRequest
<1>6. \A s \in Request : s # r => rows'[s] = rows[s] \/ rows'[s] = NoRow
  BY <1>2, <1>3
<1> QED BY <1>1, <1>3, <1>4, <1>5, <1>6, TicketsStayBelow DEF TableInv

(* What only deletes rows, or leaves the table, keeps the claims.           *)
LEMMA DeletingKeepsTable ==
  ASSUME TableInv, lastTicket' = lastTicket, Deletes(rows, rows')
  PROVE  TableInv'
BY DeletesSafe DEF TableInv, TicketsBelow, Deletes, Present

(* The claims of the table are inductive whatever the processes do.         *)
LEMMA TableInvStep == TypeOK /\ TableInv /\ [Next]_vars => TableInv'
<1> SUFFICES ASSUME TypeOK, TableInv, [Next]_vars PROVE TableInv'
  OBVIOUS
<1>1. rows \in Table /\ clock \in Nat
  BY DEF TypeOK
<1>2. ASSUME NEW r \in Request, RunStep(r) \/ RenewFails(r) \/ ReleaseFails(r) PROVE TableInv'
  <2>1. CASE TimeOut(r) \/ Leave(r) \/ Release(r)
    <3>1. lastTicket' = lastTicket /\ (rows' = rows \/ rows' = Removed(rows, r))
      BY <2>1 DEF TimeOut, Leave, Release, Close
    <3> QED BY <1>1, <3>1, RemovedDeletes, DeletingKeepsTable DEF Deletes
  <2>2. CASE TryLock(r) \/ CancelAgain(r) \/ Crash(r) \/ RenewFails(r) \/ ReleaseFails(r)
    <3>1. lastTicket' = lastTicket /\ rows' = rows
      BY <2>2 DEF TryLock, CancelAgain, Crash, RenewFails, ReleaseFails
    <3> QED BY <1>1, <3>1, DeletingKeepsTable DEF Deletes
  <2> QED BY <1>2, <2>1, <2>2, StartKeepsTable, UpdateKeepsTable DEF RunStep
<1>3. CASE Tick \/ Reconcile \/ UNCHANGED vars
  <2>1. lastTicket' = lastTicket /\ (rows' = rows \/ rows' = Expire(rows, clock))
    BY <1>3 DEF Tick, Reconcile, vars
  <2> QED BY <1>1, <2>1, ExpireDeletes, DeletingKeepsTable DEF Deletes
<1> QED BY <1>2, <1>3 DEF Next

(* The empty table satisfies the claims.                                    *)
LEMMA InitTableInv == Init => TableInv
<1> SUFFICES ASSUME Init PROVE TableInv
  OBVIOUS
<1>1. rows \in Table
  BY InitLockInv DEF LockInv, TypeOK
<1>2. Present(rows) = {}
  BY DEF Init, Present
<1>3. \A w : Readers(rows, w) = {}
  BY <1>2 DEF Readers
<1> QED BY <1>1, <1>2, <1>3, FS_EmptySet, LimitAssumption
        DEF TableInv, Safe, AdmittedAlone, FirstComeFirstServed, TicketsBelow

(* The claims that WorkspaceAdmission makes of the table alone hold of it   *)
(* under the runs of admitted_workspace: acquired rows do not conflict, no  *)
(* row is let past a conflicting one with a lower ticket, and no workspace  *)
(* has more readers than slots; though processes stall past their leases,   *)
(* renewals fail, and rows outlive their runs.                              *)
THEOREM TableSafe == Spec => []Safe(rows)
<1>1. TypeOK /\ TableInv /\ [Next]_vars => TableInv'
  BY TableInvStep
<1>2. TableInv => Safe(rows)
  BY DEF TableInv
<1> QED BY <1>1, <1>2, InitTableInv, TypeCorrect, PTL DEF Spec

-----------------------------------------------------------------------------
(* The two layers, under PromptSpec.                                        *)

(* While processes keep up: the row of a run says where the run is.         *)
RowOf(r) ==
  /\ rows[r] # NoRow =>
       /\ ask[r] \in Ask
       /\ rows[r].workspace = ask[r].workspace
       /\ rows[r].access = AccessOf(ask[r])
  /\ pc[r] = "idle" => rows[r] = NoRow
  /\ pc[r] = "queued" =>
       rows[r] # NoRow /\ rows[r].state = "queued" /\ rows[r].lease > clock

(* The renewal task runs from admission to the end of the body; it wakes up *)
(* with two thirds of the lease left.                                       *)
RenewedInTime(r) ==
  /\ pc[r] \in {"idle", "queued"} => renewal[r] = "none"
  /\ renewal[r] = "running" <=> pc[r] \in {"admitted", "locking", "working"}
  /\ renewal[r] = "running" =>
       /\ rows[r] # NoRow /\ rows[r].state = "acquired"
       /\ clock <= renewAt[r]
       /\ rows[r].lease = renewAt[r] + 2 * (Lease \div 3)

PromptInv ==
  /\ LockInv
  /\ TableInv
  /\ \A r \in Request : RowOf(r) /\ RenewedInTime(r)

(* A renewal period and the two thirds of the lease that are left after it. *)
LEMMA Thirds ==
  /\ Lease \div 3 \in Nat \ {0}
  /\ Lease = Lease \div 3 + 2 * (Lease \div 3)
BY LeaseAssumption, LeaseThirds

(* The row of a run that waits or works is live: no transaction deletes it. *)
LEMMA LiveRow ==
  ASSUME PromptInv, NEW r \in Request, pc[r] \in {"queued", "admitted", "locking", "working"}
  PROVE  /\ rows[r] # NoRow /\ rows[r] \in Row /\ rows[r].lease > clock
         /\ Expire(rows, clock)[r] = rows[r]
<1>1. /\ rows \in Table /\ clock \in Nat /\ renewAt[r] \in Nat
      /\ RowOf(r) /\ RenewedInTime(r)
  BY DEF PromptInv, LockInv, TypeOK
<1>2. rows[r] # NoRow /\ rows[r].lease > clock
  BY <1>1, Thirds DEF RowOf, RenewedInTime
<1>3. rows[r] \in Row
  BY <1>1, <1>2 DEF Table
<1> QED BY <1>1, <1>2, <1>3 DEF Expire, Row

(* A run whose own step it is not keeps its row, or loses one that is past  *)
(* its lease and that no task of its renews.                                *)
LEMMA Bystander ==
  ASSUME PromptInv, NEW s \in Request, clock' = clock,
         pc'[s] = pc[s], ask'[s] = ask[s],
         renewal'[s] = renewal[s], renewAt'[s] = renewAt[s],
         rows'[s] = rows[s] \/ rows'[s] = Expire(rows, clock)[s]
  PROVE  RowOf(s)' /\ RenewedInTime(s)'
<1>1. RowOf(s) /\ RenewedInTime(s) /\ rows \in Table /\ clock \in Nat
  BY DEF PromptInv, LockInv, TypeOK
<1>2. rows'[s] = rows[s] \/ rows'[s] = NoRow
  BY <1>1, ExpireDeletes DEF Deletes
<1>3. pc[s] \in {"queued", "admitted", "locking", "working"} => rows'[s] = rows[s]
  BY LiveRow
<1> QED BY <1>1, <1>2, <1>3 DEF RowOf, RenewedInTime, AccessOf

(* What is left to show of each step.                                       *)
Kept == \A s \in Request : RowOf(s)' /\ RenewedInTime(s)'

(* The new row stands for the run under a ticket of its own.                *)
LEMMA StartKeeps ==
  ASSUME PromptInv, NEW r \in Request, NEW a \in Asks, Start(r, a)
  PROVE  Kept
<1> DEFINE v == Expire(rows, clock)
<1>1. /\ rows \in Table /\ clock \in Nat /\ lastTicket \in Nat /\ LockInv
      /\ RowOf(r) /\ RenewedInTime(r)
      /\ pc \in [Request -> PC] /\ ask \in [Request -> Ask \cup {NoAsk}]
  BY DEF PromptInv, LockInv, TypeOK
<1>2. /\ a \in Ask /\ AccessOf(a) \in Access /\ a.workspace \in Workspace
  BY AsksAssumption, AccessOfAsk
<1>3. /\ pc[r] = "idle" /\ pc'[r] = "queued" /\ ask'[r] = a /\ clock' = clock
      /\ lastTicket' = lastTicket + 1 /\ renewal' = renewal /\ renewAt' = renewAt
      /\ \A s \in Request : s # r => pc'[s] = pc[s] /\ ask'[s] = ask[s]
      /\ rows' = Enqueued(rows, r, a.workspace, AccessOf(a), clock, lastTicket + 1)
  BY <1>1 DEF Start, Goto
<1>4. rows[r] = NoRow /\ renewal[r] = "none"
  BY <1>1, <1>3 DEF RowOf, RenewedInTime
<1>5. v[r] = NoRow /\ \A s \in Request : v[s] = rows[s] \/ v[s] = NoRow
  BY <1>1, <1>4, ExpireDeletes DEF Deletes
<1>6. /\ rows' \in Table
      /\ \A s \in Request : s # r => rows'[s] = v[s]
      /\ rows'[r] \in Row
      /\ rows'[r].workspace = a.workspace /\ rows'[r].access = AccessOf(a)
      /\ rows'[r].state = "queued" /\ rows'[r].ticket = lastTicket + 1
      /\ rows'[r].lease = clock + Lease
  BY <1>1, <1>2, <1>3, <1>5, EnqueuedRow
<1>7. RowOf(r)' /\ RenewedInTime(r)'
  <2>1. RowOf(r)'
    BY <1>1, <1>2, <1>3, <1>6, LeaseAssumption, NoRowAssumption DEF RowOf, AccessOf
  <2> QED BY <1>3, <1>4, <2>1 DEF RenewedInTime
<1>8. ASSUME NEW s \in Request, s # r PROVE RowOf(s)' /\ RenewedInTime(s)'
  BY <1>3, <1>6, <1>8, Bystander
<1> QED BY <1>7, <1>8 DEF Kept

(* A step that leaves the other runs, and deletes at most rows of theirs    *)
(* that are past their lease.                                               *)
LEMMA OneRowKeeps ==
  ASSUME PromptInv, NEW r \in Request, clock' = clock,
         \A s \in Request \ {r} : /\ pc'[s] = pc[s] /\ ask'[s] = ask[s]
                                  /\ renewal'[s] = renewal[s] /\ renewAt'[s] = renewAt[s],
         \A s \in Request \ {r} : rows'[s] = rows[s] \/ rows'[s] = Expire(rows, clock)[s],
         RowOf(r)', RenewedInTime(r)'
  PROVE  Kept
<1>1. \A s \in Request \ {r} : RowOf(s)' /\ RenewedInTime(s)'
  BY Bystander
<1> QED BY <1>1 DEF Kept

(* Polling acquires the row and starts its renewal, or keeps the row alive. *)
LEMMA PollKeeps ==
  ASSUME PromptInv, NEW r \in Request, Poll(r)
  PROVE  Kept
<1> DEFINE v == Expire(rows, clock)
<1>1. /\ rows \in Table /\ clock \in Nat /\ RowOf(r) /\ RenewedInTime(r)
      /\ pc \in [Request -> PC] /\ renewal \in [Request -> {"none", "running", "stopped"}]
      /\ renewAt \in [Request -> Nat]
  BY DEF PromptInv, LockInv, TypeOK
<1>2. /\ pc[r] = "queued" /\ rows' = TryAcquired(rows, r, clock)
      /\ clock' = clock /\ lastTicket' = lastTicket /\ ask' = ask
  BY DEF Poll
<1>3. /\ rows[r] # NoRow /\ rows[r] \in Row /\ rows[r].state = "queued" /\ v[r] = rows[r]
      /\ rows[r].workspace = ask[r].workspace /\ rows[r].access = AccessOf(ask[r])
      /\ ask[r] \in Ask
  BY <1>1, <1>2, LiveRow DEF RowOf
<1>4. /\ rows' \in Table /\ rows'[r] \in Row /\ SameRequest(rows'[r], rows[r])
      /\ rows'[r].lease = clock + Lease
      /\ \A s \in Request : s # r => rows'[s] = v[s]
  BY <1>1, <1>2, <1>3, TryAcquiredRow
<1>6. rows'[r] # NoRow
  BY <1>4, NoRowAssumption
<1>7. \A s \in Request \ {r} : /\ pc'[s] = pc[s] /\ ask'[s] = ask[s]
                               /\ renewal'[s] = renewal[s] /\ renewAt'[s] = renewAt[s]
  BY <1>1 DEF Poll, Goto
<1>8. RowOf(r)' /\ RenewedInTime(r)'
  <2>1. /\ ask'[r] \in Ask
        /\ rows'[r].workspace = ask'[r].workspace /\ rows'[r].access = AccessOf(ask'[r])
    BY <1>2, <1>3, <1>4 DEF SameRequest, AccessOf
  <2>2. CASE rows'[r].state = "acquired"
    <3>1. /\ pc'[r] = "admitted" /\ renewal'[r] = "running"
          /\ renewAt'[r] = clock + Lease \div 3
      BY <1>1, <1>6, <2>2 DEF Poll, Goto
    <3>2. rows'[r].lease = renewAt'[r] + 2 * (Lease \div 3) /\ clock <= renewAt'[r]
      BY <1>1, <1>4, <3>1, Thirds
    <3> QED BY <1>2, <1>6, <2>1, <2>2, <3>1, <3>2 DEF RowOf, RenewedInTime, AccessOf
  <2>3. CASE rows'[r].state = "queued"
    <3>1. pc'[r] = "queued" /\ renewal'[r] = "none"
      BY <1>1, <1>2, <1>6, <2>3 DEF Poll, RenewedInTime
    <3>2. rows'[r].lease > clock'
      BY <1>1, <1>2, <1>4, LeaseAssumption
    <3> QED BY <1>6, <2>1, <2>3, <3>1, <3>2 DEF RowOf, RenewedInTime, AccessOf
  <2> QED BY <1>4, <2>2, <2>3 DEF Row
<1> QED BY <1>2, <1>4, <1>7, <1>8, OneRowKeeps

(* Closing deletes the row, or stops its renewal and leaves it.             *)
LEMMA CloseKeeps ==
  ASSUME PromptInv, NEW r \in Request, Close(r),
         pc[r] \in {"queued", "admitted", "locking", "working"}
  PROVE  Kept
<1>1. /\ rows \in Table /\ RowOf(r) /\ RenewedInTime(r)
      /\ pc \in [Request -> PC] /\ renewal \in [Request -> {"none", "running", "stopped"}]
  BY DEF PromptInv, LockInv, TypeOK
<1>2. /\ \/ rows' = Removed(rows, r) /\ pc'[r] = "done" /\ renewal'[r] = "none"
         \/ rows' = rows /\ pc'[r] = "gathering" /\ renewal'[r] = "stopped"
      /\ clock' = clock /\ lastTicket' = lastTicket /\ ask' = ask /\ renewAt' = renewAt
      /\ \A s \in Request \ {r} : pc'[s] = pc[s] /\ renewal'[s] = renewal[s]
  BY <1>1 DEF Close, Goto
<1>3. /\ rows' \in Table /\ \A s \in Request \ {r} : rows'[s] = rows[s]
      /\ rows'[r] = NoRow \/ rows'[r] = rows[r]
  BY <1>1, <1>2 DEF Removed, Table
<1>5. RowOf(r)' /\ RenewedInTime(r)'
  BY <1>1, <1>2, <1>3 DEF RowOf, RenewedInTime, AccessOf
<1> QED BY <1>2, <1>3, <1>5, OneRowKeeps

(* Releasing deletes the row.                                               *)
LEMMA ReleaseKeeps ==
  ASSUME PromptInv, NEW r \in Request, Release(r)
  PROVE  Kept
<1>1. /\ rows \in Table /\ RowOf(r) /\ RenewedInTime(r)
      /\ pc \in [Request -> PC]
  BY DEF PromptInv, LockInv, TypeOK
<1>2. /\ rows' = Removed(rows, r) /\ pc[r] = "gathering" /\ pc'[r] = "done"
      /\ UNCHANGED <<clock, lastTicket, ask, renewal, renewAt>>
      /\ \A s \in Request \ {r} : pc'[s] = pc[s]
  BY <1>1 DEF Release, Goto
<1>3. rows' \in Table /\ rows'[r] = NoRow /\ \A s \in Request \ {r} : rows'[s] = rows[s]
  BY <1>1, <1>2 DEF Removed, Table
<1>5. RowOf(r)' /\ RenewedInTime(r)'
  BY <1>1, <1>2, <1>3 DEF RowOf, RenewedInTime
<1> QED BY <1>2, <1>3, <1>5, OneRowKeeps

(* Taking the file, crashing and being cancelled again leave the table.     *)
LEMMA TableStays ==
  ASSUME PromptInv, NEW r \in Request, TryLock(r) \/ CancelAgain(r) \/ Crash(r)
  PROVE  Kept
<1>1. /\ rows \in Table /\ RowOf(r) /\ RenewedInTime(r)
      /\ pc \in [Request -> PC] /\ renewal \in [Request -> {"none", "running", "stopped"}]
  BY DEF PromptInv, LockInv, TypeOK
<1>2. /\ UNCHANGED <<clock, rows, lastTicket, ask, renewAt>>
      /\ \A s \in Request \ {r} : pc'[s] = pc[s] /\ renewal'[s] = renewal[s]
      /\ \/ /\ pc[r] \in {"admitted", "locking"} /\ pc'[r] \in {"locking", "working"}
            /\ renewal'[r] = renewal[r]
         \/ pc[r] = "gathering" /\ pc'[r] = "done" /\ renewal'[r] = renewal[r]
         \/ pc'[r] = "dead" /\ renewal'[r] = "stopped"
  BY <1>1 DEF TryLock, CancelAgain, Crash, Goto
<1>3. RowOf(r)' /\ RenewedInTime(r)'
  BY <1>1, <1>2 DEF RowOf, RenewedInTime, AccessOf
<1> QED BY <1>1, <1>2, <1>3, OneRowKeeps

(* The renewal finds its row and sets its lease a whole period further.     *)
LEMMA RenewKeeps ==
  ASSUME PromptInv, NEW r \in Request, Renew(r)
  PROVE  Kept
<1> DEFINE v == Expire(rows, clock)
<1>1. /\ rows \in Table /\ clock \in Nat /\ RowOf(r) /\ RenewedInTime(r)
      /\ renewal \in [Request -> {"none", "running", "stopped"}]
      /\ renewAt \in [Request -> Nat]
  BY DEF PromptInv, LockInv, TypeOK
<1>2. /\ renewal[r] = "running" /\ rows' = Renewed(rows, r, clock)
      /\ renewAt'[r] = clock + Lease \div 3
      /\ renewal'[r] = IF rows'[r] = NoRow THEN "stopped" ELSE renewal[r]
      /\ UNCHANGED <<clock, lastTicket, ask, pc>>
      /\ \A s \in Request \ {r} : renewal'[s] = renewal[s] /\ renewAt'[s] = renewAt[s]
  BY <1>1 DEF Renew
<1>3. pc[r] \in {"admitted", "locking", "working"} /\ rows[r].state = "acquired"
  BY <1>1, <1>2 DEF RenewedInTime
<1>4. /\ rows[r] # NoRow /\ v[r] = rows[r]
      /\ rows[r].workspace = ask[r].workspace /\ rows[r].access = AccessOf(ask[r])
      /\ ask[r] \in Ask
  BY <1>1, <1>3, LiveRow DEF RowOf
<1>5. /\ rows' \in Table /\ rows'[r] \in Row /\ SameRequest(rows'[r], rows[r])
      /\ rows'[r].state = "acquired" /\ rows'[r].lease = clock + Lease
      /\ \A s \in Request : s # r => rows'[s] = v[s]
  <2>1. /\ rows' \in Table
        /\ \A s \in Request : s # r => rows'[s] = v[s]
        /\ v[r] # NoRow => /\ rows'[r] \in Row /\ rows'[r].state = v[r].state
                          /\ SameRequest(rows'[r], v[r])
                          /\ rows'[r].lease = clock + Lease
    BY <1>1, <1>2, RenewedRow
  <2> QED BY <1>3, <1>4, <2>1
<1>7. rows'[r] # NoRow /\ renewal'[r] = "running"
  BY <1>2, <1>5, NoRowAssumption
<1>8. RowOf(r)' /\ RenewedInTime(r)'
  <2>1. rows'[r].lease = renewAt'[r] + 2 * (Lease \div 3) /\ clock' <= renewAt'[r]
    BY <1>1, <1>2, <1>5, Thirds
  <2> QED BY <1>2, <1>3, <1>4, <1>5, <1>7, <2>1
          DEF RowOf, RenewedInTime, SameRequest, AccessOf
<1> QED BY <1>2, <1>5, <1>8, OneRowKeeps

(* Time passes no renewal that is due and no lease of a waiting run.        *)
LEMMA PromptTickKeeps == PromptInv /\ PromptTick => Kept
<1> SUFFICES ASSUME PromptInv, PromptTick PROVE Kept
  OBVIOUS
<1>1. /\ clock' = clock + 1 /\ clock \in Nat
      /\ UNCHANGED <<rows, lastTicket, pc, ask, renewal, renewAt>>
  BY DEF PromptTick, Tick, PromptInv, LockInv, TypeOK
<1>2. ASSUME NEW r \in Request PROVE RowOf(r)' /\ RenewedInTime(r)'
  <2>1. /\ RowOf(r) /\ RenewedInTime(r) /\ renewAt[r] \in Nat
        /\ renewal[r] = "running" => clock < renewAt[r]
        /\ pc[r] = "queued" => clock + 1 < rows[r].lease
    BY DEF PromptTick, PromptInv, LockInv, TypeOK
  <2>2. pc[r] = "queued" => rows[r] \in Row
    BY LiveRow
  <2> QED BY <1>1, <2>1, <2>2 DEF RowOf, RenewedInTime, AccessOf, Row
<1> QED BY <1>1, <1>2 DEF Kept, PromptInv

(* A call for another workspace deletes no row of a run that needs it.      *)
LEMMA ReconcileKeeps == PromptInv /\ Reconcile => Kept
BY Bystander DEF Reconcile, Kept

(* The invariant of the two layers is inductive while processes keep up.    *)
LEMMA PromptInvStep == PromptInv /\ [PromptNext]_vars => PromptInv'
<1> SUFFICES ASSUME PromptInv, [PromptNext]_vars PROVE PromptInv'
  OBVIOUS
<1>1. [Next]_vars
  BY DEF PromptNext, Next, PromptTick
<1>2. LockInv'
  BY <1>1, LockInvStep DEF PromptInv
<1>3. ASSUME NEW r \in Request, RunStep(r) PROVE Kept
  BY <1>3, StartKeeps, PollKeeps, CloseKeeps, TableStays, ReleaseKeeps, RenewKeeps
     DEF RunStep, TimeOut, Leave
<1>4. ASSUME UNCHANGED vars PROVE Kept
  BY <1>4 DEF vars, PromptInv, Kept, RowOf, RenewedInTime, AccessOf
<1>5. TableInv'
  BY <1>1, TableInvStep DEF PromptInv, LockInv
<1> QED BY <1>2, <1>3, <1>4, <1>5, PromptTickKeeps, ReconcileKeeps
        DEF PromptNext, Kept, PromptInv

(* It holds of the start.                                                   *)
LEMMA InitPromptInv == Init => PromptInv
BY InitLockInv, InitTableInv DEF Init, PromptInv, RowOf, RenewedInTime

(* And so of every behaviour in which processes keep up.                    *)
LEMMA PromptInvariance == PromptSpec => []PromptInv
BY InitPromptInv, PromptInvStep, PTL DEF PromptSpec

(* While processes keep up, a run works under a live acquired row all the   *)
(* time: a renewal every third of a lease is enough, whatever the others do.*)
THEOREM HolderKeepsAdmissionHolds == PromptSpec => []HolderKeepsAdmission
<1>1. PromptInv => HolderKeepsAdmission
  <2> SUFFICES ASSUME PromptInv, NEW r \in Request, flock[r]
               PROVE  /\ rows[r] # NoRow /\ rows[r].state = "acquired"
                      /\ rows[r].lease > clock
    BY DEF HolderKeepsAdmission
  <2>1. pc[r] = "working" /\ RenewedInTime(r)
    BY DEF PromptInv, LockInv, HeldWhileWorking
  <2> QED BY <2>1, LiveRow DEF RenewedInTime
<1> QED BY <1>1, PromptInvariance, PTL

(* While processes keep up, the admission table admits no run that the lock *)
(* file would turn away.                                                    *)
THEOREM AdmittedFindsLockFreeHolds == PromptSpec => []AdmittedFindsLockFree
<1>1. PromptInv => AdmittedFindsLockFree
  <2> SUFFICES ASSUME PromptInv, NEW r \in Request, pc[r] \in {"admitted", "locking"},
                      NEW s \in Request \ {r}, flock[s],
                      ask[s].workspace = ask[r].workspace,
                      "exclusive" \in {AccessOf(ask[s]), AccessOf(ask[r])}
               PROVE  FALSE
    BY DEF AdmittedFindsLockFree, Busy
  <2>1. pc[s] = "working"
    BY DEF PromptInv, LockInv, HeldWhileWorking
  <2>2. \A q \in {r, s} :
          /\ rows[q] # NoRow /\ rows[q].state = "acquired"
          /\ rows[q].workspace = ask[q].workspace /\ rows[q].access = AccessOf(ask[q])
    BY <2>1 DEF PromptInv, RowOf, RenewedInTime
  <2>3. r \in Present(rows) /\ s \in Present(rows) /\ Conflict(rows, r, s)
    BY <2>2 DEF Present, Conflict
  <2> QED BY <2>2, <2>3 DEF PromptInv, TableInv, Safe, AdmittedAlone
<1> QED BY <1>1, PromptInvariance, PTL
=============================================================================
