---------------------- MODULE WorkspaceAdmission_proofs ----------------------
(***************************************************************************)
(* The theorems about the admission table: for any number of requests,     *)
(* workspaces and reader slots, any lease, and any interleaving of calls   *)
(* with times as old as they come.                                         *)
(***************************************************************************)
EXTENDS WorkspaceAdmission, AdmissionTable_proofs

(* A row's lease was counted from a time before the request's last call     *)
(* ended: the next call, which reads the clock after that, counts from no   *)
(* earlier time.                                                            *)
LeasesCounted ==
  \A r \in Present(rows) : rows[r].lease <= since[r] + Lease

IInv ==
  /\ TypeOK
  /\ Safe(rows)
  /\ TicketsBelow(rows, lastTicket + 1)
  /\ \A r \in Request : since[r] <= clock
  /\ LeasesCounted

(* The empty table satisfies the invariant.                                 *)
LEMMA InitIInv == Init => IInv
<1> SUFFICES ASSUME Init PROVE IInv
  OBVIOUS
<1>1. TypeOK
  BY DEF Init, TypeOK, Table
<1>2. Present(rows) = {}
  BY DEF Init, Present
<1>3. Safe(rows)
  <2>1. \A w : Readers(rows, w) = {}
    BY <1>2 DEF Readers
  <2> QED BY <1>1, <1>2, <2>1, FS_EmptySet, LimitAssumption
          DEF Safe, TypeOK, AdmittedAlone, FirstComeFirstServed
<1> QED BY <1>1, <1>2, <1>3 DEF IInv, TicketsBelow, LeasesCounted, Init

(* Deleting rows keeps the part of the invariant that speaks of every row.  *)
LEMMA DeletesKeeps ==
  ASSUME IInv, NEW u, Deletes(rows, u)
  PROVE  /\ TicketsBelow(u, lastTicket + 1)
         /\ \A r \in Present(u) : u[r].lease <= since[r] + Lease
BY DEF IInv, Deletes, TicketsBelow, LeasesCounted, Present

(* A call that writes the row of r at a time since r's last call.           *)
LEMMA CallKeeps ==
  ASSUME IInv, NEW r \in Request, NEW now \in since[r] .. clock, NEW u \in Table,
         Ended(r),
         \A s \in Request : s # r => u[s] = Expire(rows, now)[s],
         u[r] # NoRow => u[r].lease = now + Lease \/ u[r] = Expire(rows, now)[r]
  PROVE  /\ since' \in [Request -> Nat] /\ \A s \in Request : since'[s] <= clock
         /\ \A s \in Present(u) : u[s].lease <= since'[s] + Lease
<1>1. /\ since \in [Request -> Nat] /\ clock \in Nat /\ rows \in Table
      /\ now \in Nat /\ since[r] <= now /\ now <= clock
      /\ since' = [since EXCEPT ![r] = clock]
      /\ \A s \in Request : since[s] <= clock
  BY DEF IInv, TypeOK, Ended
<1>2. /\ since' \in [Request -> Nat]
      /\ \A s \in Request : since'[s] <= clock /\ since[s] <= since'[s]
      /\ since'[r] = clock
  BY <1>1
<1>3. ASSUME NEW s \in Present(u) PROVE u[s].lease <= since'[s] + Lease
  <2>1. u[s] \in Row
    BY DEF Present, Table
  <2>2. CASE u[s] = Expire(rows, now)[s]
    <3>1. s \in Present(rows) /\ u[s] = rows[s]
      BY <1>1, <2>2, ExpireDeletes DEF Present
    <3>2. u[s].lease <= since[s] + Lease
      BY <3>1 DEF IInv, LeasesCounted
    <3> QED BY <1>1, <1>2, <2>1, <3>2, LeaseAssumption DEF Row, Present
  <2>3. CASE s = r /\ u[r].lease = now + Lease
    BY <1>1, <1>2, <2>3, LeaseAssumption
  <2> QED BY <2>2, <2>3 DEF Present
<1> QED BY <1>2, <1>3

(* enqueue keeps the invariant.                                             *)
LEMMA EnqueueKeeps ==
  ASSUME IInv, NEW r \in Request, NEW now \in since[r] .. clock,
         NEW w \in Workspace, NEW a \in Access, Enqueue(r, w, a, now)
  PROVE  IInv'
<1> DEFINE v == Expire(rows, now)
<1>1. /\ rows \in Table /\ Safe(rows) /\ lastTicket \in Nat /\ clock \in Nat /\ now \in Nat
      /\ since \in [Request -> Nat]
  BY DEF IInv, TypeOK
<1>2. /\ rows' \in Table
      /\ \A s \in Request : s # r => rows'[s] = v[s]
      /\ v[r] # NoRow => rows'[r] = v[r]
      /\ v[r] = NoRow => /\ rows'[r] \in Row /\ rows'[r].ticket = lastTicket + 1
                         /\ rows'[r].lease = now + Lease
  BY <1>1, EnqueuedRow DEF Enqueue
<1>3. Safe(rows')
  BY <1>1, EnqueuedSafe DEF Enqueue, IInv
<1>4. /\ clock' = clock /\ Ended(r)
      /\ lastTicket' = IF v[r] = NoRow THEN lastTicket + 1 ELSE lastTicket
  BY DEF Enqueue
<1>5. /\ since' \in [Request -> Nat] /\ \A s \in Request : since'[s] <= clock
      /\ \A s \in Present(rows') : rows'[s].lease <= since'[s] + Lease
  BY <1>2, <1>4, CallKeeps
<1>6. TicketsBelow(v, lastTicket + 1)
  BY <1>1, ExpireDeletes, DeletesKeeps
<1> HIDE DEF v
<1>7. TicketsBelow(rows', lastTicket' + 1)
  <2> SUFFICES ASSUME NEW s \in Present(rows') PROVE rows'[s].ticket < lastTicket' + 1
    BY DEF TicketsBelow
  <2>1. CASE s # r \/ v[r] # NoRow
    <3>1. s \in Present(v) /\ rows'[s] = v[s]
      BY <1>2, <2>1 DEF Present
    <3>2. rows'[s].ticket \in Nat
      BY <1>2 DEF Present, Table, Row
    <3> QED BY <1>1, <1>4, <1>6, <3>1, <3>2 DEF TicketsBelow
  <2>2. CASE s = r /\ v[r] = NoRow
    BY <1>1, <1>2, <1>4, <2>2
  <2> QED BY <2>1, <2>2
<1> QED BY <1>1, <1>2, <1>3, <1>4, <1>5, <1>7 DEF IInv, TypeOK, LeasesCounted

(* try_acquire and renew leave the tickets of the rows they find.           *)
LEMMA PollKeeps ==
  ASSUME IInv, NEW r \in Request, NEW now \in since[r] .. clock,
         TryAcquire(r, now) \/ Renew(r, now)
  PROVE  IInv'
<1> DEFINE v == Expire(rows, now)
<1>1. /\ rows \in Table /\ Safe(rows) /\ lastTicket \in Nat /\ clock \in Nat /\ now \in Nat
      /\ since \in [Request -> Nat]
  BY DEF IInv, TypeOK
<1>2. /\ rows' \in Table
      /\ \A s \in Request : s # r => rows'[s] = v[s]
      /\ \/ rows'[r] = v[r]
         \/ /\ v[r] # NoRow
            /\ SameRequest(rows'[r], v[r])
            /\ rows'[r].lease = now + Lease
  <2>1. CASE TryAcquire(r, now)
    <3>1. v \in Table
      BY <1>1, ExpireDeletes DEF Deletes
    <3>2. v[r] = NoRow \/ v[r].state = "acquired" \/ v[r].state = "queued"
      BY <3>1 DEF Table, Row
    <3> QED BY <1>1, <2>1, <3>2, TryAcquiredRow DEF TryAcquire
  <2>2. CASE Renew(r, now)
    <3>1. rows' = Renewed(rows, r, now)
      BY <2>2 DEF Renew
    <3>2. /\ rows' \in Table
          /\ \A s \in Request : s # r => rows'[s] = v[s]
      BY <1>1, <3>1, RenewedRow
    <3>3. /\ v[r] = NoRow => rows'[r] = NoRow
          /\ v[r] # NoRow => /\ SameRequest(rows'[r], v[r])
                            /\ rows'[r].lease = now + Lease
      BY <1>1, <3>1, RenewedRow
    <3> HIDE DEF v
    <3> QED BY <3>2, <3>3
  <2> QED BY <2>1, <2>2
<1>3. Safe(rows')
  BY <1>1, TryAcquiredSafe, RenewedSafe DEF TryAcquire, Renew
<1>4. clock' = clock /\ lastTicket' = lastTicket /\ Ended(r)
  BY DEF TryAcquire, Renew
<1>5. /\ since' \in [Request -> Nat] /\ \A s \in Request : since'[s] <= clock
      /\ \A s \in Present(rows') : rows'[s].lease <= since'[s] + Lease
  BY <1>2, <1>4, CallKeeps
<1>6. TicketsBelow(v, lastTicket + 1)
  BY <1>1, ExpireDeletes, DeletesKeeps
<1> HIDE DEF v
<1>7. TicketsBelow(rows', lastTicket' + 1)
  BY <1>2, <1>4, <1>6 DEF TicketsBelow, Present, SameRequest
<1> QED BY <1>1, <1>2, <1>3, <1>4, <1>5, <1>7 DEF IInv, TypeOK, LeasesCounted

(* release and cancel keep the invariant.                                   *)
LEMMA RemoveKeeps ==
  ASSUME IInv, NEW r \in Request, Remove(r)
  PROVE  IInv'
<1>1. /\ rows \in Table /\ Safe(rows) /\ clock \in Nat /\ since \in [Request -> Nat]
      /\ rows' = Removed(rows, r) /\ since' = [since EXCEPT ![r] = clock]
      /\ clock' = clock /\ lastTicket' = lastTicket
      /\ \A s \in Request : since[s] <= clock
  BY DEF IInv, TypeOK, Remove, Ended
<1>2. Deletes(rows, rows') /\ rows' \in Table
  BY <1>1, RemovedDeletes DEF Deletes
<1>3. /\ TicketsBelow(rows', lastTicket + 1)
      /\ \A s \in Present(rows') : rows'[s].lease <= since[s] + Lease
  BY <1>2, DeletesKeeps
<1>4. \A s \in Request : /\ since'[s] \in Nat /\ since[s] \in Nat
                         /\ since'[s] <= clock /\ since[s] <= since'[s]
  BY <1>1
<1>5. LeasesCounted'
  <2> SUFFICES ASSUME NEW s \in Present(rows')
               PROVE  rows'[s].lease <= since'[s] + Lease
    BY DEF LeasesCounted
  <2>1. rows'[s].lease \in Nat /\ s \in Request
    BY <1>2 DEF Present, Table, Row
  <2> QED BY <1>3, <1>4, <2>1, LeaseAssumption
<1>6. Safe(rows')
  BY <1>1, RemovedSafe
<1> QED BY <1>1, <1>2, <1>3, <1>4, <1>5, <1>6 DEF IInv, TypeOK

(* reconcile_expired_admissions keeps the invariant.                        *)
LEMMA SweepKeeps ==
  ASSUME IInv, NEW now \in 0 .. clock, Sweep(now)
  PROVE  IInv'
<1>1. /\ rows \in Table /\ Safe(rows) /\ now \in Nat
      /\ rows' = Expire(rows, now) /\ UNCHANGED <<clock, lastTicket, since>>
  BY DEF IInv, TypeOK, Sweep
<1>2. Deletes(rows, rows') /\ rows' \in Table
  BY <1>1, ExpireDeletes DEF Deletes
<1>3. /\ TicketsBelow(rows', lastTicket + 1)
      /\ \A s \in Present(rows') : rows'[s].lease <= since[s] + Lease
  BY <1>2, DeletesKeeps
<1>4. Safe(rows')
  BY <1>1, ExpireSafe
<1> QED BY <1>1, <1>2, <1>3, <1>4 DEF IInv, TypeOK, LeasesCounted

(* So does the passing of time.                                             *)
LEMMA TickKeeps == IInv /\ Tick => IInv'
BY DEF IInv, TypeOK, Tick, Table, LeasesCounted

(* Every step keeps the invariant.                                          *)
LEMMA NextIInv == IInv /\ [Next]_vars => IInv'
<1> SUFFICES ASSUME IInv, [Next]_vars PROVE IInv'
  OBVIOUS
<1>1. CASE Tick
  BY <1>1, TickKeeps
<1>2. ASSUME NEW now \in 0 .. clock, Sweep(now) PROVE IInv'
  BY <1>2, SweepKeeps
<1>3. ASSUME NEW r \in Request, NEW now \in since[r] .. clock, CallStep(r, now)
      PROVE  IInv'
  BY <1>3, EnqueueKeeps, PollKeeps DEF CallStep
<1>4. ASSUME NEW r \in Request, Remove(r) PROVE IInv'
  BY <1>4, RemoveKeeps
<1>5. CASE UNCHANGED vars
  BY <1>5 DEF vars, IInv, TypeOK, LeasesCounted
<1> QED BY <1>1, <1>2, <1>3, <1>4, <1>5 DEF Next

(* The invariant holds in every behaviour of the admission API.             *)
LEMMA Invariance == Spec => []IInv
BY InitIInv, NextIInv, PTL DEF Spec

-----------------------------------------------------------------------------
(* Every reachable table is a table of well-formed rows.                    *)
THEOREM TypeCorrect == Spec => []TypeOK
<1>1. IInv => TypeOK
  BY DEF IInv
<1> QED BY Invariance, <1>1, PTL

(* An acquired editor is the only acquired request of its workspace         *)
(* (try_acquire_workspace_admission, whatever times its rivals commit with).*)
THEOREM ExclusiveAloneHolds == Spec => []ExclusiveAlone
<1>1. IInv => ExclusiveAlone
  BY DEF IInv, Safe, ExclusiveAlone
<1> QED BY Invariance, <1>1, PTL

(* No acquired request was let past a queued one that came before it and    *)
(* conflicts with it.                                                       *)
THEOREM NoOvertakingHolds == Spec => []NoOvertaking
<1>1. IInv => NoOvertaking
  BY DEF IInv, Safe, NoOvertaking
<1> QED BY Invariance, <1>1, PTL

(* At most reader_limit readers are acquired in a workspace.                *)
THEOREM ReadersBoundedHolds == Spec => []ReadersBounded
<1>1. IInv => ReadersBounded
  BY DEF IInv, Safe, ReadersBounded
<1> QED BY Invariance, <1>1, PTL

(* The snapshot's blockers are empty exactly when try_acquire would succeed.*)
THEOREM BlockersExplainWaitHolds == Spec => []BlockersExplainWait
<1>1. IInv => BlockersExplainWait
  <2> SUFFICES ASSUME IInv, NEW r \in Present(rows), NEW now \in 0 .. clock,
                      rows[r].state = "queued", rows[r].lease > now
               PROVE  Blockers(rows, r, now) = {} <=> Eligible(Expire(rows, now), r, now)
    BY DEF BlockersExplainWait
  <2>1. rows \in Table /\ now \in Nat
    BY DEF IInv, TypeOK
  <2> QED BY <2>1, BlockersExplain
<1> QED BY Invariance, <1>1, PTL

(* A row whose lease the clock has not passed goes only when its own run    *)
(* removes it.                                                              *)
LEMMA ReapsOnlyExpired ==
  ASSUME IInv, [Next]_vars, NEW r \in Request, rows[r] # NoRow, rows'[r] = NoRow
  PROVE  rows[r].lease <= clock \/ Remove(r)
<1>1. /\ rows \in Table /\ clock \in Nat /\ since \in [Request -> Nat]
      /\ rows[r] \in Row
  BY DEF IInv, TypeOK, Table
<1>2. ASSUME NEW now \in 0 .. clock, Expire(rows, now)[r] = NoRow
      PROVE  rows[r].lease <= clock
  BY <1>1, <1>2 DEF Expire, Row
<1>3. ASSUME NEW s \in Request, NEW now \in since[s] .. clock, CallStep(s, now)
      PROVE  rows[r].lease <= clock
  <2>1. now \in 0 .. clock /\ now \in Nat
    BY <1>1
  <2>2. CASE \E w \in Workspace, a \in Access : Enqueue(s, w, a, now)
    <3>1. PICK w \in Workspace, a \in Access : Enqueue(s, w, a, now)
      BY <2>2
    <3>2. lastTicket + 1 \in Nat
      BY DEF IInv, TypeOK
    <3>3. Expire(rows, now)[r] = NoRow
      BY <1>1, <2>1, <3>1, <3>2, EnqueuedRow, NoRowAssumption DEF Enqueue
    <3> QED BY <1>2, <2>1, <3>3
  <2>3. CASE TryAcquire(s, now)
    <3>1. Expire(rows, now) \in Table
      BY <1>1, <2>1, ExpireDeletes DEF Deletes
    <3> DEFINE v == Expire(rows, now)
    <3>2. rows' = TryAcquired(rows, s, now)
      BY <2>3 DEF TryAcquire
    <3>3. /\ \A p \in Request : p # s => rows'[p] = v[p]
          /\ v[s] = NoRow \/ v[s].state = "acquired" => rows'[s] = v[s]
          /\ v[s] # NoRow /\ v[s].state = "queued" => rows'[s] \in Row
      BY <1>1, <2>1, <3>2, TryAcquiredRow
    <3>4. v[s] = NoRow \/ v[s].state = "acquired" \/ v[s].state = "queued"
      BY <3>1 DEF Table, Row
    <3>5. v[r] = NoRow
      <4> HIDE DEF v
      <4> QED BY <3>3, <3>4, NoRowAssumption
    <3> QED BY <1>2, <2>1, <3>5
  <2>4. CASE Renew(s, now)
    <3>1. Expire(rows, now)[r] = NoRow
      BY <1>1, <2>1, <2>4, RenewedRow, NoRowAssumption DEF Renew
    <3> QED BY <1>2, <2>1, <3>1
  <2> QED BY <1>3, <2>2, <2>3, <2>4 DEF CallStep
<1>4. ASSUME NEW now \in 0 .. clock, Sweep(now) PROVE rows[r].lease <= clock
  BY <1>2, <1>4 DEF Sweep
<1>5. ASSUME NEW s \in Request, Remove(s) PROVE Remove(r)
  <2>1. s = r
    BY <1>1, <1>5 DEF Remove, Removed, Table
  <2> QED BY <1>5, <2>1
<1>6. ~(Tick \/ UNCHANGED vars)
  BY DEF Tick, vars
<1> QED BY <1>3, <1>4, <1>5, <1>6 DEF Next

(* Nobody loses a live row to another process.                              *)
THEOREM OnlyExpiredRowsReapedHolds == Spec => OnlyExpiredRowsReaped
<1>1. IInv /\ [Next]_vars =>
        [\A r \in Request :
           rows[r] # NoRow /\ rows'[r] = NoRow => rows[r].lease <= clock \/ Remove(r)]_vars
  BY ReapsOnlyExpired
<1> QED BY Invariance, <1>1, PTL DEF Spec, OnlyExpiredRowsReaped

(* The lease of a row that stays, under the same ticket, does not shrink.   *)
LEMMA LeaseGrows ==
  ASSUME IInv, [Next]_vars, NEW r \in Request, rows[r] # NoRow, rows'[r] # NoRow,
         rows'[r].ticket = rows[r].ticket
  PROVE  rows'[r].lease >= rows[r].lease
<1>1. /\ rows \in Table /\ clock \in Nat /\ since \in [Request -> Nat]
      /\ lastTicket \in Nat /\ rows[r] \in Row /\ rows[r].lease \in Nat
      /\ rows[r].lease <= since[r] + Lease /\ rows[r].ticket < lastTicket + 1
      /\ rows[r].ticket \in Nat
  BY DEF IInv, TypeOK, Table, Row, LeasesCounted, TicketsBelow, Present
<1>2. \A now \in Nat : Expire(rows, now)[r] = NoRow \/ Expire(rows, now)[r] = rows[r]
  BY <1>1, ExpireDeletes DEF Deletes
<1>3. rows'[r] = rows[r] => rows'[r].lease >= rows[r].lease
  BY <1>1
<1>4. ASSUME NEW s \in Request, NEW now \in since[s] .. clock, CallStep(s, now)
      PROVE  rows'[r].lease >= rows[r].lease
  <2> DEFINE v == Expire(rows, now)
  <2>1. now \in Nat /\ since[s] <= now
    BY <1>1
  <2>2. v \in Table
    BY <1>1, <2>1, ExpireDeletes DEF Deletes
  <2>3. s = r => now + Lease >= rows[r].lease
    BY <1>1, <2>1, LeaseAssumption
  <2>4. CASE \E w \in Workspace, a \in Access : Enqueue(s, w, a, now)
    <3>1. PICK w \in Workspace, a \in Access : Enqueue(s, w, a, now)
      BY <2>4
    <3>2. rows' = Enqueued(rows, s, w, a, now, lastTicket + 1) /\ lastTicket + 1 \in Nat
      BY <1>1, <3>1 DEF Enqueue
    <3>3. /\ \A p \in Request : p # s => rows'[p] = v[p]
          /\ v[s] # NoRow => rows'[s] = v[s]
          /\ v[s] = NoRow => rows'[s].ticket = lastTicket + 1
      BY <1>1, <2>1, <3>2, EnqueuedRow
    <3>4. rows'[r] = rows[r]
      <4>1. v[r] = NoRow \/ v[r] = rows[r]
        BY <1>2, <2>1
      <4> HIDE DEF v
      <4> QED BY <1>1, <3>3, <4>1
    <3> QED BY <1>3, <3>4
  <2>5. CASE TryAcquire(s, now)
    <3>1. rows' = TryAcquired(rows, s, now)
      BY <2>5 DEF TryAcquire
    <3>2. /\ \A p \in Request : p # s => rows'[p] = v[p]
          /\ v[s] = NoRow \/ v[s].state = "acquired" => rows'[s] = v[s]
          /\ v[s] # NoRow /\ v[s].state = "queued" => rows'[s].lease = now + Lease
      BY <1>1, <2>1, <3>1, TryAcquiredRow
    <3>3. v[s] = NoRow \/ v[s].state = "acquired" \/ v[s].state = "queued"
      BY <2>2 DEF Table, Row
    <3>4. v[r] = NoRow \/ v[r] = rows[r]
      BY <1>2, <2>1
    <3> HIDE DEF v
    <3>5. rows'[r] = rows[r] \/ (s = r /\ rows'[r].lease = now + Lease)
      BY <3>2, <3>3, <3>4
    <3> QED BY <1>3, <2>3, <3>5
  <2>6. CASE Renew(s, now)
    <3>1. rows' = Renewed(rows, s, now)
      BY <2>6 DEF Renew
    <3>2. /\ rows' \in Table
          /\ \A p \in Request : p # s => rows'[p] = v[p]
      BY <1>1, <2>1, <3>1, RenewedRow
    <3>3. v[s] = NoRow => rows'[s] = NoRow
      BY <1>1, <2>1, <3>1, RenewedRow
    <3>4. v[s] # NoRow => rows'[s].lease = now + Lease
      BY <1>1, <2>1, <3>1, RenewedRow
    <3>5. v[r] = NoRow \/ v[r] = rows[r]
      BY <1>2, <2>1
    <3> HIDE DEF v
    <3>6. rows'[r] = rows[r] \/ (s = r /\ rows'[r].lease = now + Lease)
      BY <3>2, <3>3, <3>4, <3>5
    <3> QED BY <1>3, <2>3, <3>6
  <2> QED BY <1>4, <2>4, <2>5, <2>6 DEF CallStep
<1>5. ASSUME NEW now \in 0 .. clock, Sweep(now) PROVE rows'[r] = rows[r]
  BY <1>1, <1>2, <1>5 DEF Sweep
<1>6. ASSUME NEW s \in Request, Remove(s) PROVE rows'[r] = rows[r]
  BY <1>1, <1>6 DEF Remove, Removed, Table
<1>7. Tick \/ UNCHANGED vars => rows'[r] = rows[r]
  BY DEF Tick, vars
<1> QED BY <1>3, <1>4, <1>5, <1>6, <1>7 DEF Next

(* No commit, at whatever time it was given, brings the end of a lease      *)
(* forward.                                                                 *)
THEOREM LeaseNeverShortenedHolds == Spec => LeaseNeverShortened
<1>1. IInv /\ [Next]_vars =>
        [\A r \in Request :
           /\ rows[r] # NoRow /\ rows'[r] # NoRow
           /\ rows'[r].ticket = rows[r].ticket
           => rows'[r].lease >= rows[r].lease]_vars
  BY LeaseGrows
<1> QED BY Invariance, <1>1, PTL DEF Spec, LeaseNeverShortened
=============================================================================
