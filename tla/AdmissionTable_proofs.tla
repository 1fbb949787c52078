------------------------ MODULE AdmissionTable_proofs ------------------------
(***************************************************************************)
(* What the transactions on workspace_admissions preserve, whatever the    *)
(* table holds and whatever time they are given.                           *)
(***************************************************************************)
EXTENDS AdmissionTable, FiniteSetTheorems, TLAPS

(* u has some rows of t, unchanged, and no other: what a transaction does   *)
(* that only deletes.                                                       *)
Deletes(t, u) == u \in Table /\ \A s \in Request : u[s] = NoRow \/ u[s] = t[s]

(* A present row is a row.                                                  *)
LEMMA PresentRow ==
  ASSUME NEW t \in Table, NEW r \in Present(t)
  PROVE  r \in Request /\ t[r] \in Row /\ t[r] # NoRow
BY DEF Present, Table

(* Expire deletes rows, exactly those whose lease is past.                  *)
LEMMA ExpireDeletes ==
  ASSUME NEW t \in Table, NEW now \in Nat
  PROVE  /\ Deletes(t, Expire(t, now))
         /\ \A s \in Request : Expire(t, now)[s] # NoRow =>
              Expire(t, now)[s] = t[s] /\ t[s].lease > now
BY DEF Deletes, Expire, Table, Row

(* So do release and cancel.                                                *)
LEMMA RemovedDeletes ==
  ASSUME NEW t \in Table, NEW r \in Request
  PROVE  Deletes(t, Removed(t, r))
BY DEF Deletes, Removed, Table

(* Deleting rows never breaks what is claimed of the others.                *)
LEMMA DeletesPreserves ==
  ASSUME NEW t \in Table, NEW u, Deletes(t, u)
  PROVE  /\ AdmittedAlone(t) => AdmittedAlone(u)
         /\ FirstComeFirstServed(t) => FirstComeFirstServed(u)
         /\ \A w : Readers(u, w) \subseteq Readers(t, w)
<1>1. \A s \in Present(u) : s \in Present(t) /\ u[s] = t[s]
  BY DEF Deletes, Present
<1>2. ASSUME NEW r \in Present(u), NEW s \in Present(u)
      PROVE  Conflict(u, r, s) <=> Conflict(t, r, s)
  BY <1>1 DEF Conflict
<1>3. AdmittedAlone(t) => AdmittedAlone(u)
  BY <1>1, <1>2 DEF AdmittedAlone
<1>4. FirstComeFirstServed(t) => FirstComeFirstServed(u)
  BY <1>1, <1>2 DEF FirstComeFirstServed
<1>5. \A w : Readers(u, w) \subseteq Readers(t, w)
  BY <1>1 DEF Readers
<1> QED BY <1>3, <1>4, <1>5

(* The readers of a workspace are a finite set.                             *)
LEMMA ReadersFinite ==
  ASSUME NEW t, NEW w
  PROVE  IsFiniteSet(Readers(t, w))
<1>1. Readers(t, w) \subseteq Request
  BY DEF Readers, Present
<1> QED BY <1>1, RequestAssumption, FS_Subset

-----------------------------------------------------------------------------
(* The ticket of a new row is above every ticket in the table.              *)
TicketsBelow(t, ticket) == \A r \in Present(t) : t[r].ticket < ticket

(* A row still stands for the same request.                                 *)
SameRequest(row, old) ==
  /\ row.workspace = old.workspace /\ row.access = old.access
  /\ row.ticket = old.ticket

(* What the three transactions that write a row do to the others: after     *)
(* Expire, only the row of r changes.                                       *)
LEMMA EnqueuedRow ==
  ASSUME NEW t \in Table, NEW r \in Request, NEW w \in Workspace, NEW a \in Access,
         NEW now \in Nat, NEW ticket \in Nat
  PROVE  LET u == Enqueued(t, r, w, a, now, ticket)
             v == Expire(t, now)
         IN  /\ u \in Table
             /\ \A s \in Request : s # r => u[s] = v[s]
             /\ v[r] # NoRow => u[r] = v[r]
             /\ v[r] = NoRow => /\ u[r] \in Row
                               /\ u[r].workspace = w /\ u[r].access = a
                               /\ u[r].state = "queued" /\ u[r].ticket = ticket
                               /\ u[r].lease = now + Lease
<1> DEFINE v == Expire(t, now)
           new == [workspace |-> w, access |-> a, state |-> "queued",
                   ticket |-> ticket, lease |-> now + Lease]
<1>1. v \in Table
  BY ExpireDeletes DEF Deletes
<1>2. new \in Row
  BY LeaseAssumption DEF Row
<1>3. Enqueued(t, r, w, a, now, ticket)
        = IF v[r] # NoRow THEN v ELSE [v EXCEPT ![r] = new]
  BY DEF Enqueued
<1> HIDE DEF v
<1>4. [v EXCEPT ![r] = new] \in Table
  BY <1>1, <1>2 DEF Table
<1>5. CASE v[r] # NoRow
  BY <1>1, <1>3, <1>5 DEF v
<1>6. CASE v[r] = NoRow
  BY <1>1, <1>2, <1>3, <1>4, <1>6 DEF Table, v
<1> QED BY <1>5, <1>6

(* Renewing changes the row of r only, and of it only the lease.            *)
LEMMA RenewedRow ==
  ASSUME NEW t \in Table, NEW r \in Request, NEW now \in Nat
  PROVE  LET u == Renewed(t, r, now)
             v == Expire(t, now)
         IN  /\ u \in Table
             /\ \A s \in Request : s # r => u[s] = v[s]
             /\ v[r] = NoRow => u[r] = NoRow
             /\ v[r] # NoRow => /\ u[r] \in Row
                               /\ u[r].state = v[r].state
                               /\ SameRequest(u[r], v[r])
                               /\ u[r].lease = now + Lease
<1> DEFINE v == Expire(t, now)
           new == [v[r] EXCEPT !.lease = now + Lease]
<1>1. v \in Table
  BY ExpireDeletes DEF Deletes
<1>2. Renewed(t, r, now) = IF v[r] = NoRow THEN v ELSE [v EXCEPT ![r] = new]
  BY DEF Renewed
<1> HIDE DEF v
<1>3. CASE v[r] = NoRow
  BY <1>1, <1>2, <1>3 DEF v
<1>4. CASE v[r] # NoRow
  <2>1. v[r] \in Row
    BY <1>1, <1>4 DEF Table
  <2>2. new \in Row
    BY <2>1, LeaseAssumption DEF Row
  <2>3. [v EXCEPT ![r] = new] \in Table
    BY <1>1, <2>2 DEF Table
  <2>4. /\ new.state = v[r].state /\ SameRequest(new, v[r])
        /\ new.lease = now + Lease
    BY <2>1, LeaseAssumption DEF Row, SameRequest
  <2> HIDE DEF new
  <2>5. [v EXCEPT ![r] = new][r] = new
    BY <1>1 DEF Table
  <2>6. \A s \in Request : s # r => [v EXCEPT ![r] = new][s] = v[s]
    BY <1>1 DEF Table
  <2>7. Renewed(t, r, now) = [v EXCEPT ![r] = new]
    BY <1>2, <1>4 DEF new
  <2> QED BY <1>4, <2>2, <2>3, <2>4, <2>5, <2>6, <2>7 DEF v
<1> QED BY <1>3, <1>4

(* try_acquire changes the row of r only, and of it the lease and the       *)
(* state, which becomes acquired only if the row was eligible.              *)
LEMMA TryAcquiredRow ==
  ASSUME NEW t \in Table, NEW r \in Request, NEW now \in Nat
  PROVE  LET u == TryAcquired(t, r, now)
             v == Expire(t, now)
         IN  /\ u \in Table
             /\ \A s \in Request : s # r => u[s] = v[s]
             /\ v[r] = NoRow \/ v[r].state = "acquired" => u[r] = v[r]
             /\ v[r] # NoRow /\ v[r].state = "queued" =>
                  /\ u[r] \in Row
                  /\ u[r].state = "acquired" <=> Eligible(v, r, now)
                  /\ SameRequest(u[r], v[r])
                  /\ u[r].lease = now + Lease
<1> DEFINE v == Expire(t, now)
           state == IF Eligible(v, r, now) THEN "acquired" ELSE "queued"
           new == [v[r] EXCEPT !.state = state, !.lease = now + Lease]
<1>1. v \in Table
  BY ExpireDeletes DEF Deletes
<1>2. TryAcquired(t, r, now) = IF v[r] = NoRow \/ v[r].state = "acquired" THEN v
                               ELSE [v EXCEPT ![r].state = state, ![r].lease = now + Lease]
  BY DEF TryAcquired
<1>3. state \in {"queued", "acquired"}
  OBVIOUS
<1> HIDE DEF v, state
<1>4. CASE v[r] = NoRow \/ v[r].state = "acquired"
  <2>1. TryAcquired(t, r, now) = v
    BY <1>2, <1>4
  <2>2. v[r] = NoRow \/ v[r].state # "queued"
    BY <1>4
  <2> QED BY <1>1, <2>1, <2>2 DEF v
<1>5. CASE ~(v[r] = NoRow \/ v[r].state = "acquired")
  <2>1. v[r] \in Row
    BY <1>1, <1>5 DEF Table
  <2> DEFINE moved == [v[r] EXCEPT !.state = state]
  <2>2. moved \in Row
    BY <1>3, <2>1 DEF Row
  <2>3. /\ moved.state = state /\ SameRequest(moved, v[r])
    BY <1>3, <2>1 DEF Row, SameRequest
  <2>4. new = [moved EXCEPT !.lease = now + Lease]
    OBVIOUS
  <2> HIDE DEF moved, new
  <2>5. /\ new \in Row /\ new.state = state /\ SameRequest(new, v[r])
        /\ new.lease = now + Lease
    BY <2>2, <2>3, <2>4, LeaseAssumption DEF Row, SameRequest
  <2>6. TryAcquired(t, r, now) = [v EXCEPT ![r] = new]
    BY <1>1, <1>2, <1>5 DEF Table, new
  <2>7. [v EXCEPT ![r] = new] \in Table
    BY <1>1, <2>5 DEF Table
  <2>8. [v EXCEPT ![r] = new][r] = new
    BY <1>1 DEF Table
  <2>9. \A s \in Request : s # r => [v EXCEPT ![r] = new][s] = v[s]
    BY <1>1 DEF Table
  <2>10. state = "acquired" <=> Eligible(v, r, now)
    BY DEF state
  <2> QED BY <1>5, <2>5, <2>6, <2>7, <2>8, <2>9, <2>10 DEF v
<1> QED BY <1>4, <1>5

-----------------------------------------------------------------------------
(* Acquiring does not let a request past anything it conflicts with: a row  *)
(* that is eligible conflicts with no acquired row and with no queued row   *)
(* of a lower ticket.                                                       *)
LEMMA EligibleUnopposed ==
  ASSUME NEW v \in Table, NEW r \in Request, NEW now \in Nat,
         v[r] # NoRow, Eligible(v, r, now),
         \A s \in Present(v) : v[s].lease > now
  PROVE  \A s \in Present(v) \ {r} : Ahead(v, s, r) => ~Conflict(v, r, s)
<1> SUFFICES ASSUME NEW s \in Present(v) \ {r}, Ahead(v, s, r), Conflict(v, r, s)
             PROVE  FALSE
  OBVIOUS
<1>1. v[r] \in Row /\ v[s] \in Row
  BY DEF Present, Table
<1>2. s \in Rivals(v, r, now)
  BY DEF Rivals, Conflict
<1>3. CASE v[r].access = "shared"
  <2>1. v[s].access = "exclusive"
    BY <1>3 DEF Conflict
  <2>2. s \in ExclusiveBlockers(v, r, now)
    BY <1>2, <2>1 DEF ExclusiveBlockers
  <2> QED BY <1>3, <2>2 DEF Eligible
<1>4. CASE v[r].access # "shared"
  BY <1>2, <1>4 DEF Eligible
<1> QED BY <1>3, <1>4

(* Renewing a row, or acquiring it while nothing opposes it, keeps          *)
(* AdmittedAlone: u is v but for the lease of r and, perhaps, its state.    *)
LEMMA AcquirePreserves ==
  ASSUME NEW v \in Table, NEW u \in Table, NEW r \in Request, NEW now \in Nat,
         \A s \in Request : s # r => u[s] = v[s],
         v[r] # NoRow, u[r] \in Row, SameRequest(u[r], v[r]),
         \/ u[r].state = v[r].state
         \/ \A s \in Present(v) \ {r} : Ahead(v, s, r) => ~Conflict(v, r, s)
  PROVE  /\ AdmittedAlone(v) => AdmittedAlone(u)
         /\ /\ FirstComeFirstServed(v)
            /\ v[r].state = "acquired" => u[r].state = "acquired"
            => FirstComeFirstServed(u)
<1>1. Present(u) = Present(v)
  BY NoRowAssumption DEF Present
<1>2. \A p \in Present(v) : v[p] \in Row /\ u[p] \in Row /\ SameRequest(u[p], v[p])
  BY <1>1 DEF Present, Table, SameRequest
<1>3. ASSUME NEW p \in Present(v), NEW q \in Present(v)
      PROVE  Conflict(u, p, q) <=> Conflict(v, p, q)
  BY <1>2 DEF Conflict, SameRequest
<1>4. ASSUME NEW p \in Present(v), NEW q \in Present(v)
      PROVE  Conflict(v, p, q) <=> Conflict(v, q, p)
  BY DEF Conflict
<1>5. ASSUME AdmittedAlone(v) PROVE AdmittedAlone(u)
  <2> SUFFICES ASSUME NEW p \in Present(v), NEW q \in Present(v), p # q,
                      u[p].state = "acquired", u[q].state = "acquired"
               PROVE  ~Conflict(v, p, q)
    BY <1>1, <1>3 DEF AdmittedAlone
  <2>1. CASE u[r].state = v[r].state \/ (p # r /\ q # r)
    <3>1. v[p].state = "acquired" /\ v[q].state = "acquired"
      BY <2>1 DEF Present
    <3> QED BY <1>5, <3>1 DEF AdmittedAlone
  <2>2. CASE ~(u[r].state = v[r].state) /\ p = r
    <3>1. q \in Present(v) \ {r} /\ v[q].state = "acquired"
      BY <2>2 DEF Present
    <3> QED BY <2>2, <3>1 DEF Ahead
  <2>3. CASE ~(u[r].state = v[r].state) /\ q = r
    <3>1. p \in Present(v) \ {r} /\ v[p].state = "acquired"
      BY <2>3 DEF Present
    <3> QED BY <1>4, <2>3, <3>1 DEF Ahead
  <2> QED BY <2>1, <2>2, <2>3
<1>6. ASSUME FirstComeFirstServed(v),
             v[r].state = "acquired" => u[r].state = "acquired"
      PROVE  FirstComeFirstServed(u)
  <2> SUFFICES ASSUME NEW p \in Present(v), NEW q \in Present(v),
                      u[p].state = "acquired", u[q].state = "queued",
                      v[q].ticket < v[p].ticket
               PROVE  ~Conflict(v, p, q)
    BY <1>1, <1>2, <1>3 DEF FirstComeFirstServed, SameRequest
  <2>1. v[q].state = "queued"
    BY <1>2, <1>6 DEF Row, Present
  <2>2. CASE v[p].state = "acquired"
    BY <1>6, <2>1, <2>2 DEF FirstComeFirstServed
  <2>3. CASE v[p].state # "acquired"
    <3>1. p = r /\ u[r].state # v[r].state /\ q # r
      BY <1>2, <2>3 DEF Present
    <3> QED BY <2>1, <3>1 DEF Ahead
  <2> QED BY <2>2, <2>3
<1> QED BY <1>5, <1>6

-----------------------------------------------------------------------------
(* What each transaction preserves.                                         *)

(* The claims about a table, together.                                      *)
Safe(t) ==
  /\ t \in Table
  /\ AdmittedAlone(t)
  /\ FirstComeFirstServed(t)
  /\ \A w \in Workspace : Cardinality(Readers(t, w)) <= ReaderLimit

(* A subset of the readers is within the limit if they are.                 *)
LEMMA FewerReaders ==
  ASSUME NEW t, NEW u, NEW w, NEW x, Readers(u, w) \subseteq Readers(t, x),
         Cardinality(Readers(t, x)) <= ReaderLimit
  PROVE  Cardinality(Readers(u, w)) <= ReaderLimit
<1>1. /\ Cardinality(Readers(u, w)) <= Cardinality(Readers(t, x))
      /\ Cardinality(Readers(u, w)) \in Nat /\ Cardinality(Readers(t, x)) \in Nat
  BY ReadersFinite, FS_Subset, FS_CardinalityType
<1> QED BY <1>1, LimitAssumption

(* A transaction that only deletes rows.                                    *)
LEMMA DeletesSafe ==
  ASSUME NEW t, Safe(t), NEW u, Deletes(t, u)
  PROVE  Safe(u)
<1>1. AdmittedAlone(u) /\ FirstComeFirstServed(u) /\ u \in Table
  BY DeletesPreserves DEF Safe, Deletes
<1>2. \A w \in Workspace : Cardinality(Readers(u, w)) <= ReaderLimit
  BY DeletesPreserves, FewerReaders DEF Safe
<1> QED BY <1>1, <1>2 DEF Safe

(* Expiring rows keeps the claims of a table.                               *)
LEMMA ExpireSafe ==
  ASSUME NEW t, Safe(t), NEW now \in Nat
  PROVE  Safe(Expire(t, now))
BY DeletesSafe, ExpireDeletes DEF Safe

(* Releasing or cancelling a request keeps the claims of a table.           *)
LEMMA RemovedSafe ==
  ASSUME NEW t, Safe(t), NEW r \in Request
  PROVE  Safe(Removed(t, r))
BY DeletesSafe, RemovedDeletes DEF Safe

(* Renewing a lease keeps the claims of a table.                            *)
LEMMA RenewedSafe ==
  ASSUME NEW t, Safe(t), NEW r \in Request, NEW now \in Nat
  PROVE  Safe(Renewed(t, r, now))
<1> DEFINE v == Expire(t, now)
           u == Renewed(t, r, now)
<1>1. Safe(v)
  BY ExpireSafe
<1>2. /\ u \in Table
      /\ \A s \in Request : s # r => u[s] = v[s]
      /\ v[r] = NoRow => u[r] = NoRow
      /\ v[r] # NoRow => /\ u[r] \in Row /\ u[r].state = v[r].state
                        /\ SameRequest(u[r], v[r])
  BY RenewedRow DEF Safe
<1> HIDE DEF v, u
<1>3. CASE v[r] = NoRow
  <2>1. Deletes(v, u)
    BY <1>2, <1>3 DEF Deletes
  <2> QED BY <1>1, <2>1, DeletesSafe DEF u
<1>4. CASE v[r] # NoRow
  <2>1. AdmittedAlone(u) /\ FirstComeFirstServed(u)
    BY <1>1, <1>2, <1>4, AcquirePreserves DEF Safe
  <2>2. \A w : Readers(u, w) \subseteq Readers(v, w)
    BY <1>2, <1>4 DEF Readers, Present, SameRequest
  <2>3. \A w \in Workspace : Cardinality(Readers(u, w)) <= ReaderLimit
    BY <1>1, <2>2, FewerReaders DEF Safe
  <2> QED BY <1>2, <2>1, <2>3 DEF Safe, u
<1> QED BY <1>3, <1>4

(* Enqueueing keeps the claims of a table: the new row is queued, and       *)
(* behind everyone.                                                         *)
LEMMA EnqueuedSafe ==
  ASSUME NEW t, Safe(t), NEW r \in Request, NEW w \in Workspace, NEW a \in Access,
         NEW now \in Nat, NEW ticket \in Nat, TicketsBelow(t, ticket)
  PROVE  Safe(Enqueued(t, r, w, a, now, ticket))
<1> DEFINE v == Expire(t, now)
           u == Enqueued(t, r, w, a, now, ticket)
<1>1. Safe(v) /\ v \in Table
  BY ExpireSafe DEF Safe
<1>2. /\ u \in Table
      /\ \A s \in Request : s # r => u[s] = v[s]
      /\ v[r] # NoRow => u[r] = v[r]
      /\ v[r] = NoRow => u[r] \in Row /\ u[r].state = "queued" /\ u[r].ticket = ticket
  BY EnqueuedRow DEF Safe
<1>3. TicketsBelow(v, ticket)
  BY ExpireDeletes DEF TicketsBelow, Present, Safe
<1> HIDE DEF v, u
<1>4. CASE v[r] # NoRow
  <2>1. Deletes(v, u)
    BY <1>2, <1>4 DEF Deletes
  <2> QED BY <1>1, <2>1, DeletesSafe DEF u
<1>5. CASE v[r] = NoRow
  <2>1. \A s \in Present(u) : s # r => s \in Present(v) /\ u[s] = v[s]
    BY <1>2 DEF Present
  <2>2. \A s \in Present(u) : u[s].state = "acquired" => s # r
    BY <1>2, <1>5
  <2>3. AdmittedAlone(u)
    BY <1>1, <2>1, <2>2 DEF AdmittedAlone, Conflict, Safe
  <2>4. \A s \in Present(v) : v[s].ticket \in Nat /\ v[s].ticket < ticket
    BY <1>1, <1>3 DEF Present, Table, Row, TicketsBelow
  <2>5. FirstComeFirstServed(u)
    <3> SUFFICES ASSUME NEW p \in Present(u), NEW q \in Present(u),
                        u[p].state = "acquired", u[q].state = "queued",
                        u[q].ticket < u[p].ticket
                 PROVE  ~Conflict(u, p, q)
      BY DEF FirstComeFirstServed
    <3>1. p # r /\ p \in Present(v) /\ u[p] = v[p]
      BY <2>1, <2>2
    <3>2. q # r
      BY <1>2, <1>5, <2>4, <3>1
    <3>3. q \in Present(v) /\ u[q] = v[q]
      BY <2>1, <3>2
    <3> QED BY <1>1, <3>1, <3>3 DEF FirstComeFirstServed, Conflict, Safe
  <2>6. \A x : Readers(u, x) \subseteq Readers(v, x)
    BY <2>1, <2>2 DEF Readers
  <2>7. \A x \in Workspace : Cardinality(Readers(u, x)) <= ReaderLimit
    BY <1>1, <2>6, FewerReaders DEF Safe
  <2> QED BY <1>2, <2>3, <2>5, <2>7 DEF Safe, u
<1> QED BY <1>4, <1>5

(* The reader that try_acquire admits is one more than the active readers   *)
(* it counted.                                                              *)
LEMMA OneMoreReader ==
  ASSUME NEW v \in Table, NEW u \in Table, NEW r \in Request, NEW now \in Nat,
         \A s \in Request : s # r => u[s] = v[s],
         v[r] # NoRow, u[r] \in Row, SameRequest(u[r], v[r]),
         \A s \in Present(v) : v[s].lease > now,
         u[r].access = "shared" => Cardinality(ActiveReaders(v, r, now)) < ReaderLimit
  PROVE  r \in Readers(u, v[r].workspace)
           => Cardinality(Readers(u, v[r].workspace)) <= ReaderLimit
<1> DEFINE w == v[r].workspace
           active == ActiveReaders(v, r, now)
<1> SUFFICES ASSUME r \in Readers(u, w) PROVE Cardinality(Readers(u, w)) <= ReaderLimit
  OBVIOUS
<1>1. Readers(u, w) \subseteq active \cup {r}
  BY DEF Readers, ActiveReaders, Rivals, Present
<1>2. active \subseteq Request /\ r \notin active
  BY DEF ActiveReaders, Rivals, Present
<1> HIDE DEF active
<1>3. IsFiniteSet(active) /\ Cardinality(active) \in Nat
  BY <1>2, RequestAssumption, FS_Subset, FS_CardinalityType
<1>4. /\ IsFiniteSet(active \cup {r})
      /\ Cardinality(active \cup {r}) = Cardinality(active) + 1
  BY <1>2, <1>3, FS_AddElement
<1>5. Cardinality(active) < ReaderLimit
  BY DEF Readers, active
<1>6. /\ Cardinality(Readers(u, w)) <= Cardinality(active \cup {r})
      /\ Cardinality(Readers(u, w)) \in Nat
  BY <1>1, <1>4, FS_Subset, FS_CardinalityType
<1> QED BY <1>3, <1>4, <1>5, <1>6, LimitAssumption

(* try_acquire keeps the claims of a table: the row it admits meets no      *)
(* rival.                                                                   *)
LEMMA TryAcquiredSafe ==
  ASSUME NEW t, Safe(t), NEW r \in Request, NEW now \in Nat
  PROVE  Safe(TryAcquired(t, r, now))
<1> DEFINE v == Expire(t, now)
           u == TryAcquired(t, r, now)
<1>1. Safe(v) /\ v \in Table
  BY ExpireSafe DEF Safe
<1>2. \A s \in Present(v) : v[s].lease > now
  BY ExpireDeletes DEF Present, Safe
<1>3. /\ u \in Table
      /\ \A s \in Request : s # r => u[s] = v[s]
      /\ v[r] = NoRow \/ v[r].state = "acquired" => u[r] = v[r]
      /\ v[r] # NoRow /\ v[r].state = "queued" =>
           /\ u[r] \in Row
           /\ u[r].state = "acquired" <=> Eligible(v, r, now)
           /\ SameRequest(u[r], v[r])
  BY TryAcquiredRow DEF Safe
<1> HIDE DEF v, u
<1>4. CASE v[r] = NoRow \/ v[r].state = "acquired"
  <2>1. Deletes(v, u)
    BY <1>3, <1>4 DEF Deletes
  <2> QED BY <1>1, <2>1, DeletesSafe DEF u
<1>5. CASE v[r] # NoRow /\ v[r].state # "acquired"
  <2>1. v[r].state = "queued"
    BY <1>1, <1>5 DEF Table, Row
  <2>2. u[r].state = v[r].state \/ Eligible(v, r, now)
    BY <1>3, <1>5, <2>1 DEF Row
  <2>3. \/ u[r].state = v[r].state
        \/ \A s \in Present(v) \ {r} : Ahead(v, s, r) => ~Conflict(v, r, s)
    BY <1>1, <1>2, <1>5, <2>2, EligibleUnopposed
  <2>4. AdmittedAlone(u) /\ FirstComeFirstServed(u)
    BY <1>1, <1>3, <1>5, <2>1, <2>3, AcquirePreserves DEF Safe
  <2>5. ASSUME NEW w \in Workspace
        PROVE  Cardinality(Readers(u, w)) <= ReaderLimit
    <3>1. CASE r \notin Readers(u, w)
      <4>1. Readers(u, w) \subseteq Readers(v, w)
        BY <1>3, <3>1 DEF Readers, Present
      <4> QED BY <1>1, <4>1, FewerReaders DEF Safe
    <3>2. CASE r \in Readers(u, w)
      <4>1. w = v[r].workspace /\ u[r].access = "shared" /\ u[r].state = "acquired"
        BY <1>3, <1>5, <2>1, <3>2 DEF Readers, SameRequest
      <4>2. Eligible(v, r, now) /\ v[r].access = "shared"
        BY <1>3, <1>5, <2>1, <4>1 DEF SameRequest
      <4>3. Cardinality(ActiveReaders(v, r, now)) < ReaderLimit
        BY <4>2 DEF Eligible
      <4> QED BY <1>1, <1>2, <1>3, <1>5, <2>1, <3>2, <4>1, <4>3, OneMoreReader
    <3> QED BY <3>1, <3>2
  <2> QED BY <1>3, <2>4, <2>5 DEF Safe, u
<1> QED BY <1>4, <1>5

(* What a client is told agrees with what try_acquire decides: a queued     *)
(* row has no blockers exactly when it is eligible.                         *)
LEMMA BlockersExplain ==
  ASSUME NEW t \in Table, NEW r \in Present(t), NEW now \in Nat,
         t[r].state = "queued", t[r].lease > now
  PROVE  Blockers(t, r, now) = {} <=> Eligible(Expire(t, now), r, now)
<1> DEFINE v == Expire(t, now)
<1>1. \A s \in Present(t) :
        s \in Request /\ t[s] \in Row /\ (t[s].lease > now <=> ~(t[s].lease <= now))
  BY DEF Present, Table, Row
<1>2. \A s \in Present(t) : t[s].lease > now => s \in Present(v) /\ v[s] = t[s]
  BY <1>1 DEF Present, Expire
<1>3. \A s \in Present(v) : s \in Present(t) /\ v[s] = t[s] /\ t[s].lease > now
  BY ExpireDeletes DEF Present
<1> HIDE DEF v
<1>4. v[r] = t[r] /\ Rivals(v, r, now) = Rivals(t, r, now)
  BY <1>1, <1>2, <1>3 DEF Rivals
<1>5. \A s \in Rivals(t, r, now) : v[s] = t[s]
  BY <1>2 DEF Rivals
<1> DEFINE others == Rivals(t, r, now)
           readers == {s \in others : t[s].state = "acquired" /\ t[s].access = "shared"}
           earlier == {s \in others : t[s].state = "queued" /\ t[s].ticket < t[r].ticket}
           holders == {s \in others : t[s].state = "acquired"}
           editors == {s \in others : t[s].access = "exclusive"}
           slots == IF Cardinality(readers) >= ReaderLimit THEN readers ELSE {}
<1>6. ActiveReaders(v, r, now) = readers
  BY <1>4, <1>5 DEF ActiveReaders
<1>7. ExclusiveBlockers(v, r, now) =
        {s \in others : t[s].access = "exclusive" /\ Ahead(t, s, r)}
  BY <1>4, <1>5 DEF ExclusiveBlockers, Ahead
<1>8. IsFiniteSet(readers)
  <2>1. readers \subseteq Request
    BY DEF Rivals, Present
  <2> QED BY <2>1, RequestAssumption, FS_Subset
<1>9. Cardinality(readers) \in Nat /\ (readers = {} <=> Cardinality(readers) = 0)
  BY <1>8, FS_CardinalityType, FS_EmptySet
<1>10. CASE t[r].access = "exclusive"
  <2>1. Blockers(t, r, now) = earlier \cup holders
    BY <1>10 DEF Blockers
  <2>2. {s \in Rivals(v, r, now) : Ahead(v, s, r)} = earlier \cup holders
    BY <1>4, <1>5 DEF Ahead
  <2> QED BY <1>4, <1>10, <2>1, <2>2 DEF Eligible, v
<1>11. CASE t[r].access = "shared"
  <2>1. Blockers(t, r, now) = ((earlier \cup holders) \cap editors) \cup slots
    BY <1>11 DEF Blockers
  <2>2. ExclusiveBlockers(v, r, now) = (earlier \cup holders) \cap editors
    BY <1>7 DEF Ahead
  <2>3. slots = {} <=> Cardinality(readers) < ReaderLimit
    <3> HIDE DEF readers
    <3> QED BY <1>9, LimitAssumption
  <2>4. Eligible(v, r, now) <=> /\ ExclusiveBlockers(v, r, now) = {}
                                /\ Cardinality(readers) < ReaderLimit
    BY <1>4, <1>6, <1>11 DEF Eligible
  <2> QED BY <2>1, <2>2, <2>3, <2>4 DEF v
<1> QED BY <1>1, <1>10, <1>11 DEF Row, Access
=============================================================================
