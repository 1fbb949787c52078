------------------------- MODULE WorkspaceAdmission -------------------------
(***************************************************************************)
(* The admission API of AgentStore under every calling discipline: any     *)
(* request may be enqueued, polled, renewed or removed at any time, by     *)
(* processes that share the table.                                         *)
(*                                                                         *)
(* A call reads time.time() first, then waits for the store's lock and     *)
(* BEGIN IMMEDIATE, and only then commits: its `now' may be arbitrarily    *)
(* old by then, and others may have committed with a later one.  Reading   *)
(* the clock changes nothing, so it is no step of its own here: a call     *)
(* that commits had read the clock at some moment since the request's      *)
(* previous call ended.  (The run that owns a request and its renewal task *)
(* share one event loop and call synchronously: a request has one call     *)
(* under way at most.)  A call that fails, on an SQLite error or with      *)
(* `request_id is already in use', is rolled back and changes nothing.     *)
(***************************************************************************)
EXTENDS AdmissionTable

CONSTANTS
  MaxTime,       \* bound of the clock
  MaxTicket      \* bound of the AUTOINCREMENT sequence

ASSUME BoundAssumption == MaxTime \in Nat /\ MaxTicket \in Nat

VARIABLES
  clock,         \* time.time()
  rows,          \* the table workspace_admissions
  lastTicket,    \* the table's sqlite_sequence
  since          \* since[r]: when the last call for request r ended

vars == <<clock, rows, lastTicket, since>>

TypeOK ==
  /\ clock \in Nat
  /\ rows \in Table
  /\ lastTicket \in Nat
  /\ since \in [Request -> Nat]

Init ==
  /\ clock = 0
  /\ rows = [r \in Request |-> NoRow]
  /\ lastTicket = 0
  /\ since = [r \in Request |-> 0]

-----------------------------------------------------------------------------
Tick ==
  /\ clock < MaxTime
  /\ clock' = clock + 1
  /\ UNCHANGED <<rows, lastTicket, since>>

Ended(r) == since' = [since EXCEPT ![r] = clock]

Enqueue(r, w, a, now) ==
  /\ lastTicket < MaxTicket
  /\ ~InUse(rows, r, w, a, now)
  /\ rows' = Enqueued(rows, r, w, a, now, lastTicket + 1)
  /\ lastTicket' = IF Expire(rows, now)[r] = NoRow THEN lastTicket + 1 ELSE lastTicket
  /\ Ended(r)
  /\ UNCHANGED clock

TryAcquire(r, now) ==
  /\ rows' = TryAcquired(rows, r, now)
  /\ Ended(r)
  /\ UNCHANGED <<clock, lastTicket>>

Renew(r, now) ==
  /\ rows' = Renewed(rows, r, now)
  /\ Ended(r)
  /\ UNCHANGED <<clock, lastTicket>>

(* release_workspace_admission and cancel_workspace_admission: no clock.    *)
Remove(r) ==
  /\ rows' = Removed(rows, r)
  /\ Ended(r)
  /\ UNCHANGED <<clock, lastTicket>>

(* reconcile_expired_admissions, by any process and at a time as old as can *)
(* be.  Its probe only saves a transaction that would delete nothing.       *)
Sweep(now) ==
  /\ rows' = Expire(rows, now)
  /\ UNCHANGED <<clock, lastTicket, since>>

CallStep(r, now) ==
  \/ \E w \in Workspace, a \in Access : Enqueue(r, w, a, now)
  \/ TryAcquire(r, now)
  \/ Renew(r, now)

Next ==
  \/ Tick
  \/ \E now \in 0 .. clock : Sweep(now)
  \/ \E r \in Request : \E now \in since[r] .. clock : CallStep(r, now)
  \/ \E r \in Request : Remove(r)

Spec == Init /\ [][Next]_vars

-----------------------------------------------------------------------------
(* An editor is admitted alone: two acquired rows of one workspace are both *)
(* shared, however stale the times are at which try_acquire, renew and the  *)
(* sweeps of other processes commit (agent_manager.py 475-556).             *)
ExclusiveAlone == AdmittedAlone(rows)

(* The queue is fair around editors: no acquired row was let past a queued  *)
(* row with a lower ticket that conflicts with it, so that a stream of      *)
(* readers never starves an editor, nor an editor a reader that came first. *)
NoOvertaking == FirstComeFirstServed(rows)

(* reader_limit holds for every workspace, though each reader counts the    *)
(* others in a transaction of its own.                                      *)
ReadersBounded == \A w \in Workspace : Cardinality(Readers(rows, w)) <= ReaderLimit

(* What a waiting client is told agrees with what try_acquire would do: at  *)
(* any time the snapshot names nobody in the way of a queued row exactly    *)
(* when the row is eligible (agent_manager.py 343-389 against 497-534).     *)
BlockersExplainWait ==
  \A r \in Present(rows) : \A now \in 0 .. clock :
    rows[r].state = "queued" /\ rows[r].lease > now
      => (Blockers(rows, r, now) = {} <=> Eligible(Expire(rows, now), r, now))

(* Nobody loses a live row to somebody else: a row goes when its own run    *)
(* removes it or when its lease is past by the clock, never because another *)
(* process expires rows at a time it read long ago or while it waited.      *)
OnlyExpiredRowsReaped ==
  [][\A r \in Request :
       rows[r] # NoRow /\ rows'[r] = NoRow => rows[r].lease <= clock \/ Remove(r)]_vars

(* A commit never shortens the lease of a row that stays, in spite of the   *)
(* times it was given being older than the clock at the commit.             *)
LeaseNeverShortened ==
  [][\A r \in Request :
       /\ rows[r] # NoRow /\ rows'[r] # NoRow
       /\ rows'[r].ticket = rows[r].ticket
       => rows'[r].lease >= rows[r].lease]_vars
=============================================================================
