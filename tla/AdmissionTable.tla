--------------------------- MODULE AdmissionTable ---------------------------
(***************************************************************************)
(* The SQLite table workspace_admissions and the transactions AgentStore   *)
(* runs on it, as operators from one table to the next.  The table is the  *)
(* fair queue in front of the per-workspace operating-system lock: a run   *)
(* enqueues a request, polls until its row is acquired, renews the row's   *)
(* lease while it works and deletes the row when it is done.               *)
(*                                                                         *)
(* A table is a function from the request ids to their rows.  Every        *)
(* transaction is given `now', the time its caller read before it waited   *)
(* for the write lock.                                                     *)
(***************************************************************************)
EXTENDS Naturals, FiniteSets

CONSTANTS
  Request,       \* request ids; one per run (request_id = run.run_id)
  Workspace,     \* canonical workspace paths
  ReaderLimit,   \* reader_limit: how many shared rows may be acquired at once
  Lease,         \* lease_seconds
  NoRow          \* the value of a request that has no row

Access == {"shared", "exclusive"}

(* An operator whose name ends in Broken is a plausible bug in the one that *)
(* follows it; the runs are checked to notice it.                           *)

(* enqueued_at, acquired_at and heartbeat_at only feed the views; the       *)
(* owner of every row is the one operating-system user of the store.        *)
Row == [workspace : Workspace, access : Access,
        state : {"queued", "acquired"}, ticket : Nat, lease : Nat]

Table == [Request -> Row \cup {NoRow}]

ASSUME RequestAssumption == IsFiniteSet(Request)
ASSUME LimitAssumption == ReaderLimit \in Nat \ {0}
ASSUME LeaseAssumption == Lease \in Nat \ {0}
ASSUME NoRowAssumption == NoRow \notin Row

-----------------------------------------------------------------------------
(* Queries.                                                                 *)

Present(t) == {r \in Request : t[r] # NoRow}

(* Rows of the workspace of request r whose lease is live at `now', r's own *)
(* row left out.                                                            *)
Rivals(t, r, now) ==
  {s \in Present(t) \ {r} : /\ t[s].workspace = t[r].workspace
                            /\ t[s].lease > now}

AheadBroken(t, s, r) == t[s].state = "acquired"

(* `state='acquired' OR (state='queued' AND ticket<?)'                      *)
Ahead(t, s, r) ==
  \/ t[s].state = "acquired"
  \/ t[s].state = "queued" /\ t[s].ticket < t[r].ticket

ExclusiveBlockers(t, r, now) ==
  {s \in Rivals(t, r, now) : t[s].access = "exclusive" /\ Ahead(t, s, r)}

ActiveReaders(t, r, now) ==
  {s \in Rivals(t, r, now) : t[s].access = "shared" /\ t[s].state = "acquired"}

EligibleBroken(t, r, now) ==   \* off by one in the reader limit
  IF t[r].access = "shared"
  THEN /\ ExclusiveBlockers(t, r, now) = {}
       /\ Cardinality(ActiveReaders(t, r, now)) <= ReaderLimit
  ELSE {s \in Rivals(t, r, now) : Ahead(t, s, r)} = {}

(* Whether try_acquire moves the queued row of r to acquired: a reader      *)
(* waits for the editors that hold the workspace or came first and for a    *)
(* free reader slot; an editor waits for every holder and everyone before.  *)
Eligible(t, r, now) ==
  IF t[r].access = "shared"
  THEN /\ ExclusiveBlockers(t, r, now) = {}
       /\ Cardinality(ActiveReaders(t, r, now)) < ReaderLimit
  ELSE {s \in Rivals(t, r, now) : Ahead(t, s, r)} = {}

BlockersBroken(t, r, now) ==   \* full reader slots not reported
  LET others == Rivals(t, r, now) IN
  IF t[r].state = "acquired" THEN {}
  ELSE {s \in others : Ahead(t, s, r) /\ "exclusive" \in {t[s].access, t[r].access}}

(* blocking_owner_run_ids of a snapshot: queries of their own in the code,  *)
(* reported to the client that waits.                                       *)
Blockers(t, r, now) ==
  LET others == Rivals(t, r, now)
      readers == {s \in others : t[s].state = "acquired" /\ t[s].access = "shared"}
      earlier == {s \in others : t[s].state = "queued" /\ t[s].ticket < t[r].ticket}
      holders == {s \in others : t[s].state = "acquired"}
      editors == {s \in others : t[s].access = "exclusive"}
      inTheWay == IF t[r].access = "exclusive" THEN earlier \cup holders
                  ELSE (earlier \cup holders) \cap editors
      slots == IF t[r].access = "shared" /\ Cardinality(readers) >= ReaderLimit
               THEN readers ELSE {}
  IN  IF t[r].state = "queued" THEN inTheWay \cup slots ELSE {}

-----------------------------------------------------------------------------
(* Transactions.                                                            *)

ExpireBroken(t, now) ==   \* reaps a row one tick before its lease is past
  [r \in Request |-> IF t[r] # NoRow /\ t[r].lease <= now + 1 THEN NoRow ELSE t[r]]

(* `DELETE FROM workspace_admissions WHERE lease_expires_at<=?', the first  *)
(* statement of every transaction that is given a time.                     *)
Expire(t, now) ==
  [r \in Request |-> IF t[r] # NoRow /\ t[r].lease <= now THEN NoRow ELSE t[r]]

(* enqueue of a request that already has a live row: refused unless it      *)
(* asks for the same workspace and access.                                  *)
InUse(t, r, w, a, now) ==
  LET live == Expire(t, now) IN
  live[r] # NoRow /\ ~(live[r].workspace = w /\ live[r].access = a)

(* enqueue: insert the row under a new ticket, or find it as it is.         *)
Enqueued(t, r, w, a, now, ticket) ==
  LET live == Expire(t, now) IN
  IF live[r] # NoRow THEN live
  ELSE [live EXCEPT ![r] = [workspace |-> w, access |-> a, state |-> "queued",
                            ticket |-> ticket, lease |-> now + Lease]]

TryAcquiredBroken(t, r, now) ==   \* trusts the lease filter of the queries, deletes nothing
  LET state == IF Eligible(t, r, now) THEN "acquired" ELSE "queued"
  IN  IF t[r] = NoRow \/ t[r].state = "acquired" THEN t
      ELSE [t EXCEPT ![r].state = state, ![r].lease = now + Lease]

(* try_acquire: acquire an eligible queued row, keep an ineligible one      *)
(* alive, leave an acquired one as it is.                                   *)
TryAcquired(t, r, now) ==
  LET live == Expire(t, now)
      state == IF Eligible(live, r, now) THEN "acquired" ELSE "queued"
  IN  IF live[r] = NoRow \/ live[r].state = "acquired" THEN live
      ELSE [live EXCEPT ![r].state = state, ![r].lease = now + Lease]

RenewedBroken(t, r, now) ==   \* a lease that ends now
  LET live == Expire(t, now) IN
  IF live[r] = NoRow THEN live ELSE [live EXCEPT ![r].lease = now]

(* renew: extend the lease of the row, whatever its state.                  *)
Renewed(t, r, now) ==
  LET live == Expire(t, now) IN
  IF live[r] = NoRow THEN live ELSE [live EXCEPT ![r].lease = now + Lease]

RemovedBroken(t, r) ==   \* the row is marked, not deleted
  IF t[r] = NoRow THEN t ELSE [t EXCEPT ![r].state = "released"]

(* release and cancel.                                                      *)
Removed(t, r) == [t EXCEPT ![r] = NoRow]

-----------------------------------------------------------------------------
(* What is claimed of a table, in the modules that use it.                  *)

Conflict(t, r, s) ==
  /\ t[r].workspace = t[s].workspace
  /\ "exclusive" \in {t[r].access, t[s].access}

(* Acquired rows do not conflict.                                           *)
AdmittedAlone(t) ==
  \A r, s \in Present(t) :
    r # s /\ t[r].state = "acquired" /\ t[s].state = "acquired" => ~Conflict(t, r, s)

(* No acquired row conflicts with a queued one that has a lower ticket.     *)
FirstComeFirstServed(t) ==
  \A r, s \in Present(t) :
    /\ t[r].state = "acquired" /\ t[s].state = "queued"
    /\ t[s].ticket < t[r].ticket
    => ~Conflict(t, r, s)

Readers(t, w) ==
  {r \in Present(t) : /\ t[r].workspace = w /\ t[r].access = "shared"
                      /\ t[r].state = "acquired"}
=============================================================================
