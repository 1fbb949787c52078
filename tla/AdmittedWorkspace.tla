-------------------------- MODULE AdmittedWorkspace --------------------------
(***************************************************************************)
(* The two-layer serialisation of CLI runs: admitted_workspace queues a    *)
(* run in the durable admission table, keeps the row's lease alive from a  *)
(* task of its own, takes the operating-system lock of the workspace,      *)
(* runs the body and gives everything back.  Runs live in server processes *)
(* that stall, crash and have their tasks cancelled, more than once.       *)
(*                                                                         *)
(* Store calls are synchronous in the event loop, so a run, its renewal    *)
(* task and a cancellation interleave only where the code awaits; runs of  *)
(* different processes interleave everywhere.  A call commits at the time  *)
(* it read here; WorkspaceAdmission treats the calls that commit late.     *)
(***************************************************************************)
EXTENDS AdmissionTable

CONSTANTS
  Asks,          \* the [workspace, mode, browser] a run may be called with
  QueueBudget,   \* _queue_timeout_seconds(), or the run's deadline if it is nearer
  MaxTime,       \* bound of the clock
  NoAsk          \* the ask of a run that has not started

Ask == [workspace : Workspace, mode : {"plan", "accept-edits"},
        browser : {"disabled", "isolated", "user_session"}]

ASSUME AsksAssumption == Asks \subseteq Ask /\ NoAsk \notin Ask
ASSUME NobodyAssumption == NoAsk \notin [workspace : Workspace, access : Access]
ASSUME BudgetAssumption == QueueBudget \in Nat \ {0} /\ MaxTime \in Nat
ASSUME LeaseThirds == Lease % 3 = 0

VARIABLES
  clock,         \* the time of the machine
  rows,          \* the table workspace_admissions
  lastTicket,    \* its sqlite_sequence
  pc,            \* where the run is in admitted_workspace
  ask,           \* what the run was called with
  giveUp,        \* queue_deadline
  renewal,       \* the renewal task: none, running or stopped
  renewAt,       \* when it wakes up
  flock          \* whether the run holds the lock file of its workspace

vars == <<clock, rows, lastTicket, pc, ask, giveUp, renewal, renewAt, flock>>

PC == {"idle", "queued", "admitted", "locking", "working", "gathering", "done", "dead"}

TypeOK ==
  /\ clock \in Nat
  /\ rows \in Table
  /\ lastTicket \in Nat
  /\ pc \in [Request -> PC]
  /\ ask \in [Request -> Ask \cup {NoAsk}]
  /\ giveUp \in [Request -> Nat]
  /\ renewal \in [Request -> {"none", "running", "stopped"}]
  /\ renewAt \in [Request -> Nat]
  /\ flock \in [Request -> BOOLEAN]

Init ==
  /\ clock = 0
  /\ rows = [r \in Request |-> NoRow]
  /\ lastTicket = 0
  /\ pc = [r \in Request |-> "idle"]
  /\ ask = [r \in Request |-> NoAsk]
  /\ giveUp = [r \in Request |-> 0]
  /\ renewal = [r \in Request |-> "none"]
  /\ renewAt = [r \in Request |-> 0]
  /\ flock = [r \in Request |-> FALSE]

-----------------------------------------------------------------------------
(* As in AdmissionTable, ...Broken is a bug that a run is checked to notice. *)

AccessOfBroken(a) == IF a.mode # "plan" THEN "exclusive" ELSE "shared"

(* A plan without a browser shares the workspace.                           *)
AccessOf(a) ==
  IF a.mode # "plan" \/ a.browser # "disabled" THEN "exclusive" ELSE "shared"

Goto(r, where) == pc' = [pc EXCEPT ![r] = where]

BusyBroken(r) ==   \* an editor takes the file over readers
  \E s \in Request \ {r} : /\ flock[s]
                           /\ ask[s].workspace = ask[r].workspace
                           /\ AccessOf(ask[s]) = "exclusive"

(* flock(LOCK_SH or LOCK_EX, LOCK_NB) fails.                                *)
Busy(r) ==
  \E s \in Request \ {r} :
    /\ flock[s]
    /\ ask[s].workspace = ask[r].workspace
    /\ "exclusive" \in {AccessOf(ask[s]), AccessOf(ask[r])}

(* The run is called and enqueues its request.                              *)
Start(r, a) ==
  /\ pc[r] = "idle"
  /\ clock + QueueBudget <= MaxTime   \* MaxTime leaves room for the queue deadline
  /\ ask' = [ask EXCEPT ![r] = a]
  /\ giveUp' = [giveUp EXCEPT ![r] = clock + QueueBudget]
  /\ rows' = Enqueued(rows, r, a.workspace, AccessOf(a), clock, lastTicket + 1)
  /\ lastTicket' = lastTicket + 1
  /\ Goto(r, "queued")
  /\ UNCHANGED <<clock, renewal, renewAt, flock>>

CloseBroken(r) ==   \* the row is released before the lock
  /\ rows' = Removed(rows, r)
  /\ renewal' = [renewal EXCEPT ![r] = "stopped"]
  /\ Goto(r, "gathering")
  /\ UNCHANGED <<clock, lastTicket, ask, giveUp, renewAt, flock>>

(* The finally clause: the lock goes first, then the renewal task is        *)
(* cancelled and awaited, then the row is deleted.  Without a renewal task  *)
(* there is nothing to await.                                               *)
Close(r) ==
  /\ flock' = [flock EXCEPT ![r] = FALSE]
  /\ IF renewal[r] = "none"
     THEN rows' = Removed(rows, r) /\ Goto(r, "done") /\ UNCHANGED renewal
     ELSE /\ renewal' = [renewal EXCEPT ![r] = "stopped"]
          /\ Goto(r, "gathering")
          /\ UNCHANGED rows
  /\ UNCHANGED <<clock, lastTicket, ask, giveUp, renewAt>>

PollBroken(r) ==   \* the first renewal is due when the lease is over
  /\ pc[r] = "queued"
  /\ clock < giveUp[r]
  /\ rows' = TryAcquired(rows, r, clock)
  /\ rows'[r] # NoRow /\ rows'[r].state = "acquired"
  /\ Goto(r, "admitted")
  /\ renewal' = [renewal EXCEPT ![r] = "running"]
  /\ renewAt' = [renewAt EXCEPT ![r] = clock + Lease]
  /\ UNCHANGED <<clock, lastTicket, ask, giveUp, flock>>

(* One round of the queue loop: the budget is checked first; a row that is  *)
(* gone ends the run without a release; an acquired one starts the renewal. *)
Poll(r) ==
  /\ pc[r] = "queued"
  /\ clock < giveUp[r]
  /\ rows' = TryAcquired(rows, r, clock)
  /\ \/ /\ rows'[r] = NoRow
        /\ Goto(r, "done")
        /\ UNCHANGED <<renewal, renewAt>>
     \/ /\ rows'[r] # NoRow /\ rows'[r].state = "acquired"
        /\ Goto(r, "admitted")
        /\ renewal' = [renewal EXCEPT ![r] = "running"]
        /\ renewAt' = [renewAt EXCEPT ![r] = clock + Lease \div 3]
     \/ /\ rows'[r] # NoRow /\ rows'[r].state = "queued"
        /\ UNCHANGED <<pc, renewal, renewAt>>
  /\ UNCHANGED <<clock, lastTicket, ask, giveUp, flock>>

TimeOutBroken(r) ==   \* the wait for the lock file has no deadline
  /\ clock >= giveUp[r]
  /\ pc[r] \in {"queued", "admitted"}
  /\ Close(r)

(* WorkspaceLockTimeout: in the queue, after it, or on a busy lock file.    *)
TimeOut(r) ==
  /\ clock >= giveUp[r]
  /\ pc[r] \in {"queued", "admitted"} \/ (pc[r] = "locking" /\ Busy(r))
  /\ Close(r)

(* WorkspaceLock.acquire: try, and while the file is busy try again.        *)
TryLock(r) ==
  /\ pc[r] = "locking" \/ (pc[r] = "admitted" /\ clock < giveUp[r])
  /\ \/ /\ ~Busy(r)
        /\ flock' = [flock EXCEPT ![r] = TRUE]
        /\ Goto(r, "working")
     \/ /\ Busy(r)
        /\ Goto(r, "locking")
        /\ UNCHANGED flock
  /\ UNCHANGED <<clock, rows, lastTicket, ask, giveUp, renewal, renewAt>>

(* The task is cancelled, or an error is raised, while it waits; or the     *)
(* body ends, in whatever way.                                              *)
Leave(r) ==
  /\ pc[r] \in {"queued", "admitted", "locking", "working"}
  /\ Close(r)

(* The renewal task was awaited: release the row.                           *)
Release(r) ==
  /\ pc[r] = "gathering"
  /\ rows' = Removed(rows, r)
  /\ Goto(r, "done")
  /\ UNCHANGED <<clock, lastTicket, ask, giveUp, renewal, renewAt, flock>>

(* The store refuses to delete the row, now or in the queue, where there is *)
(* no renewal task to await: it is logged, and not tried again.             *)
ReleaseFails(r) ==
  /\ pc[r] \in {"queued", "gathering"}
  /\ Goto(r, "done")
  /\ UNCHANGED <<clock, rows, lastTicket, ask, giveUp, renewal, renewAt, flock>>

(* The task is cancelled again at the await of the renewal task, and the    *)
(* release is skipped.                                                      *)
CancelAgain(r) ==
  /\ pc[r] = "gathering"
  /\ Goto(r, "done")
  /\ UNCHANGED <<clock, rows, lastTicket, ask, giveUp, renewal, renewAt, flock>>

(* The renewal task wakes up; it ends when the row is gone, and the run     *)
(* goes on without admission.                                               *)
Renew(r) ==
  /\ renewal[r] = "running" /\ renewAt[r] <= clock
  /\ rows' = Renewed(rows, r, clock)
  /\ renewal' = [renewal EXCEPT ![r] = IF rows'[r] = NoRow THEN "stopped" ELSE @]
  /\ renewAt' = [renewAt EXCEPT ![r] = clock + Lease \div 3]
  /\ UNCHANGED <<clock, lastTicket, pc, ask, giveUp, flock>>

(* An SQLite error ends the renewal task.                                   *)
RenewFails(r) ==
  /\ renewal[r] = "running" /\ renewAt[r] <= clock
  /\ renewal' = [renewal EXCEPT ![r] = "stopped"]
  /\ UNCHANGED <<clock, rows, lastTicket, pc, ask, giveUp, renewAt, flock>>

(* The server process dies: the operating system frees the lock file, the   *)
(* row stays until its lease is past.                                       *)
Crash(r) ==
  /\ pc[r] \notin {"idle", "done", "dead"}
  /\ Goto(r, "dead")
  /\ flock' = [flock EXCEPT ![r] = FALSE]
  /\ renewal' = [renewal EXCEPT ![r] = "stopped"]
  /\ UNCHANGED <<clock, rows, lastTicket, ask, giveUp, renewAt>>

(* A call for another workspace: it deletes every row that is past its      *)
(* lease first, wherever it is.                                             *)
Reconcile ==
  /\ rows' = Expire(rows, clock)
  /\ UNCHANGED <<clock, lastTicket, pc, ask, giveUp, renewal, renewAt, flock>>

Tick ==
  /\ clock < MaxTime
  /\ clock' = clock + 1
  /\ UNCHANGED <<rows, lastTicket, pc, ask, giveUp, renewal, renewAt, flock>>

(* The event loops keep up: time does not pass a renewal that is due, nor a *)
(* queued run that has not polled for a whole lease.                        *)
PromptTick ==
  /\ \A r \in Request : renewal[r] = "running" => clock < renewAt[r]
  /\ \A r \in Request : pc[r] = "queued" => clock + 1 < rows[r].lease
  /\ Tick

RunStep(r) ==
  \/ \E a \in Asks : Start(r, a)
  \/ Poll(r) \/ TimeOut(r) \/ TryLock(r) \/ Leave(r)
  \/ Release(r) \/ CancelAgain(r) \/ Renew(r) \/ Crash(r)

(* Processes that stall for any time, and a store that fails.               *)
Next ==
  Tick \/ Reconcile \/ \E r \in Request : RunStep(r) \/ RenewFails(r) \/ ReleaseFails(r)

Spec == Init /\ [][Next]_vars

(* Processes that keep up, unless they crash, and a store that answers.     *)
PromptNext == PromptTick \/ Reconcile \/ \E r \in Request : RunStep(r)

PromptSpec == Init /\ [][PromptNext]_vars

(* A waiting run is scheduled again: asyncio wakes its sleeps, and time goes*)
(* on.  Nothing is assumed of the run that holds the workspace.             *)
Wait(r) == Poll(r) \/ TimeOut(r) \/ TryLock(r)

FairSpec == Spec /\ WF_vars(Tick) /\ \A r \in Request : WF_vars(Wait(r))

-----------------------------------------------------------------------------
MayEdit(r) == ask[r].mode = "accept-edits" \/ ask[r].browser # "disabled"

(* A run that may edit the workspace or drive a browser works alone in it,  *)
(* though leases run out under stalled holders and rows outlive dead ones.  *)
EditorAlone ==
  \A r, s \in Request :
    /\ r # s /\ pc[r] = "working" /\ pc[s] = "working"
    /\ ask[r].workspace = ask[s].workspace
    => ~MayEdit(r)

(* While processes keep up, a working run keeps the admission it works      *)
(* under: its row is there, acquired, and its lease is live.                *)
HolderKeepsAdmission ==
  \A r \in Request :
    flock[r] => /\ rows[r] # NoRow /\ rows[r].state = "acquired"
                /\ rows[r].lease > clock

(* While processes keep up, the two layers agree: an admitted run finds the *)
(* lock file free.  (A holder gives the lock back before its row, and a     *)
(* crash frees it at once.)                                                 *)
AdmittedFindsLockFree ==
  \A r \in Request : pc[r] \in {"admitted", "locking"} => ~Busy(r)

(* Waiting ends: a queued run gets the workspace, gives up by its queue     *)
(* deadline or fails, even if the run that holds the workspace never ends.  *)
QueueWaitEnds ==
  \A r \in Request :
    pc[r] = "queued" ~> pc[r] \notin {"queued", "admitted", "locking"}

(* SKILL.md 85-86: leases `are released on completion/cancel'.              *)
ReleasedWhenDone == \A r \in Request : pc[r] = "done" => rows[r] = NoRow

(* The lock file serialises the runs as a readers-writer lock does.         *)
Held(r) ==
  IF flock[r] THEN [workspace |-> ask[r].workspace, access |-> AccessOf(ask[r])]
  ELSE NoAsk

Lock == INSTANCE ReadersWriter
          WITH holds <- [r \in Request |-> Held(r)], Nobody <- NoAsk

ImplementsReadersWriter == Lock!Spec
=============================================================================
