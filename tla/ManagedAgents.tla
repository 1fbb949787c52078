---------------------------- MODULE ManagedAgents ----------------------------
(***************************************************************************)
(* The managed agents of server processes that share one store: the task   *)
(* _run_managed_agent of each agent, the execution task it starts and      *)
(* polls, and the interrupt tool, called of any server and more than once. *)
(*                                                                         *)
(* The tasks of one server interleave where the code awaits; servers       *)
(* interleave everywhere.  A row is its status and its cancel flag; the    *)
(* store's transactions are those of AgentStore.  A store call may fail    *)
(* (SQLite locked for longer than its time-out, disk full).                *)
(***************************************************************************)
EXTENDS Naturals, FiniteSets

CONSTANTS
  Agent,         \* agent ids
  Server,        \* server processes
  Caller,        \* concurrent calls of the interrupt tool
  MaxActive,     \* MAX_ACTIVE_AGENTS
  StoreFails,    \* whether calls of the store may fail
  Nobody         \* no server, no agent

ASSUME ActiveAssumption == MaxActive \in Nat \ {0} /\ StoreFails \in BOOLEAN
ASSUME NobodyAssumption == Nobody \notin Server \cup Agent

Active == {"queued", "running"}
Terminal == {"completed", "failed", "interrupted"}

VARIABLES
  status,        \* the status of the agent's row, or absent
  cancel,        \* cancel_requested
  owner,         \* the server whose _AGENT_TASKS has the agent
  manager,       \* its _run_managed_agent: where it awaits
  pending,       \* task.cancel() was called on it and not delivered
  execution,     \* its execute_with_antigravity_cli
  failed,        \* history: a store call of the manager has failed
  call,          \* an interrupt call: where, of which agent, and what it has found
  up             \* the servers that run

vars == <<status, cancel, owner, manager, pending, execution, failed, call, up>>

TypeOK ==
  /\ status \in [Agent -> {"absent"} \cup Active \cup Terminal]
  /\ cancel \in [Agent -> BOOLEAN]
  /\ owner \in [Agent -> Server \cup {Nobody}]
  /\ manager \in [Agent -> {"none", "scheduled", "polling", "stopping", "cancelled", "done"}]
  /\ pending \in [Agent -> BOOLEAN]
  /\ execution \in [Agent -> {"none", "running", "unwinding", "ended"}]
  /\ failed \in [Agent -> BOOLEAN]
  /\ call \in [Caller -> [server : Server, agent : Agent,
                         found : {"ended", "task", "row"}] \cup {Nobody}]
  /\ up \subseteq Server

Init ==
  /\ status = [a \in Agent |-> "absent"]
  /\ cancel = [a \in Agent |-> FALSE]
  /\ owner = [a \in Agent |-> Nobody]
  /\ manager = [a \in Agent |-> "none"]
  /\ pending = [a \in Agent |-> FALSE]
  /\ execution = [a \in Agent |-> "none"]
  /\ failed = [a \in Agent |-> FALSE]
  /\ call = [c \in Caller |-> Nobody]
  /\ up = Server

-----------------------------------------------------------------------------
FinishedBroken(a, outcome) ==   \* a status that the table does not know
  status' = [status EXCEPT ![a] = IF @ \notin Active THEN @
                                  ELSE IF cancel[a] THEN "cancelled" ELSE outcome]

(* finish: a terminal row stays, a requested cancellation wins.             *)
Finished(a, outcome) ==
  status' = [status EXCEPT ![a] = IF @ \notin Active THEN @
                                  ELSE IF cancel[a] THEN "interrupted" ELSE outcome]

(* finish, or its failure: the caller logs it and goes on.                  *)
FinishedOrNot(a, outcome) ==
  \/ Finished(a, outcome) /\ UNCHANGED failed
  \/ StoreFails /\ failed' = [failed EXCEPT ![a] = TRUE] /\ UNCHANGED status

ManagerEnds(a) ==
  /\ manager' = [manager EXCEPT ![a] = "done"]
  /\ pending' = [pending EXCEPT ![a] = FALSE]

(* _schedule_managed_agent: the row and the task, with no await between.    *)
Spawn(s, a) ==
  /\ s \in up /\ status[a] = "absent"
  /\ Cardinality({b \in Agent : status[b] \in Active}) < MaxActive
  /\ status' = [status EXCEPT ![a] = "queued"]
  /\ owner' = [owner EXCEPT ![a] = s]
  /\ manager' = [manager EXCEPT ![a] = "scheduled"]
  /\ UNCHANGED <<cancel, pending, execution, failed, call, up>>

BeginBroken(a) ==   \* mark_running's answer is not looked at
  /\ manager[a] = "scheduled" /\ ~pending[a]
  /\ manager' = [manager EXCEPT ![a] = "polling"]
  /\ execution' = [execution EXCEPT ![a] = "running"]
  /\ status' = [status EXCEPT ![a] = IF @ = "queued" THEN "running" ELSE @]
  /\ UNCHANGED <<cancel, owner, pending, failed, call, up>>

(* The first step of the manager, up to its first await: it starts the      *)
(* execution only if the row is still queued and not cancelled.             *)
Begin(a) ==
  /\ manager[a] = "scheduled" /\ ~pending[a]
  /\ \/ /\ status[a] = "queued" /\ ~cancel[a]
        /\ status' = [status EXCEPT ![a] = "running"]
        /\ manager' = [manager EXCEPT ![a] = "polling"]
        /\ execution' = [execution EXCEPT ![a] = "running"]
        /\ UNCHANGED <<pending, failed>>
     \/ /\ status[a] = "queued" /\ cancel[a]
        /\ FinishedOrNot(a, "interrupted")
        /\ ManagerEnds(a)
        /\ UNCHANGED execution
     \/ /\ status[a] # "queued"
        /\ ManagerEnds(a)
        /\ UNCHANGED <<status, execution, failed>>
  /\ UNCHANGED <<cancel, owner, call, up>>

(* The polling loop sees the flag, cancels the execution and awaits it.     *)
SeeCancel(a) ==
  /\ manager[a] = "polling" /\ ~pending[a]
  /\ execution[a] = "running" /\ cancel[a]
  /\ manager' = [manager EXCEPT ![a] = "stopping"]
  /\ execution' = [execution EXCEPT ![a] = "unwinding"]
  /\ UNCHANGED <<status, cancel, owner, pending, failed, call, up>>

HarvestBroken(a) ==   \* a result that comes with a cancellation is dropped and not replaced
  /\ manager[a] = "polling" /\ ~pending[a] /\ execution[a] = "ended"
  /\ IF cancel[a] THEN UNCHANGED <<status, failed>>
     ELSE FinishedOrNot(a, "completed") \/ FinishedOrNot(a, "failed")
  /\ ManagerEnds(a)
  /\ UNCHANGED <<cancel, owner, execution, call, up>>

(* The execution has ended by itself.                                       *)
Harvest(a) ==
  /\ manager[a] = "polling" /\ ~pending[a] /\ execution[a] = "ended"
  /\ FinishedOrNot(a, "completed") \/ FinishedOrNot(a, "failed")
  /\ ManagerEnds(a)
  /\ UNCHANGED <<cancel, owner, execution, call, up>>

StoppedBroken(a) ==   \* left to the interrupt tool
  /\ manager[a] \in {"stopping", "cancelled"} /\ execution[a] = "ended"
  /\ ManagerEnds(a)
  /\ UNCHANGED <<status, cancel, owner, execution, failed, call, up>>

(* The manager that stopped the execution, by the flag or by its own        *)
(* cancellation, finishes the row.  Cancelling it again while it awaits the *)
(* execution does not let it go before the execution has ended (gather      *)
(* waits for its children), and then its done callback finishes the row.    *)
Stopped(a) ==
  /\ manager[a] \in {"stopping", "cancelled"} /\ execution[a] = "ended"
  /\ FinishedOrNot(a, "interrupted")
  /\ ManagerEnds(a)
  /\ UNCHANGED <<cancel, owner, execution, call, up>>

CancelledBroken(a) ==   \* the execution is cancelled and not awaited
  /\ pending[a] /\ manager[a] \in {"scheduled", "polling"}
  /\ FinishedOrNot(a, "interrupted")
  /\ ManagerEnds(a)
  /\ execution' = [execution EXCEPT ![a] = IF @ = "running" THEN "unwinding" ELSE @]
  /\ UNCHANGED <<cancel, owner, call, up>>

(* The cancellation of the manager is delivered: before it has begun it     *)
(* ends at once and its done callback finishes the row; in the loop it      *)
(* cancels the execution and awaits it.                                     *)
Cancelled(a) ==
  /\ pending[a]
  /\ \/ /\ manager[a] = "scheduled"
        /\ FinishedOrNot(a, "interrupted")
        /\ ManagerEnds(a)
        /\ UNCHANGED execution
     \/ /\ manager[a] = "polling"
        /\ manager' = [manager EXCEPT ![a] = "cancelled"]
        /\ pending' = [pending EXCEPT ![a] = FALSE]
        /\ execution' = [execution EXCEPT ![a] = IF @ = "running" THEN "unwinding" ELSE @]
        /\ UNCHANGED <<status, failed>>
  /\ UNCHANGED <<cancel, owner, call, up>>

(* A store call of the manager raises: the generic handler finishes the row *)
(* as failed if it can, and leaves the execution to itself.                 *)
StoreError(a) ==
  /\ StoreFails
  /\ manager[a] \in {"scheduled", "polling"} /\ ~pending[a]
  /\ failed' = [failed EXCEPT ![a] = TRUE]
  /\ Finished(a, "failed") \/ UNCHANGED status
  /\ ManagerEnds(a)
  /\ UNCHANGED <<cancel, owner, execution, call, up>>

(* The execution ends by itself, at its deadline at the latest, or has      *)
(* unwound after a cancellation.                                            *)
ExecutionEnds(a) ==
  /\ execution[a] \in {"running", "unwinding"}
  /\ execution' = [execution EXCEPT ![a] = "ended"]
  /\ UNCHANGED <<status, cancel, owner, manager, pending, failed, call, up>>

HasTask(s, a) == owner[a] = s /\ manager[a] \in {"scheduled", "polling", "stopping", "cancelled"}

(* antigravity_agent_interrupt on server s.  A row that is terminal when it *)
(* is read is the answer, whatever still runs here.  Else request_cancel,   *)
(* which leaves a row alone that another server has ended since, and, with  *)
(* no await between, task.cancel for an agent that has a task here.         *)
Interrupt(c, s, a) ==
  /\ call[c] = Nobody /\ s \in up
  /\ \/ /\ status[a] \in Terminal
        /\ call' = [call EXCEPT ![c] = [server |-> s, agent |-> a, found |-> "ended"]]
        /\ UNCHANGED <<cancel, pending>>
     \/ /\ status[a] \in Active \/ (status[a] \in Terminal /\ up # {s})
        /\ cancel' = [cancel EXCEPT ![a] = @ \/ status[a] \in Active]
        /\ call' = [call EXCEPT ![c] = [server |-> s, agent |-> a,
                                       found |-> IF HasTask(s, a) THEN "task" ELSE "row"]]
        /\ pending' = [pending EXCEPT ![a] =
                         @ \/ (HasTask(s, a) /\ manager[a] \in {"scheduled", "polling"})]
  /\ UNCHANGED <<status, owner, manager, execution, failed, up>>

InterruptReturnsBroken(c) ==   \* the task is cancelled and not awaited
  /\ call[c] # Nobody
  /\ Finished(call[c].agent, "interrupted")
  /\ call' = [call EXCEPT ![c] = Nobody]
  /\ UNCHANGED <<cancel, owner, manager, pending, execution, failed, up>>

(* The call answers: what it read, or, when the task was awaited, if there  *)
(* was one, what finish leaves, for the case that nobody else has.          *)
InterruptReturns(c) ==
  /\ call[c] # Nobody
  /\ \/ call[c].found = "ended" /\ UNCHANGED status
     \/ /\ call[c].found = "task" => manager[call[c].agent] = "done"
        /\ call[c].found # "ended"
        /\ Finished(call[c].agent, "interrupted")
  /\ call' = [call EXCEPT ![c] = Nobody]
  /\ UNCHANGED <<cancel, owner, manager, pending, execution, failed, up>>

(* The client gives the call up, or its finish fails.  Cancelling the call  *)
(* cancels the manager it awaits, which it has been already.                *)
InterruptFails(c) ==
  /\ call[c] # Nobody
  /\ call' = [call EXCEPT ![c] = Nobody]
  /\ UNCHANGED <<status, cancel, owner, manager, pending, execution, failed, up>>

(* reconcile_stale, by any tool of any server: agents that nobody writes    *)
(* any more, and live ones after the machine was asleep.                    *)
Reconcile(a) ==
  /\ status[a] \in Active /\ up # {}
  /\ status' = [status EXCEPT ![a] = "failed"]
  /\ UNCHANGED <<cancel, owner, manager, pending, execution, failed, call, up>>

(* The process dies, and with it its tasks and calls.                       *)
Crash(s) ==
  /\ s \in up
  /\ up' = up \ {s}
  /\ manager' = [a \in Agent |-> IF owner[a] = s THEN "done" ELSE manager[a]]
  /\ pending' = [a \in Agent |-> owner[a] # s /\ pending[a]]
  /\ execution' = [a \in Agent |-> IF owner[a] = s THEN "ended" ELSE execution[a]]
  /\ call' = [c \in Caller |-> IF call[c] # Nobody /\ call[c].server = s THEN Nobody
                               ELSE call[c]]
  /\ UNCHANGED <<status, cancel, owner, failed>>

Manage(a) == Begin(a) \/ SeeCancel(a) \/ Harvest(a) \/ Stopped(a) \/ Cancelled(a)

Next ==
  \/ \E a \in Agent : \/ Manage(a) \/ StoreError(a) \/ ExecutionEnds(a) \/ Reconcile(a)
                      \/ \E s \in Server : Spawn(s, a)
                      \/ \E c \in Caller, s \in Server : Interrupt(c, s, a)
  \/ \E c \in Caller : InterruptReturns(c) \/ InterruptFails(c)
  \/ \E s \in Server : Crash(s)

Spec == Init /\ [][Next]_vars

(* Event loops run their tasks, and every execution has a deadline.  No     *)
(* call of a tool is counted on.                                            *)
FairSpec ==
  Spec /\ \A a \in Agent : WF_vars(Manage(a)) /\ WF_vars(ExecutionEnds(a))

-----------------------------------------------------------------------------
(* An execution never runs without a manager that will see its end or a     *)
(* cancellation, unless a store call of its manager has failed.             *)
ExecutionManaged ==
  \A a \in Agent :
    execution[a] \in {"running", "unwinding"} /\ ~failed[a]
      => manager[a] \in {"polling", "stopping", "cancelled"}

(* Every way out of the manager leaves a terminal row: an active row has a  *)
(* manager, or its server has died, or a store call has failed.             *)
ActiveManaged ==
  \A a \in Agent :
    status[a] \in Active /\ owner[a] \in up /\ ~failed[a]
      => manager[a] \notin {"none", "done"}

(* An interrupt call on the agent's own server answers.                    *)
Answers(c, a) ==
  InterruptReturns(c) /\ call[c].agent = a /\ call[c].server = owner[a]

(* The execution goes on behind a row that somebody else has ended: another *)
(* server's interrupt, whose flag its manager is about to see, or a         *)
(* reconciliation that took it for lost.                                    *)
EndedElsewhere(a) == (status[a] = "interrupted" /\ cancel[a]) \/ status[a] = "failed"

(* The interrupt tool `stops a locally owned agent now': when it answers    *)
(* for an agent of its own server, the execution has ended, also when       *)
(* several calls interrupt it.  Excepted are a store call of the manager    *)
(* that has failed, and a row that was ended from elsewhere before the tool *)
(* read it: that one it answers at once, and no row that its own manager    *)
(* has ended is ever such a row.                                            *)
InterruptStops ==
  [][\A c \in Caller, a \in Agent :
       Answers(c, a) /\ ~failed[a] /\ execution[a] \in {"running", "unwinding"}
         => call[c].found = "ended" /\ EndedElsewhere(a)]_vars


(* An agent of a server that lives ends, and its execution with it, though  *)
(* the cancellation may come from another server that only sets the flag.   *)
AgentStops ==
  \A a \in Agent :
    status[a] \in Active ~> \/ status[a] \in Terminal /\ execution[a] \in {"none", "ended"}
                            \/ owner[a] \notin up \/ failed[a]

(* The rows live as a client expects.                                       *)
Life == INSTANCE AgentLife

ImplementsAgentLife == Life!Spec
=============================================================================
