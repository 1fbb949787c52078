------------------------ MODULE ManagedAgents_proofs ------------------------
(***************************************************************************)
(* The theorems about managed agents: for any number of agents, servers    *)
(* and interrupt calls, whatever calls of the store fail.                  *)
(***************************************************************************)
EXTENDS ManagedAgents, TLAPS

Live(a) == execution[a] \in {"running", "unwinding"}

(* An agent without a row has never had a task, one with a row has had one. *)
AbsentIdle ==
  \A a \in Agent : /\ status[a] = "absent" => ~Live(a) /\ ~cancel[a]
                   /\ manager[a] = "none" => status[a] = "absent"

(* Only the manager's first step makes the row run.                         *)
ScheduledQueued ==
  \A a \in Agent : manager[a] = "scheduled" => status[a] # "running"

(* A row that ended while its execution goes on was ended from elsewhere,   *)
(* unless a store call failed.                                              *)
EndedLive ==
  \A a \in Agent :
    status[a] \in Terminal /\ Live(a) /\ ~failed[a] => EndedElsewhere(a)

(* What an interrupt call has found stays true: an ended row; else a row    *)
(* that has ended since or carries the flag, and, for a call of the agent's *)
(* own server that found no task, a manager that is over.                   *)
CallsFindTask ==
  \A c \in Caller : call[c] # Nobody =>
    LET a == call[c].agent IN
    /\ status[a] # "absent"
    /\ call[c].found = "ended" => status[a] \in Terminal
    /\ call[c].found # "ended" => cancel[a] \/ status[a] \in Terminal
    /\ call[c].server = owner[a] /\ call[c].found = "row" => manager[a] = "done"

IInv ==
  /\ TypeOK
  /\ AbsentIdle
  /\ ScheduledQueued
  /\ ExecutionManaged
  /\ ActiveManaged
  /\ EndedLive
  /\ CallsFindTask

(* No agent, no call: the invariant holds at the start.                     *)
LEMMA InitIInv == Init => IInv
BY NobodyAssumption
   DEF Init, IInv, TypeOK, AbsentIdle, ScheduledQueued, ExecutionManaged, ActiveManaged,
       EndedLive, CallsFindTask, Live, Active, Terminal

(* What the calls have found outlives every step that lets rows, flags and  *)
(* managers go on as they do.                                               *)
LEMMA CallsStay ==
  ASSUME IInv,
         \A c \in Caller : call'[c] = Nobody \/ call'[c] = call[c],
         \A a \in Agent : status[a] # "absent" =>
           /\ status'[a] # "absent" /\ owner'[a] = owner[a]
           /\ status[a] \in Terminal => status'[a] \in Terminal
           /\ cancel[a] => cancel'[a]
           /\ manager[a] = "done" => manager'[a] = "done"
  PROVE  CallsFindTask'
<1> SUFFICES ASSUME NEW c \in Caller, call'[c] # Nobody, NEW a, a = call'[c].agent
             PROVE  /\ status'[a] # "absent"
                    /\ call'[c].found = "ended" => status'[a] \in Terminal
                    /\ call'[c].found # "ended" => cancel'[a] \/ status'[a] \in Terminal
                    /\ call'[c].server = owner'[a] /\ call'[c].found = "row"
                         => manager'[a] = "done"
  BY DEF CallsFindTask, Terminal
<1>1. call'[c] = call[c]
  OBVIOUS
<1>2. a \in Agent
  BY <1>1 DEF IInv, TypeOK
<1> QED BY <1>1, <1>2 DEF IInv, CallsFindTask

(* finish leaves other rows alone, never leaves a row active, and a row     *)
(* that was ended stays as it was.                                          *)
LEMMA FinishedRow ==
  ASSUME TypeOK, NEW a \in Agent, NEW outcome \in Terminal, Finished(a, outcome)
  PROVE  /\ status' \in [Agent -> {"absent"} \cup Active \cup Terminal]
         /\ \A b \in Agent : b # a => status'[b] = status[b]
         /\ status'[a] \notin Active
         /\ status[a] \notin Active => status'[a] = status[a]
         /\ status[a] \in Active => status'[a] \in Terminal
         /\ status[a] \in Active /\ cancel[a] => status'[a] = "interrupted"
BY DEF TypeOK, Finished, Active, Terminal

(* The same of a finish that may fail, if it does not.                      *)
LEMMA FinishedOrNotRow ==
  ASSUME TypeOK, NEW a \in Agent, NEW outcome \in Terminal, FinishedOrNot(a, outcome)
  PROVE  /\ status' \in [Agent -> {"absent"} \cup Active \cup Terminal]
         /\ failed' \in [Agent -> BOOLEAN]
         /\ \A b \in Agent : b # a => status'[b] = status[b] /\ failed'[b] = failed[b]
         /\ failed[a] => failed'[a]
         /\ status'[a] \in Active => failed'[a] /\ status'[a] = status[a]
         /\ status[a] = "absent" => status'[a] = "absent"
         /\ status'[a] = "absent" => status[a] = "absent"
         /\ status'[a] # status[a] =>
              status[a] \in Active /\ status'[a] \in Terminal /\ (cancel[a] => status'[a] # "completed")
<1>1. CASE Finished(a, outcome) /\ UNCHANGED failed
  BY <1>1, FinishedRow DEF TypeOK, Active, Terminal
<1>2. CASE failed' = [failed EXCEPT ![a] = TRUE] /\ UNCHANGED status
  BY <1>2 DEF TypeOK
<1> QED BY <1>1, <1>2 DEF FinishedOrNot

(* A step that ends the manager of an agent whose execution does not run,   *)
(* and touches nothing else but the row, by a finish that may fail.         *)
LEMMA EndKeeps ==
  ASSUME IInv, NEW a \in Agent, NEW outcome \in Terminal, FinishedOrNot(a, outcome),
         ManagerEnds(a), ~Live(a) \/ failed'[a],
         UNCHANGED <<cancel, owner, execution, call, up>>
  PROVE  IInv'
<1>1. TypeOK'
  BY FinishedOrNotRow DEF IInv, TypeOK, ManagerEnds
<1>2. /\ \A b \in Agent : b # a => manager'[b] = manager[b]
      /\ manager'[a] = "done"
  BY DEF IInv, TypeOK, ManagerEnds
<1>3. AbsentIdle' /\ ScheduledQueued'
  BY <1>2, FinishedOrNotRow DEF IInv, AbsentIdle, ScheduledQueued, Live
<1>4. ExecutionManaged' /\ ActiveManaged'
  BY <1>2, FinishedOrNotRow DEF IInv, ExecutionManaged, ActiveManaged, Live
<1>5. EndedLive'
  BY FinishedOrNotRow DEF IInv, EndedLive, EndedElsewhere, Live
<1>6. CallsFindTask'
  <2>1. \A b \in Agent : status[b] # "absent" =>
          status'[b] # "absent" /\ (status[b] \in Terminal => status'[b] \in Terminal)
    BY FinishedOrNotRow DEF IInv, Active, Terminal
  <2>2. \A b \in Agent : manager[b] = "done" => manager'[b] = "done"
    BY <1>2
  <2> QED BY <2>1, <2>2, CallsStay
<1> QED BY <1>1, <1>3, <1>4, <1>5, <1>6 DEF IInv

(* A new agent, whose row and task come together, keeps the invariant.      *)
LEMMA SpawnKeeps ==
  ASSUME IInv, NEW s \in Server, NEW a \in Agent, Spawn(s, a)
  PROVE  IInv'
<1>1. /\ \A b \in Agent : b # a => /\ status'[b] = status[b] /\ owner'[b] = owner[b]
                                   /\ manager'[b] = manager[b]
      /\ status[a] = "absent" /\ status'[a] = "queued" /\ manager'[a] = "scheduled"
      /\ ~Live(a)
  BY DEF IInv, TypeOK, AbsentIdle, Spawn
<1>2. TypeOK'
  BY DEF IInv, TypeOK, Spawn, Active
<1>3. AbsentIdle' /\ ScheduledQueued' /\ ExecutionManaged' /\ ActiveManaged'
  BY <1>1 DEF IInv, AbsentIdle, ScheduledQueued, ExecutionManaged, ActiveManaged, Live, Spawn
<1>4. EndedLive'
  BY <1>1 DEF IInv, EndedLive, EndedElsewhere, Live, Spawn, Terminal
<1>5. CallsFindTask'
  BY <1>1, CallsStay DEF Spawn
<1> QED BY <1>2, <1>3, <1>4, <1>5 DEF IInv

(* The first step of a manager keeps the invariant.                         *)
LEMMA BeginKeeps ==
  ASSUME IInv, NEW a \in Agent, Begin(a)
  PROVE  IInv'
<1>1. manager[a] = "scheduled" /\ (~failed[a] => ~Live(a))
  BY DEF Begin, IInv, ExecutionManaged, Live
<1>2. CASE /\ status[a] = "queued" /\ ~cancel[a]
           /\ status' = [status EXCEPT ![a] = "running"]
           /\ manager' = [manager EXCEPT ![a] = "polling"]
           /\ execution' = [execution EXCEPT ![a] = "running"]
           /\ UNCHANGED <<pending, failed, cancel, owner, call, up>>
  <2>1. TypeOK'
    BY <1>2 DEF IInv, TypeOK, Active
  <2>2. /\ \A b \in Agent : b # a => /\ status'[b] = status[b] /\ manager'[b] = manager[b]
                                     /\ execution'[b] = execution[b]
        /\ status'[a] = "running" /\ manager'[a] = "polling" /\ execution'[a] = "running"
    BY <1>2 DEF IInv, TypeOK
  <2>3. AbsentIdle' /\ ScheduledQueued' /\ ExecutionManaged' /\ ActiveManaged'
    BY <1>2, <2>2
       DEF IInv, AbsentIdle, ScheduledQueued, ExecutionManaged, ActiveManaged, Live, Active
  <2>4. EndedLive'
    BY <1>2, <2>2 DEF IInv, EndedLive, EndedElsewhere, Live, Terminal
  <2>5. CallsFindTask'
    BY <1>1, <1>2, <2>2, CallsStay DEF Terminal
  <2> QED BY <2>1, <2>3, <2>4, <2>5 DEF IInv
<1>3. CASE /\ status[a] = "queued" /\ cancel[a]
           /\ FinishedOrNot(a, "interrupted") /\ ManagerEnds(a)
           /\ UNCHANGED <<execution, cancel, owner, call, up>>
  <2>1. ~Live(a) \/ failed'[a]
    BY <1>1, <1>3, FinishedOrNotRow DEF IInv, Terminal
  <2> QED BY <1>3, <2>1, EndKeeps DEF Terminal
<1>4. CASE /\ status[a] # "queued" /\ ManagerEnds(a)
           /\ UNCHANGED <<status, execution, failed, cancel, owner, call, up>>
  <2>1. status[a] \notin Active
    BY <1>1, <1>4 DEF IInv, ScheduledQueued, Active
  <2>2. TypeOK'
    BY <1>4 DEF IInv, TypeOK, ManagerEnds
  <2>3. /\ \A b \in Agent : b # a => manager'[b] = manager[b]
        /\ manager'[a] = "done"
    BY <1>4 DEF IInv, TypeOK, ManagerEnds
  <2>4. AbsentIdle' /\ ScheduledQueued' /\ EndedLive' /\ CallsFindTask'
    BY <1>4, <2>3, CallsStay
       DEF IInv, AbsentIdle, ScheduledQueued, EndedLive, EndedElsewhere, Live
  <2>5. ExecutionManaged' /\ ActiveManaged'
    BY <1>1, <1>4, <2>1, <2>3 DEF IInv, ExecutionManaged, ActiveManaged, Live
  <2> QED BY <2>2, <2>4, <2>5 DEF IInv
<1> QED BY <1>2, <1>3, <1>4 DEF Begin

(* The polling loop that sees the flag keeps the invariant.                 *)
LEMMA SeeCancelKeeps ==
  ASSUME IInv, NEW a \in Agent, SeeCancel(a)
  PROVE  IInv'
<1>1. TypeOK'
  BY DEF IInv, TypeOK, SeeCancel
<1>2. /\ \A b \in Agent : b # a => manager'[b] = manager[b] /\ execution'[b] = execution[b]
      /\ manager'[a] = "stopping" /\ execution'[a] = "unwinding"
      /\ execution[a] = "running"
  BY DEF IInv, TypeOK, SeeCancel
<1>3. AbsentIdle' /\ ScheduledQueued' /\ ExecutionManaged' /\ ActiveManaged' /\ EndedLive'
  BY <1>2 DEF IInv, AbsentIdle, ScheduledQueued, ExecutionManaged, ActiveManaged,
              EndedLive, EndedElsewhere, Live, SeeCancel
<1>4. CallsFindTask'
  BY <1>2, CallsStay DEF SeeCancel
<1> QED BY <1>1, <1>3, <1>4 DEF IInv

(* A manager that finishes after its execution has ended.                   *)
LEMMA HarvestKeeps ==
  ASSUME IInv, NEW a \in Agent, Harvest(a) \/ Stopped(a)
  PROVE  IInv'
<1>1. ~Live(a)
  BY DEF Harvest, Stopped, Live
<1>2. PICK outcome \in Terminal : FinishedOrNot(a, outcome)
  BY DEF Harvest, Stopped, Terminal
<1>3. ManagerEnds(a) /\ UNCHANGED <<cancel, owner, execution, call, up>>
  BY DEF Harvest, Stopped
<1> QED BY <1>1, <1>2, <1>3, EndKeeps

(* A cancellation that reaches the manager takes its execution with it.     *)
LEMMA CancelledKeeps ==
  ASSUME IInv, NEW a \in Agent, Cancelled(a)
  PROVE  IInv'
<1>1. CASE /\ manager[a] = "scheduled"
           /\ FinishedOrNot(a, "interrupted") /\ ManagerEnds(a)
           /\ UNCHANGED <<execution, cancel, owner, call, up>>
  <2>1. ~Live(a) \/ failed'[a]
    BY <1>1, FinishedOrNotRow DEF IInv, ExecutionManaged, Live, Terminal
  <2> QED BY <1>1, <2>1, EndKeeps DEF Terminal
<1>2. CASE /\ manager[a] = "polling"
           /\ manager' = [manager EXCEPT ![a] = "cancelled"]
           /\ pending' = [pending EXCEPT ![a] = FALSE]
           /\ execution' = [execution EXCEPT ![a] = IF @ = "running" THEN "unwinding" ELSE @]
           /\ UNCHANGED <<status, failed, cancel, owner, call, up>>
  <2>1. TypeOK'
    BY <1>2 DEF IInv, TypeOK
  <2>2. /\ \A b \in Agent : b # a => manager'[b] = manager[b] /\ execution'[b] = execution[b]
        /\ manager'[a] = "cancelled"
        /\ execution'[a] \in {"running", "unwinding"} => Live(a)
    BY <1>2 DEF IInv, TypeOK, Live
  <2>3. AbsentIdle' /\ ScheduledQueued' /\ ExecutionManaged' /\ ActiveManaged' /\ EndedLive'
    BY <1>2, <2>2 DEF IInv, AbsentIdle, ScheduledQueued, ExecutionManaged, ActiveManaged,
                      EndedLive, EndedElsewhere, Live
  <2>4. CallsFindTask'
    BY <1>2, <2>2, CallsStay
  <2> QED BY <2>1, <2>3, <2>4 DEF IInv
<1> QED BY <1>1, <1>2 DEF Cancelled

(* A failed store call of the manager: whatever becomes of the execution,   *)
(* the agent is out of the claims.                                          *)
LEMMA StoreErrorKeeps ==
  ASSUME IInv, NEW a \in Agent, StoreError(a)
  PROVE  IInv'
<1>1. /\ \A b \in Agent : b # a => manager'[b] = manager[b] /\ failed'[b] = failed[b]
      /\ manager'[a] = "done" /\ failed'[a]
  BY DEF IInv, TypeOK, StoreError, ManagerEnds
<1>2. /\ status' \in [Agent -> {"absent"} \cup Active \cup Terminal]
      /\ \A b \in Agent : b # a => status'[b] = status[b]
      /\ (status'[a] = "absent") = (status[a] = "absent")
      /\ status[a] \in Terminal => status'[a] \in Terminal
  BY FinishedRow DEF IInv, TypeOK, StoreError, Terminal, Active
<1>3. TypeOK'
  BY <1>2 DEF IInv, TypeOK, StoreError, ManagerEnds
<1>4. AbsentIdle' /\ ScheduledQueued' /\ ExecutionManaged' /\ ActiveManaged' /\ EndedLive'
  BY <1>1, <1>2 DEF IInv, AbsentIdle, ScheduledQueued, ExecutionManaged, ActiveManaged,
                    EndedLive, EndedElsewhere, Live, StoreError
<1>5. CallsFindTask'
  BY <1>1, <1>2, CallsStay DEF StoreError
<1> QED BY <1>3, <1>4, <1>5 DEF IInv

(* An execution that ends keeps the invariant.                              *)
LEMMA ExecutionEndsKeeps ==
  ASSUME IInv, NEW a \in Agent, ExecutionEnds(a)
  PROVE  IInv'
<1>1. TypeOK'
  BY DEF IInv, TypeOK, ExecutionEnds
<1>2. \A b \in Agent : b # a => execution'[b] = execution[b]
  BY DEF IInv, TypeOK, ExecutionEnds
<1>3. execution'[a] = "ended"
  BY DEF IInv, TypeOK, ExecutionEnds
<1>4. AbsentIdle' /\ ScheduledQueued' /\ ExecutionManaged' /\ ActiveManaged' /\ EndedLive'
  BY <1>2, <1>3 DEF IInv, AbsentIdle, ScheduledQueued, ExecutionManaged, ActiveManaged,
                    EndedLive, EndedElsewhere, Live, ExecutionEnds
<1>5. CallsFindTask'
  BY CallsStay DEF ExecutionEnds
<1> QED BY <1>1, <1>4, <1>5 DEF IInv

(* A call of the interrupt tool on the agent's own server finds the task    *)
(* of an active row, unless a store call has failed.                        *)
LEMMA InterruptKeeps ==
  ASSUME IInv, NEW c \in Caller, NEW s \in Server, NEW a \in Agent, Interrupt(c, s, a)
  PROVE  IInv'
<1> DEFINE Found(f) == [server |-> s, agent |-> a, found |-> f]
<1>0. \E f \in {"ended", "task", "row"} :
        /\ call' = [call EXCEPT ![c] = Found(f)]
        /\ f = "ended" => status[a] \in Terminal /\ UNCHANGED <<cancel, pending>>
        /\ f # "ended" =>
             /\ status[a] \in Active \cup Terminal
             /\ cancel' = [cancel EXCEPT ![a] = @ \/ status[a] \in Active]
             /\ pending' = [pending EXCEPT ![a] =
                              @ \/ (HasTask(s, a) /\ manager[a] \in {"scheduled", "polling"})]
        /\ f = "row" => ~HasTask(s, a)
  <2>1. CASE /\ status[a] \in Terminal /\ UNCHANGED <<cancel, pending>>
             /\ call' = [call EXCEPT ![c] = Found("ended")]
    BY <2>1
  <2>2. CASE /\ status[a] \in Active \cup Terminal
             /\ cancel' = [cancel EXCEPT ![a] = @ \/ status[a] \in Active]
             /\ call' = [call EXCEPT ![c] = Found(IF HasTask(s, a) THEN "task" ELSE "row")]
             /\ pending' = [pending EXCEPT ![a] =
                              @ \/ (HasTask(s, a) /\ manager[a] \in {"scheduled", "polling"})]
    BY <2>2
  <2> QED BY <2>1, <2>2 DEF Interrupt
<1>1. /\ \A d \in Caller : d # c => call'[d] = call[d]
      /\ call'[c].server = s /\ call'[c].agent = a
      /\ call'[c].found \in {"ended", "task", "row"}
      /\ call'[c].found = "ended" => status[a] \in Terminal
      /\ call'[c].found # "ended" => cancel'[a] \/ status[a] \in Terminal
      /\ call'[c].found = "row" => ~HasTask(s, a)
  <2>1. PICK f \in {"ended", "task", "row"} :
          /\ call' = [call EXCEPT ![c] = Found(f)]
          /\ f = "ended" => status[a] \in Terminal
          /\ f # "ended" => /\ status[a] \in Active \cup Terminal
                           /\ cancel' = [cancel EXCEPT ![a] = @ \/ status[a] \in Active]
          /\ f = "row" => ~HasTask(s, a)
    BY <1>0
  <2>2. call \in [Caller -> [server : Server, agent : Agent,
                            found : {"ended", "task", "row"}] \cup {Nobody}]
        /\ cancel \in [Agent -> BOOLEAN]
    BY DEF IInv, TypeOK
  <2>3. call'[c] = Found(f) /\ \A d \in Caller : d # c => call'[d] = call[d]
    BY <2>1, <2>2
  <2>4. f # "ended" => cancel'[a] \/ status[a] \in Terminal
    BY <2>1, <2>2
  <2> QED BY <2>1, <2>3, <2>4
<1>2. /\ UNCHANGED <<status, owner, manager, execution, failed, up>>
      /\ s \in up /\ status[a] \in Active \cup Terminal
      /\ \A b \in Agent : cancel[b] => cancel'[b]
      /\ \A b \in Agent : cancel'[b] /\ ~cancel[b] => status[b] \in Active
  BY DEF IInv, TypeOK, Interrupt
<1>3. TypeOK'
  <2>1. call' \in [Caller -> [server : Server, agent : Agent,
                              found : {"ended", "task", "row"}] \cup {Nobody}]
    BY <1>0 DEF IInv, TypeOK
  <2>2. cancel' \in [Agent -> BOOLEAN] /\ pending' \in [Agent -> BOOLEAN]
    BY <1>0 DEF IInv, TypeOK, HasTask
  <2> QED BY <1>2, <2>1, <2>2 DEF IInv, TypeOK
<1>4. AbsentIdle' /\ ScheduledQueued' /\ ExecutionManaged' /\ ActiveManaged'
  BY <1>2 DEF IInv, AbsentIdle, ScheduledQueued, ExecutionManaged, ActiveManaged, Live, Active
<1>5. EndedLive'
  BY <1>2 DEF IInv, EndedLive, EndedElsewhere, Live
<1>6. s = owner[a] /\ ~HasTask(s, a) => manager[a] = "done"
  <2>1. manager[a] \in {"none", "scheduled", "polling", "stopping", "cancelled", "done"}
    BY DEF IInv, TypeOK
  <2>2. manager[a] # "none"
    BY <1>2 DEF IInv, AbsentIdle, Active, Terminal
  <2> QED BY <2>1, <2>2 DEF HasTask
<1>7. CallsFindTask'
  <2> SUFFICES ASSUME NEW d \in Caller, call'[d] # Nobody, NEW b, b = call'[d].agent
               PROVE  /\ status[b] # "absent"
                      /\ call'[d].found = "ended" => status[b] \in Terminal
                      /\ call'[d].found # "ended" => cancel'[b] \/ status[b] \in Terminal
                      /\ call'[d].server = owner[b] /\ call'[d].found = "row"
                           => manager[b] = "done"
    BY <1>2 DEF CallsFindTask
  <2>1. CASE d = c
    BY <1>1, <1>2, <1>6, <2>1 DEF Active, Terminal
  <2>2. CASE d # c
    <3>1. call'[d] = call[d] /\ b \in Agent
      BY <1>1, <2>2 DEF IInv, TypeOK
    <3> QED BY <1>2, <3>1 DEF IInv, CallsFindTask
  <2> QED BY <2>1, <2>2
<1> QED BY <1>3, <1>4, <1>5, <1>7 DEF IInv

(* A call of the interrupt tool that answers, or is given up.               *)
LEMMA InterruptOverKeeps ==
  ASSUME IInv, NEW c \in Caller, InterruptReturns(c) \/ InterruptFails(c)
  PROVE  IInv'
<1>1. /\ call[c] # Nobody /\ call[c].agent \in Agent
      /\ call' = [call EXCEPT ![c] = Nobody]
      /\ UNCHANGED <<cancel, owner, manager, pending, execution, failed, up>>
  BY DEF IInv, TypeOK, InterruptReturns, InterruptFails
<1>2. (call[c].found # "ended" /\ Finished(call[c].agent, "interrupted")) \/ UNCHANGED status
  BY DEF InterruptReturns, InterruptFails
<1>3. /\ status' \in [Agent -> {"absent"} \cup Active \cup Terminal]
      /\ \A b \in Agent :
           \/ status'[b] = status[b]
           \/ status[b] \in Active /\ status'[b] = "interrupted" /\ cancel[b]
  <2>1. CASE UNCHANGED status
    BY <2>1 DEF IInv, TypeOK
  <2>2. CASE call[c].found # "ended" /\ Finished(call[c].agent, "interrupted")
    <3>1. cancel[call[c].agent] \/ status[call[c].agent] \in Terminal
      BY <1>1, <2>2 DEF IInv, CallsFindTask
    <3>2. status[call[c].agent] \in {"absent"} \cup Active \cup Terminal
      BY <1>1 DEF IInv, TypeOK
    <3> QED BY <1>1, <2>2, <3>1, <3>2, FinishedRow DEF IInv, Active, Terminal
  <2> QED BY <1>2, <2>1, <2>2
<1>4. TypeOK'
  BY <1>1, <1>3 DEF IInv, TypeOK
<1>5. AbsentIdle' /\ ScheduledQueued' /\ ExecutionManaged' /\ ActiveManaged'
  BY <1>1, <1>3 DEF IInv, AbsentIdle, ScheduledQueued, ExecutionManaged, ActiveManaged,
                    Live, Active
<1>6. EndedLive'
  BY <1>1, <1>3 DEF IInv, EndedLive, EndedElsewhere, Live
<1>7. CallsFindTask'
  <2>1. \A d \in Caller : call'[d] = Nobody \/ call'[d] = call[d]
    BY <1>1 DEF IInv, TypeOK
  <2>2. \A b \in Agent : status[b] # "absent" =>
          status'[b] # "absent" /\ (status[b] \in Terminal => status'[b] \in Terminal)
    BY <1>3 DEF Active, Terminal
  <2> QED BY <1>1, <2>1, <2>2, CallsStay
<1> QED BY <1>4, <1>5, <1>6, <1>7 DEF IInv

(* A row that is declared lost keeps the invariant.                         *)
LEMMA ReconcileKeeps ==
  ASSUME IInv, NEW a \in Agent, Reconcile(a)
  PROVE  IInv'
<1>1. /\ \A b \in Agent : b # a => status'[b] = status[b]
      /\ status'[a] = "failed" /\ status[a] \in Active
  BY DEF IInv, TypeOK, Reconcile
<1>2. TypeOK'
  BY DEF IInv, TypeOK, Reconcile, Terminal
<1>3. AbsentIdle' /\ ScheduledQueued' /\ ExecutionManaged' /\ ActiveManaged' /\ EndedLive'
  BY <1>1 DEF IInv, AbsentIdle, ScheduledQueued, ExecutionManaged, ActiveManaged,
              EndedLive, EndedElsewhere, Live, Active, Reconcile
<1>4. CallsFindTask'
  BY <1>1, CallsStay DEF Reconcile, Terminal
<1> QED BY <1>2, <1>3, <1>4 DEF IInv

(* The death of a server, which takes its tasks and calls along.            *)
LEMMA CrashKeeps ==
  ASSUME IInv, NEW s \in Server, Crash(s)
  PROVE  IInv'
<1>1. TypeOK'
  BY DEF IInv, TypeOK, Crash
<1>2. /\ \A a \in Agent : owner[a] = s => manager'[a] = "done" /\ execution'[a] = "ended"
      /\ \A a \in Agent : owner[a] # s =>
           manager'[a] = manager[a] /\ execution'[a] = execution[a]
      /\ up' = up \ {s}
      /\ UNCHANGED <<status, cancel, owner, failed>>
  BY DEF Crash
<1>3. AbsentIdle' /\ ScheduledQueued' /\ ExecutionManaged' /\ ActiveManaged' /\ EndedLive'
  BY <1>2 DEF IInv, AbsentIdle, ScheduledQueued, ExecutionManaged, ActiveManaged,
              EndedLive, EndedElsewhere, Live
<1>4. \A c \in Caller : call'[c] = Nobody \/ call'[c] = call[c]
  BY DEF Crash
<1>5. CallsFindTask'
  BY <1>2, <1>4, CallsStay
<1> QED BY <1>1, <1>3, <1>5 DEF IInv

(* Every step keeps the invariant.                                          *)
LEMMA StepIInv == IInv /\ [Next]_vars => IInv'
<1> SUFFICES ASSUME IInv, [Next]_vars PROVE IInv'
  OBVIOUS
<1>1. ASSUME NEW a \in Agent, NEW s \in Server, Spawn(s, a) PROVE IInv'
  BY <1>1, SpawnKeeps
<1>2. ASSUME NEW a \in Agent, Manage(a) PROVE IInv'
  BY <1>2, BeginKeeps, SeeCancelKeeps, HarvestKeeps, CancelledKeeps DEF Manage
<1>3. ASSUME NEW a \in Agent, StoreError(a) PROVE IInv'
  BY <1>3, StoreErrorKeeps
<1>4. ASSUME NEW a \in Agent, ExecutionEnds(a) PROVE IInv'
  BY <1>4, ExecutionEndsKeeps
<1>5. ASSUME NEW a \in Agent, Reconcile(a) PROVE IInv'
  BY <1>5, ReconcileKeeps
<1>6. ASSUME NEW a \in Agent, NEW c \in Caller, NEW s \in Server, Interrupt(c, s, a)
      PROVE IInv'
  BY <1>6, InterruptKeeps
<1>7. ASSUME NEW c \in Caller, InterruptReturns(c) \/ InterruptFails(c) PROVE IInv'
  BY <1>7, InterruptOverKeeps
<1>8. ASSUME NEW s \in Server, Crash(s) PROVE IInv'
  BY <1>8, CrashKeeps
<1>9. CASE UNCHANGED vars
  BY <1>9 DEF vars, IInv, TypeOK, AbsentIdle, ScheduledQueued, ExecutionManaged,
              ActiveManaged, EndedLive, EndedElsewhere, CallsFindTask, Live
<1> QED BY <1>1, <1>2, <1>3, <1>4, <1>5, <1>6, <1>7, <1>8, <1>9 DEF Next

(* The invariant holds in every reachable state.                            *)
LEMMA Invariance == Spec => []IInv
BY InitIInv, StepIInv, PTL DEF Spec

-----------------------------------------------------------------------------
(* Rows, tasks and calls are well formed.                                   *)
THEOREM TypeCorrect == Spec => []TypeOK
BY Invariance, PTL DEF IInv

(* An execution of _run_managed_agent never runs without a manager that     *)
(* will see its end or its cancellation, unless a store call failed.        *)
THEOREM ExecutionManagedHolds == Spec => []ExecutionManaged
BY Invariance, PTL DEF IInv

(* Every way out of _run_managed_agent, the done callback included, leaves  *)
(* a terminal row, unless a store call failed or the server died.           *)
THEOREM ActiveManagedHolds == Spec => []ActiveManaged
BY Invariance, PTL DEF IInv

(* antigravity_agent_interrupt on the agent's own server answers only when  *)
(* the execution has ended, unless a store call of the manager failed or    *)
(* the row that it read had been ended by another server's interrupt, whose *)
(* flag is set, or declared lost.                                           *)
THEOREM InterruptStopsHolds == Spec => InterruptStops
<1>1. IInv /\ [Next]_vars =>
        [\A c \in Caller, a \in Agent :
           Answers(c, a) /\ ~failed[a] /\ execution[a] \in {"running", "unwinding"}
             => call[c].found = "ended" /\ EndedElsewhere(a)]_vars
  <2> SUFFICES ASSUME IInv, NEW c \in Caller, NEW a \in Agent, Answers(c, a), ~failed[a],
                      execution[a] \in {"running", "unwinding"}
               PROVE  call[c].found = "ended" /\ EndedElsewhere(a)
    OBVIOUS
  <2>1. manager[a] # "done"
    BY DEF IInv, ExecutionManaged
  <2>2. /\ call[c] # Nobody /\ call[c].agent = a /\ call[c].server = owner[a]
        /\ call[c].found \in {"ended", "task", "row"}
        /\ call[c].found = "task" => manager[a] = "done"
    BY DEF Answers, InterruptReturns, IInv, TypeOK
  <2>3. call[c].found = "ended"
    BY <2>1, <2>2 DEF IInv, CallsFindTask
  <2> QED BY <2>2, <2>3 DEF IInv, CallsFindTask, EndedLive, Live
<1> QED BY Invariance, <1>1, PTL DEF Spec, InterruptStops

(* Every step that writes one row only, along the life of an agent.         *)
LEMMA OneRowLives ==
  ASSUME TypeOK, TypeOK', NEW a \in Agent, UNCHANGED cancel,
         \A b \in Agent : b # a => status'[b] = status[b],
         \/ status'[a] = status[a]
         \/ status[a] = "absent" /\ status'[a] = "queued" /\ ~cancel[a]
         \/ status[a] = "queued" /\ status'[a] = "running" /\ ~cancel[a]
         \/ status[a] \in Active /\ status'[a] \in Terminal
            /\ (cancel[a] => status'[a] # "completed")
  PROVE  Life!Next
<1>1. DOMAIN status' = Agent /\ DOMAIN cancel' = Agent
  BY DEF TypeOK
<1>2. \A b \in Agent : b # a => Life!Stays(b)
  BY DEF Life!Stays
<1>3. Life!Stays(a) \/ Life!Created(a) \/ Life!Started(a) \/ Life!Ended(a)
  BY DEF Life!Stays, Life!Created, Life!Started, Life!Ended, Life!Active, Life!Terminal,
         Active, Terminal
<1> QED BY <1>1, <1>2, <1>3 DEF Life!Next

(* A finish that may fail is a step of the row's life.                      *)
LEMMA FinishLives ==
  ASSUME TypeOK, TypeOK', NEW a \in Agent, NEW outcome \in Terminal,
         FinishedOrNot(a, outcome), UNCHANGED cancel
  PROVE  Life!Next
BY FinishedOrNotRow, OneRowLives

(* A finish is a step of the row's life.                                    *)
LEMMA FinishedLives ==
  ASSUME TypeOK, TypeOK', NEW a \in Agent, NEW outcome \in Terminal,
         Finished(a, outcome), UNCHANGED cancel
  PROVE  Life!Next
<1>1. \A b \in Agent : b # a => status'[b] = status[b]
  BY FinishedRow
<1>2. status'[a] = status[a]
      \/ (status[a] \in Active /\ status'[a] \in Terminal
            /\ (cancel[a] => status'[a] # "completed"))
  BY FinishedRow DEF TypeOK
<1> QED BY <1>1, <1>2, OneRowLives

(* A step of the system that changes a row is a step of AgentLife.          *)
LEMMA StepLives == IInv /\ IInv' /\ [Next]_vars => [Life!Next]_<<status, cancel>>
<1> SUFFICES ASSUME IInv, IInv', Next, ~UNCHANGED <<status, cancel>>
             PROVE  Life!Next
  BY DEF vars
<1>1. TypeOK /\ TypeOK'
  BY DEF IInv
<1>2. ASSUME NEW a \in Agent, NEW s \in Server, Spawn(s, a) PROVE Life!Next
  <2>1. /\ \A b \in Agent : b # a => status'[b] = status[b]
        /\ status[a] = "absent" /\ status'[a] = "queued" /\ ~cancel[a]
        /\ UNCHANGED cancel
    BY <1>1, <1>2 DEF Spawn, TypeOK, IInv, AbsentIdle
  <2> QED BY <1>1, <2>1, OneRowLives
<1>3. ASSUME NEW a \in Agent, Begin(a) PROVE Life!Next
  <2>1. UNCHANGED cancel
    BY <1>3 DEF Begin
  <2>2. CASE status[a] = "queued" /\ ~cancel[a] /\ status' = [status EXCEPT ![a] = "running"]
    <3>1. /\ \A b \in Agent : b # a => status'[b] = status[b]
          /\ status'[a] = "running"
      BY <1>1, <2>2 DEF TypeOK
    <3> QED BY <1>1, <2>1, <2>2, <3>1, OneRowLives
  <2>3. CASE FinishedOrNot(a, "interrupted")
    BY <1>1, <2>1, <2>3, FinishLives DEF Terminal
  <2> QED BY <1>3, <2>1, <2>2, <2>3 DEF Begin
<1>4. ASSUME NEW a \in Agent, Harvest(a) \/ Stopped(a) \/ Cancelled(a) PROVE Life!Next
  <2>1. UNCHANGED cancel
    BY <1>4 DEF Harvest, Stopped, Cancelled
  <2>2. \E outcome \in Terminal : FinishedOrNot(a, outcome)
    BY <1>4, <2>1 DEF Harvest, Stopped, Cancelled, Terminal
  <2> QED BY <1>1, <2>1, <2>2, FinishLives
<1>5. ASSUME NEW a \in Agent, StoreError(a) PROVE Life!Next
  <2>1. UNCHANGED cancel /\ Finished(a, "failed")
    BY <1>5 DEF StoreError
  <2> QED BY <1>1, <2>1, FinishedLives DEF Terminal
<1>6. ASSUME NEW a \in Agent, Reconcile(a) PROVE Life!Next
  <2>1. /\ \A b \in Agent : b # a => status'[b] = status[b]
        /\ status[a] \in Active /\ status'[a] = "failed" /\ UNCHANGED cancel
    BY <1>1, <1>6 DEF Reconcile, TypeOK
  <2> QED BY <1>1, <2>1, OneRowLives DEF Terminal
<1>7. ASSUME NEW a \in Agent, NEW c \in Caller, NEW s \in Server, Interrupt(c, s, a)
      PROVE Life!Next
  <2>1. /\ UNCHANGED status /\ (cancel' # cancel => status[a] \in Active /\ cancel'[a])
        /\ \A b \in Agent : b # a => cancel'[b] = cancel[b]
        /\ DOMAIN status' = Agent /\ DOMAIN cancel' = Agent
    BY <1>1, <1>7 DEF Interrupt, TypeOK
  <2>2. Life!Cancelled(a) /\ \A b \in Agent : b # a => Life!Stays(b)
    BY <2>1 DEF Life!Cancelled, Life!Stays, Life!Active, Active
  <2> QED BY <2>1, <2>2 DEF Life!Next
<1>8. ASSUME NEW c \in Caller, InterruptReturns(c) PROVE Life!Next
  <2>1. UNCHANGED cancel /\ call[c].agent \in Agent /\ Finished(call[c].agent, "interrupted")
    BY <1>1, <1>8 DEF InterruptReturns, TypeOK
  <2> QED BY <1>1, <2>1, FinishedLives DEF Terminal
<1>9. ASSUME NEW a \in Agent, SeeCancel(a) \/ ExecutionEnds(a) PROVE FALSE
  BY <1>9 DEF SeeCancel, ExecutionEnds
<1>10. ASSUME NEW c \in Caller, InterruptFails(c) PROVE FALSE
  BY <1>10 DEF InterruptFails
<1>11. ASSUME NEW s \in Server, Crash(s) PROVE FALSE
  BY <1>11 DEF Crash
<1> QED BY <1>2, <1>3, <1>4, <1>5, <1>6, <1>7, <1>8, <1>9, <1>10, <1>11 DEF Next, Manage

(* The rows live as AgentLife says, whatever task, tool or server writes    *)
(* them: nothing starts that was cancelled, nothing cancelled completes,    *)
(* what has ended stays.                                                    *)
THEOREM AgentLifeImplemented == Spec => ImplementsAgentLife
<1>1. Init => Life!Init
  BY DEF Init, Life!Init
<1> QED BY <1>1, Invariance, StepLives, PTL DEF Spec, ImplementsAgentLife, Life!Spec
=============================================================================
