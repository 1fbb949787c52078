------------------------------ MODULE AgentStore ------------------------------
(***************************************************************************)
(* The SQLite table agents: one row per managed agent, written by the      *)
(* manager task that runs the agent, by the worker threads that persist    *)
(* its progress, by the tools that interrupt it and by every server that   *)
(* shares the file.  Any of them may call at any time, also after the row  *)
(* is terminal: a progress thread whose caller gave up, the interrupt tool *)
(* that finishes after the manager has, a manager that comes back after    *)
(* its agent was declared lost.                                            *)
(*                                                                         *)
(* A call reads time.time() before it waits for the store's lock and for   *)
(* BEGIN IMMEDIATE, so that updated_at may be up to MaxLag older than the  *)
(* commit, and commits may be stamped out of order.  A call that fails is  *)
(* rolled back and changes nothing.                                        *)
(***************************************************************************)
EXTENDS Integers, Sequences, FiniteSets

CONSTANTS
  Agent,         \* agent ids; the place of a pruned one may be taken again
  Conversation,  \* ids of Antigravity conversations
  MaxActive,     \* MAX_ACTIVE_AGENTS
  MaxHistory,    \* MAX_HISTORY
  MaxEvents,     \* MAX_PROGRESS_EVENTS
  StaleAfter,    \* max_age_seconds: MAX_TIMEOUT_SECONDS + 60
  Updates,       \* the [phase, percent, code] that runs report
  MaxLag,        \* how old a stamp can be when its call commits
  MaxTime,       \* bound of the clock
  MaxSequence,   \* bound of the progress events that are not the last
  NoAgent,       \* the value of an id that has no row
  NoConversation

Terminal == {"completed", "failed", "interrupted"}
Active == {"queued", "running"}
Phase == {"queued", "preflight", "waiting_for_workspace", "executing",
          "postflight", "validating_result"} \cup Terminal
Code == {"scheduled", "manager_started", "preflight_started",
         "waiting_for_workspace", "workspace_acquired", "cli_started", "cli_step",
         "heartbeat", "postflight_started", "result_validation",
         "cancel_requested", "manager_lost"} \cup Terminal
Percent == 0 .. 100

(* What a terminal row tells: output_json, or the manager_error.            *)
Result == {"none", "output", "cancelled", "manager_error", "manager_lost"}

Event == [sequence : Nat \ {0}, code : Code, percent : Percent]

Row == [status : Active \cup Terminal, cancel : BOOLEAN,
        conversation : Conversation \cup {NoConversation}, result : Result,
        phase : Phase, percent : Percent,
        events : {s \in Seq(Event) : Len(s) \in 1 .. MaxEvents}, updated : Nat]

ASSUME BoundsAssumption ==
  /\ MaxActive \in Nat \ {0} /\ MaxHistory \in Nat /\ MaxEvents \in Nat \ {0}
  /\ StaleAfter \in Nat /\ MaxLag \in Nat
  /\ MaxTime \in Nat /\ MaxSequence \in Nat
ASSUME AgentAssumption == IsFiniteSet(Agent) /\ NoAgent \notin Row
ASSUME UpdatesAssumption ==
  Updates \subseteq [phase : Phase \ Terminal, percent : 0 .. 99, code : Code]

VARIABLES
  clock,         \* time.time()
  agents,        \* the table agents
  written        \* history: when the row of an agent was last written

vars == <<clock, agents, written>>

TypeOK ==
  /\ clock \in Nat
  /\ agents \in [Agent -> Row \cup {NoAgent}]
  /\ written \in [Agent -> Nat]

Init ==
  /\ clock = 0
  /\ agents = [a \in Agent |-> NoAgent]
  /\ written = [a \in Agent |-> 0]

Present(t) == {a \in Agent : t[a] # NoAgent}
WithStatus(t, statuses) == {a \in Present(t) : t[a].status \in statuses}

-----------------------------------------------------------------------------
(* The progress feed.  As in the other modules, an operator whose name ends *)
(* in Broken is a plausible bug in the one that follows it.                 *)

HighWaterBroken(old, new) == new   \* a late update takes the percentage back

(* max(old_percent, min(100, max(0, progress_percent))).                    *)
HighWater(old, new) ==
  IF new <= old THEN old ELSE IF new <= 100 THEN new ELSE 100

NextSequenceBroken(events) == Len(events) + 1   \* forgets the trimmed events

(* One more than the highest sequence number that is still in the feed.     *)
NextSequence(events) ==
  1 + CHOOSE n \in {events[i].sequence : i \in DOMAIN events} :
        \A i \in DOMAIN events : events[i].sequence <= n

NewestBroken(events) == events

(* events[-MAX_PROGRESS_EVENTS:]                                            *)
Newest(events) ==
  IF Len(events) <= MaxEvents THEN events
  ELSE SubSeq(events, Len(events) - MaxEvents + 1, Len(events))

(* A heartbeat after a heartbeat replaces it under the same number.         *)
Recorded(events, code, percent) ==
  LET last == Len(events) IN
  IF code = "heartbeat" /\ events[last].code = "heartbeat"
  THEN [events EXCEPT ![last].percent = percent]
  ELSE Newest(Append(events, [sequence |-> NextSequence(events),
                              code |-> code, percent |-> percent]))

Progressed(row, phase, percent, code) ==
  LET reached == HighWater(row.percent, percent) IN
  [row EXCEPT !.phase = phase, !.percent = reached,
              !.events = Recorded(@, code, reached)]

-----------------------------------------------------------------------------
(* Transactions.                                                            *)

Stamps == {now \in 0 .. clock : clock <= now + MaxLag}

Write(a, row) ==
  /\ agents' = [agents EXCEPT ![a] = row]
  /\ written' = [written EXCEPT ![a] = clock]
  /\ UNCHANGED clock

Queued(conversation, now) ==
  [status |-> "queued", cancel |-> FALSE, conversation |-> conversation,
   result |-> "none", phase |-> "queued", percent |-> 5,
   events |-> <<[sequence |-> 1, code |-> "scheduled", percent |-> 5]>>,
   updated |-> now]

RetainedBroken(t) == {WithStatus(t, Terminal)}   \* no pruning

RetainedOldest(t) ==   \* ORDER BY updated_at without DESC
  LET finished == WithStatus(t, Terminal) IN
  {kept \in SUBSET finished :
     /\ Cardinality(kept) <= MaxHistory
     /\ Cardinality(kept) = MaxHistory \/ kept = finished
     /\ \A a \in kept, b \in finished \ kept : t[a].updated <= t[b].updated}

(* The terminal rows that may stay: the MaxHistory with the highest         *)
(* updated_at, SQLite choosing among equal ones.                            *)
Retained(t) ==
  LET finished == WithStatus(t, Terminal) IN
  {kept \in SUBSET finished :
     /\ Cardinality(kept) <= MaxHistory
     /\ Cardinality(kept) = MaxHistory \/ kept = finished
     /\ \A a \in kept, b \in finished \ kept : t[a].updated >= t[b].updated}

HasRoomBroken == Cardinality(WithStatus(agents, Active)) <= MaxActive

HasRoom == Cardinality(WithStatus(agents, Active)) < MaxActive

(* create: a capacity check, the new row and the pruning of the history in  *)
(* one transaction.                                                         *)
Create(a, conversation, now) ==
  /\ agents[a] = NoAgent
  /\ HasRoom
  /\ LET inserted == [agents EXCEPT ![a] = Queued(conversation, now)] IN
     \E kept \in Retained(inserted) :
       agents' = [b \in Agent |->
                    IF b \in WithStatus(inserted, Terminal) \ kept THEN NoAgent
                    ELSE inserted[b]]
  /\ written' = [b \in Agent |-> IF b = a THEN clock
                                 ELSE IF agents'[b] = NoAgent THEN 0 ELSE written[b]]
  /\ UNCHANGED clock

(* mark_running, called once by the manager task: not once a cancellation   *)
(* was requested.                                                           *)
MarkRunning(a, now) ==
  /\ a \in WithStatus(agents, {"queued"}) /\ ~agents[a].cancel
  /\ Write(a, [Progressed(agents[a], "preflight", 10, "manager_started")
                 EXCEPT !.status = "running", !.updated = now])

RecordProgressBroken(a, u, now) ==   \* a late update of a finished agent
  /\ a \in Present(agents)
  /\ NextSequence(agents[a].events) <= MaxSequence
  /\ Write(a, [Progressed(agents[a], u.phase, u.percent, u.code) EXCEPT !.updated = now])

RecordProgressUnstamped(a, u, now) ==   \* updated_at is left alone
  /\ a \in WithStatus(agents, Active)
  /\ NextSequence(agents[a].events) <= MaxSequence
  /\ Write(a, Progressed(agents[a], u.phase, u.percent, u.code))

(* record_progress, from a worker thread that may commit out of order.      *)
RecordProgress(a, u, now) ==
  /\ a \in WithStatus(agents, Active)
  /\ NextSequence(agents[a].events) <= MaxSequence
  /\ Write(a, [Progressed(agents[a], u.phase, u.percent, u.code) EXCEPT !.updated = now])

(* What the callers of finish report.                                       *)
Outcome ==
  [status : {"completed", "failed"}, result : {"output"},
   conversation : Conversation \cup {NoConversation}]
  \cup {[status |-> "failed", result |-> "manager_error", conversation |-> NoConversation],
        [status |-> "interrupted", result |-> "cancelled", conversation |-> NoConversation]}

RecognisedBroken(row, outcome) == outcome   \* a result that comes late wins

(* A requested cancellation turns any other outcome into an interruption,   *)
(* and drops its output and its conversation.                               *)
Recognised(row, outcome) ==
  IF row.cancel
  THEN [status |-> "interrupted", result |-> "cancelled", conversation |-> NoConversation]
  ELSE outcome

(* finish: does nothing to a terminal row.                                  *)
Finish(a, outcome, now) ==
  /\ a \in WithStatus(agents, Active)
  /\ LET final == Recognised(agents[a], outcome) IN
     Write(a, [Progressed(agents[a], final.status, 100, final.status)
                 EXCEPT !.status = final.status, !.result = final.result,
                        !.conversation = IF final.conversation = NoConversation THEN @
                                         ELSE final.conversation,
                        !.updated = now])

(* request_cancel: idempotent but for the event it records every time.      *)
RequestCancel(a, now) ==
  /\ a \in WithStatus(agents, Active)
  /\ NextSequence(agents[a].events) <= MaxSequence
  /\ LET phase == IF agents[a].status = "queued" THEN "queued" ELSE "executing" IN
     Write(a, [Progressed(agents[a], phase, 0, "cancel_requested")
                 EXCEPT !.cancel = TRUE, !.updated = now])

Stale(now) == {a \in WithStatus(agents, Active) : agents[a].updated + StaleAfter < now}

LostBroken(row) ==   \* the status is changed and the feed forgotten
  [row EXCEPT !.status = "failed", !.result = "manager_lost", !.updated = clock]

(* The row of an agent whose manager is lost: stamped inside the            *)
(* transaction, and the cancellation is not looked at.                      *)
Lost(row) ==
  [Progressed(row, "failed", 100, "manager_lost")
     EXCEPT !.status = "failed", !.result = "manager_lost", !.updated = clock]

(* reconcile_stale, before every operation of a tool.                       *)
ReconcileStale(now) ==
  /\ Stale(now) # {}
  /\ agents' = [a \in Agent |-> IF a \in Stale(now) THEN Lost(agents[a]) ELSE agents[a]]
  /\ written' = [a \in Agent |-> IF a \in Stale(now) THEN clock ELSE written[a]]
  /\ UNCHANGED clock

Tick ==
  /\ clock < MaxTime
  /\ clock' = clock + 1
  /\ UNCHANGED <<agents, written>>

Call(a, now) ==
  \/ \E c \in Conversation \cup {NoConversation} : Create(a, c, now)
  \/ MarkRunning(a, now)
  \/ \E u \in Updates : RecordProgress(a, u, now)
  \/ \E o \in Outcome : Finish(a, o, now)
  \/ RequestCancel(a, now)

Next ==
  \/ Tick
  \/ \E now \in Stamps : ReconcileStale(now)
  \/ \E now \in Stamps : \E a \in Agent : Call(a, now)

Spec == Init /\ [][Next]_vars

-----------------------------------------------------------------------------
(* A terminal row is never written again, whoever calls and however late:   *)
(* it stays as it is until it is pruned.                                    *)
TerminalImmutable ==
  [][\A a \in WithStatus(agents, Terminal) : agents'[a] \in {agents[a], NoAgent}]_vars

(* Once a cancellation was requested the agent cannot succeed: when its row *)
(* ends it is interrupted, or its manager was lost, no output is stored and *)
(* the conversation is the one it had (finish 968-976, reconcile_stale).    *)
CancelHonoured ==
  [][\A a \in WithStatus(agents, Active) :
       agents[a].cancel /\ agents'[a].status \in Terminal
         => /\ agents'[a].result \in {"cancelled", "manager_lost"}
            /\ agents'[a].result = "cancelled" => agents'[a].status = "interrupted"
            /\ agents'[a].conversation = agents[a].conversation]_vars

(* The feed a client reads is in order however late the updates commit: its *)
(* sequence numbers increase, its percentages never fall, and the last one  *)
(* is the percentage of the row.                                            *)
FeedOrdered ==
  \A a \in Present(agents) :
    LET events == agents[a].events IN
    /\ \A i, j \in DOMAIN events :
         i < j => /\ events[i].sequence < events[j].sequence
                  /\ events[i].percent <= events[j].percent
    /\ events[Len(events)].percent = agents[a].percent

(* A client may remember the last sequence number it has seen: the feed     *)
(* loses events at its front only, a number is used again only when a       *)
(* heartbeat replaces a heartbeat, and the next event has the next number.  *)
FeedAppendOnly ==
  [][\A a \in Present(agents) :
       agents'[a] # NoAgent =>
         LET old == agents[a].events
             new == agents'[a].events
         IN  /\ \A i \in DOMAIN old, j \in DOMAIN new :
                  old[i].sequence = new[j].sequence
                    => /\ old[i].code = new[j].code
                       /\ old[i] = new[j] \/ old[i].code = "heartbeat"
             /\ new[Len(new)].sequence - old[Len(old)].sequence \in {0, 1}]_vars

(* The two views of a row agree: the feed says 100 % and a terminal phase   *)
(* exactly when the status is terminal, and then the phase is the status.   *)
ViewsAgree ==
  \A a \in Present(agents) :
    /\ agents[a].percent = 100 <=> agents[a].status \in Terminal
    /\ {agents[a].status, agents[a].phase} \cap Terminal # {}
         => agents[a].phase = agents[a].status
    /\ agents[a].result = "none" <=> agents[a].status \in Active

(* An agent is declared lost only when nothing was written for it in the    *)
(* last StaleAfter seconds, up to the age of the stamps: a manager that     *)
(* records heartbeats keeps its agent.                                      *)
LiveAgentKept ==
  [][\A a \in WithStatus(agents, Active) :
       agents'[a].result = "manager_lost" => written[a] + StaleAfter < clock + MaxLag]_vars

(* MAX_ACTIVE_AGENTS holds over all the servers that share the store.       *)
CapacityHolds == Cardinality(WithStatus(agents, Active)) <= MaxActive

(* A row that is pruned was terminal, and MaxHistory terminal rows outlive  *)
(* it that were not written before it, up to the age of the stamps.         *)
OldestPruned ==
  [][\A a \in Present(agents) :
       agents'[a] = NoAgent =>
         /\ agents[a].status \in Terminal
         /\ Cardinality({b \in WithStatus(agents', Terminal) :
                           written[a] <= written[b] + MaxLag}) >= MaxHistory]_vars

(* The table is bounded: between two calls of create only active agents can *)
(* join the history.                                                        *)
StoreBounded == Cardinality(Present(agents)) <= MaxHistory + MaxActive

(* TEST_MATRIX.md 44, `1000 terminal' rows.                                 *)
HistoryBounded == Cardinality(WithStatus(agents, Terminal)) <= MaxHistory
=============================================================================
