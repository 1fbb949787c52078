-------------------------- MODULE AgentStore_proofs --------------------------
(***************************************************************************)
(* What is proved of the table agents: for any number of agents, any       *)
(* bounds, and calls that commit in any order with stamps as old as they   *)
(* may be.                                                                 *)
(***************************************************************************)
EXTENDS AgentStore, FiniteSetTheorems, SequenceTheorems, TLAPS

Feed == {s \in Seq(Event) : Len(s) \in 1 .. MaxEvents}

(* The numbers of a feed increase and its percentages do not fall.          *)
Ordered(events) ==
  \A i, j \in DOMAIN events :
    i < j => /\ events[i].sequence < events[j].sequence
             /\ events[i].percent <= events[j].percent

(* What a client that has read `old' may rely on in `new'.                  *)
Extends(old, new) ==
  /\ \A i \in DOMAIN old, j \in DOMAIN new :
       old[i].sequence = new[j].sequence
         => /\ old[i].code = new[j].code
            /\ old[i] = new[j] \/ old[i].code = "heartbeat"
  /\ new[Len(new)].sequence - old[Len(old)].sequence \in {0, 1}

-----------------------------------------------------------------------------
(* The progress feed.                                                       *)

(* A feed has a last event, and its events have numbers and percentages.    *)
LEMMA FeedType ==
  ASSUME NEW f \in Feed
  PROVE  /\ f \in Seq(Event) /\ Len(f) \in 1 .. MaxEvents /\ Len(f) \in Nat
         /\ DOMAIN f = 1 .. Len(f) /\ Len(f) \in DOMAIN f
         /\ \A i \in DOMAIN f : /\ f[i] \in Event /\ f[i].sequence \in Nat \ {0}
                                /\ f[i].percent \in Nat
<1>1. f \in Seq(Event) /\ Len(f) \in 1 .. MaxEvents
  BY DEF Feed
<1>2. Len(f) \in Nat /\ DOMAIN f = 1 .. Len(f)
  BY <1>1, LenProperties
<1>3. \A i \in DOMAIN f : f[i] \in Event
  BY <1>1, <1>2, ElementOfSeq
<1>4. \A e \in Event : e.sequence \in Nat \ {0} /\ e.percent \in Nat
  BY DEF Event, Percent
<1>5. Len(f) \in DOMAIN f
  BY <1>1, <1>2, BoundsAssumption
<1> QED BY <1>1, <1>2, <1>3, <1>4, <1>5

(* Numbers stand for events: no two events of a feed have the same.         *)
LEMMA NumbersDiffer ==
  ASSUME NEW f \in Feed, Ordered(f), NEW i \in DOMAIN f, NEW j \in DOMAIN f,
         f[i].sequence = f[j].sequence
  PROVE  i = j
BY FeedType DEF Ordered

(* The next number is one above that of the last event.                     *)
LEMMA NextIsAbove ==
  ASSUME NEW f \in Feed, Ordered(f)
  PROVE  NextSequence(f) = f[Len(f)].sequence + 1
<1> DEFINE numbers == {f[i].sequence : i \in DOMAIN f}
           last == f[Len(f)].sequence
           Highest(n) == \A i \in DOMAIN f : f[i].sequence <= n
           top == CHOOSE n \in numbers : Highest(n)
<1>1. last \in numbers /\ Highest(last)
  BY FeedType DEF Ordered
<1>2. \A n \in numbers : Highest(n) => n = last
  BY <1>1, FeedType
<1>3. top = last
  BY <1>1, <1>2
<1>4. NextSequence(f) = 1 + top
  BY DEF NextSequence
<1>5. last \in Nat
  BY FeedType
<1> HIDE DEF top
<1> QED BY <1>3, <1>4, <1>5

(* A heartbeat that replaces a heartbeat keeps the feed in order.           *)
LEMMA HeartbeatReplaces ==
  ASSUME NEW f \in Feed, Ordered(f), f[Len(f)].code = "heartbeat",
         NEW p \in Percent, f[Len(f)].percent <= p
  PROVE  LET u == [f EXCEPT ![Len(f)].percent = p]
         IN  u \in Feed /\ Ordered(u) /\ u[Len(u)].percent = p /\ Extends(f, u)
<1> DEFINE last == Len(f)
           e == [f[last] EXCEPT !.percent = p]
           u == [f EXCEPT ![last].percent = p]
<1>1. /\ f \in Seq(Event) /\ last \in 1 .. Len(f) /\ f[last] \in Event
      /\ DOMAIN f = 1 .. last
  BY FeedType
<1>2. /\ e \in Event /\ e.sequence = f[last].sequence /\ e.code = f[last].code
      /\ e.percent = p
  BY <1>1 DEF Event
<1>3. u = [f EXCEPT ![last] = e]
  OBVIOUS
<1> HIDE DEF e, u
<1>4. /\ u \in Seq(Event) /\ Len(u) = last
      /\ \A j \in 1 .. last : u[j] = IF j = last THEN e ELSE f[j]
  BY <1>1, <1>2, <1>3, ExceptSeq
<1>5. u \in Feed /\ DOMAIN u = DOMAIN f
  BY <1>1, <1>4, FeedType DEF Feed
<1>6. u[last] = e /\ \A j \in DOMAIN f : j # last => u[j] = f[j]
  BY <1>1, <1>4
<1> HIDE DEF last
<1>7. \A j \in DOMAIN f : u[j].sequence = f[j].sequence /\ u[j].code = f[j].code
  BY <1>2, <1>6
<1>8. Ordered(u)
  <2> SUFFICES ASSUME NEW i \in DOMAIN f, NEW j \in DOMAIN f, i < j
               PROVE  /\ u[i].sequence < u[j].sequence
                      /\ u[i].percent <= u[j].percent
    BY <1>5 DEF Ordered
  <2>1. u[i] = f[i] /\ f[i].percent <= f[j].percent /\ f[i].sequence < f[j].sequence
    BY <1>1, <1>6, FeedType DEF Ordered, last
  <2>2. f[i].percent \in Nat /\ f[j].percent \in Nat
    BY FeedType
  <2> QED BY <1>2, <1>6, <1>7, <2>1, <2>2 DEF Percent, last
<1>9. Extends(f, u)
  <2>1. ASSUME NEW i \in DOMAIN f, NEW j \in DOMAIN u, f[i].sequence = u[j].sequence
        PROVE  /\ f[i].code = u[j].code
               /\ f[i] = u[j] \/ f[i].code = "heartbeat"
    <3>1. i = j
      BY <1>5, <1>7, <2>1, NumbersDiffer
    <3> QED BY <1>5, <1>6, <1>7, <3>1 DEF last
  <2>2. u[Len(u)].sequence - f[Len(f)].sequence = 0
    BY <1>2, <1>4, <1>6, FeedType DEF last
  <2> QED BY <2>1, <2>2 DEF Extends
<1> QED BY <1>2, <1>4, <1>5, <1>6, <1>8, <1>9 DEF last, u

(* A new event joins the feed at its end, and the oldest one leaves a full  *)
(* feed: the rest keep their order and their numbers.                       *)
LEMMA NewestAppended ==
  ASSUME NEW f \in Feed, NEW e \in Event
  PROVE  LET u == Newest(Append(f, e))
         IN  /\ u \in Feed /\ u[Len(u)] = e
             /\ \E k \in {0, 1} : /\ Len(u) = Len(f) + 1 - k
                                  /\ \A j \in 1 .. Len(u) - 1 : u[j] = f[j + k]
<1> DEFINE g == Append(f, e)
           u == Newest(g)
           n == Len(f)
<1>1. /\ f \in Seq(Event) /\ n \in 1 .. MaxEvents /\ n \in Nat /\ MaxEvents \in Nat \ {0}
  BY FeedType, BoundsAssumption
<1>2. /\ g \in Seq(Event) /\ Len(g) = n + 1
      /\ \A i \in 1 .. n : g[i] = f[i]
      /\ g[n + 1] = e
  BY <1>1, AppendProperties
<1> HIDE DEF g, n
<1>3. CASE n + 1 <= MaxEvents
  <2>1. u = g
    BY <1>2, <1>3 DEF Newest
  <2> HIDE DEF u
  <2>2. u \in Feed
    BY <1>1, <1>2, <1>3, <2>1 DEF Feed
  <2>3. Len(u) = n + 1 - 0 /\ \A j \in 1 .. Len(u) - 1 : u[j] = f[j + 0]
    BY <1>1, <1>2, <2>1
  <2> QED BY <1>1, <1>2, <2>1, <2>2, <2>3 DEF u, g, n
<1>4. CASE n = MaxEvents
  <2>1. u = SubSeq(g, 2, n + 1)
    BY <1>1, <1>2, <1>4 DEF Newest
  <2>2. \A i \in 2 .. n + 1 : g[i] \in Event
    BY <1>1, <1>2, ElementOfSeq
  <2>3. /\ u \in Seq(Event) /\ Len(u) = n
        /\ \A i \in 1 .. n : u[i] = g[i + 1]
    <3> HIDE DEF u
    <3>1. /\ SubSeq(g, 2, n + 1) \in Seq(Event)
          /\ Len(SubSeq(g, 2, n + 1)) = IF 2 <= n + 1 THEN (n + 1) - 2 + 1 ELSE 0
          /\ \A i \in 1 .. (n + 1) - 2 + 1 : SubSeq(g, 2, n + 1)[i] = g[2 + i - 1]
      BY <1>1, <2>2, SubSeqProperties
    <3> QED BY <1>1, <2>1, <3>1
  <2> HIDE DEF u
  <2>4. u \in Feed /\ u[Len(u)] = e
    BY <1>1, <1>2, <1>4, <2>3 DEF Feed
  <2>5. Len(u) = n + 1 - 1 /\ \A j \in 1 .. Len(u) - 1 : u[j] = f[j + 1]
    BY <1>1, <1>2, <2>3
  <2> QED BY <2>4, <2>5 DEF u, g, n
<1> QED BY <1>1, <1>3, <1>4

(* An event under the next number, that is no lower, keeps the order.       *)
LEMMA AppendKeeps ==
  ASSUME NEW f \in Feed, Ordered(f), NEW e \in Event,
         e.sequence = f[Len(f)].sequence + 1, f[Len(f)].percent <= e.percent
  PROVE  LET u == Newest(Append(f, e))
         IN  u \in Feed /\ Ordered(u) /\ u[Len(u)] = e /\ Extends(f, u)
<1> DEFINE u == Newest(Append(f, e))
           n == Len(f)
           m == Len(u)
<1>1. u \in Feed /\ u[m] = e
  BY NewestAppended
<1>2. PICK k \in {0, 1} : m = n + 1 - k /\ \A j \in 1 .. m - 1 : u[j] = f[j + k]
  BY NewestAppended
<1> HIDE DEF u
<1>3. /\ n \in Nat /\ m \in Nat /\ n \in DOMAIN f /\ DOMAIN u = 1 .. m /\ DOMAIN f = 1 .. n
      /\ \A i \in DOMAIN f : f[i].sequence \in Nat /\ f[i].percent \in Nat
      /\ e.sequence \in Nat /\ e.percent \in Nat
  BY <1>1, FeedType DEF Event, Percent
<1>4. \A i \in DOMAIN f : f[i].sequence < e.sequence /\ f[i].percent <= e.percent
  <2>1. \A i \in DOMAIN f : /\ f[i].sequence <= f[n].sequence
                           /\ f[i].percent <= f[n].percent
    BY <1>3 DEF Ordered
  <2> QED BY <1>3, <2>1
<1>5. \A j \in DOMAIN u : j = m \/ (j + k \in DOMAIN f /\ u[j] = f[j + k])
  <2> SUFFICES ASSUME NEW j \in 1 .. m, j # m
               PROVE  j + k \in DOMAIN f /\ u[j] = f[j + k]
    BY <1>3
  <2> HIDE DEF m, n
  <2>1. j \in 1 .. m - 1 /\ m = n + 1 - k
    BY <1>2, <1>3
  <2>2. j + k \in 1 .. n
    BY <1>3, <2>1
  <2> QED BY <1>2, <1>3, <2>1, <2>2
<1> HIDE DEF m, n
<1>6. Ordered(u)
  <2> SUFFICES ASSUME NEW i \in DOMAIN u, NEW j \in DOMAIN u, i < j
               PROVE  u[i].sequence < u[j].sequence /\ u[i].percent <= u[j].percent
    BY DEF Ordered
  <2>1. i \in Nat /\ j \in Nat /\ k \in Nat /\ i # m
    BY <1>3
  <2>2. i + k \in DOMAIN f /\ u[i] = f[i + k]
    BY <1>5, <2>1
  <2>3. CASE j = m
    BY <1>1, <1>4, <2>2, <2>3 DEF m
  <2>4. CASE j + k \in DOMAIN f /\ u[j] = f[j + k]
    <3>1. i + k < j + k
      BY <2>1
    <3> QED BY <2>2, <2>4, <3>1 DEF Ordered
  <2> QED BY <1>5, <2>3, <2>4
<1>7. Extends(f, u)
  <2>1. ASSUME NEW i \in DOMAIN f, NEW j \in DOMAIN u, f[i].sequence = u[j].sequence
        PROVE  f[i] = u[j]
    <3>1. u[j] # e
      BY <1>3, <1>4, <2>1
    <3>2. j + k \in DOMAIN f /\ u[j] = f[j + k]
      BY <1>1, <1>5, <3>1 DEF m
    <3>3. i = j + k
      BY <2>1, <3>2, NumbersDiffer
    <3> QED BY <3>2, <3>3
  <2>2. u[Len(u)].sequence - f[Len(f)].sequence = 1
    BY <1>1, <1>3 DEF m, n
  <2> QED BY <2>1, <2>2 DEF Extends
<1> QED BY <1>1, <1>6, <1>7 DEF u, m

(* Recording an event keeps the feed in order, whoever records it and       *)
(* however late, and ends it at the percentage that was reached.            *)
LEMMA RecordedKeeps ==
  ASSUME NEW f \in Feed, Ordered(f), NEW code \in Code,
         NEW p \in Percent, f[Len(f)].percent <= p
  PROVE  LET u == Recorded(f, code, p)
         IN  u \in Feed /\ Ordered(u) /\ u[Len(u)].percent = p /\ Extends(f, u)
<1>1. CASE code = "heartbeat" /\ f[Len(f)].code = "heartbeat"
  <2>1. Recorded(f, code, p) = [f EXCEPT ![Len(f)].percent = p]
    BY <1>1 DEF Recorded
  <2> QED BY <1>1, <2>1, HeartbeatReplaces
<1>2. CASE ~(code = "heartbeat" /\ f[Len(f)].code = "heartbeat")
  <2> DEFINE e == [sequence |-> NextSequence(f), code |-> code, percent |-> p]
  <2>1. Recorded(f, code, p) = Newest(Append(f, e))
    BY <1>2 DEF Recorded
  <2>2. e.sequence = f[Len(f)].sequence + 1 /\ e.percent = p
    BY NextIsAbove
  <2>3. f[Len(f)].sequence + 1 \in Nat \ {0}
    BY FeedType
  <2>4. e \in Event
    BY <2>2, <2>3 DEF Event
  <2> HIDE DEF e
  <2>5. LET u == Newest(Append(f, e))
        IN  u \in Feed /\ Ordered(u) /\ u[Len(u)] = e /\ Extends(f, u)
    BY <2>2, <2>4, AppendKeeps
  <2> QED BY <2>1, <2>2, <2>5
<1> QED BY <1>1, <1>2

-----------------------------------------------------------------------------
(* The rows.                                                                *)

(* A row whose views agree, with a feed in order that ends where the row is.*)
Consistent(row) ==
  /\ Ordered(row.events)
  /\ row.events[Len(row.events)].percent = row.percent
  /\ row.percent = 100 <=> row.status \in Terminal
  /\ {row.status, row.phase} \cap Terminal # {} => row.phase = row.status
  /\ row.result = "none" <=> row.status \in Active

(* How the status of an active agent and its cancellation may move.         *)
Moves(old, new) ==
  \/ new.status = old.status /\ new.cancel = old.cancel
  \/ /\ old.status = "queued" /\ ~old.cancel
     /\ new.status = "running" /\ ~new.cancel
  \/ new.status = old.status /\ new.cancel
  \/ /\ new.status \in Terminal /\ new.cancel = old.cancel
     /\ old.cancel => new.status # "completed"

(* What any call may make of the row of an active agent.                    *)
Advances(old, new) ==
  /\ new \in Row /\ Consistent(new) /\ Moves(old, new)
  /\ Extends(old.events, new.events)
  /\ old.cancel /\ new.status \in Terminal =>
       /\ new.result \in {"cancelled", "manager_lost"}
       /\ new.result = "cancelled" => new.status = "interrupted"
       /\ new.conversation = old.conversation

(* The fields of a row, its feed by its own name.                           *)
LEMMA RowFields ==
  Row = [status : Active \cup Terminal, cancel : BOOLEAN,
         conversation : Conversation \cup {NoConversation}, result : Result,
         phase : Phase, percent : Percent, events : Feed, updated : Nat]
BY DEF Row, Feed

(* The percentage of a row never falls, and reaches 100 only when told to.  *)
LEMMA HighWaterRises ==
  ASSUME NEW old \in Percent, NEW new \in Percent
  PROVE  LET p == HighWater(old, new)
         IN  p \in Percent /\ old <= p /\ p \in {old, new} /\ (new = 100 => p = 100)
BY DEF HighWater, Percent

(* Progress changes the phase, the percentage and the feed of a row, and    *)
(* nothing else.                                                            *)
LEMMA ProgressedRow ==
  ASSUME NEW row \in Row, Consistent(row), NEW phase \in Phase,
         NEW percent \in Percent, NEW code \in Code
  PROVE  LET u == Progressed(row, phase, percent, code)
         IN  /\ u \in Row
             /\ u.status = row.status /\ u.cancel = row.cancel
             /\ u.conversation = row.conversation /\ u.result = row.result
             /\ u.phase = phase /\ u.percent \in {row.percent, percent}
             /\ percent = 100 => u.percent = 100
             /\ Ordered(u.events) /\ u.events[Len(u.events)].percent = u.percent
             /\ Extends(row.events, u.events)
<1> DEFINE reached == HighWater(row.percent, percent)
           recorded == Recorded(row.events, code, reached)
           u == [row EXCEPT !.phase = phase, !.percent = reached, !.events = recorded]
<1>1. Progressed(row, phase, percent, code) = u
  BY DEF Progressed
<1>2. row.percent \in Percent /\ row.events \in Feed
  BY RowFields
<1>3. /\ reached \in Percent /\ row.percent <= reached
      /\ reached \in {row.percent, percent} /\ (percent = 100 => reached = 100)
  BY <1>2, HighWaterRises
<1> HIDE DEF reached
<1>4. /\ recorded \in Feed /\ Ordered(recorded)
      /\ recorded[Len(recorded)].percent = reached /\ Extends(row.events, recorded)
  BY <1>2, <1>3, RecordedKeeps DEF Consistent
<1> HIDE DEF recorded
<1>5. /\ u \in Row /\ u.events = recorded /\ u.percent = reached /\ u.phase = phase
      /\ u.status = row.status /\ u.cancel = row.cancel
      /\ u.conversation = row.conversation /\ u.result = row.result
  BY <1>3, <1>4, RowFields
<1> HIDE DEF u
<1> QED BY <1>1, <1>3, <1>4, <1>5

(* The rows the calls write.                                                *)
RunningRow(row, now) ==
  [Progressed(row, "preflight", 10, "manager_started")
     EXCEPT !.status = "running", !.updated = now]

ReportedRow(row, update, now) ==
  [Progressed(row, update.phase, update.percent, update.code) EXCEPT !.updated = now]

CancelledRow(row, phase, now) ==
  [Progressed(row, phase, 0, "cancel_requested") EXCEPT !.cancel = TRUE, !.updated = now]

FinishedRow(row, final, now) ==
  [Progressed(row, final.status, 100, final.status)
     EXCEPT !.status = final.status, !.result = final.result,
            !.conversation = IF final.conversation = NoConversation THEN @
                             ELSE final.conversation,
            !.updated = now]

(* mark_running advances a row that is queued.                              *)
LEMMA MarkRunningAdvances ==
  ASSUME NEW row \in Row, Consistent(row), row.status = "queued", ~row.cancel,
         NEW now \in Nat
  PROVE  LET new == RunningRow(row, now)
         IN  Advances(row, new) /\ new.updated = now /\ new.status \in Active
                                /\ new.result = "none"
<1> DEFINE u == Progressed(row, "preflight", 10, "manager_started")
           new == [u EXCEPT !.status = "running", !.updated = now]
<1>1. "preflight" \in Phase /\ 10 \in Percent /\ "manager_started" \in Code
  BY DEF Phase, Percent, Code
<1>2. /\ u \in Row /\ u.status = row.status /\ u.result = row.result /\ u.cancel = row.cancel
      /\ u.phase = "preflight" /\ u.percent \in {row.percent, 10}
      /\ Ordered(u.events) /\ u.events[Len(u.events)].percent = u.percent
      /\ Extends(row.events, u.events)
  BY <1>1, ProgressedRow
<1> HIDE DEF u
<1>3. /\ new \in Row /\ new.status = "running" /\ new.updated = now
      /\ new.result = u.result /\ new.phase = u.phase /\ new.percent = u.percent
      /\ new.events = u.events /\ new.cancel = u.cancel
  BY <1>2, RowFields DEF Active
<1> HIDE DEF new
<1>4. row.result = "none" /\ row.percent # 100
  BY DEF Consistent, Active, Terminal
<1>5. Consistent(new)
  BY <1>2, <1>3, <1>4 DEF Consistent, Active, Terminal
<1>6. Moves(row, new)
  BY <1>2, <1>3 DEF Moves
<1> QED BY <1>2, <1>3, <1>4, <1>5, <1>6 DEF Advances, Active, Terminal, u, new, RunningRow

(* record_progress advances the row of an active agent.                     *)
LEMMA RecordProgressAdvances ==
  ASSUME NEW row \in Row, Consistent(row), row.status \in Active,
         NEW update \in Updates, NEW now \in Nat
  PROVE  LET new == ReportedRow(row, update, now)
         IN  Advances(row, new) /\ new.updated = now /\ new.status \in Active
                                /\ new.result = "none"
<1> DEFINE u == Progressed(row, update.phase, update.percent, update.code)
           new == [u EXCEPT !.updated = now]
<1>1. /\ update.phase \in Phase \ Terminal /\ update.percent \in 0 .. 99
      /\ update.code \in Code
  BY UpdatesAssumption
<1>2. update.percent \in Percent /\ update.percent # 100
  BY <1>1 DEF Percent
<1>3. /\ u \in Row /\ u.status = row.status /\ u.result = row.result /\ u.cancel = row.cancel
      /\ u.phase = update.phase /\ u.percent \in {row.percent, update.percent}
      /\ Ordered(u.events) /\ u.events[Len(u.events)].percent = u.percent
      /\ Extends(row.events, u.events)
  BY <1>1, <1>2, ProgressedRow
<1> HIDE DEF u
<1>4. /\ new \in Row /\ new.status = u.status /\ new.updated = now
      /\ new.result = u.result /\ new.phase = u.phase /\ new.percent = u.percent
      /\ new.events = u.events /\ new.cancel = u.cancel
  BY <1>3, RowFields
<1> HIDE DEF new
<1>5. row.result = "none" /\ row.percent # 100 /\ row.status \notin Terminal
  BY DEF Consistent, Active, Terminal
<1>6. Consistent(new)
  BY <1>1, <1>2, <1>3, <1>4, <1>5 DEF Consistent
<1>7. Moves(row, new)
  BY <1>3, <1>4 DEF Moves
<1> QED BY <1>3, <1>4, <1>5, <1>6, <1>7 DEF Advances, u, new, ReportedRow

(* request_cancel advances the row of an active agent.                      *)
LEMMA RequestCancelAdvances ==
  ASSUME NEW row \in Row, Consistent(row), row.status \in Active, NEW now \in Nat,
         NEW phase \in {"queued", "executing"}
  PROVE  LET new == CancelledRow(row, phase, now)
         IN  Advances(row, new) /\ new.updated = now /\ new.status \in Active
                                /\ new.result = "none"
<1> DEFINE u == Progressed(row, phase, 0, "cancel_requested")
           new == [u EXCEPT !.cancel = TRUE, !.updated = now]
<1>1. phase \in Phase \ Terminal /\ 0 \in Percent /\ "cancel_requested" \in Code
  BY DEF Phase, Percent, Code, Terminal
<1>2. /\ u \in Row /\ u.status = row.status /\ u.result = row.result
      /\ u.phase = phase /\ u.percent \in {row.percent, 0}
      /\ Ordered(u.events) /\ u.events[Len(u.events)].percent = u.percent
      /\ Extends(row.events, u.events)
  BY <1>1, ProgressedRow
<1> HIDE DEF u
<1>3. /\ new \in Row /\ new.status = u.status /\ new.updated = now
      /\ new.result = u.result /\ new.phase = u.phase /\ new.percent = u.percent
      /\ new.events = u.events /\ new.cancel
  BY <1>2, RowFields
<1> HIDE DEF new
<1>4. row.result = "none" /\ row.percent # 100 /\ row.status \notin Terminal
  BY DEF Consistent, Active, Terminal
<1>5. Consistent(new)
  BY <1>1, <1>2, <1>3, <1>4 DEF Consistent
<1>6. Moves(row, new)
  BY <1>2, <1>3 DEF Moves
<1> QED BY <1>2, <1>3, <1>4, <1>5, <1>6 DEF Advances, u, new, CancelledRow

(* What finish stores is terminal, and an interruption if one was asked for.*)
LEMMA RecognisedOutcome ==
  ASSUME NEW row \in Row, NEW outcome \in Outcome
  PROVE  LET final == Recognised(row, outcome)
         IN  /\ final.status \in Terminal
             /\ final.result \in {"output", "manager_error", "cancelled"}
             /\ final.conversation \in Conversation \cup {NoConversation}
             /\ row.cancel => /\ final.status = "interrupted" /\ final.result = "cancelled"
                             /\ final.conversation = NoConversation
BY DEF Recognised, Outcome, Terminal

(* finish advances the row of an active agent to its end.                   *)
LEMMA FinishAdvances ==
  ASSUME NEW row \in Row, Consistent(row), row.status \in Active,
         NEW outcome \in Outcome, NEW now \in Nat
  PROVE  LET final == Recognised(row, outcome)
             new == FinishedRow(row, final, now)
         IN  Advances(row, new) /\ new.updated = now /\ new.result # "manager_lost"
<1> DEFINE final == Recognised(row, outcome)
           u == Progressed(row, final.status, 100, final.status)
           new == [u EXCEPT !.status = final.status, !.result = final.result,
                            !.conversation = IF final.conversation = NoConversation THEN @
                                             ELSE final.conversation,
                            !.updated = now]
<1>1. /\ final.status \in Terminal
      /\ final.result \in {"output", "manager_error", "cancelled"}
      /\ final.conversation \in Conversation \cup {NoConversation}
      /\ row.cancel => /\ final.status = "interrupted" /\ final.result = "cancelled"
                      /\ final.conversation = NoConversation
  BY RecognisedOutcome
<1> HIDE DEF final
<1>2. final.status \in Phase /\ 100 \in Percent /\ final.status \in Code
  BY <1>1 DEF Phase, Percent, Code
<1>3. /\ u \in Row /\ u.cancel = row.cancel /\ u.conversation = row.conversation
      /\ u.phase = final.status /\ u.percent = 100
      /\ Ordered(u.events) /\ u.events[Len(u.events)].percent = u.percent
      /\ Extends(row.events, u.events)
  BY <1>2, ProgressedRow
<1> HIDE DEF u
<1>4. /\ new \in Row /\ new.status = final.status /\ new.result = final.result
      /\ new.conversation = IF final.conversation = NoConversation THEN u.conversation
                            ELSE final.conversation
      /\ new.updated = now /\ new.phase = u.phase /\ new.percent = u.percent
      /\ new.events = u.events /\ new.cancel = u.cancel
  BY <1>1, <1>3, RowFields DEF Result
<1> HIDE DEF new
<1>5. Consistent(new)
  BY <1>1, <1>3, <1>4 DEF Consistent, Active, Terminal
<1>6. Advances(row, new)
  BY <1>1, <1>3, <1>4, <1>5 DEF Advances, Moves
<1> QED BY <1>1, <1>4, <1>6 DEF final, u, new, FinishedRow

(* Declaring the manager lost advances the row of an active agent.          *)
LEMMA LostAdvances ==
  ASSUME NEW row \in Row, Consistent(row), clock \in Nat
  PROVE  Advances(row, Lost(row)) /\ Lost(row).updated = clock
<1> DEFINE u == Progressed(row, "failed", 100, "manager_lost")
           new == [u EXCEPT !.status = "failed", !.result = "manager_lost",
                            !.updated = clock]
<1>1. "failed" \in Phase /\ 100 \in Percent /\ "manager_lost" \in Code
  BY DEF Phase, Percent, Code, Terminal
<1>2. /\ u \in Row /\ u.cancel = row.cancel /\ u.conversation = row.conversation
      /\ u.phase = "failed" /\ u.percent = 100
      /\ Ordered(u.events) /\ u.events[Len(u.events)].percent = u.percent
      /\ Extends(row.events, u.events)
  BY <1>1, ProgressedRow
<1>3. Lost(row) = new
  BY DEF Lost
<1> HIDE DEF u
<1>4. /\ new \in Row /\ new.status = "failed" /\ new.result = "manager_lost"
      /\ new.conversation = u.conversation
      /\ new.updated = clock /\ new.phase = u.phase /\ new.percent = u.percent
      /\ new.events = u.events /\ new.cancel = u.cancel
  BY <1>2, RowFields DEF Result, Terminal
<1> HIDE DEF new
<1>5. Consistent(new)
  BY <1>2, <1>4 DEF Consistent, Active, Terminal
<1>6. Advances(row, new)
  BY <1>2, <1>4, <1>5 DEF Advances, Moves, Terminal
<1> QED BY <1>3, <1>4, <1>6

(* The row that create inserts.                                             *)
LEMMA QueuedRow ==
  ASSUME NEW c \in Conversation \cup {NoConversation}, NEW now \in Nat
  PROVE  /\ Queued(c, now) \in Row /\ Consistent(Queued(c, now))
         /\ Queued(c, now).status = "queued" /\ Queued(c, now).updated = now
         /\ ~Queued(c, now).cancel
<1> DEFINE e == [sequence |-> 1, code |-> "scheduled", percent |-> 5]
           f == <<e>>
           no == FALSE
<1>1. e \in Event
  BY DEF Event, Code, Percent
<1>2. f \in Feed /\ Len(f) = 1 /\ f[1] = e /\ DOMAIN f = {1}
  BY <1>1, BoundsAssumption DEF Feed
<1>3. Ordered(f)
  BY <1>2 DEF Ordered
<1>4. e.percent = 5 /\ no \in BOOLEAN
  OBVIOUS
<1> HIDE DEF e, f, no
<1> DEFINE row == [status |-> "queued", cancel |-> no, conversation |-> c,
                   result |-> "none", phase |-> "queued", percent |-> 5,
                   events |-> f, updated |-> now]
<1>5. Queued(c, now) = row
  BY DEF Queued, e, f, no
<1>6. row \in Row
  <2>1. /\ "queued" \in Active \cup Terminal /\ "none" \in Result /\ "queued" \in Phase
        /\ 5 \in Percent
    BY DEF Active, Result, Phase, Percent
  <2> QED BY <1>2, <1>4, <2>1, RowFields
<1>7. /\ row.status = "queued" /\ row.updated = now /\ row.events = f
      /\ row.percent = 5 /\ row.phase = "queued" /\ row.result = "none"
  OBVIOUS
<1>9. ~row.cancel
  BY DEF no
<1> HIDE DEF row
<1>8. Consistent(row)
  <2>1. /\ Ordered(row.events) /\ row.events[Len(row.events)].percent = row.percent
    BY <1>2, <1>3, <1>4, <1>7
  <2>2. "queued" \notin Terminal /\ "queued" \in Active
    BY DEF Active, Terminal
  <2> QED BY <1>7, <2>1, <2>2 DEF Consistent
<1> QED BY <1>5, <1>6, <1>7, <1>8, <1>9

-----------------------------------------------------------------------------
(* The table.                                                               *)

(* The stamp of a row is at most MaxLag older than its last write.          *)
Stamped(a) ==
  /\ agents[a].updated <= written[a] /\ written[a] <= clock
  /\ written[a] <= agents[a].updated + MaxLag

IInv ==
  /\ TypeOK
  /\ \A a \in Present(agents) : Consistent(agents[a]) /\ Stamped(a)
  /\ CapacityHolds /\ StoreBounded

(* A call moves the row of an active agent on.                              *)
Advanced(a) ==
  /\ a \in WithStatus(agents, Active) /\ Advances(agents[a], agents'[a])
  /\ agents'[a].updated \in Stamps /\ written'[a] = clock
  /\ agents'[a].result = "manager_lost" => agents[a].updated + StaleAfter < clock

(* A call that writes rows of active agents, and no other row.              *)
Writing ==
  /\ clock' = clock /\ TypeOK'
  /\ \A a \in Agent :
       (agents'[a] = agents[a] /\ written'[a] = written[a]) \/ Advanced(a)

(* What the invariant says of an active row.                                *)
LEMMA ActiveRow ==
  ASSUME IInv, NEW a \in WithStatus(agents, Active)
  PROVE  /\ a \in Agent /\ agents[a] # NoAgent /\ agents[a] \in Row
         /\ Consistent(agents[a]) /\ Stamped(a) /\ agents[a].status \in Active
BY DEF IInv, TypeOK, WithStatus, Present

(* A write of the row of an active agent at a stamp of the caller.          *)
LEMMA WriteAdvances ==
  ASSUME IInv, NEW a \in WithStatus(agents, Active), NEW new, Write(a, new),
         Advances(agents[a], new), new.updated \in Stamps, new.result # "manager_lost"
  PROVE  Writing
<1>1. /\ a \in Agent /\ clock \in Nat /\ new \in Row
      /\ agents \in [Agent -> Row \cup {NoAgent}] /\ written \in [Agent -> Nat]
  BY ActiveRow DEF IInv, TypeOK, Advances
<1>2. /\ agents' = [agents EXCEPT ![a] = new] /\ written' = [written EXCEPT ![a] = clock]
      /\ clock' = clock
  BY DEF Write
<1>3. TypeOK'
  BY <1>1, <1>2 DEF TypeOK
<1>4. agents'[a] = new /\ written'[a] = clock
  BY <1>1, <1>2
<1>5. \A b \in Agent \ {a} : agents'[b] = agents[b] /\ written'[b] = written[b]
  BY <1>1, <1>2
<1>6. Advanced(a)
  BY <1>4 DEF Advanced
<1> QED BY <1>2, <1>3, <1>5, <1>6 DEF Writing

(* All calls but create write the row of an active agent.                   *)
LEMMA CallsWrite ==
  ASSUME IInv, NEW now \in Stamps, NEW a \in Agent,
         \/ MarkRunning(a, now) \/ RequestCancel(a, now)
         \/ \E u \in Updates : RecordProgress(a, u, now)
         \/ \E o \in Outcome : Finish(a, o, now)
  PROVE  Writing
<1>1. now \in Nat
  BY DEF Stamps, IInv, TypeOK
<1>2. "none" # "manager_lost"
  OBVIOUS
<1>3. CASE MarkRunning(a, now)
  <2> DEFINE new == RunningRow(agents[a], now)
  <2>1. /\ a \in WithStatus(agents, Active) /\ agents[a].status = "queued" /\ ~agents[a].cancel
        /\ Write(a, new)
    BY <1>3 DEF RunningRow, MarkRunning, WithStatus, Active
  <2>2. Advances(agents[a], new) /\ new.updated = now /\ new.result = "none"
    <3>1. /\ agents[a] \in Row /\ Consistent(agents[a]) /\ agents[a].status \in Active
      BY <2>1, ActiveRow
    <3> QED BY <1>1, <2>1, <3>1, MarkRunningAdvances
  <2> HIDE DEF new
  <2> QED BY <2>1, <2>2, WriteAdvances
<1>4. CASE RequestCancel(a, now)
  <2> DEFINE phase == IF agents[a].status = "queued" THEN "queued" ELSE "executing"
             new == CancelledRow(agents[a], phase, now)
  <2>1. a \in WithStatus(agents, Active) /\ Write(a, new)
    BY <1>4 DEF RequestCancel, CancelledRow
  <2>2. phase \in {"queued", "executing"}
    OBVIOUS
  <2> HIDE DEF phase
  <2>3. Advances(agents[a], new) /\ new.updated = now /\ new.result = "none"
    <3>1. /\ agents[a] \in Row /\ Consistent(agents[a]) /\ agents[a].status \in Active
      BY <2>1, ActiveRow
    <3> QED BY <1>1, <2>1, <2>2, <3>1, RequestCancelAdvances
  <2> HIDE DEF new
  <2> QED BY <2>1, <2>3, WriteAdvances
<1>5. ASSUME NEW u \in Updates, RecordProgress(a, u, now) PROVE Writing
  <2> DEFINE new == ReportedRow(agents[a], u, now)
  <2>1. a \in WithStatus(agents, Active) /\ Write(a, new)
    BY <1>5 DEF RecordProgress, ReportedRow
  <2>2. Advances(agents[a], new) /\ new.updated = now /\ new.result = "none"
    <3>1. /\ agents[a] \in Row /\ Consistent(agents[a]) /\ agents[a].status \in Active
      BY <2>1, ActiveRow
    <3> QED BY <1>1, <2>1, <3>1, RecordProgressAdvances
  <2> HIDE DEF new
  <2> QED BY <2>1, <2>2, WriteAdvances
<1>6. ASSUME NEW o \in Outcome, Finish(a, o, now) PROVE Writing
  <2> DEFINE final == Recognised(agents[a], o)
             new == FinishedRow(agents[a], final, now)
  <2>1. a \in WithStatus(agents, Active) /\ Write(a, new)
    BY <1>6 DEF Finish, FinishedRow
  <2>2. Advances(agents[a], new) /\ new.updated = now /\ new.result # "manager_lost"
    <3>1. /\ agents[a] \in Row /\ Consistent(agents[a]) /\ agents[a].status \in Active
      BY <2>1, ActiveRow
    <3> QED BY <1>1, <2>1, <3>1, FinishAdvances
  <2> HIDE DEF new
  <2> QED BY <2>1, <2>2, WriteAdvances
<1> QED BY <1>3, <1>4, <1>5, <1>6

(* reconcile_stale writes the rows of the agents it declares lost.          *)
LEMMA ReconcileWrites ==
  ASSUME IInv, NEW now \in Stamps, ReconcileStale(now)
  PROVE  Writing
<1>1. /\ clock \in Nat /\ now \in Nat /\ now <= clock /\ MaxLag \in Nat /\ StaleAfter \in Nat
      /\ agents \in [Agent -> Row \cup {NoAgent}] /\ written \in [Agent -> Nat]
  BY BoundsAssumption DEF Stamps, IInv, TypeOK
<1>2. ASSUME NEW a \in Stale(now)
      PROVE  /\ a \in WithStatus(agents, Active) /\ agents[a] \in Row
             /\ agents[a].updated + StaleAfter < clock
             /\ Advances(agents[a], Lost(agents[a])) /\ Lost(agents[a]).updated = clock
  <2>1. a \in WithStatus(agents, Active) /\ agents[a].updated + StaleAfter < now
    BY DEF Stale
  <2>2. agents[a] \in Row /\ Consistent(agents[a]) /\ agents[a].updated \in Nat
    BY <2>1, ActiveRow, RowFields
  <2>3. agents[a].updated + StaleAfter < clock
    BY <1>1, <2>1, <2>2
  <2> QED BY <1>1, <2>1, <2>2, <2>3, LostAdvances
<1>3. /\ agents' = [a \in Agent |-> IF a \in Stale(now) THEN Lost(agents[a]) ELSE agents[a]]
      /\ written' = [a \in Agent |-> IF a \in Stale(now) THEN clock ELSE written[a]]
      /\ clock' = clock
  BY DEF ReconcileStale
<1>4. clock \in Stamps
  BY <1>1 DEF Stamps
<1>5. ASSUME NEW a \in Agent
      PROVE  (agents'[a] = agents[a] /\ written'[a] = written[a]) \/ Advanced(a)
  <2>1. CASE a \in Stale(now)
    <3>1. agents'[a] = Lost(agents[a]) /\ written'[a] = clock
      BY <1>3, <2>1
    <3> QED BY <1>2, <1>4, <2>1, <3>1 DEF Advanced
  <2> QED BY <1>3, <2>1
<1>6. \A a \in Agent : a \in Stale(now) => Lost(agents[a]) \in Row
  BY <1>2 DEF Advances
<1>7. TypeOK'
  BY <1>1, <1>3, <1>6 DEF TypeOK
<1> QED BY <1>3, <1>5, <1>7 DEF Writing

(* What create does to the table, when `kept' of the history stays.         *)
CreatedKeeping(a, row, kept) ==
  LET finished == WithStatus(agents, Terminal) IN
  /\ clock' = clock /\ TypeOK'
  /\ kept \subseteq finished
  /\ Cardinality(kept) <= MaxHistory
  /\ Cardinality(kept) = MaxHistory \/ kept = finished
  /\ \A b \in kept, d \in finished \ kept : agents[b].updated >= agents[d].updated
  /\ agents[a] = NoAgent /\ agents'[a] = row /\ written'[a] = clock
  /\ \A b \in finished \ kept : agents'[b] = NoAgent
  /\ \A b \in Agent \ (finished \ kept) :
       b # a => /\ agents'[b] = agents[b]
                /\ agents[b] # NoAgent => written'[b] = written[b]

(* create writes one new row and prunes all but the newest finished ones.   *)
LEMMA CreateKeeps ==
  ASSUME IInv, NEW a \in Agent, NEW now \in Stamps,
         NEW c \in Conversation \cup {NoConversation}, Create(a, c, now)
  PROVE  \E kept : CreatedKeeping(a, Queued(c, now), kept)
<1> DEFINE row == Queued(c, now)
           inserted == [agents EXCEPT ![a] = row]
           finished == WithStatus(agents, Terminal)
<1>1. /\ clock \in Nat /\ now \in Nat
      /\ agents \in [Agent -> Row \cup {NoAgent}] /\ written \in [Agent -> Nat]
      /\ agents[a] = NoAgent /\ clock' = clock
  BY DEF Stamps, IInv, TypeOK, Create
<1>2. row \in Row /\ row.status = "queued" /\ row # NoAgent
  BY <1>1, QueuedRow, AgentAssumption
<1>3. PICK kept \in Retained(inserted) :
        agents' = [b \in Agent |->
                     IF b \in WithStatus(inserted, Terminal) \ kept THEN NoAgent
                     ELSE inserted[b]]
  BY DEF Create
<1>4. written' = [b \in Agent |-> IF b = a THEN clock
                                 ELSE IF agents'[b] = NoAgent THEN 0 ELSE written[b]]
  BY DEF Create
<1> HIDE DEF row
<1>5. inserted[a] = row /\ \A b \in Agent : b # a => inserted[b] = agents[b]
  BY <1>1
<1> HIDE DEF inserted
<1>6. WithStatus(inserted, Terminal) = finished /\ a \notin finished
  BY <1>1, <1>2, <1>5 DEF WithStatus, Present, Terminal
<1>7. /\ kept \subseteq finished /\ Cardinality(kept) <= MaxHistory
      /\ Cardinality(kept) = MaxHistory \/ kept = finished
      /\ \A b \in kept, d \in finished \ kept : inserted[b].updated >= inserted[d].updated
  BY <1>3, <1>6 DEF Retained
<1>8. finished \subseteq Agent
  BY DEF WithStatus, Present
<1> HIDE DEF finished
<1>9. /\ \A b \in finished \ kept : agents'[b] = NoAgent
      /\ \A b \in Agent \ (finished \ kept) : agents'[b] = inserted[b]
  BY <1>3, <1>6, <1>8
<1>10. agents' \in [Agent -> Row \cup {NoAgent}]
  BY <1>1, <1>2, <1>3, <1>5
<1>11. written' \in [Agent -> Nat]
  BY <1>1, <1>4
<1>12. CreatedKeeping(a, row, kept)
  <2>1. TypeOK'
    BY <1>1, <1>10, <1>11 DEF TypeOK
  <2>2. \A b \in kept, d \in finished \ kept : agents[b].updated >= agents[d].updated
    BY <1>5, <1>6, <1>7, <1>8
  <2>3. agents'[a] = row /\ written'[a] = clock
    BY <1>4, <1>5, <1>6, <1>9
  <2>4. ASSUME NEW b \in Agent \ (finished \ kept), b # a
        PROVE  /\ agents'[b] = agents[b]
               /\ agents[b] # NoAgent => written'[b] = written[b]
    BY <1>4, <1>5, <1>9, <2>4
  <2> QED BY <1>1, <1>7, <1>9, <2>1, <2>2, <2>3, <2>4 DEF CreatedKeeping, finished
<1> QED BY <1>12 DEF row

(* Every step leaves the rows, writes rows of active agents, or creates one.*)
LEMMA StepKinds ==
  ASSUME IInv, [Next]_vars
  PROVE  \/ agents' = agents /\ written' = written /\ clock' \in {clock, clock + 1}
         \/ Writing
         \/ \E a \in Agent, c \in Conversation \cup {NoConversation}, now \in Stamps :
              Create(a, c, now)
<1>1. ASSUME NEW now \in Stamps, NEW a \in Agent, Call(a, now)
      PROVE  Writing \/ \E c \in Conversation \cup {NoConversation} : Create(a, c, now)
  BY <1>1, CallsWrite DEF Call
<1>2. CASE Tick \/ UNCHANGED vars
  BY <1>2 DEF Tick, vars
<1>3. CASE \E now \in Stamps : ReconcileStale(now)
  BY <1>3, ReconcileWrites
<1> QED BY <1>1, <1>2, <1>3 DEF Next

-----------------------------------------------------------------------------
(* The sizes.                                                               *)

(* Sets of agents have a size.                                              *)
LEMMA Finite ==
  ASSUME NEW S, S \subseteq Agent
  PROVE  IsFiniteSet(S) /\ Cardinality(S) \in Nat
BY AgentAssumption, FS_Subset, FS_CardinalityType

(* Writing rows of active agents creates no agent and activates none.       *)
LEMMA WritingBounded ==
  ASSUME IInv, Writing
  PROVE  CapacityHolds' /\ StoreBounded'
<1>1. \A a \in Agent : agents'[a] = agents[a] \/ Advanced(a)
  BY DEF Writing
<1>2. \A a \in Agent : agents'[a] # NoAgent => agents[a] # NoAgent
  BY <1>1 DEF Advanced, WithStatus, Present
<1>3. \A a \in Agent : Advanced(a) => agents[a].status \in Active
  BY DEF Advanced, WithStatus
<1>4. WithStatus(agents', Active) \subseteq WithStatus(agents, Active)
  BY <1>1, <1>2, <1>3 DEF WithStatus, Present
<1>5. Present(agents') \subseteq Present(agents)
  BY <1>2 DEF Present
<1>6. /\ Present(agents) \subseteq Agent /\ WithStatus(agents, Active) \subseteq Agent
      /\ Present(agents') \subseteq Agent /\ WithStatus(agents', Active) \subseteq Agent
  BY DEF Present, WithStatus
<1>7. /\ Cardinality(WithStatus(agents', Active)) <= Cardinality(WithStatus(agents, Active))
      /\ Cardinality(Present(agents')) <= Cardinality(Present(agents))
  BY <1>4, <1>5, <1>6, Finite, FS_Subset
<1>8. /\ Cardinality(Present(agents)) \in Nat /\ Cardinality(Present(agents')) \in Nat
      /\ Cardinality(WithStatus(agents, Active)) \in Nat
      /\ Cardinality(WithStatus(agents', Active)) \in Nat
  BY <1>6, Finite
<1> QED BY <1>7, <1>8, BoundsAssumption DEF IInv, CapacityHolds, StoreBounded

(* create adds one active agent where there is room, and leaves no more     *)
(* than the active agents and MaxHistory terminal ones.                     *)
LEMMA CreateBounded ==
  ASSUME IInv, NEW a \in Agent, NEW row \in Row, row.status = "queued", row # NoAgent,
         NEW kept, CreatedKeeping(a, row, kept), HasRoom
  PROVE  CapacityHolds' /\ StoreBounded'
<1> DEFINE finished == WithStatus(agents, Terminal)
           active == WithStatus(agents, Active)
           joined == WithStatus(agents', Active)
<1>1. /\ kept \subseteq finished /\ Cardinality(kept) <= MaxHistory
      /\ agents'[a] = row
      /\ \A b \in finished \ kept : agents'[b] = NoAgent
      /\ \A b \in Agent \ (finished \ kept) : b # a => agents'[b] = agents[b]
  BY DEF CreatedKeeping
<1>2. joined \subseteq active \cup {a}
  BY <1>1 DEF WithStatus, Present, Active
<1>3. Present(agents') \subseteq joined \cup kept
  <2> SUFFICES ASSUME NEW b \in Agent, agents'[b] # NoAgent, b \notin kept
               PROVE  agents'[b].status \in Active
    BY DEF WithStatus, Present
  <2>1. CASE b = a
    BY <1>1, <2>1 DEF Active
  <2>2. CASE b # a
    <3>1. b \notin finished /\ agents'[b] = agents[b]
      BY <1>1, <2>2
    <3>2. agents[b] \in Row
      BY <3>1 DEF IInv, TypeOK
    <3> QED BY <3>1, <3>2, RowFields DEF WithStatus, Present
  <2> QED BY <2>1, <2>2
<1>4. /\ active \subseteq Agent /\ joined \subseteq Agent /\ kept \subseteq Agent
      /\ Present(agents') \subseteq Agent /\ joined \cup kept \subseteq Agent
      /\ active \cup {a} \subseteq Agent
  BY <1>1 DEF WithStatus, Present
<1> HIDE DEF active, joined
<1>5. Cardinality(joined) <= Cardinality(active) + 1
  <2>1. Cardinality(joined) <= Cardinality(active \cup {a})
    BY <1>2, <1>4, Finite, FS_Subset
  <2>2. Cardinality(active \cup {a}) <= Cardinality(active) + 1
    BY <1>4, Finite, FS_AddElement
  <2> QED BY <1>4, <2>1, <2>2, Finite
<1>6. Cardinality(Present(agents')) <= Cardinality(joined) + Cardinality(kept)
  <2>1. Cardinality(Present(agents')) <= Cardinality(joined \cup kept)
    BY <1>3, <1>4, Finite, FS_Subset
  <2>2. Cardinality(joined \cup kept)
          = Cardinality(joined) + Cardinality(kept) - Cardinality(joined \cap kept)
    BY <1>4, Finite, FS_Union
  <2>3. Cardinality(joined \cap kept) \in Nat
    BY <1>4, Finite
  <2>4. /\ Cardinality(Present(agents')) \in Nat /\ Cardinality(joined) \in Nat
        /\ Cardinality(kept) \in Nat /\ Cardinality(joined \cup kept) \in Nat
    BY <1>4, Finite
  <2> QED BY <2>1, <2>2, <2>3, <2>4
<1>7. Cardinality(active) < MaxActive
  BY DEF HasRoom, active
<1>8. /\ Cardinality(active) \in Nat /\ Cardinality(joined) \in Nat
      /\ Cardinality(kept) \in Nat /\ Cardinality(Present(agents')) \in Nat
  BY <1>4, Finite
<1> QED BY <1>1, <1>5, <1>6, <1>7, <1>8, BoundsAssumption
        DEF CapacityHolds, StoreBounded, joined

-----------------------------------------------------------------------------
(* The invariant.                                                           *)

(* An empty table satisfies the invariant.                                  *)
LEMMA InitIInv == Init => IInv
<1> SUFFICES ASSUME Init PROVE IInv
  OBVIOUS
<1>1. TypeOK
  BY DEF Init, TypeOK
<1>2. Present(agents) = {} /\ WithStatus(agents, Active) = {}
  BY DEF Init, Present, WithStatus
<1> QED BY <1>1, <1>2, FS_EmptySet, BoundsAssumption DEF IInv, CapacityHolds, StoreBounded

(* A write of active rows keeps the invariant.                              *)
LEMMA WritingKeeps ==
  ASSUME IInv, Writing
  PROVE  IInv'
<1>1. /\ clock' = clock /\ clock \in Nat /\ MaxLag \in Nat /\ TypeOK'
  BY BoundsAssumption DEF Writing, IInv, TypeOK
<1>2. ASSUME NEW a \in Present(agents') PROVE Consistent(agents'[a]) /\ Stamped(a)'
  <2>1. a \in Agent /\ agents'[a] # NoAgent
    BY DEF Present
  <2>2. CASE agents'[a] = agents[a] /\ written'[a] = written[a]
    <3>1. Consistent(agents[a]) /\ Stamped(a)
      BY <2>1, <2>2 DEF IInv, Present
    <3> QED BY <1>1, <2>2, <3>1 DEF Stamped
  <2>3. CASE Advanced(a)
    BY <1>1, <2>3 DEF Advanced, Advances, Stamped, Stamps
  <2> QED BY <2>1, <2>2, <2>3 DEF Writing
<1> QED BY <1>1, <1>2, WritingBounded DEF IInv, Consistent, Ordered

(* So does a new agent.                                                     *)
LEMMA CreateKeepsIInv ==
  ASSUME IInv, NEW a \in Agent, NEW now \in Stamps,
         NEW c \in Conversation \cup {NoConversation}, Create(a, c, now)
  PROVE  IInv'
<1> DEFINE row == Queued(c, now)
<1>1. now \in Nat /\ now <= clock /\ clock <= now + MaxLag /\ clock \in Nat
  BY DEF Stamps, IInv, TypeOK
<1>2. /\ row \in Row /\ Consistent(row) /\ row.status = "queued" /\ row.updated = now
      /\ row # NoAgent
  BY <1>1, QueuedRow, AgentAssumption
<1>3. PICK kept : CreatedKeeping(a, row, kept)
  BY CreateKeeps
<1> HIDE DEF row
<1>4. CapacityHolds' /\ StoreBounded'
  BY <1>2, <1>3, CreateBounded DEF Create
<1>5. ASSUME NEW b \in Present(agents') PROVE Consistent(agents'[b]) /\ Stamped(b)'
  <2>1. CASE b = a
    BY <1>1, <1>2, <1>3, <2>1 DEF CreatedKeeping, Stamped
  <2>2. CASE b # a
    <3>1. b \in Agent /\ agents'[b] = agents[b] /\ written'[b] = written[b] /\ clock' = clock
      BY <1>3, <2>2 DEF CreatedKeeping, Present
    <3>2. Consistent(agents[b]) /\ Stamped(b)
      BY <3>1 DEF IInv, Present
    <3> QED BY <3>1, <3>2 DEF Stamped
  <2> QED BY <2>1, <2>2
<1>6. TypeOK'
  BY <1>3 DEF CreatedKeeping
<1> QED BY <1>4, <1>5, <1>6 DEF IInv, Consistent, Ordered

(* Every transaction, and the passing of time, keeps the invariant.         *)
LEMMA StepIInv == IInv /\ [Next]_vars => IInv'
<1> SUFFICES ASSUME IInv, [Next]_vars PROVE IInv'
  OBVIOUS
<1>1. CASE agents' = agents /\ written' = written /\ clock' \in {clock, clock + 1}
  <2>1. clock \in Nat /\ clock' \in Nat /\ clock <= clock' /\ written \in [Agent -> Nat]
    BY <1>1 DEF IInv, TypeOK
  <2>2. TypeOK' /\ CapacityHolds' /\ StoreBounded'
    BY <1>1, <2>1 DEF IInv, TypeOK, CapacityHolds, StoreBounded, WithStatus, Present
  <2>3. ASSUME NEW a \in Present(agents) PROVE Consistent(agents[a]) /\ Stamped(a)'
    <3>1. Consistent(agents[a]) /\ Stamped(a) /\ written[a] \in Nat
      BY <2>1 DEF IInv, Present
    <3> QED BY <1>1, <2>1, <3>1 DEF Stamped
  <2> QED BY <1>1, <2>2, <2>3 DEF IInv, Consistent, Ordered, Present
<1> QED BY <1>1, StepKinds, WritingKeeps, CreateKeepsIInv

(* The invariant holds in every state of the table.                         *)
LEMMA Invariance == Spec => []IInv
BY InitIInv, StepIInv, PTL DEF Spec

-----------------------------------------------------------------------------
(* The theorems.                                                            *)

(* The table keeps its types: in particular no feed is ever empty or longer *)
(* than MaxEvents.                                                          *)
THEOREM TypeCorrect == Spec => []TypeOK
<1>1. IInv => TypeOK
  BY DEF IInv
<1> QED BY <1>1, Invariance, PTL

(* The feed of every agent is in order, however late its updates commit.    *)
THEOREM FeedOrderedHolds == Spec => []FeedOrdered
<1>1. IInv => FeedOrdered
  BY DEF IInv, FeedOrdered, Consistent, Ordered
<1> QED BY <1>1, Invariance, PTL

(* The status of a row, its phase, its percentage and its result agree.     *)
THEOREM ViewsAgreeHolds == Spec => []ViewsAgree
<1>1. IInv => ViewsAgree
  BY DEF IInv, ViewsAgree, Consistent
<1> QED BY <1>1, Invariance, PTL

(* No more than MAX_ACTIVE_AGENTS agents are active, over all servers.      *)
THEOREM CapacityHoldsAlways == Spec => []CapacityHolds
<1>1. IInv => CapacityHolds
  BY DEF IInv
<1> QED BY <1>1, Invariance, PTL

(* The table never holds more rows than the history and the active agents.  *)
THEOREM StoreBoundedHolds == Spec => []StoreBounded
<1>1. IInv => StoreBounded
  BY DEF IInv
<1> QED BY <1>1, Invariance, PTL

(* What a step makes of a row: it stays, is pruned when terminal, or is     *)
(* advanced when active.                                                    *)
LEMMA RowMoves ==
  ASSUME IInv, [Next]_vars, NEW a \in Present(agents)
  PROVE  \/ agents'[a] = agents[a]
         \/ agents'[a] = NoAgent /\ agents[a].status \in Terminal
         \/ Advanced(a) /\ clock' = clock
<1>1. a \in Agent /\ agents[a] # NoAgent
  BY DEF Present
<1>2. CASE Writing
  BY <1>1, <1>2 DEF Writing
<1>3. ASSUME NEW b \in Agent, NEW c \in Conversation \cup {NoConversation},
             NEW now \in Stamps, Create(b, c, now)
      PROVE  agents'[a] = agents[a] \/ (agents'[a] = NoAgent /\ agents[a].status \in Terminal)
  <2> DEFINE row == Queued(c, now)
  <2>1. PICK kept : CreatedKeeping(b, row, kept)
    BY <1>3, CreateKeeps
  <2> HIDE DEF row
  <2>2. a # b
    BY <1>1, <2>1 DEF CreatedKeeping
  <2> QED BY <1>1, <2>1, <2>2 DEF CreatedKeeping, WithStatus
<1> QED BY <1>2, <1>3, StepKinds

(* An active row is not terminal.                                           *)
LEMMA ActiveNotTerminal ==
  ASSUME NEW status \in Active
  PROVE  status \notin Terminal
BY DEF Active, Terminal

(* Nothing writes a terminal row: not a progress thread whose caller gave   *)
(* up, nor a manager that comes back.                                       *)
THEOREM TerminalImmutableHolds == Spec => TerminalImmutable
<1>1. ASSUME IInv, [Next]_vars, NEW a \in WithStatus(agents, Terminal)
      PROVE  agents'[a] \in {agents[a], NoAgent}
  <2>1. a \in Present(agents) /\ agents[a].status \in Terminal
    BY DEF WithStatus
  <2>2. ~Advanced(a)
    BY <2>1, ActiveNotTerminal DEF Advanced, WithStatus
  <2> QED BY <1>1, <2>1, <2>2, RowMoves
<1>2. IInv /\ [Next]_vars =>
        [\A a \in WithStatus(agents, Terminal) : agents'[a] \in {agents[a], NoAgent}]_vars
  BY <1>1
<1> QED BY <1>2, Invariance, PTL DEF Spec, TerminalImmutable

(* Once a cancellation was requested the agent cannot succeed, keeps its    *)
(* conversation and stores no output, whoever ends it.                      *)
THEOREM CancelHonouredHolds == Spec => CancelHonoured
<1> DEFINE Honoured(a) ==
             agents[a].cancel /\ agents'[a].status \in Terminal
               => /\ agents'[a].result \in {"cancelled", "manager_lost"}
                  /\ agents'[a].result = "cancelled" => agents'[a].status = "interrupted"
                  /\ agents'[a].conversation = agents[a].conversation
<1>1. ASSUME IInv, [Next]_vars, NEW a \in WithStatus(agents, Active)
      PROVE  Honoured(a)
  <2>1. a \in Present(agents) /\ agents[a].status \notin Terminal
    BY ActiveNotTerminal DEF WithStatus
  <2>2. agents'[a] = agents[a] \/ Advanced(a)
    BY <1>1, <2>1, RowMoves
  <2> QED BY <2>1, <2>2 DEF Advanced, Advances
<1>2. IInv /\ [Next]_vars => [\A a \in WithStatus(agents, Active) : Honoured(a)]_vars
  BY <1>1
<1> QED BY <1>2, Invariance, PTL DEF Spec, CancelHonoured

(* A client that remembers the last number it has read misses nothing but   *)
(* what was trimmed, and no number it has seen changes its meaning.         *)
THEOREM FeedAppendOnlyHolds == Spec => FeedAppendOnly
<1> DEFINE Kept(a) ==
             agents'[a] # NoAgent =>
               LET old == agents[a].events
                   new == agents'[a].events
               IN  /\ \A i \in DOMAIN old, j \in DOMAIN new :
                        old[i].sequence = new[j].sequence
                          => /\ old[i].code = new[j].code
                             /\ old[i] = new[j] \/ old[i].code = "heartbeat"
                   /\ new[Len(new)].sequence - old[Len(old)].sequence \in {0, 1}
<1>1. ASSUME IInv, [Next]_vars, NEW a \in Present(agents), agents'[a] # NoAgent
      PROVE  Extends(agents[a].events, agents'[a].events)
  <2>1. CASE agents'[a] = agents[a]
    <3> DEFINE f == agents[a].events
    <3>1. agents[a] \in Row /\ Consistent(agents[a])
      BY <1>1 DEF IInv, TypeOK, Present
    <3>2. f \in Feed /\ Ordered(f)
      BY <3>1, RowFields DEF Consistent
    <3> HIDE DEF f
    <3>3. Extends(f, f)
      <4>1. f[Len(f)].sequence - f[Len(f)].sequence = 0
        BY <3>2, FeedType
      <4>2. \A i, j \in DOMAIN f : f[i].sequence = f[j].sequence => i = j
        BY <3>2, NumbersDiffer
      <4> QED BY <4>1, <4>2 DEF Extends
    <3> QED BY <2>1, <3>3 DEF f
  <2>2. CASE Advanced(a)
    BY <2>2 DEF Advanced, Advances
  <2> QED BY <1>1, <2>1, <2>2, RowMoves
<1>2. IInv /\ [Next]_vars => [\A a \in Present(agents) : Kept(a)]_vars
  BY <1>1 DEF Extends
<1> QED BY <1>2, Invariance, PTL DEF Spec, FeedAppendOnly

(* An agent that is declared lost was not written for StaleAfter seconds,   *)
(* less the age of the stamps.                                              *)
THEOREM LiveAgentKeptHolds == Spec => LiveAgentKept
<1>1. ASSUME IInv, [Next]_vars, NEW a \in WithStatus(agents, Active),
             agents'[a].result = "manager_lost"
      PROVE  written[a] + StaleAfter < clock + MaxLag
  <2>1. /\ a \in Agent /\ agents[a] \in Row /\ Consistent(agents[a]) /\ Stamped(a)
        /\ agents[a].status \in Active
    BY <1>1, ActiveRow
  <2>2. agents[a].result = "none" /\ a \in Present(agents) /\ agents[a].status \notin Terminal
    BY <2>1, ActiveNotTerminal DEF Consistent, WithStatus
  <2>3. Advanced(a)
    BY <1>1, <2>2, RowMoves
  <2>4. agents[a].updated + StaleAfter < clock /\ written[a] <= agents[a].updated + MaxLag
    BY <1>1, <2>1, <2>3 DEF Advanced, Stamped
  <2>5. /\ agents[a].updated \in Nat /\ written[a] \in Nat /\ clock \in Nat
        /\ StaleAfter \in Nat /\ MaxLag \in Nat
    BY <1>1, <2>1, RowFields, BoundsAssumption DEF IInv, TypeOK
  <2> QED BY <2>4, <2>5
<1>2. IInv /\ [Next]_vars =>
        [\A a \in WithStatus(agents, Active) :
           agents'[a].result = "manager_lost" => written[a] + StaleAfter < clock + MaxLag]_vars
  BY <1>1
<1> QED BY <1>2, Invariance, PTL DEF Spec, LiveAgentKept

(* create prunes terminal rows only, and none while it could prune one that *)
(* was written well before it.                                              *)
THEOREM OldestPrunedHolds == Spec => OldestPruned
<1> DEFINE Younger(a) ==
             {b \in WithStatus(agents', Terminal) : written[a] <= written[b] + MaxLag}
<1>1. ASSUME IInv, [Next]_vars, NEW a \in Present(agents), agents'[a] = NoAgent
      PROVE  agents[a].status \in Terminal /\ Cardinality(Younger(a)) >= MaxHistory
  <2>1. a \in Agent /\ agents[a] # NoAgent
    BY DEF Present
  <2>2. ~Writing
    <3>1. agents'[a] \in Row \/ ~Advanced(a)
      BY DEF Advanced, Advances
    <3> QED BY <1>1, <2>1, <3>1, AgentAssumption DEF Writing
  <2>3. PICK b \in Agent, c \in Conversation \cup {NoConversation}, now \in Stamps :
          Create(b, c, now)
    BY <1>1, <2>1, <2>2, StepKinds
  <2> DEFINE row == Queued(c, now)
             finished == WithStatus(agents, Terminal)
  <2>4. PICK kept : CreatedKeeping(b, row, kept)
    BY <1>1, <2>3, CreateKeeps
  <2> HIDE DEF row
  <2>5. a # b
    BY <2>1, <2>4 DEF CreatedKeeping
  <2>6. a \in finished \ kept
    BY <1>1, <2>1, <2>4, <2>5 DEF CreatedKeeping
  <2>7. Cardinality(kept) = MaxHistory /\ kept \subseteq finished
    BY <2>4, <2>6 DEF CreatedKeeping
  <2>8. ASSUME NEW d \in kept PROVE d \in Younger(a)
    <3>1. d \in Agent /\ agents[d] # NoAgent /\ agents[d].status \in Terminal /\ d # b
      BY <2>4, <2>7 DEF CreatedKeeping, WithStatus, Present
    <3>2. d \in WithStatus(agents', Terminal)
      <4>1. agents'[d] = agents[d]
        BY <2>4, <3>1 DEF CreatedKeeping
      <4> QED BY <3>1, <4>1 DEF WithStatus, Present
    <3>3. agents[d].updated >= agents[a].updated
      BY <2>4, <2>6 DEF CreatedKeeping
    <3>4. Stamped(d) /\ Stamped(a)
      BY <1>1, <3>1 DEF IInv, Present
    <3>5. /\ agents[d].updated \in Nat /\ agents[a].updated \in Nat
          /\ written[a] \in Nat /\ written[d] \in Nat /\ MaxLag \in Nat
      <4>1. agents[d] \in Row /\ agents[a] \in Row
        BY <1>1, <2>1, <3>1 DEF IInv, TypeOK
      <4> QED BY <1>1, <2>1, <3>1, <4>1, RowFields, BoundsAssumption DEF IInv, TypeOK
    <3>6. written[a] <= written[d] + MaxLag
      BY <3>3, <3>4, <3>5 DEF Stamped
    <3> QED BY <3>2, <3>6
  <2>9. Cardinality(kept) <= Cardinality(Younger(a))
    <3>1. Younger(a) \subseteq Agent /\ kept \subseteq Younger(a)
      BY <2>8 DEF WithStatus, Present
    <3> HIDE DEF Younger
    <3> QED BY <3>1, Finite, FS_Subset
  <2>10. Cardinality(Younger(a)) \in Nat
    <3>1. Younger(a) \subseteq Agent
      BY DEF WithStatus, Present
    <3> HIDE DEF Younger
    <3> QED BY <3>1, Finite
  <2> HIDE DEF Younger
  <2>11. Cardinality(Younger(a)) >= MaxHistory
    BY <2>7, <2>9, <2>10, BoundsAssumption
  <2> QED BY <2>6, <2>11 DEF WithStatus
<1>2. IInv /\ [Next]_vars =>
        [\A a \in Present(agents) :
           agents'[a] = NoAgent =>
             /\ agents[a].status \in Terminal
             /\ Cardinality(Younger(a)) >= MaxHistory]_vars
  BY <1>1
<1> QED BY <1>2, Invariance, PTL DEF Spec, OldestPruned

-----------------------------------------------------------------------------
(* The life of an agent.  The store keeps it though its callers follow no   *)
(* protocol; ManagedAgents shows it for the managers that do.               *)

Life == INSTANCE AgentLife
          WITH status <- [a \in Agent |-> IF agents[a] = NoAgent THEN "absent"
                                         ELSE agents[a].status],
               cancel <- [a \in Agent |-> agents[a] # NoAgent /\ agents[a].cancel]

ImplementsAgentLife == Life!Spec

(* A row that an active agent is advanced to is one of its life.            *)
LEMMA AdvancedLives ==
  ASSUME IInv, NEW a \in Agent, Advanced(a)
  PROVE  Life!Stays(a) \/ Life!Started(a) \/ Life!Cancelled(a) \/ Life!Ended(a)
<1>1. /\ agents[a] # NoAgent /\ agents'[a] # NoAgent /\ agents[a].status \in Active
      /\ Moves(agents[a], agents'[a])
      /\ agents[a].cancel \in BOOLEAN /\ agents'[a].cancel \in BOOLEAN
  <2>1. /\ agents[a] # NoAgent /\ agents[a] \in Row /\ agents[a].status \in Active
    BY ActiveRow DEF Advanced
  <2>2. agents'[a] \in Row /\ Moves(agents[a], agents'[a])
    BY DEF Advanced, Advances
  <2> QED BY <2>1, <2>2, AgentAssumption, RowFields
<1> QED BY <1>1 DEF Moves, Active, Terminal, Life!Stays, Life!Started, Life!Cancelled,
                    Life!Ended, Life!Active, Life!Terminal

(* A step of the store is a step of the lives of the agents, or none.       *)
LEMMA StepLives ==
  ASSUME IInv, [Next]_vars
  PROVE  \A a \in Agent :
           \/ Life!Stays(a) \/ Life!Created(a) \/ Life!Started(a)
           \/ Life!Cancelled(a) \/ Life!Ended(a) \/ Life!Forgotten(a)
<1> SUFFICES ASSUME NEW a \in Agent
             PROVE  \/ Life!Stays(a) \/ Life!Created(a) \/ Life!Started(a)
                    \/ Life!Cancelled(a) \/ Life!Ended(a) \/ Life!Forgotten(a)
  OBVIOUS
<1>1. CASE agents'[a] = agents[a]
  BY <1>1 DEF Life!Stays
<1>2. CASE Advanced(a)
  BY <1>2, AdvancedLives
<1>3. CASE agents'[a] = NoAgent /\ agents[a] # NoAgent /\ agents[a].status \in Terminal
  BY <1>3 DEF Life!Forgotten, Life!Terminal, Terminal
<1>4. CASE a \notin Present(agents)
  <2>1. agents[a] = NoAgent /\ ~Advanced(a)
    BY <1>4 DEF Present, Advanced, WithStatus
  <2>2. ASSUME NEW b \in Agent, NEW c \in Conversation \cup {NoConversation},
               NEW now \in Stamps, Create(b, c, now)
        PROVE  agents'[a] = agents[a] \/ Life!Created(a)
    <3> DEFINE row == Queued(c, now)
    <3>1. /\ row \in Row /\ row.status = "queued" /\ ~row.cancel /\ row # NoAgent
      BY QueuedRow, AgentAssumption DEF IInv, TypeOK, Stamps
    <3>2. PICK kept : CreatedKeeping(b, row, kept)
      BY <2>2, CreateKeeps
    <3> HIDE DEF row
    <3>3. CASE a = b
      BY <2>1, <3>1, <3>2, <3>3 DEF CreatedKeeping, Life!Created
    <3>4. CASE a # b
      BY <1>4, <3>2, <3>4 DEF CreatedKeeping, WithStatus
    <3> QED BY <3>3, <3>4
  <2>3. agents'[a] = agents[a] \/ Life!Created(a)
    BY <2>1, <2>2, StepKinds DEF Writing
  <2> QED BY <1>1, <2>3
<1> QED BY <1>1, <1>2, <1>3, <1>4, RowMoves DEF Present

(* Whoever calls, and however late, the table lets no agent live otherwise  *)
(* than AgentLife says: nothing starts once it was cancelled, a cancelled   *)
(* agent never completes, and what has ended stays so until it is pruned.   *)
THEOREM AgentLifeImplemented == Spec => ImplementsAgentLife
<1>1. Init => Life!Init
  BY DEF Init, Life!Init
<1>2. IInv /\ [Next]_vars => Life!Next
  BY StepLives DEF Life!Next
<1> QED BY <1>1, <1>2, Invariance, PTL DEF Spec, ImplementsAgentLife, Life!Spec
==============================================================================
