------------------------------ MODULE AgentLife ------------------------------
(***************************************************************************)
(* What the life of a managed agent promises to its client, whatever task, *)
(* tool or server writes its row.                                          *)
(***************************************************************************)
CONSTANT Agent

VARIABLES
  status,     \* absent, or the status of the agent's row
  cancel      \* a cancellation was requested

Active == {"queued", "running"}
Terminal == {"completed", "failed", "interrupted"}

Init ==
  /\ status = [a \in Agent |-> "absent"]
  /\ cancel = [a \in Agent |-> FALSE]

Created(a) ==
  status[a] = "absent" /\ status'[a] = "queued" /\ ~cancel'[a]

(* Nothing starts once it was cancelled.                                    *)
Started(a) ==
  /\ status[a] = "queued" /\ ~cancel[a]
  /\ status'[a] = "running" /\ ~cancel'[a]

Cancelled(a) ==
  /\ status[a] \in Active
  /\ status'[a] = status[a] /\ cancel'[a]

(* A cancelled agent never completes; it is interrupted, or it is lost.     *)
Ended(a) ==
  /\ status[a] \in Active /\ status'[a] \in Terminal
  /\ cancel'[a] = cancel[a]
  /\ cancel[a] => status'[a] # "completed"

(* What has ended stays as it is until it is forgotten.                     *)
Forgotten(a) ==
  status[a] \in Terminal /\ status'[a] = "absent" /\ ~cancel'[a]

Stays(a) == status'[a] = status[a] /\ cancel'[a] = cancel[a]

Next ==
  /\ DOMAIN status' = Agent /\ DOMAIN cancel' = Agent
  /\ \A a \in Agent : \/ Stays(a) \/ Created(a) \/ Started(a)
                      \/ Cancelled(a) \/ Ended(a) \/ Forgotten(a)

Spec == Init /\ [][Next]_<<status, cancel>>
=============================================================================
