---------------------------- MODULE MCAgentStore ----------------------------
(***************************************************************************)
(* Small instances of AgentStore for TLC: one agent with its progress, and *)
(* several agents that share the capacity and the history.                 *)
(***************************************************************************)
EXTENDS AgentStore, TLC

Update(phase, percent, code) == [phase |-> phase, percent |-> percent, code |-> code]

(* What a run reports, with the heartbeat of a phase it has left.           *)
RunUpdates ==
  {Update("waiting_for_workspace", 20, "waiting_for_workspace"),
   Update("executing", 50, "cli_step"),
   Update("executing", 50, "heartbeat"),
   Update("validating_result", 95, "heartbeat")}

NoUpdates == {}

Symmetry == Permutations(Agent)
=============================================================================
