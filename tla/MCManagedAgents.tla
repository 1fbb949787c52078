--------------------------- MODULE MCManagedAgents ---------------------------
(***************************************************************************)
(* Small instances of ManagedAgents for TLC.                               *)
(***************************************************************************)
EXTENDS ManagedAgents

=============================================================================
