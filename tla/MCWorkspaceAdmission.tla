------------------------ MODULE MCWorkspaceAdmission ------------------------
(***************************************************************************)
(* A small instance of WorkspaceAdmission for TLC.                         *)
(***************************************************************************)
EXTENDS WorkspaceAdmission, TLC

(* Requests are only compared for equality.                                 *)
Symmetry == Permutations(Request)
=============================================================================
