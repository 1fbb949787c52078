------------------------ MODULE MCAdmittedWorkspace ------------------------
(***************************************************************************)
(* Small instances of AdmittedWorkspace for TLC: one contended workspace.  *)
(***************************************************************************)
EXTENDS AdmittedWorkspace, TLC

CONSTANTS w1

Asking(mode, browser) == [workspace |-> w1, mode |-> mode, browser |-> browser]

(* A reader, an editor, and a reader that drives a browser.                 *)
ReaderEditorBrowser ==
  {Asking("plan", "disabled"), Asking("accept-edits", "disabled"),
   Asking("plan", "user_session")}

ReaderEditor == {Asking("plan", "disabled"), Asking("accept-edits", "disabled")}

Symmetry == Permutations(Request)
=============================================================================
