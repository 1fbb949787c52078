------------------------- MODULE ResultClassification -------------------------
(***************************************************************************)
(* What an ended CLI run is called: the classes of its diagnostics, which  *)
(* of them wins, the classes of missing content, and the end of            *)
(* execute_with_antigravity_cli, which makes an answer of a run; and       *)
(* whether the same run counts as failed for the review of its edits.      *)
(*                                                                         *)
(* A diagnostic text is the set of the classes of markers it holds; what   *)
(* the markers are spelled like is left out.  No variables.                *)
(***************************************************************************)
EXTENDS CliStream

RootCauses == {"profile_unreadable", "profile_not_writable", "network_denied", "policy_denied"}

Generic == {"cli_error", "no_content", "invalid_json", "invalid_payload", "invalid_response",
            "empty_model_response", "stream_closed_before_final", "content_parse_failed",
            "final_block_missing"}

(* What a run without an answer is not called after: its content decides.   *)
OfContent == (Generic \ {"cli_error"}) \cup {"content_filtered"}

-----------------------------------------------------------------------------
(* An operator whose name ends in Broken is a plausible bug in the one that *)
(* follows it; nothing uses it.                                             *)

(* The signs of each class.  Signs of authentication that follow from a     *)
(* denial are no class of their own once the CLI has been authenticated.    *)
Signs ==
  [policy_denied |-> {"policy"}, profile_not_writable |-> {"profile", "not_writable"},
   profile_unreadable |-> {"profile", "unreadable"}, network_denied |-> {"network"},
   permission_denied |-> {"permission"}, oauth_timeout |-> {"oauth"}, auth_missing |-> {"auth"}]

Shown(said) ==
  {class \in DOMAIN Signs :
     /\ Signs[class] \subseteq said
     /\ class \in {"oauth_timeout", "auth_missing"} => "auth_ok" \notin said}

(* A deliberate order: what is derived comes last.                          *)
Classes == <<"policy_denied", "profile_not_writable", "profile_unreadable", "network_denied",
             "permission_denied", "oauth_timeout", "auth_missing">>

Diagnosis(said) ==
  LET first == {i \in 1 .. Len(Classes) :
                  /\ Classes[i] \in Shown(said)
                  /\ \A j \in 1 .. i - 1 : Classes[j] \notin Shown(said)}
  IN IF first = {} THEN "none" ELSE Classes[CHOOSE i \in first : TRUE]

ClassBroken(stderr, result) ==   \* what the CLI calls itself always wins
  IF result # None /\ result.error # "none" THEN result.error
  ELSE Diagnosis(stderr \cup IF result = None THEN {} ELSE result.said)

(* _classify_cli_failure: what the CLI calls its failure, unless stderr     *)
(* shows a root cause, or the CLI says nothing of use and stderr does.      *)
Class(stderr, result) ==
  LET seen == Diagnosis(stderr)
  IN IF result = None THEN seen
     ELSE IF result.error = "none" THEN Diagnosis(stderr \cup result.said)
     ELSE IF seen \in RootCauses \/ (result.error \in Generic /\ seen # "none") THEN seen
     ELSE result.error

Or(class, default) == IF class = "none" THEN default ELSE class

Unless(class, classes) == IF class \in classes THEN "none" ELSE class

Retryable(error_type, mode) ==
  mode = "plan" /\ error_type \in {"workspace_lock_timeout", "stream_closed_before_final",
                                   "final_block_missing"}

(* classify_content_result, for a run with a result but no text.            *)
ContentClass(out) ==
  IF out.result.filter \/ out.result.error = "content_filtered" THEN "content_filtered"
  ELSE IF ~out.final
       THEN IF out.malformed THEN "content_parse_failed" ELSE "stream_closed_before_final"
  ELSE IF out.result.response = "absent" \/ out.result.tokens THEN "final_block_missing"
  ELSE "empty_model_response"

-----------------------------------------------------------------------------
(* Answers                                                                  *)

Error(error_type, retryable) ==
  [status |-> "ERROR", error |-> error_type, retryable |-> retryable, text |-> "none",
   conversation |-> None]

AnswerOf(result) ==
  [status |-> "SUCCESS", error |-> "none", retryable |-> FALSE, text |-> result.response,
   conversation |-> result.conversation]

(* The text is not blank and holds the marker, when one is expected.        *)
Delivers(result, expected) ==
  /\ result.status = "SUCCESS"
  /\ result.response \in IF expected THEN {"marked"} ELSE Written

(* An error that keeps the conversation of the run.                         *)
ErrorOf(result, error_type, retryable) ==
  [Error(error_type, retryable) EXCEPT !.conversation = result.conversation]

(* _success_result.                                                         *)
SuccessResult(out, mode, expected) ==
  LET result == out.result
      class == Unless(Class(out.stderr, result), OfContent)
      content == ContentClass(out)
  IN IF result.response \in {"null", "notstr"}
     THEN ErrorOf(result, "content_parse_failed", FALSE)
     ELSE IF result.response \notin Written
     THEN IF class # "none" THEN ErrorOf(result, class, FALSE)
          ELSE ErrorOf(result, content, Retryable(content, mode))
     ELSE IF ~Delivers(result, expected) THEN ErrorOf(result, "verification_failed", FALSE)
     ELSE AnswerOf(result)

(* What _run_cli returns, of one CLI: the code it ended with, whether the   *)
(* deadline came first, what was collected of its output.                   *)
CliRun(returncode, timed_out, stderr, collected) ==
  [returncode |-> returncode, timed_out |-> timed_out,
   too_long |-> FALSE, output_limit |-> collected.exceeded /\ ~timed_out,
   stderr |-> IF collected.exceeded THEN {} ELSE stderr,
   result |-> collected.result, final |-> collected.final, malformed |-> collected.malformed]

(* A reader failed, or the CLI did not start at all.                        *)
NoOutput(returncode, timed_out) ==
  [returncode |-> returncode, timed_out |-> timed_out, too_long |-> FALSE,
   output_limit |-> FALSE, stderr |-> {}, result |-> None, final |-> FALSE,
   malformed |-> FALSE]

(* The command line is too long for Windows.                                *)
CommandTooLong == [NoOutput("none", FALSE) EXCEPT !.too_long = TRUE]

(* The end of execute_with_antigravity_cli, in the order of its returns.    *)
Judge(out, mode, expected) ==
  LET class == Class(out.stderr, out.result)
  IN IF out.timed_out THEN Error(Or(Unless(class, OfContent), "timeout"), FALSE)
     ELSE IF out.returncode = "none"
     THEN Error(IF out.too_long THEN "command_line_too_long" ELSE "spawn_failed", FALSE)
     ELSE IF out.output_limit THEN Error("output_limit", FALSE)
     ELSE IF out.returncode # "zero" THEN Error(Or(class, "cli_error"), FALSE)
     ELSE IF out.result = None THEN Error(Or(class, "content_parse_failed"), FALSE)
     ELSE IF out.result.status # "SUCCESS"
     THEN Error(Or(class, "cli_error"), Retryable(Or(class, "cli_error"), mode))
     ELSE SuccessResult(out, mode, expected)

FailedForReviewBroken(out, expected) ==   \* any success will do
  \/ out.timed_out \/ out.returncode # "zero"
  \/ out.result = None \/ out.result.status # "SUCCESS"

(* _cli_result_failed_for_review, which looks at the same run before.       *)
FailedForReview(out, expected) ==
  \/ out.too_long \/ out.output_limit
  \/ out.timed_out \/ out.returncode # "zero"
  \/ out.result = None \/ ~Delivers(out.result, expected)

-----------------------------------------------------------------------------
(* The errors that the diagnostics of a run without an answer call for: a   *)
(* root cause, if stderr shows one; else the denied tool, unless the CLI    *)
(* names an error of its own or tells of a root cause.  Nothing is called   *)
(* for of a run whose output was dropped, or that had an answer.            *)
Unanswered(out) ==
  \/ out.timed_out \/ out.returncode # "zero" \/ out.result = None
  \/ out.result.status # "SUCCESS" \/ out.result.response \in {"absent", "blank"}

RootsShown(said) == Shown(said) \cap RootCauses

AllSaid(stderr, result) == stderr \cup IF result = None THEN {} ELSE result.said

CalledFor(out) ==
  LET named == out.result # None /\ out.result.error \notin Generic \cup {"none"}
      roots == RootsShown(AllSaid(out.stderr, out.result))
  IN IF ~Unanswered(out) \/ out.output_limit THEN {}
     ELSE IF RootsShown(out.stderr) # {} THEN roots
     ELSE IF "permission" \in out.stderr /\ ~named THEN {"permission_denied"} \cup roots
     ELSE {}
=============================================================================
