----------------------------- MODULE MCExecution -----------------------------
(***************************************************************************)
(* A small instance of Execution for TLC: what the CLI may write.          *)
(***************************************************************************)
EXTENDS Execution

CONSTANTS local, path, mine, other

CandidatePaths == <<local, path>>

Result(status, response) ==
  [Failure("none") EXCEPT !.status = status, !.response = response]

(* Against a bound of 4: content of one or two bytes more than the rest;    *)
(* and a result that just keeps to it.                                      *)
Success == {Result("SUCCESS", r) : r \in {"text", "marked", "absent", "null", "notstr"}}
           \cup {[Result("SUCCESS", "blank") EXCEPT !.content = "marked", !.bytes = 2,
                                                    !.copy = 1, !.conversation = mine],
                 [Result("SUCCESS", "absent") EXCEPT !.content = "text", !.bytes = 3,
                                                     !.copy = 2],
                 [Result("SUCCESS", "marked") EXCEPT !.bytes = MaxChars],
                 [Result("SUCCESS", "blank") EXCEPT !.tokens = TRUE],
                 [Result("SUCCESS", "absent") EXCEPT !.filter = TRUE]}

Failed == {[Failure("none") EXCEPT !.said = {"network"}], Failure("timeout"),
           Failure("cli_error"), Failure("content_filtered")}

Delta(text, chars, bytes) ==
  [kind |-> "delta", delta |-> text, chars |-> chars, bytes |-> bytes]

(* A delta of 5 is over the bound of 4, two of 2 keep to it, one of them    *)
(* takes more bytes.                                                        *)
Events ==
  {[kind |-> k] : k \in {"oversized", "malformed", "other"}}
  \cup {[kind |-> "init", conversation |-> c] : c \in {None, other}}
  \cup {Delta("text", n, n) : n \in {1, 2, 5}}
  \cup {Delta("text", 2, 4), Delta("marked", 1, 1), Delta("blank", 1, 1)}
  \cup {[kind |-> "result", result |-> r] : r \in Success \cup Failed \cup {None}}

(* Nothing; a tool denied; a network denied, and what follows from it; a    *)
(* profile that cannot be read, by a CLI that had been authenticated.       *)
Stderr == {{}, {"permission"}, {"network", "oauth", "auth"},
           {"auth_ok", "auth", "profile", "unreadable"}}

Trouble == {{}, {"boundary_unverified", "state_unavailable", "workspace_not_git"}}
=============================================================================
