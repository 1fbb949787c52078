------------------------------ MODULE CliStream ------------------------------
(***************************************************************************)
(* What the reader of the CLI's standard output makes of its stream of     *)
(* events (_collect_stream_output), one line after the other, and what it  *)
(* hands on when the stream ends.                                          *)
(*                                                                         *)
(* A line is the unit: how lines are cut into chunks is left out.  A text  *)
(* is known by whether it is blank and whether it holds the marker that    *)
(* the caller expects; a string that is absent, null or not a string has   *)
(* values of its own.  What is bounded has a size: the deltas' text in     *)
(* characters, what is handed on in bytes of UTF-8.  No variables.         *)
(***************************************************************************)
EXTENDS Naturals, Sequences, SequencesExt

CONSTANTS
  MaxChars,      \* MAX_STDOUT_CHARS, a bound of characters and of bytes
  FailureBytes,  \* what a failure that the wrapper writes takes, encoded
  IdBytes,       \* what a conversation id takes beside it
  Conversation,  \* ids of Antigravity conversations
  None           \* Python's None

ASSUME MaxCharsAssumption == MaxChars \in Nat \ {0}

(* An id has at most 128 characters, the bound is a million.                *)
ASSUME BytesAssumption ==
  FailureBytes \in Nat /\ IdBytes \in Nat /\ FailureBytes + IdBytes <= MaxChars

Text == {"blank", "text", "marked"}
Written == {"text", "marked"}            \* not blank
Response == Text \cup {"absent", "null", "notstr"}

(* Pieces of text, joined.                                                  *)
Joined(texts) ==
  IF "marked" \in texts THEN "marked" ELSE IF "text" \in texts THEN "text" ELSE "blank"

(* What the wrapper writes for a CLI that gave no result.  The other fields *)
(* of a result: content, the text blocks of its content, joined; tokens,    *)
(* that it counts output tokens; filter, that it names a content filter;    *)
(* said, the diagnostic texts of its error, message and final_status.  Its  *)
(* sizes: bytes, of all of it but a blank response; copy, of its content's  *)
(* text once more; usage, of its usage.                                     *)
Failure(error_type) ==
  [status |-> "ERROR", error |-> error_type, response |-> "absent", content |-> "absent",
   conversation |-> None, tokens |-> FALSE, filter |-> FALSE, said |-> {},
   bytes |-> FailureBytes, copy |-> 0, usage |-> 0]

(* What the wrapper itself calls a failure of the stream.                   *)
OwnErrors == {"content_parse_failed", "stream_closed_before_final", "output_limit"}

(* A result, the CLI's or the wrapper's.  A status is a success or not.     *)
Payload ==
  [status : {"SUCCESS", "ERROR"}, error : STRING \cup OwnErrors, response : Response,
   content : Text \cup {"absent"}, conversation : Conversation \cup {None},
   tokens : BOOLEAN, filter : BOOLEAN, said : SUBSET STRING,
   bytes : Nat, copy : Nat, usage : Nat]

ASSUME NoneAssumption == None \notin Payload

(* A line, or the event in it.  A result that is no object is None.         *)
Line ==
  [kind : {"oversized", "malformed", "other"}]
  \cup [kind : {"init"}, conversation : Conversation \cup {None}]
  \cup [kind : {"delta"}, delta : Text, chars : Nat \ {0}, bytes : Nat \ {0}]
  \cup [kind : {"result"}, result : Payload \cup {None}]

-----------------------------------------------------------------------------
(* An operator whose name ends in Broken is a plausible bug in the one that *)
(* follows it; nothing uses it.                                             *)

Nothing ==
  [result |-> None, conversation |-> None, valid |-> FALSE, malformed |-> FALSE,
   final |-> FALSE, texts |-> {}, chars |-> 0, bytes |-> 0, overflow |-> FALSE,
   oversized |-> FALSE]

(* A delta of the answer's text.  Past the bound of characters all of them  *)
(* are dropped.                                                             *)
Heard(c, event) ==
  IF c.overflow THEN c
  ELSE IF c.chars + event.chars <= MaxChars
       THEN [c EXCEPT !.chars = @ + event.chars, !.bytes = @ + event.bytes,
                      !.texts = @ \cup {event.delta}]
       ELSE [c EXCEPT !.overflow = TRUE, !.texts = {}]

Consume(c, event) ==
  LET v == [c EXCEPT !.valid = TRUE]
  IN CASE c.oversized -> c                          \* the reader has given up
       [] ~c.oversized /\ event.kind = "oversized" -> [c EXCEPT !.oversized = TRUE]
       [] ~c.oversized /\ event.kind = "malformed" -> [c EXCEPT !.malformed = TRUE]
       [] ~c.oversized /\ event.kind = "init" -> [v EXCEPT !.conversation = event.conversation]
       [] ~c.oversized /\ event.kind = "delta" -> Heard(v, event)
       [] ~c.oversized /\ event.kind = "result" ->
            [v EXCEPT !.final = TRUE, !.result = event.result]
       [] OTHER -> v                                \* other steps, other events

ConsumedBroken(events) ==   \* the first result is kept
  FoldLeft(LAMBDA c, e : IF c.final /\ e.kind = "result" THEN c ELSE Consume(c, e),
           Nothing, events)

Consumed(events) == FoldLeft(Consume, Nothing, events)

(* What stands for the result when the stream brought none.                 *)
ResultOf(c) ==
  LET missing == IF c.final \/ (c.malformed /\ ~c.valid)
                   THEN "content_parse_failed" ELSE "stream_closed_before_final"
      result == IF c.result = None THEN Failure(missing) ELSE c.result
  IN IF result.conversation = None /\ c.conversation # None
       THEN [result EXCEPT !.conversation = c.conversation, !.bytes = @ + IdBytes]
       ELSE result

(* A success without text takes its text from elsewhere.                    *)
Textless(result) ==
  result.status = "SUCCESS" /\ result.response \in {"absent", "null", "blank"}

FromDeltas(c, result) ==
  /\ Textless(result) /\ result.content \notin Written
  /\ ~c.overflow /\ Joined(c.texts) \in Written

Recovered(result, text, bytes) ==
  [result EXCEPT !.response = text, !.bytes = @ + bytes]

(* The usage and the conversation are all that stays of a result whose text *)
(* was in deltas past the bound.                                            *)
PastTheBound(result) ==
  [Failure("output_limit") EXCEPT
     !.conversation = result.conversation, !.tokens = result.tokens, !.usage = result.usage,
     !.bytes = @ + result.usage + IF result.conversation = None THEN 0 ELSE IdBytes]

Recover(c, result) ==
  CASE Textless(result) /\ result.content \in Written ->
         Recovered(result, result.content, result.copy)
    [] FromDeltas(c, result) -> Recovered(result, Joined(c.texts), c.bytes)
    [] Textless(result) /\ result.content \notin Written /\ c.overflow -> PastTheBound(result)
    [] OTHER -> result

(* Whatever is handed on is encoded once more, and bounded in bytes: text   *)
(* from the content is then there twice.                                    *)
TooLong(result) == result.bytes > MaxChars

(* What the reader hands on: the final result, unless it had to give up.    *)
Collected(events) ==
  LET c == Consumed(events)
      result == Recover(c, ResultOf(c))
      exceeded == c.oversized \/ TooLong(result)
  IN [exceeded |-> exceeded,
      result |-> IF exceeded THEN None ELSE result,
      final |-> c.final, malformed |-> c.malformed]

-----------------------------------------------------------------------------
(* The same, said of the whole stream: the last result decides.  Its text   *)
(* is its response, else its content, else the deltas, wherever they came;  *)
(* its conversation is its own, else the last one announced; malformed and  *)
(* unknown events do not matter beside valid ones.  It is lost if with what *)
(* it borrows, the id and the text, it takes more bytes than the bound, or  *)
(* if it needs the deltas and they have more characters.  An error "any" is *)
(* one that the stream alone does not decide.                               *)
At(events, kind) == {i \in DOMAIN events : events[i].kind = kind}

Latest(events, kind) == events[Max(At(events, kind))]

(* The deltas' text, in chars or bytes.                                     *)
Length(events, unit) ==
  FoldLeft(LAMBDA n, e : IF e.kind = "delta" THEN n + e[unit] ELSE n, 0, events)

NoText(error_type) == [text |-> "none", conversation |-> None, error |-> error_type]

Meant(events) ==
  LET last == IF At(events, "result") = {} THEN None ELSE Latest(events, "result").result
      announced ==
        IF At(events, "init") = {} THEN None ELSE Latest(events, "init").conversation
      spoken == Joined({events[i].delta : i \in At(events, "delta")})
      complete == last.status # "SUCCESS" \/ last.response \in Written \cup {"notstr"}
      named == last.conversation # None \/ announced = None
      text == IF last.response \in Written THEN last.response
              ELSE IF last.content \in Written THEN last.content ELSE spoken
      borrowed == CASE complete -> 0
                    [] ~complete /\ last.content \in Written -> last.copy
                    [] ~complete /\ last.content \notin Written /\ spoken \in Written ->
                         Length(events, "bytes")
                    [] OTHER -> 0
      lost == \/ last.bytes + (IF named THEN 0 ELSE IdBytes) + borrowed > MaxChars
              \/ /\ ~complete /\ last.content \notin Written
                 /\ Length(events, "chars") > MaxChars
  IN IF At(events, "oversized") # {} THEN NoText("output_limit")
     ELSE IF last = None
     THEN NoText(IF \/ At(events, "result") # {}
                    \/ events # <<>> /\ At(events, "malformed") = DOMAIN events
                   THEN "content_parse_failed" ELSE "stream_closed_before_final")
     ELSE IF lost THEN NoText("output_limit")
     ELSE IF last.status # "SUCCESS"
     THEN NoText(IF last.error = "none" THEN "any" ELSE last.error)
     ELSE IF last.response = "notstr" THEN NoText("content_parse_failed")
     ELSE IF text \notin Written THEN NoText("any")
     ELSE [text |-> text, error |-> "none",
           conversation |-> IF last.conversation = None THEN announced ELSE last.conversation]
=============================================================================
