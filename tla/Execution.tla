------------------------------- MODULE Execution -------------------------------
(***************************************************************************)
(* Calls of one server process that observe the runtime: executions        *)
(* (execute_with_antigravity_cli, plan or accept-edits) and the doctor     *)
(* (antigravity_doctor).  An execution observes the CLI before its run and *)
(* after it; the guard pins the first observation of all.  Meanwhile       *)
(* somebody installs, replaces or removes the CLI or upgrades the package, *)
(* calls are cancelled, the server is restarted.                           *)
(*                                                                         *)
(* The workspace lock, the review marker and the end of the process are    *)
(* modelled in AdmittedWorkspace and EditReview: here an execution is      *)
(* admitted or refused, and its CLI comes to one of the ends in Ending.    *)
(* Which one, and what the call was asked for, its mode and the marker it  *)
(* expects, is left open until the call looks at it.  A step is what a     *)
(* call does between two awaits.                                           *)
(***************************************************************************)
EXTENDS ResultClassification, RuntimeIdentity, Integers, FiniteSets

CONSTANTS
  Run,           \* executions; one that has returned may be made again
  Doctor,        \* calls of the doctor, the same
  Package,       \* versions of the installed package
  Version,       \* versions of the CLI
  Event,         \* the lines that the CLI may write
  MaxEvents,     \* bound: lines of a stream
  Diagnostics,   \* what the CLI may write to stderr: sets of signs
  Troubles,      \* what else the doctor may meet
  MaxChanges     \* bound: changes of the world

ASSUME BoundsAssumption == MaxEvents \in Nat /\ MaxChanges \in Nat

ASSUME EventAssumption == Event \subseteq Line

ASSUME CallsAssumption == Run \cap Doctor = {}

Identities ==
  [state : {"ready", "missing", "unreadable"}, path : ToSet(Paths) \cup {NoFile},
   binary : Nat \cup {NoFile}, version : Version \cup {NoFile}, package : Package]

ASSUME IdentityAssumption == NoFile \notin Identities

Modes == {"plan", "accept-edits"}

Call == Run \cup Doctor

VARIABLES
  pc,            \* where a call awaits
  call,          \* what it knows, see Blank
  world,         \* the binaries and the package
  changes,       \* how often the world has changed
  baseline,      \* the identity that the guard has pinned
  pinned         \* history: since of the observation that was pinned

vars == <<pc, call, world, changes, baseline, pinned>>

-----------------------------------------------------------------------------
(* How a run may end, as its readers have it: what the tail of the          *)
(* execution will make of it, and what the review of its edits makes of it. *)
(* History: expected, that a marker was; meant, what the stream says when   *)
(* nothing but the stream decides; calls, what the diagnostics call for.    *)
Asked == Modes \X BOOLEAN

End(out, asked, meant) ==
  [verdict |-> Judge(out, asked[1], asked[2]), failed |-> FailedForReview(out, asked[2]),
   expected |-> asked[2], meant |-> meant, calls |-> CalledFor(out)]

Streams == UNION {[1 .. n -> Event] : n \in 0 .. MaxEvents}

Outputs == {[collected |-> Collected(s), meant |-> Meant(s)] : s \in Streams}

Unclear == [NoText("any") EXCEPT !.text = "unclear"]

MeantBy(code, late, stderr, o) ==
  IF code = "zero" /\ ~late /\ (stderr = {} \/ o.meant.text # "none") THEN o.meant
  ELSE Unclear

RunEnds ==
  {End(CliRun(code, late, stderr, o.collected), asked, MeantBy(code, late, stderr, o)) :
     code \in {"zero", "other"}, late \in BOOLEAN, stderr \in Diagnostics,
     o \in Outputs, asked \in Asked}

ReaderFails ==
  {End(NoOutput(code, late), asked, Unclear) :
     code \in {"none", "zero", "other"}, late \in BOOLEAN, asked \in Asked}

Ending == RunEnds \cup ReaderFails

(* The CLI could not be started.                                            *)
NotStarted == {NoOutput("none", FALSE), CommandTooLong}

NoStart == {End(out, asked, Unclear) : out \in NotStarted, asked \in Asked}

ASSUME EndAssumption == None \notin Ending \cup NoStart

Ends(c) == IF call[c].ran = NoFile THEN NoStart ELSE Ending

-----------------------------------------------------------------------------
(* History: since, how often the world had changed when the call began to   *)
(* observe, or Unsure if one of its probes has failed; ran, the file that   *)
(* was started.                                                             *)
Unsure == -1

Blank ==
  [cli |-> NoFile, version |-> NoFile, seen |-> NoFile,
   before |-> NoFile, ran |-> NoFile, end |-> None, answer |-> None, since |-> Unsure]

(* Before the first observation has passed the guard, and after.           *)
Before == {"probing", "capturing", "guarding"}

After == {"admission", "running", "ended", "reprobing", "recapturing", "reguarding"}

Awaiting == Before \cup After

Binaries == [file : 0 .. changes, version : Version]

TypeOK ==
  /\ pc \in [Call -> Awaiting \cup {"idle", "abandoned", "done"}]
  /\ DOMAIN call = Call
  /\ \A c \in Call :
       /\ DOMAIN call[c] = DOMAIN Blank
       /\ call[c].since \in Unsure .. changes
       /\ pc[c] \in Awaiting => call[c].cli \in ToSet(Paths)
       /\ pc[c] \in {"guarding", "reguarding", "abandoned"} => call[c].seen \in Identities
       /\ pc[c] \in After => call[c].before \in Identities
       /\ pc[c] = "done" => call[c].answer.status \in {"SUCCESS", "ERROR", "CHECKED"}
  /\ world \in [at : [ToSet(Paths) -> Binaries \cup {NoFile}], package : Package]
  /\ changes \in 0 .. MaxChanges
  /\ baseline \in Identities \cup {NoFile}
  /\ pinned \in Unsure .. changes

Init ==
  /\ pc = [c \in Call |-> "idle"]
  /\ call = [c \in Call |-> Blank]
  /\ \E p \in ToSet(Paths), v \in Version, k \in Package :
       world = [at |-> [q \in ToSet(Paths) |-> IF q = p THEN [file |-> 0, version |-> v]
                                               ELSE NoFile],
                package |-> k]
  /\ changes = 0
  /\ baseline = NoFile
  /\ pinned = Unsure

-----------------------------------------------------------------------------
(* Steps of a call.  An operator whose name ends in Broken is a plausible   *)
(* bug in the one that follows it; no action uses it.                       *)

Goto(c, place, known) ==
  pc' = [pc EXCEPT ![c] = place] /\ call' = [call EXCEPT ![c] = known]

(* Of an answered call, what the properties are about is kept.              *)
Answer(c, answer) == Goto(c, "done", [Blank EXCEPT !.answer = answer])

AnswerRun(c, end) ==
  Goto(c, "done", [Blank EXCEPT !.answer = end.verdict, !.end = end, !.ran = call[c].ran])

AnswerStale(c) ==
  Goto(c, "done", [Blank EXCEPT !.answer = Error("stale_runtime_snapshot", FALSE),
                                !.since = call[c].since])

Checked(error_type) == [Error(error_type, FALSE) EXCEPT !.status = "CHECKED"]

(* What the doctor says of a runtime that is not stale: the first trouble.  *)
DoctorVerdict(available, troubles) ==
  IF "boundary_unverified" \in troubles THEN Checked("boundary_unverified")
  ELSE IF ~available THEN Checked("cli_unavailable")
  ELSE IF "state_unavailable" \in troubles THEN Checked("state_unavailable")
  ELSE IF "workspace_not_git" \in troubles THEN Checked("workspace_not_git")
  ELSE Checked("none")

Begin(c) ==
  /\ pc[c] = "idle"
  /\ LET cli == Resolve(world)
     IN \/ cli # NoFile /\ Goto(c, "probing", [Blank EXCEPT !.cli = cli, !.since = changes])
        \/ cli = NoFile /\ c \in Run /\ Answer(c, Error("cli_unavailable", FALSE))
        \/ cli = NoFile /\ c \in Doctor
           /\ \E troubles \in Troubles : Answer(c, DoctorVerdict(FALSE, troubles))
  /\ UNCHANGED <<world, changes, baseline, pinned>>

ProbeBroken(c) ==   \* the second observation goes without a version
  /\ pc[c] \in {"probing", "reprobing"}
  /\ LET there == world.at[call[c].cli]
     IN \/ /\ pc[c] = "probing" /\ there # NoFile
           /\ Goto(c, "capturing", [call[c] EXCEPT !.version = there.version])
        \/ pc[c] = "reprobing" /\ Goto(c, "recapturing", call[c])
  /\ UNCHANGED <<world, changes, baseline, pinned>>

(* The version, or none: the CLI is gone, or does not answer in time.       *)
Probe(c) ==
  /\ pc[c] \in {"probing", "reprobing"}
  /\ LET next == IF pc[c] = "probing" THEN "capturing" ELSE "recapturing"
         there == world.at[call[c].cli]
     IN \/ there # NoFile /\ Goto(c, next, [call[c] EXCEPT !.version = there.version])
        \/ Goto(c, next, [call[c] EXCEPT !.version = NoFile,
                                         !.since = IF there = NoFile THEN @ ELSE Unsure])
  /\ UNCHANGED <<world, changes, baseline, pinned>>

Observe(c) ==
  /\ pc[c] \in {"capturing", "recapturing"}
  /\ LET next == IF pc[c] = "capturing" THEN "guarding" ELSE "reguarding"
     IN \E readable \in BOOLEAN :
          Goto(c, next, [call[c] EXCEPT
                           !.seen = Capture(world, call[c].cli, call[c].version, readable),
                           !.since = IF readable THEN @ ELSE Unsure])
  /\ UNCHANGED <<world, changes, baseline, pinned>>

(* The guard pins what it is shown first.                                   *)
Pin(c) ==
  /\ baseline' = Pinned(baseline, call[c].seen)
  /\ pinned' = IF baseline = NoFile THEN call[c].since ELSE pinned

Guard(c) ==
  /\ pc[c] = "guarding"
  /\ Pin(c)
  /\ LET stale == Drift(baseline', call[c].seen) # {}
         known == [call[c] EXCEPT !.before = call[c].seen, !.seen = NoFile,
                                  !.version = NoFile]
     IN \/ stale /\ AnswerStale(c)
        \/ ~stale /\ c \in Run /\ Goto(c, "admission", known)
        \/ ~stale /\ c \in Doctor
           /\ \E troubles \in Troubles :
                Answer(c, DoctorVerdict(call[c].version # NoFile, troubles))
  /\ UNCHANGED <<world, changes>>

(* The workspace, its lock or its review marker refuse the run.             *)
Refuse(c) ==
  /\ pc[c] = "admission"
  /\ \/ \E mode \in Modes, e \in {"workspace_lock_timeout", "workspace_lock_unavailable"} :
            Answer(c, Error(e, Retryable(e, mode)))
     \/ \E e \in {"review_required", "review_state_unavailable"} :   \* an editing run
            Answer(c, Error(e, FALSE))
  /\ UNCHANGED <<world, changes, baseline, pinned>>

Start(c) ==
  /\ pc[c] = "admission"
  /\ LET there == world.at[call[c].cli]
     IN \/ there # NoFile /\ Goto(c, "running", [call[c] EXCEPT !.ran = there.file])
        \/ Goto(c, "ended", call[c])
  /\ UNCHANGED <<world, changes, baseline, pinned>>

(* The run ends, its edits are reviewed, the workspace is given back.       *)
CliEnds(c) ==
  /\ pc[c] = "running"
  /\ Goto(c, "ended", call[c])
  /\ UNCHANGED <<world, changes, baseline, pinned>>

ResolveAgainBroken(c) ==   \* nothing stands for a CLI that is gone
  /\ pc[c] = "ended"
  /\ LET found == Resolve(world)
     IN Goto(c, IF found # NoFile THEN "reprobing" ELSE "recapturing",
             [call[c] EXCEPT !.cli = found])
  /\ UNCHANGED <<world, changes, baseline, pinned>>

(* The CLI is resolved again; the one that ran stands for one that is gone. *)
ResolveAgain(c) ==
  /\ pc[c] = "ended"
  /\ LET found == Resolve(world)
     IN IF found # NoFile
          THEN Goto(c, "reprobing", [call[c] EXCEPT !.cli = found])
          ELSE Goto(c, "recapturing", [call[c] EXCEPT !.version = NoFile])
  /\ UNCHANGED <<world, changes, baseline, pinned>>

(* Any drift makes an error of whatever the run has brought.                *)
JudgeRun(c) ==
  /\ pc[c] = "reguarding"
  /\ Pin(c)
  /\ LET drift == Drift(call[c].before, call[c].seen) \cup Drift(baseline', call[c].seen)
     IN \/ drift # {} /\ AnswerStale(c)
        \/ drift = {} /\ \E end \in Ends(c) : AnswerRun(c, end)
  /\ UNCHANGED <<world, changes>>

Return(c) ==
  /\ pc[c] = "done"
  /\ Goto(c, "idle", Blank)
  /\ UNCHANGED <<world, changes, baseline, pinned>>

(* A cancellation at any await.  What the guard does in a thread goes on.   *)
Cancel(c) ==
  /\ pc[c] \in Awaiting
  /\ \/ Goto(c, "idle", Blank)
     \/ pc[c] = "guarding" /\ Goto(c, "abandoned", call[c])
  /\ UNCHANGED <<world, changes, baseline, pinned>>

AbandonedGuard(c) ==
  /\ pc[c] = "abandoned"
  /\ Pin(c)
  /\ Goto(c, "idle", Blank)
  /\ UNCHANGED <<world, changes>>

-----------------------------------------------------------------------------
(* Steps of others                                                          *)

Change(new) ==
  /\ changes < MaxChanges /\ new # world
  /\ world' = new
  /\ changes' = changes + 1
  /\ UNCHANGED <<pc, call, baseline, pinned>>

(* A file that is installed is a new one, whatever its version.             *)
Install == \E p \in ToSet(Paths), v \in Version :
  Change([world EXCEPT !.at[p] = [file |-> changes + 1, version |-> v]])

Uninstall == \E p \in ToSet(Paths) : Change([world EXCEPT !.at[p] = NoFile])

Upgrade == \E k \in Package : Change([world EXCEPT !.package = k])

Restart ==
  /\ baseline # NoFile             \* before that, it only cancels calls
  /\ pc' = [c \in Call |-> "idle"]
  /\ call' = [c \in Call |-> Blank]
  /\ baseline' = NoFile
  /\ pinned' = Unsure
  /\ UNCHANGED <<world, changes>>

Next ==
  \/ \E c \in Call :
       \/ Begin(c) \/ Probe(c) \/ Observe(c) \/ Guard(c)
       \/ Refuse(c) \/ Start(c) \/ CliEnds(c) \/ ResolveAgain(c) \/ JudgeRun(c)
       \/ Return(c) \/ Cancel(c) \/ AbandonedGuard(c)
  \/ Install \/ Uninstall \/ Upgrade \/ Restart

Spec == Init /\ [][Next]_vars

-----------------------------------------------------------------------------
Answered(c) == pc[c] = "done"

(* By what the run came to, not set aside as stale.                         *)
Judged(c) == Answered(c) /\ call[c].end # None

(* A success was given by the binary that the guard has pinned, however the *)
(* CLI was replaced before, during or after the run (if the guard could see *)
(* one when it pinned).                                                     *)
SuccessOnPinnedRuntime ==
  \A c \in Call :
    Answered(c) /\ call[c].answer.status = "SUCCESS" /\ baseline.state = "ready"
      => call[c].ran = baseline.binary

(* The guard tells nobody of a stale runtime when nothing has changed since *)
(* the pinned observation and the call's own began, unless a probe failed.  *)
StaleExplained ==
  \A c \in Call :
    Answered(c) /\ ~Judged(c) /\ call[c].answer.error = "stale_runtime_snapshot"
      => changes > call[c].since \/ changes > pinned

(* The marker of an editing run is cleared, or kept, by one judgement and   *)
(* the client is answered by another one: they agree.                       *)
ReviewAgrees ==
  \A c \in Call : Judged(c) => (call[c].answer.status = "SUCCESS" <=> ~call[c].end.failed)

(* The client gets what the whole stream says, read line by line or not.    *)
AnswerIsReference ==
  \A c \in Call : Judged(c) =>
    LET meant == call[c].end.meant
        answer == call[c].answer
        delivered == meant.text \in IF call[c].end.expected THEN {"marked"} ELSE Written
    IN /\ delivered => /\ answer.status = "SUCCESS"
                       /\ answer.text = meant.text
                       /\ answer.conversation = meant.conversation
       /\ meant # Unclear /\ ~delivered => answer.status = "ERROR"
       /\ ~delivered /\ meant.text = "none" /\ meant.error # "any" => answer.error = meant.error

(* A root cause that stderr shows is not hidden by what follows from it, nor*)
(* a denied tool by a failure that says nothing.                            *)
RootCauseKept ==
  \A c \in Call : Judged(c) /\ call[c].end.calls # {}
                    => call[c].answer.error \in call[c].end.calls
=============================================================================
