------------------------------ MODULE EditReview ------------------------------
(***************************************************************************)
(* Editing runs of one workspace (execute_with_antigravity_cli with mode   *)
(* accept-edits): the snapshots of git status before and after, the review *)
(* marker that closes the workspace to the next edit, the CLI process and  *)
(* the ways _run_cli stops it, cancellations at every await, crashes of    *)
(* the server.                                                             *)
(*                                                                         *)
(* The workspace lock is taken for granted here (AdmittedWorkspace): one   *)
(* run at a time is its holder.  A step is what a task does between two    *)
(* awaits.  Every run has a server process of its own.                     *)
(***************************************************************************)
EXTENDS Naturals, FiniteSets

CONSTANTS
  Run,           \* editing calls
  Jobs,          \* what _create_windows_job may answer: FALSE where there are no jobs
  MaxEdits,      \* bound: changes of the working tree
  Nobody         \* the workspace is free

ASSUME JobsAssumption == Jobs \subseteq BOOLEAN /\ Jobs # {}
ASSUME RunAssumption == IsFiniteSet(Run) /\ Nobody \notin Run
ASSUME EditsAssumption == MaxEdits \in Nat

Stopping == {"overrun", "killing"}

VARIABLES
  pc,            \* where a run awaits
  holder,        \* the run that has the workspace
  marker,        \* the .review file exists
  work,          \* the working tree as git status shows it: changes so far
  before,        \* the snapshot a run took before it started the CLI
  cli,           \* the CLI of a run: none, free, jailed (in a job) or dead
  killer,        \* a thread is to run _kill_process_tree for a run
  failed,        \* execution_failed
  unreviewed,    \* history: runs whose edits were neither reported as a success nor acknowledged
  escaped        \* history: runs that have gone and left their CLI alive

vars == <<pc, holder, marker, work, before, cli, killer, failed, unreviewed, escaped>>

TypeOK ==
  /\ pc \in [Run -> {"idle", "entered", "marked", "running", "postflight", "done"}
                      \cup Stopping]
  /\ holder \in Run \cup {Nobody}
  /\ marker \in BOOLEAN
  /\ work \in 0 .. MaxEdits
  /\ before \in [Run -> 0 .. MaxEdits]
  /\ cli \in [Run -> {"none", "free", "jailed", "dead"}]
  /\ killer \in [Run -> BOOLEAN]
  /\ failed \in [Run -> BOOLEAN]
  /\ unreviewed \subseteq Run
  /\ escaped \subseteq Run

Init ==
  /\ pc = [r \in Run |-> "idle"]
  /\ holder = Nobody
  /\ marker = FALSE
  /\ work = 0
  /\ before = [r \in Run |-> 0]
  /\ cli = [r \in Run |-> "none"]
  /\ killer = [r \in Run |-> FALSE]
  /\ failed = [r \in Run |-> TRUE]
  /\ unreviewed = {}
  /\ escaped = {}

Alive(r) == cli[r] \in {"free", "jailed"}

-----------------------------------------------------------------------------
(* An operator whose name ends in Broken is a plausible bug in the one that *)
(* follows it; no action uses it.                                           *)

Goto(r, place) == pc' = [pc EXCEPT ![r] = place]

LeaveBroken(r) == Goto(r, "cancelled") /\ holder' = Nobody   \* ends in a state of its own

(* The run ends and the workspace is free.                                  *)
Leave(r) == Goto(r, "done") /\ holder' = Nobody

(* admitted_workspace lets the run in.                                      *)
Enter(r) ==
  /\ pc[r] = "idle" /\ holder = Nobody
  /\ Goto(r, "entered")
  /\ holder' = r
  /\ UNCHANGED <<marker, work, before, cli, killer, failed, unreviewed, escaped>>

(* No edit is made: the deadline is past, git status fails, or there is a   *)
(* marker that the call does not acknowledge; or a cancellation.            *)
Refuse(r) ==
  /\ pc[r] = "entered"
  /\ Leave(r)
  /\ UNCHANGED <<marker, work, before, cli, killer, failed, unreviewed, escaped>>

(* An acknowledged marker is unlinked: a human has looked at all there is.  *)
Acknowledged == unreviewed' = IF marker THEN {} ELSE unreviewed

PrepareBroken(r) ==   \* the marker is not looked at
  /\ pc[r] = "entered"
  /\ marker' = TRUE
  /\ before' = [before EXCEPT ![r] = work]
  /\ Goto(r, "marked")
  /\ UNCHANGED <<holder, work, cli, killer, failed, unreviewed, escaped>>

(* The snapshot and a fresh marker, with no await between.                  *)
Prepare(r) ==
  /\ pc[r] = "entered"
  /\ \E acknowledge_review \in BOOLEAN :
       /\ marker => acknowledge_review
       /\ Acknowledged
  /\ marker' = TRUE
  /\ before' = [before EXCEPT ![r] = work]
  /\ Goto(r, "marked")
  /\ UNCHANGED <<holder, work, cli, killer, failed, escaped>>

(* The marker cannot be unlinked, or not be created or written again.       *)
PrepareFails(r) ==
  /\ pc[r] = "entered"
  /\ \/ UNCHANGED <<marker, unreviewed>>
     \/ marker' \in BOOLEAN /\ Acknowledged
  /\ Leave(r)
  /\ UNCHANGED <<work, before, cli, killer, failed, escaped>>

StartCli(r) ==
  /\ pc[r] = "marked"
  /\ \E job \in Jobs : cli' = [cli EXCEPT ![r] = IF job THEN "jailed" ELSE "free"]
  /\ Goto(r, "running")
  /\ UNCHANGED <<holder, marker, work, before, killer, failed, unreviewed, escaped>>

(* The deadline is past, a cancellation, or a process that cannot start.    *)
StartFails(r) ==
  /\ pc[r] = "marked"
  /\ Goto(r, "postflight")
  /\ UNCHANGED <<holder, marker, work, before, cli, killer, failed, unreviewed, escaped>>

(* The CLI changes the working tree, whoever waits for it.                  *)
Edit(r) ==
  /\ Alive(r) /\ work < MaxEdits
  /\ work' = work + 1
  /\ unreviewed' = unreviewed \cup {r}
  /\ UNCHANGED <<pc, holder, marker, before, cli, killer, failed, escaped>>

CliExits(r) ==
  /\ Alive(r)
  /\ cli' = [cli EXCEPT ![r] = "dead"]
  /\ UNCHANGED <<pc, holder, marker, work, before, killer, failed, unreviewed, escaped>>

(* The CLI has closed its pipes and ended: a success, or not.               *)
Collected(r) ==
  /\ pc[r] = "running" /\ cli[r] = "dead"
  /\ failed' \in {[failed EXCEPT ![r] = f] : f \in BOOLEAN}
  /\ Goto(r, "postflight")
  /\ UNCHANGED <<holder, marker, work, before, cli, killer, unreviewed, escaped>>

(* Closing the job kills what is in it; the tree is killed in a thread.     *)
Kill(r) ==
  /\ cli' = [cli EXCEPT ![r] = IF @ = "jailed" THEN "dead" ELSE @]
  /\ killer' = [killer EXCEPT ![r] = TRUE]

(* A pipe is over its bound.                                                *)
Overrun(r) ==
  /\ pc[r] = "running"
  /\ Kill(r) /\ Goto(r, "overrun")
  /\ UNCHANGED <<holder, marker, work, before, failed, unreviewed, escaped>>

(* The deadline, a cancellation, or a reader that fails; also a             *)
(* cancellation while an overrun is cleaned up, which the handler of        *)
(* CancelledError still catches: it kills once more.                        *)
Stop(r) ==
  /\ pc[r] \in {"running", "overrun"}
  /\ Kill(r) /\ Goto(r, "killing")
  /\ UNCHANGED <<holder, marker, work, before, failed, unreviewed, escaped>>

KillThread(r) ==
  /\ killer[r]
  /\ killer' = [killer EXCEPT ![r] = FALSE]
  /\ cli' = [cli EXCEPT ![r] = "dead"]
  /\ UNCHANGED <<pc, holder, marker, work, before, failed, unreviewed, escaped>>

ReapedBroken(r) ==   \* the kill is not awaited
  /\ pc[r] \in Stopping
  /\ Goto(r, "postflight")
  /\ UNCHANGED <<holder, marker, work, before, cli, killer, failed, unreviewed, escaped>>

(* The thread is done, and the process reaped.                              *)
Reaped(r) ==
  /\ pc[r] \in Stopping /\ ~killer[r]
  /\ Goto(r, "postflight")
  /\ UNCHANGED <<holder, marker, work, before, cli, killer, failed, unreviewed, escaped>>

(* A cancellation in a handler of _run_cli: nothing catches it any more.    *)
(* The thread goes on; one that still waits for a worker is dropped.        *)
KillAbandoned(r) ==
  /\ pc[r] = "killing"
  /\ killer' \in {killer, [killer EXCEPT ![r] = FALSE]}
  /\ escaped' = escaped \cup {s \in {r} : Alive(s)}
  /\ Goto(r, "postflight")
  /\ UNCHANGED <<holder, marker, work, before, cli, failed, unreviewed>>

(* requires_review of a complete postflight: a failed run changed the tree. *)
RequiresReview(r) == failed[r] /\ work # before[r]

PostflightBroken(r) ==   \* a git status that fails reads as no change
  /\ pc[r] = "postflight"
  /\ \/ RequiresReview(r) /\ UNCHANGED marker
     \/ marker' = FALSE
  /\ unreviewed' = IF failed[r] THEN unreviewed ELSE unreviewed \ {r}
  /\ Leave(r)
  /\ UNCHANGED <<work, before, cli, killer, failed, escaped>>

(* The second snapshot; the marker goes if the postflight is complete and   *)
(* asks for no review.  Git status or the unlinking may fail: the marker    *)
(* stays and the answer requires a review.                                  *)
Postflight(r) ==
  /\ pc[r] = "postflight"
  /\ \/ /\ ~RequiresReview(r)
        /\ marker' = FALSE
        /\ unreviewed' = IF failed[r] THEN unreviewed ELSE unreviewed \ {r}
     \/ UNCHANGED <<marker, unreviewed>>
  /\ Leave(r)
  /\ UNCHANGED <<work, before, cli, killer, failed, escaped>>

PostflightCancelledBroken(r) ==   \* the workspace is given back by the code after it
  /\ pc[r] = "postflight"
  /\ Goto(r, "done")
  /\ UNCHANGED <<holder, marker, work, before, cli, killer, failed, unreviewed, escaped>>

(* A cancellation at the await before the second snapshot.                  *)
PostflightCancelled(r) ==
  /\ pc[r] = "postflight"
  /\ Leave(r)
  /\ UNCHANGED <<marker, work, before, cli, killer, failed, unreviewed, escaped>>

(* The server dies, maybe between the two steps of the acknowledgement.     *)
(* Jobs are closed by the system, other children live on.                   *)
Crash(r) ==
  /\ pc[r] # "idle" /\ (pc[r] # "done" \/ killer[r])
  /\ \/ UNCHANGED <<marker, unreviewed>>
     \/ pc[r] = "entered" /\ marker /\ marker' = FALSE /\ Acknowledged
  /\ Goto(r, "done")
  /\ holder' = IF holder = r THEN Nobody ELSE holder
  /\ cli' = [cli EXCEPT ![r] = IF @ = "jailed" THEN "dead" ELSE @]
  /\ killer' = [killer EXCEPT ![r] = FALSE]
  /\ escaped' = escaped \cup {s \in {r} : cli[s] = "free"}
  /\ UNCHANGED <<work, before, failed>>

Proceed(r) ==
  \/ Refuse(r) \/ Prepare(r) \/ PrepareFails(r)
  \/ StartCli(r) \/ StartFails(r)
  \/ Collected(r) \/ Overrun(r) \/ Stop(r) \/ Reaped(r) \/ KillAbandoned(r)
  \/ Postflight(r) \/ PostflightCancelled(r)

Next ==
  \E r \in Run : \/ Enter(r) \/ Proceed(r) \/ KillThread(r)
                 \/ Edit(r) \/ CliExits(r) \/ Crash(r)

Spec == Init /\ [][Next]_vars

(* The event loop and its threads run, and the deadline comes.  Neither a   *)
(* call nor the end of a CLI is counted on.                                 *)
FairSpec == Spec /\ \A r \in Run : WF_vars(Proceed(r)) /\ WF_vars(KillThread(r))

-----------------------------------------------------------------------------
(* A partial or unknown edit leaves the marker, however the run ended:      *)
(* failure, time-out, cancellations, crash.  Excepted are CLIs that a run   *)
(* has left alive.                                                          *)
UnreviewedMarked == unreviewed \ escaped # {} => marker

(* No CLI starts to edit on top of edits that nobody has looked at.         *)
EditsGated ==
  [][\A r \in Run : cli[r] = "none" /\ cli'[r] \in {"free", "jailed"}
       => unreviewed \ escaped = {}]_vars

(* A CLI works only while its run has the workspace, unless its server died *)
(* or a kill was abandoned; so two CLIs do not meet in a workspace.         *)
CliHasWorkspace == \A r \in Run \ escaped : Alive(r) => holder = r

(* A run gives the workspace back, though its CLI may never end.            *)
WorkspaceGivenBack == \A r \in Run : holder = r ~> holder # r

(* As TEST_MATRIX.md 69 has it: after a time-out or a cancellation with     *)
(* changes, partial or unknown, a review is required.                       *)
UnreviewedAlwaysMarked == unreviewed # {} => marker
=============================================================================
