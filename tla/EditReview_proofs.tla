-------------------------- MODULE EditReview_proofs --------------------------
(***************************************************************************)
(* The theorems about the review of edits: for any number of editing runs, *)
(* with or without job objects, however often they are cancelled or crash. *)
(***************************************************************************)
EXTENDS EditReview, TLAPS

Inside(r) == pc[r] \notin {"idle", "done"}

(* The holder, and nobody else, is inside.                                  *)
HolderInside == \A r \in Run : Inside(r) <=> holder = r

(* A run that is not past StartCli has no CLI, a CLI that has not started   *)
(* has not edited, and a run that has stopped its CLI has none alive.       *)
CliFollowsRun ==
  \A r \in Run :
    /\ pc[r] \in {"idle", "entered", "marked"} => cli[r] = "none" /\ ~killer[r]
    /\ r \in unreviewed => cli[r] # "none"
    /\ pc[r] \in Stopping /\ ~killer[r] => ~Alive(r)
    /\ pc[r] = "postflight" /\ r \notin escaped => ~Alive(r)

(* From the fresh marker to the second snapshot: the marker is there, and   *)
(* whatever is unreviewed is the run's own and shows against its snapshot.  *)
HolderAccounts ==
  \A r \in Run : pc[r] \in {"marked", "running", "postflight"} \cup Stopping =>
    /\ marker
    /\ unreviewed \ escaped \subseteq {r}
    /\ before[r] <= work
    /\ r \in unreviewed => before[r] < work

IInv ==
  /\ TypeOK
  /\ HolderInside
  /\ CliFollowsRun
  /\ HolderAccounts
  /\ CliHasWorkspace
  /\ UnreviewedMarked

(* No run, no CLI, no edit: the invariant holds at the start.               *)
LEMMA InitIInv == Init => IInv
<1> SUFFICES ASSUME Init PROVE IInv
  OBVIOUS
<1>1. TypeOK
  <2>1. 0 \in 0 .. MaxEdits
    BY EditsAssumption
  <2> QED BY <2>1 DEF Init, TypeOK
<1>2. HolderInside /\ CliHasWorkspace /\ UnreviewedMarked
  BY RunAssumption DEF Init, HolderInside, Inside, CliHasWorkspace, UnreviewedMarked, Alive
<1>3. CliFollowsRun /\ HolderAccounts
  BY DEF Init, CliFollowsRun, HolderAccounts, Stopping, Alive
<1> QED BY <1>1, <1>2, <1>3 DEF IInv

(* A run that enters the free workspace.                                    *)
LEMMA EnterKeeps ==
  ASSUME IInv, NEW r \in Run, Enter(r)
  PROVE  IInv'
<1>1. /\ \A s \in Run : s # r => pc'[s] = pc[s] /\ ~Inside(s)
      /\ pc'[r] = "entered" /\ pc[r] = "idle"
  BY RunAssumption DEF IInv, TypeOK, HolderInside, Inside, Enter, Goto
<1>2. TypeOK'
  BY DEF IInv, TypeOK, Enter, Goto
<1>3. \A s \in Run \ escaped : ~Alive(s)
  BY RunAssumption DEF IInv, CliHasWorkspace, Enter
<1>4. HolderInside' /\ CliFollowsRun' /\ HolderAccounts' /\ CliHasWorkspace' /\ UnreviewedMarked'
  BY <1>1, <1>3 DEF IInv, HolderInside, Inside, CliFollowsRun, HolderAccounts,
                    CliHasWorkspace, UnreviewedMarked, Alive, Stopping, Enter
<1> QED BY <1>2, <1>4 DEF IInv

(* A run that gives the workspace back with its CLI dead, or escaped.       *)
LEMMA LeaveKeeps ==
  ASSUME IInv, NEW r \in Run, Inside(r), Leave(r), r \notin escaped => ~Alive(r),
         marker' \in BOOLEAN, unreviewed' \subseteq unreviewed,
         unreviewed' \ escaped # {} => marker',
         UNCHANGED <<work, before, cli, killer, failed, escaped>>
  PROVE  IInv'
<1>1. /\ \A s \in Run : s # r => pc'[s] = pc[s] /\ ~Inside(s)
      /\ pc'[r] = "done" /\ holder' = Nobody
  BY DEF IInv, TypeOK, HolderInside, Leave, Goto
<1>2. TypeOK'
  BY DEF IInv, TypeOK, Leave, Goto
<1>3. \A s \in Run \ escaped : ~Alive(s)
  BY DEF IInv, HolderInside, CliHasWorkspace
<1>4. HolderInside' /\ CliFollowsRun' /\ HolderAccounts' /\ CliHasWorkspace' /\ UnreviewedMarked'
  BY <1>1, <1>3, RunAssumption
     DEF IInv, HolderInside, Inside, CliFollowsRun, HolderAccounts, CliHasWorkspace,
         UnreviewedMarked, Alive, Stopping
<1> QED BY <1>2, <1>4 DEF IInv

(* A run that is in the workspace and has not yet edited has no CLI.        *)
LEMMA RefuseKeeps ==
  ASSUME IInv, NEW r \in Run, Refuse(r) \/ PrepareFails(r)
  PROVE  IInv'
<1>1. pc[r] = "entered" /\ Leave(r) /\ UNCHANGED <<work, before, cli, killer, failed, escaped>>
  BY DEF Refuse, PrepareFails
<1>2. Inside(r) /\ ~Alive(r)
  BY <1>1 DEF IInv, CliFollowsRun, Inside, Alive
<1>3. \/ UNCHANGED <<marker, unreviewed>>
      \/ marker' \in BOOLEAN /\ Acknowledged
  BY DEF Refuse, PrepareFails
<1>4. /\ marker' \in BOOLEAN /\ unreviewed' \subseteq unreviewed
      /\ unreviewed' \ escaped # {} => marker'
  BY <1>3 DEF Acknowledged, IInv, TypeOK, UnreviewedMarked
<1> QED BY <1>1, <1>2, <1>4, LeaveKeeps

(* The fresh marker: nothing is unreviewed but what escaped.                *)
LEMMA PrepareKeeps ==
  ASSUME IInv, NEW r \in Run, Prepare(r)
  PROVE  IInv'
<1>1. /\ \A s \in Run : s # r => pc'[s] = pc[s] /\ ~Inside(s)
      /\ pc[r] = "entered" /\ pc'[r] = "marked" /\ holder' = holder
  BY DEF IInv, TypeOK, HolderInside, Inside, Prepare, Goto
<1>2. unreviewed' \subseteq unreviewed /\ unreviewed' \ escaped = {}
  BY DEF IInv, UnreviewedMarked, Prepare, Acknowledged
<1>3. TypeOK'
  BY <1>2 DEF IInv, TypeOK, Prepare, Goto
<1>4. before'[r] = work /\ marker'
  BY DEF IInv, TypeOK, Prepare
<1>5. r \notin unreviewed'
  BY <1>1, <1>2 DEF IInv, CliFollowsRun
<1>6. HolderInside' /\ CliFollowsRun' /\ CliHasWorkspace' /\ UnreviewedMarked'
  BY <1>1, <1>2, <1>4 DEF IInv, HolderInside, Inside, CliFollowsRun, CliHasWorkspace,
                          UnreviewedMarked, Alive, Stopping, Prepare
<1>7. HolderAccounts'
  BY <1>1, <1>2, <1>4, <1>5, EditsAssumption
     DEF IInv, TypeOK, HolderAccounts, Inside, Stopping, Prepare
<1> QED BY <1>3, <1>6, <1>7 DEF IInv

(* The start of the CLI, or none.                                           *)
LEMMA StartKeeps ==
  ASSUME IInv, NEW r \in Run, StartCli(r) \/ StartFails(r)
  PROVE  IInv'
<1>1. /\ \A s \in Run : s # r => pc'[s] = pc[s] /\ cli'[s] = cli[s]
      /\ pc[r] = "marked" /\ cli[r] = "none"
      /\ \/ pc'[r] = "running" /\ cli'[r] \in {"free", "jailed"}
         \/ pc'[r] = "postflight" /\ cli'[r] = cli[r]
      /\ UNCHANGED <<holder, marker, work, before, killer, failed, unreviewed, escaped>>
  BY DEF IInv, TypeOK, CliFollowsRun, StartCli, StartFails, Goto
<1>2. TypeOK'
  BY JobsAssumption DEF IInv, TypeOK, StartCli, StartFails, Goto
<1>3. holder = r
  BY <1>1 DEF IInv, HolderInside, Inside
<1>4. HolderInside' /\ CliFollowsRun' /\ HolderAccounts' /\ CliHasWorkspace' /\ UnreviewedMarked'
  BY <1>1, <1>3 DEF IInv, HolderInside, Inside, CliFollowsRun, HolderAccounts,
                    CliHasWorkspace, UnreviewedMarked, Alive, Stopping
<1> QED BY <1>2, <1>4 DEF IInv

(* An edit: of the holder's CLI, which shows, or of one that escaped.       *)
LEMMA EditKeeps ==
  ASSUME IInv, NEW r \in Run, Edit(r)
  PROVE  IInv'
<1>1. /\ work' = work + 1 /\ work \in Nat /\ work < MaxEdits
      /\ unreviewed' = unreviewed \cup {r} /\ Alive(r)
      /\ \A s \in Run : before[s] \in Nat
      /\ UNCHANGED <<pc, holder, marker, before, cli, killer, failed, escaped>>
  BY EditsAssumption DEF IInv, TypeOK, Edit
<1>2. TypeOK'
  BY <1>1, EditsAssumption DEF IInv, TypeOK
<1>3. HolderInside' /\ CliHasWorkspace'
  BY <1>1 DEF IInv, HolderInside, Inside, CliHasWorkspace, Alive
<1>4. CliFollowsRun'
  BY <1>1 DEF IInv, CliFollowsRun, Alive
<1>5. r \notin escaped => holder = r /\ pc[r] \in {"running"} \cup Stopping
  <2> SUFFICES ASSUME r \notin escaped
               PROVE  holder = r /\ pc[r] \in {"running"} \cup Stopping
    OBVIOUS
  <2>1. holder = r
    BY <1>1 DEF IInv, CliHasWorkspace
  <2>2. pc[r] \notin {"idle", "entered", "marked", "postflight"}
    BY <1>1 DEF IInv, CliFollowsRun, Alive
  <2>3. pc[r] # "done"
    BY <2>1 DEF IInv, HolderInside, Inside
  <2> QED BY <2>1, <2>2, <2>3 DEF IInv, TypeOK, Stopping
<1>6. HolderAccounts'
  BY <1>1, <1>5 DEF IInv, HolderAccounts, HolderInside, Inside, Stopping
<1>7. UnreviewedMarked'
  BY <1>1, <1>5 DEF IInv, UnreviewedMarked, HolderAccounts
<1> QED BY <1>2, <1>3, <1>4, <1>6, <1>7 DEF IInv

(* A CLI that ends, by itself or by the thread that kills it.               *)
LEMMA EndKeeps ==
  ASSUME IInv, NEW r \in Run, CliExits(r) \/ KillThread(r)
  PROVE  IInv'
<1>1. /\ cli' = [cli EXCEPT ![r] = "dead"]
      /\ killer' = killer \/ killer' = [killer EXCEPT ![r] = FALSE]
      /\ UNCHANGED <<pc, holder, marker, work, before, failed, unreviewed, escaped>>
  BY DEF CliExits, KillThread
<1>2. /\ \A s \in Run : s # r => cli'[s] = cli[s] /\ killer'[s] = killer[s]
      /\ cli'[r] = "dead"
  BY <1>1 DEF IInv, TypeOK
<1>3. TypeOK'
  BY <1>1 DEF IInv, TypeOK
<1>4. pc[r] \notin {"idle", "entered", "marked"}
  <2>1. CASE CliExits(r)
    BY <2>1 DEF CliExits, IInv, CliFollowsRun, Alive
  <2>2. CASE KillThread(r)
    BY <2>2 DEF KillThread, IInv, CliFollowsRun
  <2> QED BY <2>1, <2>2
<1>5. HolderInside' /\ HolderAccounts' /\ CliHasWorkspace' /\ UnreviewedMarked'
  BY <1>1, <1>2 DEF IInv, HolderInside, Inside, HolderAccounts, CliHasWorkspace,
                    UnreviewedMarked, Alive
<1>6. CliFollowsRun'
  BY <1>1, <1>2, <1>4 DEF IInv, CliFollowsRun, Alive
<1> QED BY <1>3, <1>5, <1>6 DEF IInv

(* A run that goes on to its postflight, with its CLI dead or escaped.      *)
LEMMA ToPostflightKeeps ==
  ASSUME IInv, NEW r \in Run, pc[r] \in {"running"} \cup Stopping,
         Collected(r) \/ Reaped(r) \/ KillAbandoned(r)
  PROVE  IInv'
<1>1. /\ \A s \in Run : s # r => pc'[s] = pc[s] /\ killer'[s] = killer[s]
      /\ pc'[r] = "postflight"
      /\ UNCHANGED <<holder, marker, work, before, cli, unreviewed>>
  BY DEF IInv, TypeOK, Collected, Reaped, KillAbandoned, Goto
<1>2. /\ escaped \subseteq escaped' /\ escaped' \subseteq escaped \cup {r}
      /\ r \notin escaped' => ~Alive(r)
  <2>1. CASE Collected(r)
    BY <2>1 DEF Collected, Alive
  <2>2. CASE Reaped(r)
    BY <2>2 DEF Reaped, IInv, CliFollowsRun
  <2>3. CASE KillAbandoned(r)
    BY <2>3 DEF KillAbandoned
  <2> QED BY <2>1, <2>2, <2>3
<1>3. TypeOK'
  BY <1>2 DEF IInv, TypeOK, Collected, Reaped, KillAbandoned, Goto
<1>4. HolderInside' /\ CliHasWorkspace' /\ UnreviewedMarked'
  BY <1>1, <1>2 DEF IInv, HolderInside, Inside, CliHasWorkspace, UnreviewedMarked, Alive, Stopping
<1>5. CliFollowsRun' /\ HolderAccounts'
  BY <1>1, <1>2 DEF IInv, CliFollowsRun, HolderAccounts, Alive, Stopping
<1> QED BY <1>3, <1>4, <1>5 DEF IInv

(* A run that starts to stop its CLI.                                       *)
LEMMA StopKeeps ==
  ASSUME IInv, NEW r \in Run, Overrun(r) \/ Stop(r)
  PROVE  IInv'
<1>1. /\ \A s \in Run : s # r => /\ pc'[s] = pc[s] /\ killer'[s] = killer[s]
                                 /\ cli'[s] = cli[s]
      /\ pc[r] \in {"running"} \cup Stopping /\ pc'[r] \in Stopping /\ killer'[r]
      /\ Alive(r)' => Alive(r)
      /\ cli'[r] = "none" => cli[r] = "none"
      /\ UNCHANGED <<holder, marker, work, before, failed, unreviewed, escaped>>
  BY DEF IInv, TypeOK, Overrun, Stop, Kill, Goto, Stopping, Alive
<1>2. TypeOK'
  BY DEF IInv, TypeOK, Overrun, Stop, Kill, Goto, Stopping
<1>3. HolderInside' /\ CliHasWorkspace' /\ UnreviewedMarked'
  BY <1>1 DEF IInv, HolderInside, Inside, CliHasWorkspace, UnreviewedMarked, Alive, Stopping
<1>4. CliFollowsRun' /\ HolderAccounts'
  BY <1>1 DEF IInv, CliFollowsRun, HolderAccounts, Alive, Stopping
<1> QED BY <1>2, <1>3, <1>4 DEF IInv

(* The end of a run that has been past the start of its CLI: the marker     *)
(* goes only when nothing of it is left to review.                          *)
LEMMA PostflightKeeps ==
  ASSUME IInv, NEW r \in Run, Postflight(r) \/ PostflightCancelled(r)
  PROVE  IInv'
<1>1. /\ pc[r] = "postflight" /\ Leave(r)
      /\ UNCHANGED <<work, before, cli, killer, failed, escaped>>
  BY DEF Postflight, PostflightCancelled
<1>2. Inside(r) /\ (r \notin escaped => ~Alive(r))
  BY <1>1 DEF IInv, CliFollowsRun, Inside
<1>3. CASE UNCHANGED <<marker, unreviewed>>
  BY <1>1, <1>2, <1>3, LeaveKeeps DEF IInv, TypeOK, UnreviewedMarked
<1>4. CASE /\ ~RequiresReview(r)
           /\ marker' = FALSE
           /\ unreviewed' = IF failed[r] THEN unreviewed ELSE unreviewed \ {r}
  <2>1. /\ unreviewed \ escaped \subseteq {r}
        /\ before[r] <= work /\ (r \in unreviewed => before[r] < work)
        /\ before[r] \in Nat /\ work \in Nat
    BY <1>1, EditsAssumption DEF IInv, TypeOK, HolderAccounts
  <2>2. unreviewed' \ escaped = {}
    BY <1>4, <2>1 DEF RequiresReview
  <2> QED BY <1>1, <1>2, <1>4, <2>2, LeaveKeeps
<1> QED BY <1>3, <1>4 DEF Postflight, PostflightCancelled

(* The death of a server, in the middle of an acknowledgement too.          *)
LEMMA CrashKeeps ==
  ASSUME IInv, NEW r \in Run, Crash(r)
  PROVE  IInv'
<1>1. /\ \A s \in Run : s # r => /\ pc'[s] = pc[s] /\ killer'[s] = killer[s]
                                 /\ cli'[s] = cli[s]
      /\ pc'[r] = "done" /\ pc[r] # "idle"
      /\ Alive(r)' => r \in escaped'
      /\ cli'[r] = "none" => cli[r] = "none"
      /\ escaped \subseteq escaped' /\ escaped' \subseteq escaped \cup {r}
      /\ holder' = IF holder = r THEN Nobody ELSE holder
      /\ UNCHANGED <<work, before, failed>>
  BY DEF IInv, TypeOK, Crash, Goto, Alive
<1>2. /\ marker' \in BOOLEAN /\ unreviewed' \subseteq unreviewed
      /\ unreviewed' \ escaped' # {} => marker'
      /\ holder # r => UNCHANGED <<marker, unreviewed>>
  <2>1. CASE UNCHANGED <<marker, unreviewed>>
    BY <1>1, <2>1 DEF IInv, TypeOK, UnreviewedMarked
  <2>2. CASE pc[r] = "entered" /\ marker /\ marker' = FALSE /\ Acknowledged
    BY <2>2 DEF IInv, HolderInside, Inside, Acknowledged
  <2> QED BY <2>1, <2>2 DEF Crash
<1>3. TypeOK'
  BY <1>1, <1>2 DEF IInv, TypeOK, Crash, Goto
<1>4. HolderInside' /\ CliHasWorkspace'
  BY <1>1, RunAssumption DEF IInv, TypeOK, HolderInside, Inside, CliHasWorkspace, Alive
<1>5. CliFollowsRun'
  BY <1>1, <1>2 DEF IInv, CliFollowsRun, Alive, Stopping
<1>6. HolderAccounts'
  BY <1>1, <1>2 DEF IInv, HolderAccounts, HolderInside, Inside, Stopping
<1>7. UnreviewedMarked'
  BY <1>2 DEF UnreviewedMarked
<1> QED BY <1>3, <1>4, <1>5, <1>6, <1>7 DEF IInv

(* Every step keeps the invariant.                                          *)
LEMMA StepIInv == IInv /\ [Next]_vars => IInv'
<1> SUFFICES ASSUME IInv, [Next]_vars PROVE IInv'
  OBVIOUS
<1>1. ASSUME NEW r \in Run, Proceed(r) PROVE IInv'
  <2>1. CASE Refuse(r) \/ Prepare(r) \/ PrepareFails(r)
    BY <2>1, RefuseKeeps, PrepareKeeps
  <2>2. CASE StartCli(r) \/ StartFails(r)
    BY <2>2, StartKeeps
  <2>3. CASE Collected(r) \/ Reaped(r) \/ KillAbandoned(r)
    BY <2>3, ToPostflightKeeps DEF Collected, Reaped, KillAbandoned, Stopping
  <2>4. CASE Overrun(r) \/ Stop(r)
    BY <2>4, StopKeeps
  <2>5. CASE Postflight(r) \/ PostflightCancelled(r)
    BY <2>5, PostflightKeeps
  <2> QED BY <1>1, <2>1, <2>2, <2>3, <2>4, <2>5 DEF Proceed
<1>2. ASSUME NEW r \in Run, Enter(r) \/ Edit(r) PROVE IInv'
  BY <1>2, EnterKeeps, EditKeeps
<1>3. ASSUME NEW r \in Run, CliExits(r) \/ KillThread(r) PROVE IInv'
  BY <1>3, EndKeeps
<1>4. ASSUME NEW r \in Run, Crash(r) PROVE IInv'
  BY <1>4, CrashKeeps
<1>5. CASE UNCHANGED vars
  BY <1>5 DEF vars, IInv, TypeOK, HolderInside, Inside, CliFollowsRun, HolderAccounts,
              CliHasWorkspace, UnreviewedMarked, Alive
<1> QED BY <1>1, <1>2, <1>3, <1>4, <1>5 DEF Next

(* The invariant holds in every reachable state.                            *)
LEMMA Invariance == Spec => []IInv
BY InitIInv, StepIInv, PTL DEF Spec

-----------------------------------------------------------------------------
(* Runs, snapshots and CLIs are well formed.                                *)
THEOREM TypeCorrect == Spec => []TypeOK
BY Invariance, PTL DEF IInv

(* However an editing run of execute_with_antigravity_cli ends, edits that  *)
(* were neither reported as a success nor acknowledged leave the marker.    *)
THEOREM UnreviewedMarkedHolds == Spec => []UnreviewedMarked
BY Invariance, PTL DEF IInv

(* _run_cli lets the workspace go with its CLI dead, unless the server died *)
(* or a kill was abandoned.                                                 *)
THEOREM CliHasWorkspaceHolds == Spec => []CliHasWorkspace
BY Invariance, PTL DEF IInv

(* A CLI starts only when a marker that stood for unreviewed edits was      *)
(* acknowledged after the last of them.                                     *)
THEOREM EditsGatedHolds == Spec => EditsGated
<1>1. IInv /\ [Next]_vars =>
        [\A r \in Run : cli[r] = "none" /\ cli'[r] \in {"free", "jailed"}
           => unreviewed \ escaped = {}]_vars
  <2> SUFFICES ASSUME IInv, Next, NEW r \in Run, cli[r] = "none", cli'[r] \in {"free", "jailed"}
               PROVE  unreviewed \ escaped = {}
    BY DEF vars
  <2>1. StartCli(r)
    <3>1. PICK s \in Run : \/ Enter(s) \/ Proceed(s) \/ KillThread(s)
                           \/ Edit(s) \/ CliExits(s) \/ Crash(s)
      BY DEF Next
    <3>2. CASE cli' = [cli EXCEPT ![s] = "dead"] \/ UNCHANGED cli
               \/ cli' = [cli EXCEPT ![s] = IF @ = "jailed" THEN "dead" ELSE @]
      BY <3>2 DEF IInv, TypeOK
    <3>3. CASE StartCli(s)
      BY <3>3 DEF StartCli, IInv, TypeOK
    <3> QED BY <3>1, <3>2, <3>3
            DEF Enter, Proceed, KillThread, Edit, CliExits, Crash, Refuse, Prepare,
                PrepareFails, StartFails, Collected, Overrun, Stop, Kill, Reaped,
                KillAbandoned, Postflight, PostflightCancelled
  <2>2. unreviewed \ escaped \subseteq {r}
    BY <2>1 DEF StartCli, IInv, HolderAccounts
  <2>3. r \notin unreviewed
    BY DEF IInv, CliFollowsRun
  <2> QED BY <2>2, <2>3
<1> QED BY Invariance, <1>1, PTL DEF Spec, EditsGated
=============================================================================
