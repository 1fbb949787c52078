---------------------------- MODULE ReadersWriter ----------------------------
(***************************************************************************)
(* What the serialisation of CLI runs promises: a run that may edit a      *)
(* workspace, or drive a browser, has the workspace to itself; runs that   *)
(* only plan may share it.                                                 *)
(***************************************************************************)
CONSTANTS Request, Workspace, Nobody

VARIABLE holds    \* holds[r]: the workspace run r is in and how, or Nobody

Access == {"shared", "exclusive"}

Init == holds = [r \in Request |-> Nobody]

Enter(r, w, a) ==
  /\ holds[r] = Nobody
  /\ \A s \in Request :
       holds[s] # Nobody /\ holds[s].workspace = w
         => a = "shared" /\ holds[s].access = "shared"
  /\ holds' = [holds EXCEPT ![r] = [workspace |-> w, access |-> a]]

Leave(r) ==
  /\ holds[r] # Nobody
  /\ holds' = [holds EXCEPT ![r] = Nobody]

Next ==
  \E r \in Request :
    \/ \E w \in Workspace, a \in Access : Enter(r, w, a)
    \/ Leave(r)

Spec == Init /\ [][Next]_holds
=============================================================================
