------------------------------- MODULE MCParts -------------------------------
(* The parts beside the job system: two threads of the CPU image service, two  *)
(* attempts at an isolated run, the tasks of the page, the previews of models, *)
(* and deployments.  One of them moves in each behaviour.                      *)
EXTENDS CpuServer, IsolatedRun, WebTracker, PreviewExplorer, Deploy

CONSTANT Parts  \* of "cpu", "run", "tracker", "explorer" and "deploy"

VARIABLE part

-----------------------------------------------------------------------------
(* One part moves.                                                             *)

CpuIdle == remote = FALSE /\ CpuInit
RunIdle == kind = (CHOOSE k \in Kinds : TRUE) /\ left = [a \in Attempts |-> 0] /\ RunInit

Init ==
    /\ part \in Parts
    /\ IF part = "cpu" THEN CpuInit ELSE CpuIdle
    /\ IF part = "run" THEN RunInit ELSE RunIdle
    /\ TrackerInit /\ tool = (CHOOSE t \in Tools : TRUE)
    /\ ExplorerInit /\ DeployInit

serverVars == <<cpuVars, runVars, deployVars>>
pageVars == <<trackerVars, explorerVars>>

Next ==
    \/ part = "cpu" /\ CpuNext /\ UNCHANGED <<part, runVars, deployVars, pageVars>>
    \/ part = "run" /\ RunNext /\ UNCHANGED <<part, cpuVars, deployVars, pageVars>>
    \/ part = "deploy" /\ DeployNext /\ UNCHANGED <<part, cpuVars, runVars, pageVars>>
    \/ part = "tracker" /\ TrackerNext /\ UNCHANGED <<part, serverVars, explorerVars>>
    \/ part = "explorer" /\ ExplorerNext /\ UNCHANGED <<part, serverVars, trackerVars>>

vars == <<part, serverVars, pageVars>>

-----------------------------------------------------------------------------
(* Fairness: React renders, the interval goes off, requests are answered,      *)
(* tasks end.                                                                  *)

Tracks(A) == part = "tracker" /\ A /\ UNCHANGED <<part, serverVars, explorerVars>>

Spec ==
    /\ Init /\ [][Next]_vars
    /\ WF_vars(Tracks(Render)) /\ WF_vars(Tracks(Poll)) /\ WF_vars(Tracks(OldestGoesOn))
    /\ \A j \in Tasks : WF_vars(Tracks(TaskEnds(j)))
=============================================================================
