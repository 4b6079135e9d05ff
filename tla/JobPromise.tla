----------------------------- MODULE JobPromise -----------------------------
(* What gpthub-tools promises the holder of a job's token, whatever happens   *)
(* behind the API: the status GET /api/jobs/{id} answers moves forward only,  *)
(* a terminal status is final until the job is gone, a succeeded job has a    *)
(* result to download until somebody starts to remove it, unless two of its   *)
(* runs worked in one output/, and no more than MaxActive jobs of one address *)
(* are queued or running.                                                     *)
EXTENDS Naturals, FiniteSets

CONSTANTS Jobs, MaxActive

VARIABLES
    view,   \* what the client is shown
    ready,  \* the jobs whose result can be downloaded
    shared  \* the jobs whose result two runs have been writing

vars == <<view, ready, shared>>

Live == {"queued", "running"}
Views == Live \cup {"none", "succeeded", "failed", "cancelled", "gone"}

Active == {j \in Jobs : view[j] \in Live}

TypeOK == view \in [Jobs -> Views] /\ ready \subseteq Jobs /\ shared \subseteq Jobs

Init == view = [j \in Jobs |-> "none"] /\ ready = {} /\ shared = {}

Accept(j) ==
    /\ view[j] = "none"
    /\ Cardinality(Active) < MaxActive
    /\ view' = [view EXCEPT ![j] = "queued"]
    /\ UNCHANGED <<ready, shared>>

Refuse(j) ==
    /\ view[j] = "none"
    /\ view' = [view EXCEPT ![j] = "gone"]
    /\ UNCHANGED <<ready, shared>>

Start(j) ==
    /\ view[j] = "queued"
    /\ view' = [view EXCEPT ![j] = "running"]
    /\ UNCHANGED <<ready, shared>>

Succeed(j) ==
    /\ view[j] = "running"
    /\ view' = [view EXCEPT ![j] = "succeeded"]
    /\ ready' \in {ready \cup {j}} \cup (IF j \in shared THEN {ready} ELSE {})
    /\ UNCHANGED shared

Fail(j) ==
    /\ view[j] = "running"
    /\ view' = [view EXCEPT ![j] = "failed"]
    /\ UNCHANGED <<ready, shared>>

Cancel(j) ==
    /\ view[j] \in Live
    /\ view' = [view EXCEPT ![j] = "cancelled"]
    /\ UNCHANGED <<ready, shared>>

\* The result goes before the record does: a download then says it has expired.
Withdraw(j) ==
    /\ j \in ready
    /\ ready' = ready \ {j}
    /\ UNCHANGED <<view, shared>>

\* A job that waits for its first run, or is not there yet, shares nothing.
Share(j) ==
    /\ view[j] \notin {"none", "queued"}
    /\ shared' = shared \cup {j}
    /\ UNCHANGED <<view, ready>>

\* Where two runs write, the second may destroy a result and make it again.
Restore(j) ==
    /\ view[j] = "succeeded"
    /\ j \in shared
    /\ ready' = ready \cup {j}
    /\ UNCHANGED <<view, shared>>

Forget(j) ==
    /\ view[j] \notin {"none", "gone"}
    /\ view' = [view EXCEPT ![j] = "gone"]
    /\ ready' = ready \ {j}
    /\ UNCHANGED shared

Next ==
    \E j \in Jobs :
        \/ Accept(j) \/ Refuse(j) \/ Start(j) \/ Succeed(j) \/ Fail(j)
        \/ Cancel(j) \/ Withdraw(j) \/ Share(j) \/ Restore(j) \/ Forget(j)

\* A job does not stay queued or running for ever.
Fairness ==
    \A j \in Jobs : WF_vars(view[j] \in Live /\ (Start(j) \/ Succeed(j) \/ Fail(j) \/ Cancel(j) \/ Forget(j)))

Spec == Init /\ [][Next]_vars /\ Fairness
=============================================================================
