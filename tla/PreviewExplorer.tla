---------------------------- MODULE PreviewExplorer ----------------------------
(* ModelExplorer in frontend/src/ImageLab.tsx: previews of one crop with       *)
(* several models.  preview() is asynchronous; a new file or crop raises        *)
(* `generation' under the previews that are on their way.                       *)
EXTENDS Naturals, FiniteSets

CONSTANTS
    Models,       \* the keys of the cache: model, scale, strength, face
    Previews,     \* calls of preview(), each with a job of its own
    NoPreview,
    MaxGeneration \* bound: files and crops

ASSUME ExplorerAssumption == MaxGeneration \in Nat /\ NoPreview \notin Previews

VARIABLES
    generation,
    mounted,
    previews,    \* of each call: [at, model, of], `of' is its generation
    active,      \* active.current
    runningRef,
    cache,       \* [model, of] of each result that is kept
    running,     \* the preview jobs on the server
    deleteSent   \* those a DELETE was sent for

explorerVars ==
    <<generation, mounted, previews, active, runningRef, cache, running, deleteSent>>

ExplorerInit ==
    /\ generation = 1 /\ mounted = TRUE
    /\ previews = [p \in Previews |-> [at |-> "new", model |-> NoPreview, of |-> 0]]
    /\ active = NoPreview /\ runningRef = FALSE
    /\ cache = {} /\ running = {} /\ deleteSent = {}

IsCurrent(p) == previews[p].of = generation

-----------------------------------------------------------------------------
\* The button.
Click(p, model) ==
    /\ previews[p].at = "new" /\ mounted
    /\ ~runningRef /\ \A c \in cache : c.model # model
    /\ previews' = [previews EXCEPT ![p] = [at |-> "create", model |-> model, of |-> generation]]
    /\ runningRef' = TRUE
    /\ UNCHANGED <<generation, mounted, active, cache, running, deleteSent>>

Goes(p, at) == previews' = [previews EXCEPT ![p].at = at]

\* The finally clause.  (Wrong: whichever generation the call is of.)
TidyAlways(p, jobs) ==
    /\ Goes(p, "over")
    /\ deleteSent' = deleteSent \cup jobs
    /\ active' = NoPreview /\ runningRef' = FALSE
Tidy(p, jobs) ==
    /\ Goes(p, "over")
    /\ deleteSent' = deleteSent \cup jobs
    /\ IF IsCurrent(p) THEN active' = NoPreview /\ runningRef' = FALSE
       ELSE UNCHANGED <<active, runningRef>>

\* createJob answers.  (Wrong: the generation is not looked at again.)
KeepsJobAlways(p) == TRUE
KeepsJob(p) == IsCurrent(p)

JobCreated(p) ==
    /\ previews[p].at = "create"
    /\ running' = running \cup {p}
    /\ IF KeepsJob(p)
       THEN Goes(p, "ask") /\ active' = p /\ UNCHANGED <<runningRef, deleteSent>>
       ELSE Tidy(p, {p})
    /\ UNCHANGED <<generation, mounted, cache>>

\* The photo cannot be decoded, or the job is refused.
NoJob(p) ==
    /\ previews[p].at = "create"
    /\ Tidy(p, {})
    /\ UNCHANGED <<generation, mounted, cache, running>>

\* One turn of the loop: the job has ended, failed or is gone; or the generation has
\* changed or the three minutes are over.
JobReady(p) ==
    /\ previews[p].at = "ask" /\ p \in running
    /\ Goes(p, "load")
    /\ UNCHANGED <<generation, mounted, active, runningRef, cache, running, deleteSent>>
GiveUp(p) ==
    /\ previews[p].at \in {"ask", "load"}
    /\ Tidy(p, {p})
    /\ UNCHANGED <<generation, mounted, cache, running>>

\* fetchResult answers.  (Wrong: the result is kept whatever happened since.)
KeepsResultAlways(p) == TRUE
KeepsResult(p) == IsCurrent(p)

ResultLoaded(p) ==
    /\ previews[p].at = "load"
    /\ cache' = IF KeepsResult(p)
                THEN cache \cup {[model |-> previews[p].model, of |-> previews[p].of]} ELSE cache
    /\ Tidy(p, {p})
    /\ UNCHANGED <<generation, mounted, running>>

\* The effect of a new file or crop, and its cleanup when the page drops the part.
\* The crop does not change while a preview runs; the file may.
NewCrop ==
    /\ mounted /\ generation < MaxGeneration
    /\ generation' = generation + 1
    /\ cache' = {} /\ runningRef' = FALSE
    /\ deleteSent' = deleteSent \cup ({active} \ {NoPreview})
    /\ active' = NoPreview
    /\ UNCHANGED <<mounted, previews, running>>
Unmount ==
    /\ mounted /\ mounted' = FALSE
    /\ generation' = generation + 1
    /\ cache' = {}
    /\ deleteSent' = deleteSent \cup ({active} \ {NoPreview})
    /\ UNCHANGED <<previews, active, runningRef, running>>

\* The server deletes a job it was asked to, or its record ends.
JobGoes(p) ==
    /\ p \in running /\ running' = running \ {p}
    /\ UNCHANGED <<generation, mounted, previews, active, runningRef, cache, deleteSent>>

ExplorerNext ==
    \/ \E p \in Previews :
         \/ \E m \in Models : Click(p, m)
         \/ JobCreated(p) \/ NoJob(p) \/ JobReady(p) \/ GiveUp(p) \/ ResultLoaded(p) \/ JobGoes(p)
    \/ NewCrop \/ Unmount

-----------------------------------------------------------------------------
(* Properties                                                                  *)

\* One preview at a time for what is on the screen: a call that was overtaken by a
\* new file does not enable the button of the call that came after it.
OnePreviewAtATime ==
    Cardinality({p \in Previews : IsCurrent(p) /\ previews[p].at \in {"create", "ask", "load"}}) <= 1

\* The jobs of previews hold a slot of the visitor's address.  Each is asked to go,
\* but the one that is waited for, whenever the file changes or the part is dropped,
\* before, during or after its creation.
OnlyActiveJobStays == running \ deleteSent \subseteq {active} /\ (active \in running \ deleteSent => IsCurrent(active))

\* The previews that can be switched between are of the file and the crop shown.
CacheIsOfTheCrop == \A c \in cache : c.of = generation

\* A preview that a new file has overtaken changes nothing, wherever it is.
OvertakenIsHarmless == OnePreviewAtATime /\ OnlyActiveJobStays /\ CacheIsOfTheCrop
=============================================================================
