-------------------------------- MODULE Deploy --------------------------------
(* deploy/activate-release.sh and rollback.sh on one host: what they do to the *)
(* links `current' and `previous', to the containers of the Compose project    *)
(* and to the images, over several runs, each of which may fail or be killed.  *)
(* An operator runs one script at a time.                                      *)
EXTENDS Naturals

CONSTANTS
    Releases,   \* directories under releases/
    NoRelease,
    MaxScripts  \* bound: scripts that are run

ASSUME DeployAssumption == NoRelease \notin Releases /\ MaxScripts \in Nat

VARIABLES
    current, previous,  \* the links
    containers,  \* the releases that have a container
    images,      \* the releases whose images exist
    script,      \* the script that runs: kind, step, target and its old_current
    ended,       \* how the last script ended that touched the containers
    scripts      \* how many have been started

deployVars == <<current, previous, containers, images, script, ended, scripts>>

DeployInit ==
    /\ current = NoRelease /\ previous = NoRelease
    /\ containers = {} /\ images = {}
    /\ script = [kind |-> "none", step |-> "over", target |-> NoRelease, old |-> NoRelease]
    /\ ended = "well" /\ scripts = 0

GoOn(step) == script' = [script EXCEPT !.step = step]
At(step) == script.step = step
Ends(result) == GoOn("over") /\ ended' = result

-----------------------------------------------------------------------------
(* Up to the health check                                                      *)

\* Checks of the arguments, of the disk and of .env come first and change nothing.
Start(kind, target) ==
    /\ At("over") /\ scripts < MaxScripts
    /\ script' = [kind |-> kind, target |-> target, old |-> current,
                  step |-> IF kind = "activate" THEN "build" ELSE "up"]
    /\ scripts' = scripts + 1
    /\ UNCHANGED <<current, previous, containers, images, ended>>

\* docker compose build; set -e ends the script if it fails.
Build ==
    /\ At("build")
    /\ \/ GoOn("up") /\ images' = images \cup {script.target}
       \/ GoOn("over") /\ UNCHANGED images
    /\ UNCHANGED <<current, previous, containers, ended, scripts>>

\* docker compose up builds images that are missing and replaces the containers of
\* the project one by one.
ComposeUp(release, next, failed) ==
    \/ /\ GoOn(next) /\ containers' = {release}
       /\ images' = images \cup {release} /\ UNCHANGED ended
    \/ /\ containers' \in SUBSET (containers \cup {release})
       /\ images' \in {images, images \cup {release}}
       /\ containers' \subseteq images'
       /\ failed

Up ==
    /\ At("up") /\ ComposeUp(script.target, "health", GoOn("restore") /\ UNCHANGED ended)
    /\ UNCHANGED <<current, previous, scripts>>

\* Five minutes for an answer with exactly the version of the target.
Health ==
    /\ At("health") /\ (GoOn("previous") \/ GoOn("restore"))
    /\ UNCHANGED <<current, previous, containers, images, ended, scripts>>

-----------------------------------------------------------------------------
(* The links                                                                   *)

\* The link `previous' is left alone if the target is the live release already.
Replaces == script.old \notin {NoRelease, script.target}

\* atomic_symlink: the new link, or the old one and a failure.
LinkPrevious ==
    /\ At("previous")
    /\ \/ /\ GoOn("current")
          /\ previous' = IF Replaces THEN script.old ELSE previous
       \/ Replaces /\ GoOn("restore") /\ UNCHANGED previous
    /\ UNCHANGED <<current, containers, images, ended, scripts>>

\* Rolling back removes no images.
AfterLinks == IF script.kind = "activate" THEN GoOn("clean") /\ UNCHANGED ended ELSE Ends("well")

LinkCurrent ==
    /\ At("current")
    /\ \/ current' = script.target /\ AfterLinks
       \/ GoOn("restore") /\ UNCHANGED <<current, ended>>
    /\ UNCHANGED <<previous, containers, images, scripts>>

\* cleanup_old_project_images: what it keeps, as far as Docker lets it remove images.
\* (Wrong: the release it has just replaced instead of the one that is linked.)
KeptByScript == {script.target, script.old}
Kept == {script.target, previous}
CleanUp ==
    /\ At("clean")
    /\ \E removed \in SUBSET (images \ (Kept \cup containers)) : images' = images \ removed
    /\ Ends("well")
    /\ UNCHANGED <<current, previous, containers, scripts>>

-----------------------------------------------------------------------------
(* restore_old_stack                                                           *)

\* (Wrong: a first release that fails stays up.)
DownKept == containers
DownFirst == {}
Restore ==
    /\ At("restore")
    /\ IF script.old = NoRelease
       THEN /\ \/ containers' = DownFirst /\ Ends("well")
               \/ containers' \in SUBSET containers /\ Ends("badly")
            /\ UNCHANGED images
       ELSE ComposeUp(script.old, "old health", Ends("badly"))
    /\ UNCHANGED <<current, previous, scripts>>

OldHealth ==
    /\ At("old health") /\ (Ends("well") \/ Ends("badly"))
    /\ UNCHANGED <<current, previous, containers, images, scripts>>

\* The connection is lost.  (In the middle of CleanUp it has removed less.)
Kill ==
    /\ script.step \notin {"over", "clean"}
    /\ IF At("build") THEN GoOn("over") /\ UNCHANGED ended ELSE Ends("badly")
    /\ UNCHANGED <<current, previous, containers, images, scripts>>

DeployNext ==
    \/ \E kind \in {"activate", "rollback"}, target \in Releases : Start(kind, target)
    \/ Build \/ Up \/ Health \/ LinkPrevious \/ LinkCurrent \/ CleanUp \/ Restore \/ OldHealth \/ Kill

-----------------------------------------------------------------------------
(* Properties                                                                  *)

\* "current symlink was not changed", "restoring the old stack": unless a script was
\* killed or could not restore what it found, the containers are those of the release
\* that `current' names, whatever failed on the way and whatever scripts before left.
LiveReleaseRuns == At("over") /\ ended = "well" => containers = {current} \ {NoRelease}

\* SELF_HOSTING.md: images for the active and the previous release are retained, and
\* those a container uses.  It holds whatever runs, rolls back, fails and is repeated.
ImagesRetained ==
    [][(images \ images') \cap ({current, previous, current', previous'} \cup containers) = {}]_deployVars
=============================================================================
