------------------------------- MODULE Cleanup -------------------------------
(* backend/app/cleanup.py: the service that sweeps expired jobs and orphaned  *)
(* directories.  It reads, decides and deletes in separate steps while the    *)
(* API and the workers go on.  One process, one job in hand at a time.        *)
(* An entry of job-expirations may be looked at any time after it is made.    *)
EXTENDS JobStore

VARIABLE
    sweep  \* the job in hand, the run_owner read from its record, and the step

cleanupVars == <<sweep>>

SweepSteps == {"idle", "owner", "postpone", "release", "rmtree", "delete", "zrem"}

NoSweep == [pc |-> "idle", job |-> NoJob, owner |-> NoWorker]

CleanupTypeOK ==
    /\ sweep \in [pc: SweepSteps, job: Jobs \cup {NoJob}, owner: Workers \cup {NoWorker}]
    /\ sweep.pc # "idle" => sweep.job \in Jobs

CleanupInit == sweep = NoSweep

SweepGoto(step) == sweep' = [sweep EXCEPT !.pc = step]

\* A Redis exception ends the process; the container is restarted.
SweepAfter(reply, next) == sweep' = IF reply = "ok" THEN next ELSE NoSweep

-----------------------------------------------------------------------------
(* cleanup_expired                                                            *)

\* What the record read says is to be done with the job: a queued job only
\* leaves the list, a claimed one is removed if its owner is dead, any other
\* is removed; ip_hash, and so the slot, is known from the record alone.
\* (Wrong: a cancelled job is removed without asking for its owner.)
NextAfterReadCancelled(j) ==
    CASE record[j].status = "queued" -> "zrem"
      [] record[j].status = "running" -> "owner"
      [] record[j].status = "absent" -> "rmtree"
      [] OTHER -> "release"

NextAfterRead(j) ==
    CASE record[j].status = "queued" -> "zrem"
      [] record[j].status = "running" -> "owner"
      [] record[j].status = "cancelled" /\ record[j].token # NoRun -> "owner"
      [] record[j].status = "absent" -> "rmtree"
      [] OTHER -> "release"

ReadExpired(j) ==
    /\ sweep.pc = "idle"
    /\ j \in expiry
    /\ sweep' = [pc |-> NextAfterRead(j), job |-> j, owner |-> record[j].owner]
    /\ UNCHANGED storeVars

CheckOwner ==
    /\ sweep.pc = "owner"
    /\ \E reply \in RedisReplies :
         SweepAfter(reply, [sweep EXCEPT !.pc = IF sweep.owner \in beat THEN "postpone" ELSE "release"])
    /\ UNCHANGED storeVars

PostponeOwned ==
    /\ sweep.pc = "postpone"
    /\ \E reply \in RedisReplies :
         expiry' = IF reply # "error" THEN expiry \cup {sweep.job} ELSE expiry
    /\ sweep' = NoSweep
    /\ UNCHANGED <<record, slots, queue, lock, tries, beat, disk, metric>>

SweepRelease ==
    /\ sweep.pc = "release"
    /\ \E reply \in RedisReplies :
         /\ slots' = IF reply # "error" THEN slots \ {sweep.job} ELSE slots
         /\ SweepAfter(reply, [sweep EXCEPT !.pc = "rmtree"])
    /\ UNCHANGED <<record, expiry, queue, lock, tries, beat, disk, metric>>

SweepRemoveDirectory ==
    /\ sweep.pc = "rmtree"
    /\ disk' = DirectoryRemoved(sweep.job)
    /\ SweepGoto("delete")
    /\ UNCHANGED <<record, slots, expiry, queue, lock, tries, beat, metric>>

SweepDelete ==
    /\ sweep.pc = "delete"
    /\ \E reply \in RedisReplies :
         /\ record' = IF reply # "error" THEN Deleted(sweep.job) ELSE record
         /\ SweepAfter(reply, [sweep EXCEPT !.pc = "zrem"])
    /\ UNCHANGED <<slots, expiry, queue, lock, tries, beat, disk, metric>>

SweepUnlist ==
    /\ sweep.pc = "zrem"
    /\ \E reply \in RedisReplies :
         expiry' = IF reply # "error" THEN expiry \ {sweep.job} ELSE expiry
    /\ sweep' = NoSweep
    /\ UNCHANGED <<record, slots, queue, lock, tries, beat, disk, metric>>

-----------------------------------------------------------------------------
(* cleanup_once: a directory past the cutoff whose record is gone is removed; *)
(* it goes on with the same three steps.                                      *)

\* (Wrong: only directories job-expirations knows of.)
ScanListedOrphan(j) ==
    /\ sweep.pc = "idle"
    /\ "dir" \in disk[j]
    /\ record[j].status = "absent"
    /\ j \in expiry
    /\ sweep' = [pc |-> "rmtree", job |-> j, owner |-> NoWorker]
    /\ UNCHANGED storeVars

ScanOrphan(j) ==
    /\ sweep.pc = "idle"
    /\ "dir" \in disk[j]
    /\ record[j].status = "absent"
    /\ sweep' = [pc |-> "rmtree", job |-> j, owner |-> NoWorker]
    /\ UNCHANGED storeVars

SweepStep ==
    \/ CheckOwner \/ PostponeOwned \/ SweepRelease
    \/ SweepRemoveDirectory \/ SweepDelete \/ SweepUnlist

CleanupCrash ==
    /\ "cleanup_crash" \in Faults
    /\ sweep.pc # "idle"
    /\ sweep' = NoSweep
    /\ UNCHANGED storeVars
=============================================================================
