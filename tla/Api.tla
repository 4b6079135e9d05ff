-------------------------------- MODULE Api --------------------------------
(* backend/app/main.py: create_job and delete_job, one action between two     *)
(* awaits.  An upload that is refused and one that raises take the same path: *)
(* metrics, directory, record, slot.                                          *)
EXTENDS JobStore

VARIABLES
    create,  \* per job: where its create_job request is
    request  \* per DELETE request: its job and where it is

apiVars == <<create, request>>

UndoSteps == {"undo_metric", "undo_dir", "undo_record", "undo_slot"}

\* "failed": in an except branch, to its end or cut off in it.
CreateOver == {"created", "refused", "failed", "crashed"}

CreateSteps ==
    {"new", "rate", "upload", "hset", "expire", "accept", "enqueue"} \cup UndoSteps \cup CreateOver

RequestSteps == {"idle", "transition", "metric", "rmtree", "release",
                 "rmtree_done", "delete", "zrem"}

NoRequest == [pc |-> "idle", job |-> NoJob, prev |-> "absent"]

ApiTypeOK ==
    /\ create \in [Jobs -> CreateSteps]
    /\ request \in [Requests -> [pc: RequestSteps, job: Jobs \cup {NoJob},
                                 prev: Status \cup {"absent"}]]
    /\ \A q \in Requests : request[q].pc # "idle" => request[q].job \in Jobs

ApiInit ==
    /\ create = [j \in Jobs |-> "new"]
    /\ request = [q \in Requests |-> NoRequest]

CreateGoto(j, step) == create' = [create EXCEPT ![j] = step]

-----------------------------------------------------------------------------
(* create_job                                                                 *)

\* The slot is taken before anything else; a full set refuses the upload.
ReserveActiveJob(j) ==
    /\ create[j] = "new"
    /\ \E reply \in RedisReplies :
         /\ slots' = IF SlotFree /\ reply # "error" THEN slots \cup {j} ELSE slots
         /\ CreateGoto(j, IF SlotFree /\ reply = "ok" THEN "rate" ELSE "refused")
    /\ UNCHANGED <<record, expiry, queue, lock, tries, beat, disk, metric, request>>

\* consume_rate and create_job_directory: the hourly limit may refuse the job.
ConsumeRate(j) ==
    /\ create[j] = "rate"
    /\ \/ CreateGoto(j, "undo_dir") /\ UNCHANGED disk
       \/ CreateGoto(j, "upload") /\ disk' = [disk EXCEPT ![j] = {"dir"}]
    /\ UNCHANGED <<record, slots, expiry, queue, lock, tries, beat, metric, request>>

\* The loop over the uploads: save, validate, scan; any of them may raise.
SaveUploads(j) ==
    /\ create[j] = "upload"
    /\ \/ CreateGoto(j, "undo_dir")
       \/ CreateGoto(j, "hset")
    /\ disk' = [disk EXCEPT ![j] = @ \cup {"files"}]
    /\ UNCHANGED <<record, slots, expiry, queue, lock, tries, beat, metric, request>>

CreateJobRecord(j) ==
    /\ create[j] = "hset"
    /\ \E reply \in RedisReplies :
         /\ record' = IF reply # "error" THEN Queued(j) ELSE record
         /\ CreateGoto(j, IF reply = "ok" THEN "expire" ELSE "undo_dir")
    /\ UNCHANGED <<slots, expiry, queue, lock, tries, beat, disk, metric, request>>

ExpireJobRecord(j) ==
    /\ create[j] = "expire"
    /\ \E reply \in RedisReplies :
         /\ record' = IF reply # "error" THEN Expiring(j) ELSE record
         /\ CreateGoto(j, IF reply = "ok" THEN "accept" ELSE "undo_dir")
    /\ UNCHANGED <<slots, expiry, queue, lock, tries, beat, disk, metric, request>>

AcceptMetric(j) ==
    /\ create[j] = "accept"
    /\ metric' \in Written(RecordAccepted(j))
    /\ CreateGoto(j, "enqueue")
    /\ UNCHANGED <<record, slots, expiry, queue, lock, tries, beat, disk, request>>

\* After this step a worker may run the job, whatever the API was told.
EnqueueJob(j) ==
    /\ create[j] = "enqueue"
    /\ \E reply \in RedisReplies :
         /\ queue' = IF reply # "error" THEN queue \cup {j} ELSE queue
         /\ CreateGoto(j, IF reply = "ok" THEN "created" ELSE "undo_metric")
    /\ UNCHANGED <<record, slots, expiry, lock, tries, beat, disk, metric, request>>

\* The except branches.  metrics_accepted is true exactly on the way from
\* enqueue; a job not yet accepted goes to metric_rejections, which no job row
\* shows, and starts at undo_dir.
UndoMetric(j) ==
    /\ create[j] = "undo_metric"
    /\ metric' \in Written(RecordTerminal(j, "failed"))
    /\ CreateGoto(j, "undo_dir")
    /\ UNCHANGED <<record, slots, expiry, queue, lock, tries, beat, disk, request>>

UndoDirectory(j) ==
    /\ create[j] = "undo_dir"
    /\ disk' = DirectoryRemoved(j)
    /\ CreateGoto(j, "undo_record")
    /\ UNCHANGED <<record, slots, expiry, queue, lock, tries, beat, metric, request>>

UndoRecord(j) ==
    /\ create[j] = "undo_record"
    /\ \E reply \in RedisReplies :
         /\ record' = IF reply # "error" THEN Deleted(j) ELSE record
         /\ CreateGoto(j, IF reply = "ok" THEN "undo_slot" ELSE "failed")
    /\ UNCHANGED <<slots, expiry, queue, lock, tries, beat, disk, metric, request>>

UndoSlot(j) ==
    /\ create[j] = "undo_slot"
    /\ \E reply \in RedisReplies : slots' = IF reply # "error" THEN slots \ {j} ELSE slots
    /\ CreateGoto(j, "failed")
    /\ UNCHANGED <<record, expiry, queue, lock, tries, beat, disk, metric, request>>

CreateStep(j) ==
    \/ ReserveActiveJob(j) \/ ConsumeRate(j) \/ SaveUploads(j) \/ CreateJobRecord(j)
    \/ ExpireJobRecord(j) \/ AcceptMetric(j) \/ EnqueueJob(j)
    \/ UndoMetric(j) \/ UndoDirectory(j) \/ UndoRecord(j) \/ UndoSlot(j)

-----------------------------------------------------------------------------
(* delete_job                                                                 *)

RequestGoto(q, step) == request' = [request EXCEPT ![q].pc = step]

\* authorized_job: only the client that was given the token gets past it, and
\* only while the record exists.
AuthorizedJob(q, j) ==
    /\ request[q].pc = "idle"
    /\ create[j] = "created"
    /\ record[j].status # "absent"
    /\ request' = [request EXCEPT ![q] = [pc |-> "transition", job |-> j, prev |-> "absent"]]
    /\ UNCHANGED <<storeVars, create>>

\* cancel_job_transition leaves an ended job alone.  (Wrong: it does not, or it
\* leaves a running one alone too.)
CancellableQueued(prev) == prev = "queued"
CancellableEnded(prev) == prev # "absent"
Cancellable(prev) == prev \in Live

\* cancel_job_transition answers the status the job had; what is left to do
\* depends on it.
NextAfterTransition(prev) ==
    CASE prev \in Live -> "metric"
      [] prev \in {"succeeded", "failed"} -> "rmtree_done"
      [] OTHER -> "idle"

CancelJobTransition(q) ==
    LET j == request[q].job
        prev == record[j].status
    IN  /\ request[q].pc = "transition"
        /\ \E reply \in RedisReplies :
             /\ IF Cancellable(prev) /\ reply # "error"
                THEN record' = CancelledRecord(j) /\ expiry' = expiry \cup {j}
                ELSE UNCHANGED <<record, expiry>>
             /\ request' = IF reply = "ok" /\ NextAfterTransition(prev) # "idle"
                           THEN [request EXCEPT ![q].pc = NextAfterTransition(prev), ![q].prev = prev]
                           ELSE [request EXCEPT ![q] = NoRequest]
        /\ UNCHANGED <<slots, queue, lock, tries, beat, disk, metric, create>>

\* A running job's directory and slot are left to its worker; a queued job's
\* are removed here.  (Wrong: whatever the job was doing.)
CleansCancelledAlways(prev) == TRUE
CleansCancelled(prev) == prev = "queued"

CancelMetric(q) ==
    /\ request[q].pc = "metric"
    /\ metric' \in Written(RecordTerminal(request[q].job, "cancelled"))
    /\ request' = IF CleansCancelled(request[q].prev)
                  THEN [request EXCEPT ![q].pc = "rmtree"]
                  ELSE [request EXCEPT ![q] = NoRequest]
    /\ UNCHANGED <<record, slots, expiry, queue, lock, tries, beat, disk, create>>

CancelRemoveDirectory(q) ==
    /\ request[q].pc = "rmtree"
    /\ disk' = DirectoryRemoved(request[q].job)
    /\ RequestGoto(q, "release")
    /\ UNCHANGED <<record, slots, expiry, queue, lock, tries, beat, metric, create>>

CancelRelease(q) ==
    /\ request[q].pc = "release"
    /\ \E reply \in RedisReplies :
         slots' = IF reply # "error" THEN slots \ {request[q].job} ELSE slots
    /\ request' = [request EXCEPT ![q] = NoRequest]
    /\ UNCHANGED <<record, expiry, queue, lock, tries, beat, disk, metric, create>>

DeleteDirectory(q) ==
    /\ request[q].pc = "rmtree_done"
    /\ disk' = DirectoryRemoved(request[q].job)
    /\ RequestGoto(q, "delete")
    /\ UNCHANGED <<record, slots, expiry, queue, lock, tries, beat, metric, create>>

DeleteRecord(q) ==
    /\ request[q].pc = "delete"
    /\ \E reply \in RedisReplies :
         /\ record' = IF reply # "error" THEN Deleted(request[q].job) ELSE record
         /\ request' = IF reply = "ok" THEN [request EXCEPT ![q].pc = "zrem"]
                       ELSE [request EXCEPT ![q] = NoRequest]
    /\ UNCHANGED <<slots, expiry, queue, lock, tries, beat, disk, metric, create>>

DeleteExpiry(q) ==
    /\ request[q].pc = "zrem"
    /\ \E reply \in RedisReplies :
         expiry' = IF reply # "error" THEN expiry \ {request[q].job} ELSE expiry
    /\ request' = [request EXCEPT ![q] = NoRequest]
    /\ UNCHANGED <<record, slots, queue, lock, tries, beat, disk, metric, create>>

DeleteStep(q) ==
    \/ CancelJobTransition(q) \/ CancelMetric(q) \/ CancelRemoveDirectory(q)
    \/ CancelRelease(q) \/ DeleteDirectory(q) \/ DeleteRecord(q) \/ DeleteExpiry(q)

-----------------------------------------------------------------------------
(* The API process dies with the request: nothing undoes what it did.         *)

CreateCrash(j) ==
    /\ "api_crash" \in Faults
    /\ create[j] \notin CreateOver \cup {"new"}
    /\ CreateGoto(j, IF create[j] \in UndoSteps THEN "failed" ELSE "crashed")
    /\ UNCHANGED <<storeVars, request>>

RequestCrash(q) ==
    /\ "api_crash" \in Faults
    /\ request[q].pc # "idle"
    /\ request' = [request EXCEPT ![q] = NoRequest]
    /\ UNCHANGED <<storeVars, create>>

ApiNext ==
    \/ \E j \in Jobs : CreateStep(j) \/ CreateCrash(j)
    \/ \E q \in Requests : DeleteStep(q) \/ RequestCrash(q)
    \/ \E q \in Requests, j \in Jobs : AuthorizedJob(q, j)
=============================================================================
