------------------------------ MODULE JobSystem ------------------------------
(* The job life cycle: API, workers and cleanup service over the shared store,*)
(* with the expiries and faults of their environment.                         *)
EXTENDS Api, Worker, Cleanup

vars == <<storeVars, apiVars, workerVars, cleanupVars>>

-----------------------------------------------------------------------------
(* The environment: keys that run out, and a Redis without persistence.       *)

Executing(j) == RunsOn(j) # {}

\* The TTL of a record outlives a run that holds its claim (7200 s, renewed at
\* the claim, against a job timeout of 1830 s); a terminal record has 3600 s.
\* Only a queue longer than the TTL lets a waiting job's record run out.
RecordExpires(j) ==
    /\ record[j].ttl
    /\ create[j] \in CreateOver
    /\ ~Executing(j)
    /\ j \in queue => "long_wait" \in Faults
    /\ record' = Deleted(j)
    /\ UNCHANGED <<slots, expiry, queue, lock, tries, beat, disk, metric>>

\* A slot's lease is 7200 s from the upload, or 2100 s from the last claim.
SlotLapses(j) ==
    /\ "long_wait" \in Faults
    /\ j \in slots
    /\ create[j] \in CreateOver
    /\ ~Executing(j)
    /\ slots' = slots \ {j}
    /\ UNCHANGED <<record, expiry, queue, lock, tries, beat, disk, metric>>

\* arq's lock lives 1840 s, longer than any run and than the 90 s heartbeat of
\* a dead owner.  A stall is a process paused past these, or a key evicted by
\* Redis' allkeys-lru policy.
LockExpires(j) ==
    /\ j \in lock
    /\ "stall" \in Faults \/ (~Executing(j) /\ record[j].owner \notin beat)
    /\ lock' = lock \ {j}
    /\ UNCHANGED <<record, slots, expiry, queue, tries, beat, disk, metric>>

BeatExpires(w) ==
    /\ w \in beat
    /\ worker[w] = "dead" \/ "stall" \in Faults
    /\ beat' = beat \ {w}
    /\ UNCHANGED <<record, slots, expiry, queue, lock, tries, disk, metric>>

RedisRestart ==
    /\ "redis_restart" \in Faults
    /\ record' = [j \in Jobs |-> Absent]
    /\ slots' = {} /\ expiry' = {} /\ queue' = {} /\ lock' = {} /\ beat' = {}
    /\ tries' = [j \in Jobs |-> 0]
    /\ UNCHANGED <<disk, metric>>

EnvironmentNext ==
    \/ \E j \in Jobs : RecordExpires(j) \/ SlotLapses(j) \/ LockExpires(j)
    \/ \E w \in Workers : BeatExpires(w)
    \/ RedisRestart

-----------------------------------------------------------------------------
(* A directory is past the cutoff only when its upload has long ended.        *)

CleanupNext ==
    \/ \E j \in Jobs : ReadExpired(j)
    \/ \E j \in Jobs : create[j] \in CreateOver /\ ScanOrphan(j)
    \/ SweepStep \/ CleanupCrash

Init == StoreInit /\ ApiInit /\ WorkerInit /\ CleanupInit

Next ==
    \/ ApiNext /\ UNCHANGED <<workerVars, cleanupVars>>
    \/ WorkerNext /\ UNCHANGED <<apiVars, cleanupVars>>
    \/ CleanupNext /\ UNCHANGED <<apiVars, workerVars>>
    \/ EnvironmentNext /\ UNCHANGED <<apiVars, workerVars, cleanupVars>>

(* Fairness: every process that is up takes its next step (asyncio tasks run, *)
(* commands answer); compose restarts a process that stopped; keys run out;   *)
(* the cleanup loop comes back to every entry and every orphan, and does not  *)
(* die before the same removal every time.  Faults, cancellations and DELETE  *)
(* requests are under no obligation to happen.                                *)
Fairness ==
    /\ \A j \in Jobs : WF_vars(CreateStep(j) /\ create[j] # "new" /\ UNCHANGED <<workerVars, cleanupVars>>)
    /\ \A q \in Requests : WF_vars(DeleteStep(q) /\ UNCHANGED <<workerVars, cleanupVars>>)
    /\ \A r \in Runs : WF_vars((RunStep(r) \/ FinishJob(r) \/ RequeueJob(r)) /\ UNCHANGED <<apiVars, cleanupVars>>)
    /\ \A j \in Jobs : WF_vars((\E w \in Workers, r \in Runs : StartJob(w, r, j)) /\ UNCHANGED <<apiVars, cleanupVars>>)
    /\ \A w \in Workers : WF_vars((OnStartup(w) \/ OnShutdown(w)) /\ UNCHANGED <<apiVars, cleanupVars>>)
    /\ \A j \in Jobs : WF_vars(DeferEnds(j) /\ UNCHANGED <<apiVars, cleanupVars>>)
    /\ \A j \in Jobs : WF_vars(LockExpires(j) /\ UNCHANGED <<apiVars, workerVars, cleanupVars>>)
    /\ \A w \in Workers : WF_vars(BeatExpires(w) /\ UNCHANGED <<apiVars, workerVars, cleanupVars>>)
    /\ WF_vars(SweepStep /\ UNCHANGED <<apiVars, workerVars>>)
    /\ SF_vars(SweepRemoveDirectory /\ UNCHANGED <<apiVars, workerVars>>)
    /\ \A j \in Jobs : SF_vars(ReadExpired(j) /\ UNCHANGED <<apiVars, workerVars>>)
    /\ \A j \in Jobs : SF_vars(create[j] \in CreateOver /\ ScanOrphan(j) /\ UNCHANGED <<apiVars, workerVars>>)

SafetySpec == Init /\ [][Next]_vars
Spec == SafetySpec /\ Fairness

TypeOK == StoreTypeOK /\ ApiTypeOK /\ WorkerTypeOK /\ CleanupTypeOK

-----------------------------------------------------------------------------
(* Safety                                                                     *)

\* The job was accepted and no except branch of create_job is undoing it.
Standing(j) == create[j] \in {"expire", "accept", "enqueue", "created"}

\* A run with the job's claim has its operation to do or its end to store, and
\* no end is stored yet.
Working(r) ==
    /\ run[r].pc \in {"start", "execute", "store"}
    /\ Holds(r)
    /\ record[run[r].job].status \in {"running", "cancelled"}

Occupied(j) == record[j].status \in Live \/ \E r \in RunsOn(j) : Working(r)

\* README: "a maximum of three concurrent jobs per IP".  A job counts from its
\* record's first write until no record is live and no claimed run works on
\* it, cancelled jobs whose worker is still busy included.
ConcurrencyLimit == Cardinality({j \in Jobs : Standing(j) /\ Occupied(j)}) <= MaxActive

\* While a client is told its job is queued or running, the uploads the worker
\* will need, or will need again after a crash, are on disk: neither a DELETE,
\* nor the finally clause of another run, nor the sweep has removed them.
LiveJobKeepsInputs ==
    \A j \in Jobs : Standing(j) /\ record[j].status \in Live => {"dir", "files"} \subseteq disk[j]

\* The metrics row and the record are written by different processes, in
\* different databases; when both are terminal they tell the same end.
MetricsAgree ==
    \A j \in Jobs :
        create[j] = "created" /\ metric[j] \in Terminal /\ record[j].status # "absent"
        => metric[j] = record[j].status

\* Nobody is working on the job or removing it.
Quiet(j) ==
    /\ create[j] = "created"
    /\ j \notin queue
    /\ RunsOn(j) = {}
    /\ \A q \in Requests : request[q].job # j
    /\ sweep.job # j

\* OFFICE_CONVERSIONS.md: "Inputs are deleted when processing finishes or
\* fails."  Once arq is done with a job, however it ended, no upload is left.
ProcessedInputsDeleted == \A j \in Jobs : Quiet(j) => "files" \notin disk[j]

\* test_active_jobs.py: "three jobs are allowed and the slot is released".  Once
\* arq is done with a job that is no longer live, it holds no slot.
SlotIsReleased == \A j \in Jobs : Quiet(j) /\ record[j].status \notin Live => j \notin slots

\* Once arq is done with a job, its metrics row has the status of its record.  Only
\* a worker that stops or dies may leave the row behind, between the two writes;
\* even then it tells no other end.
MetricsSettled ==
    \A j \in Jobs :
        Quiet(j) /\ record[j].status # "absent" /\ metric[j] # record[j].status
        => metric[j] \notin Terminal /\ \E w \in Workers : worker[w] \notin {"off", "up"}

\* A job that was created cannot stay in Redis for ever: the HSET that writes
\* its record and every later script leave it with a TTL.
RecordsExpire == \A j \in Jobs : create[j] = "created" /\ record[j].status # "absent" => record[j].ttl

\* What is kept of a job is right in both databases, and ends.
JobsAreRecorded == MetricsSettled /\ RecordsExpire

-----------------------------------------------------------------------------
(* Why LiveJobKeepsInputs and TerminalIsFinal hold: whoever has a job in hand *)
(* to remove something of it found it no longer live, and a job past its HSET *)
(* never becomes live again.                                                  *)

PastRecord(j) == create[j] \notin {"new", "rate", "upload", "hset"}

\* Past its HSET, and no longer queued or running.
Over(j) == PastRecord(j) /\ record[j].status \notin Live

\* What create_job has put on disk by each of its steps.
UploadsInPlace ==
    \A j \in Jobs :
        /\ create[j] = "upload" => "dir" \in disk[j]
        /\ create[j] = "hset" => {"dir", "files"} \subseteq disk[j]
        /\ Standing(j) /\ record[j].status \in Live => {"dir", "files"} \subseteq disk[j]

\* A record, a queue entry and an expiry entry all come after the HSET.
NothingBeforeRecord ==
    \A j \in Jobs :
        /\ record[j].status # "absent" => PastRecord(j)
        /\ j \in queue => PastRecord(j)
        /\ j \in expiry => Over(j)

RequestsRemoveOver ==
    \A q \in Requests :
        /\ request[q].pc # "idle" => PastRecord(request[q].job)
        /\ request[q].pc \notin {"idle", "transition"} => Over(request[q].job)

RunsRemoveOver ==
    \A r \in Runs :
        /\ run[r].pc # "idle" => PastRecord(run[r].job)
        /\ run[r].pc \in {"metric", "clean", "unlink"} => Over(run[r].job)
        /\ run[r].pc # "idle" /\ run[r].stored => Over(run[r].job)

SweepRemovesOver == sweep.pc # "idle" => Over(sweep.job)

LifeInv ==
    UploadsInPlace /\ NothingBeforeRecord /\ RequestsRemoveOver /\ RunsRemoveOver /\ SweepRemovesOver

-----------------------------------------------------------------------------
(* Why the claims, the metrics and the slots are right.                       *)

\* A run that ended a job shares its claim with nobody; one that cleans up after
\* it finds the claim given back, and nobody can take it any more.
ClaimsAreFenced ==
    \A r \in Runs :
        /\ run[r].pc # "idle" /\ run[r].stored => record[run[r].job].token \in {r, NoRun}
        /\ run[r].pc \in {"clean", "unlink", "release"} =>
             Over(run[r].job) /\ record[run[r].job].token = NoRun

\* A claim is its run's alone and names the process the run is in; a job that is
\* queued or gone has none.
ClaimsHaveOwners ==
    /\ \A j \in Jobs : record[j].status \in {"queued", "absent"} => record[j].token = NoRun
    /\ \A r \in Runs : run[r].pc # "idle" =>
         /\ worker[run[r].worker] \in {"up", "stopping"}
         /\ \A j \in Jobs :
              record[j].token = r => run[r].job = j /\ record[j].owner = run[r].worker

\* What a row says of an end, and what is about to be written into one, is the end
\* the record tells, as long as there is a record.
RowsFollowRecords ==
    /\ \A j \in Jobs :
         /\ create[j] \in {"new", "rate", "upload", "hset", "expire", "accept"} => metric[j] = "none"
         /\ metric[j] \in Terminal /\ create[j] \notin UndoSteps \cup {"failed"} =>
              record[j].status \in {metric[j], "absent"}
    /\ \A r \in Runs : run[r].pc = "metric" =>
         record[run[r].job].status \in {run[r].outcome, "absent"}
    /\ \A q \in Requests : request[q].pc = "metric" =>
         record[request[q].job].status \in {"cancelled", "absent"}

\* From the EXPIRE that follows its HSET on, a record has a TTL.
TtlsAreSet ==
    \A j \in Jobs :
        create[j] \in {"accept", "enqueue", "created"} /\ record[j].status # "absent" => record[j].ttl

ClaimInv == ClaimsAreFenced /\ ClaimsHaveOwners /\ RowsFollowRecords /\ TtlsAreSet

\* Nothing takes a claim or a heartbeat away from a process that is up.
Steady == Faults \cap {"stall", "redis_restart"} = {}

\* A process that is up has its heartbeat, so no run at work loses its claim but
\* with the record, ...
HeartbeatsHold ==
    /\ \A w \in Workers : worker[w] \in {"up", "stopping"} => w \in beat
    /\ \A r \in Runs : run[r].pc \in {"start", "execute"} =>
         \/ record[run[r].job].status = "absent"
         \/ record[run[r].job].status \in {"running", "cancelled"} /\ record[run[r].job].token = r

\* ... and the sweep, with the job of such a run in hand, asks for its owner.
SweepAsksOwner ==
    \A r \in Runs :
        Working(r) /\ sweep.pc # "idle" /\ sweep.job = run[r].job =>
            sweep.pc \in {"owner", "postpone"} /\ sweep.owner = run[r].worker

\* ... and no lease of a slot ends before its job.
Punctual == Steady /\ "long_wait" \notin Faults

\* Whoever is about to free a slot knows that nobody works on the job.
SlotsAreKept ==
    /\ \A j \in Jobs :
         /\ create[j] = "undo_slot" => record[j].status = "absent"
         /\ \/ create[j] \in {"rate", "upload", "hset"}
            \/ Occupied(j)
            => j \in slots
    /\ \A q \in Requests :
         request[q].pc \in {"rmtree", "release"} \/ (request[q].pc = "metric" /\ request[q].prev = "queued")
         => record[request[q].job].token = NoRun
    /\ Cardinality(slots) <= MaxActive

\* Where output/ is not shared one run or thread at most writes there, and nobody
\* does once a result is about to be announced or has been.
OutputsAreOwn ==
    \A j \in Jobs \ shared :
        /\ \A r \in Writing(j) : Writing(j) = {r} /\ Threads(j) = {}
        /\ \/ record[j].status = "succeeded"
           \/ \E r \in RunsOn(j) : run[r].pc = "store" /\ MayStore(j, r)
           => Writing(j) = {} /\ Threads(j) = {}

\* The result a run is about to announce is on disk, and nothing but the removal
\* of its directory takes it away, unless output/ was shared: then the other run,
\* or the thread a cancelled one left behind, may truncate or unlink it.
ResultsAreThere ==
    \A j \in Jobs \ shared : create[j] \notin UndoSteps \cup {"failed"} =>
        /\ \A r \in Runs : run[r].pc = "store" /\ run[r].outcome = "succeeded" /\ run[r].job = j /\ MayStore(j, r)
             => "result" \in disk[j]
        /\ record[j].status = "succeeded" => "result" \in disk[j] \/ disk[j] = {}

\* Until a job is queued nobody but create_job has it in hand, and once a run
\* starts on it its record says so no more.
Untouched ==
    /\ \A j \in Jobs : create[j] \in {"new", "rate", "upload", "hset", "expire", "accept", "enqueue"} =>
         /\ record[j].status \in {"queued", "absent"}
         /\ j \notin queue /\ RunsOn(j) = {}
         /\ \A q \in Requests : request[q].job # j
    /\ \A r \in Runs : run[r].pc = "start" => record[run[r].job].status # "queued"

\* No write of a row is lost but by a worker that stops or dies.
Recorded == Faults \cap {"timeout", "redis_error", "metrics_error", "api_crash"} = {}
Attended == \A w \in Workers : worker[w] \in {"off", "up"}

\* Whoever changes a record has the row to write next, and is still there.
RowsKeepUp ==
    \A j \in Jobs :
        /\ create[j] \in {"enqueue", "created"}
        /\ record[j].status \notin {"absent", metric[j]}
        => /\ metric[j] \in Live
           /\ \/ record[j].status = "running" /\ \E r \in RunsOn(j) : run[r].pc = "start"
              \/ \E r \in RunsOn(j) : run[r].pc = "metric" /\ run[r].outcome = record[j].status
              \/ record[j].status = "cancelled"
                 /\ \E q \in Requests : request[q].pc = "metric" /\ request[q].job = j

\* Processes may pause, rows get lost and the sweep be restarted; nobody else stops
\* or fails half-way, and no record runs out while its job waits.
Uninterrupted == Faults \subseteq {"stall", "metrics_error", "cleanup_crash"}

\* The run will remove the uploads of its job.
Keeps(r) ==
    \/ Working(r)
    \/ run[r].pc = "finish" /\ Holds(r) /\ record[run[r].job].status = "cancelled"
    \/ run[r].pc \in {"metric", "finish"} /\ run[r].stored
    \/ run[r].pc \in {"clean", "unlink"}

\* So will the request.
Removes(q) ==
    request[q].pc = "rmtree" \/ (request[q].pc = "metric" /\ request[q].prev = "queued")

\* As long as uploads are there, so is somebody to remove them: a run that is still
\* to claim the job, ...
HasKeeper(j) ==
    \/ /\ record[j].status = "queued"
       /\ create[j] = "created" => j \in queue \/ \E r \in RunsOn(j) : run[r].pc \in {"load", "claim"}
    \/ \E r \in RunsOn(j) : Keeps(r)
    \/ \E q \in Requests : request[q].job = j /\ Removes(q)
UploadsHaveKeepers ==
    \A j \in Jobs : Standing(j) /\ "files" \in disk[j] => "dir" \in disk[j] /\ HasKeeper(j)

\* ... which it does in its first try, ...
WaitingIsUntried ==
    \A j \in Jobs :
        /\ create[j] \in {"new", "rate", "upload", "hset", "expire", "accept", "enqueue"} => tries[j] = 0
        /\ record[j].status = "queued" =>
             /\ \A r \in RunsOn(j) : run[r].pc \in {"load", "claim"}
             /\ tries[j] = 0 \/ RunsOn(j) # {}

\* ... or has claimed it, or a DELETE.  A record is deleted after the uploads.
DeletedIsEmpty ==
    /\ \A q \in Requests : request[q].pc = "delete" => "files" \notin disk[request[q].job]
    /\ sweep.pc = "delete" => "files" \notin disk[sweep.job]

\* The inductive invariant of the life cycle.
JobInv ==
    /\ LifeInv /\ ClaimInv /\ OutputsAreOwn /\ ResultsAreThere /\ Untouched
    /\ Steady => HeartbeatsHold /\ SweepAsksOwner
    /\ Punctual => SlotsAreKept
    /\ Recorded /\ Attended => RowsKeepUp
    /\ Uninterrupted => Attended /\ UploadsHaveKeepers /\ WaitingIsUntried /\ DeletedIsEmpty

-----------------------------------------------------------------------------
(* Action properties                                                          *)

\* A terminal status is final: a late run, a second DELETE or a retry after a
\* lost answer cannot turn one end into another, nor revive the job.
TerminalStep ==
    \A j \in Jobs : record[j].status \in Terminal
                    => record'[j].status \in {record[j].status, "absent"}
TerminalIsFinal == [][TerminalStep]_vars

\* A run whose claim another run has taken over is fenced when it wakes up: it
\* changes no record, frees no slot, and removes neither the directory nor the
\* uploads of the new owner.  output/ has no fence: there it goes on writing.
Superseded(r) == run[r].job # NoJob /\ record[run[r].job].token \in Runs \ {r}
SupersededStep ==
    \A r \in Runs :
        Superseded(r) /\ run[r].pc \notin {"load", "claim"} /\ run'[r] # run[r]
        => /\ record' = record
           /\ slots' = slots
           /\ disk[run[r].job] \subseteq disk'[run[r].job] \cup {"result"}
StaleRunIsFenced == [][SupersededStep]_vars

\* The sweep checks the owner's heartbeat, then removes in later steps: at none
\* of them is a run with the claim at work on the job.
SweepRemoves(j) == sweep.job = j /\ sweep.pc \in {"release", "rmtree", "delete"} /\ sweep' # sweep
SweepSparesLiveRun ==
    [][\A r \in Runs : Working(r) => ~SweepRemoves(run[r].job)]_vars

-----------------------------------------------------------------------------
(* Liveness                                                                   *)

\* The claim of a dead worker whose heartbeat still counts, on a job arq will
\* try again at once: every such try finds CLAIM_BUSY, and five tries 15 s apart
\* are over before the 90 s of the heartbeat.
Abandoned(j) ==
    /\ record[j].status = "running"
    /\ record[j].owner \in beat
    /\ worker[record[j].owner] = "dead"
    /\ j \notin lock
NeverAbandoned == [](\A j \in Jobs : ~Abandoned(j))

\* An accepted job does not stay queued or running for ever: it ends, is
\* cancelled or is gone, whichever workers stop or die on the way.
AcceptedJobSettles ==
    NeverAbandoned => \A j \in Jobs : create[j] = "created" ~> record[j].status \notin Live

\* A job that is over gives its slot back without waiting for the lease to end,
\* if no worker stops or dies and no DELETE takes the directory away between the
\* worker's exists() and iterdir().
Undisturbed ==
    [](/\ \A w \in Workers : worker[w] \in {"off", "up"}
       /\ \A q \in Requests : request[q].pc = "idle")
SlotReturned ==
    Undisturbed =>
        \A j \in Jobs : create[j] \in CreateOver /\ record[j].status \notin Live ~> j \notin slots

\* Whatever failed, a directory whose record is gone is removed in the end.
OrphanRemoved ==
    \A j \in Jobs : create[j] \in CreateOver /\ record[j].status = "absent" ~> disk[j] = {}

-----------------------------------------------------------------------------
(* The system keeps the promise of JobPromise.                                *)

\* A job whose creation is being undone is gone for the client, who is never
\* given its token, even if a worker already runs it.
View(j) ==
    IF create[j] \in UndoSteps \cup {"failed"} THEN "gone"
    ELSE IF record[j].status # "absent" THEN record[j].status
    ELSE IF create[j] \in {"new", "rate", "upload", "hset"} THEN "none" ELSE "gone"

Promise ==
    INSTANCE JobPromise WITH
        view <- [j \in Jobs |-> View(j)],
        ready <- {j \in Jobs : View(j) = "succeeded" /\ "result" \in disk[j]}

\* What a client sees of the system is a behaviour of JobPromise: statuses only
\* move forward, the result of a succeeded job is there if no two of its runs
\* shared output/, admission is bounded.
KeepsPromise == Promise!Init /\ [][Promise!Next]_Promise!vars

\* ... and no job is left queued or running for ever.
KeepsWholePromise == KeepsPromise /\ (NeverAbandoned => Promise!Fairness)
=============================================================================
