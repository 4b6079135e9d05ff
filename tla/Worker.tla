------------------------------- MODULE Worker -------------------------------
(* backend/app/worker.py: run_operation, one action between two awaits, and   *)
(* what arq does around it: taking a job, the in-progress lock, retries, the  *)
(* job timeout, graceful shutdown.  arq is not part of the repository; its    *)
(* actions are modelled from how worker.py uses it and marked external.       *)
EXTENDS JobStore

VARIABLES
    worker,   \* per worker process: "off", "up", "stopping" or "dead"
    run,      \* per run: where it is in run_operation
    deferred, \* the queued jobs whose Retry(defer=15) is not yet due
    left,     \* per worker: the jobs on which a thread of a cancelled run goes on
    shared    \* history: the jobs whose output/ was written by two runs at once

outputVars == <<left, shared>>

workerVars == <<worker, run, deferred, outputVars>>

RunSteps == {"idle", "load", "claim", "busy", "start", "execute", "store", "metric",
             "finish", "clean", "unlink", "release", "beat", "return", "retry", "requeue"}

\* The steps inside run_operation's try: an exception or a cancellation there
\* goes to the finally clause, which starts at "finish".
TrySteps == {"start", "execute", "store", "metric"}

\* outcome: the status to store, and after finish_job_claim the status that
\* answered.  stored: terminal_stored.  interrupt: why arq cancelled the run.
Idle == [pc |-> "idle", job |-> NoJob, worker |-> NoWorker, outcome |-> "none",
         stored |-> FALSE, interrupt |-> "none"]

WorkerTypeOK ==
    /\ worker \in [Workers -> {"off", "up", "stopping", "dead"}]
    /\ run \in [Runs -> [pc: RunSteps, job: Jobs \cup {NoJob},
                         worker: Workers \cup {NoWorker},
                         outcome: Status \cup {"absent", "none"}, stored: BOOLEAN,
                         interrupt: {"none", "shutdown", "timeout"}]]
    /\ \A r \in Runs : run[r].pc # "idle" => run[r].job \in Jobs /\ run[r].worker \in Workers
    /\ \A r \in Runs : run[r].pc \in {"store", "metric"} => run[r].outcome \in {"succeeded", "failed"}
    /\ deferred \subseteq Jobs
    /\ left \in [Workers -> SUBSET Jobs]
    /\ shared \subseteq Jobs

WorkerInit ==
    /\ worker = [w \in Workers |-> "off"]
    /\ run = [r \in Runs |-> Idle]
    /\ deferred = {}
    /\ left = [w \in Workers |-> {}]
    /\ shared = {}

RunsOf(w) == {r \in Runs : run[r].worker = w}
RunsOn(j) == {r \in Runs : run[r].job = j}

\* The run holds the job's claim: the record carries its token.
Holds(r) == run[r].job # NoJob /\ record[run[r].job].token = r

-----------------------------------------------------------------------------
(* How a step of run_operation can end.                                       *)

\* arq cancels a run once: because its worker stops, or after job_timeout.
Interrupts(r) ==
    IF run[r].interrupt # "none" THEN {}
    ELSE (IF worker[run[r].worker] = "stopping" THEN {"shutdown"} ELSE {})
         \cup (IF "timeout" \in Faults THEN {"timeout"} ELSE {})

\* A Redis command answers, raises with or without its effect, or takes effect
\* while the run is cancelled waiting for the answer.
Replies(r) == RedisReplies \cup Interrupts(r)

TakesEffect(reply) == reply # "error"

\* What arq does once the run is over: a CancelledError of a shutdown puts the
\* job back, a timeout or any other exception ends it.
ExitStep(interrupt) == IF interrupt = "shutdown" THEN "requeue" ELSE "return"

CancelledRun(r, why) ==
    [run[r] EXCEPT !.pc = IF @ \in TrySteps THEN "finish" ELSE ExitStep(why),
                   !.interrupt = why]

\* A Redis exception.  While storing a success it lands in `except Exception',
\* which stores a failure; in an except branch it goes on to the finally
\* clause; anywhere else it leaves run_operation.
RaisedRun(r) ==
    IF run[r].pc # "store" THEN [run[r] EXCEPT !.pc = "return"]
    ELSE IF run[r].outcome = "succeeded" THEN [run[r] EXCEPT !.outcome = "failed"]
    ELSE [run[r] EXCEPT !.pc = "finish"]

\* The run after a command that got `reply'; `next' is the run if all went well.
After(r, reply, next) ==
    CASE reply = "ok" -> next
      [] reply \in {"error", "lost"} -> RaisedRun(r)
      [] OTHER -> CancelledRun(r, reply)

\* output/ is the job's, not the run's: a run that lost its claim, and the thread
\* asyncio.to_thread leaves behind when its run is cancelled, go on writing there.
Writing(j) == {r \in RunsOn(j) : run[r].pc = "execute"}
Threads(j) == {w \in Workers : j \in left[w]}
Alone(r) ==
    MayStore(run[r].job, r) /\ Writing(run[r].job) = {} /\ Threads(run[r].job) = {}

\* Where the directory is, a result is made; one that is there is destroyed.
ResultMade(j) == [disk EXCEPT ![j] = IF "dir" \in @ THEN @ \cup {"result"} ELSE @]
ResultLost(j) == [disk EXCEPT ![j] = @ \ {"result"}]
OutputWritten(j) == {disk, ResultMade(j), ResultLost(j)}

Goto(r, step) == run' = [run EXCEPT ![r].pc = step]

-----------------------------------------------------------------------------
(* run_operation                                                              *)

\* A record that is there and not cancelled is worth a claim.  (Wrong: not one
\* another run had begun.)
WorthRunningFresh(status) == status \notin {"absent", "cancelled", "running"}
WorthRunning(status) == status \notin {"absent", "cancelled"}

LoadRecord(r) ==
    LET next == IF WorthRunning(record[run[r].job].status) THEN "claim" ELSE "return"
    IN  /\ run[r].pc = "load"
        /\ \E reply \in RedisReplies :
             run' = [run EXCEPT ![r] = After(r, reply, [run[r] EXCEPT !.pc = next])]
        /\ UNCHANGED <<storeVars, worker, deferred, outputVars>>

\* A claim also renews the job's slot, without looking at the limit.
MarkJobRunning(r) ==
    LET j == run[r].job
        claim == ClaimResult(j)
        next == CASE claim = CLAIMED -> "start" [] claim = CLAIM_BUSY -> "busy" [] OTHER -> "return"
    IN  /\ run[r].pc = "claim"
        /\ \E reply \in Replies(r) :
             /\ IF claim = CLAIMED /\ TakesEffect(reply)
                THEN record' = Claimed(j, run[r].worker, r) /\ slots' = slots \cup {j}
                ELSE UNCHANGED <<record, slots>>
             /\ run' = [run EXCEPT ![r] = After(r, reply, [run[r] EXCEPT !.pc = next])]
        /\ UNCHANGED <<expiry, queue, lock, tries, beat, disk, metric, worker, deferred, outputVars>>

\* CLAIM_BUSY: refresh the heartbeat, raise Retry(defer=15).
DeferBusyJob(r) ==
    /\ run[r].pc = "busy"
    /\ \E reply \in Replies(r) :
         /\ beat' = IF TakesEffect(reply) THEN beat \cup {run[r].worker} ELSE beat
         /\ run' = [run EXCEPT ![r] = After(r, reply, [run[r] EXCEPT !.pc = "retry"])]
    /\ UNCHANGED <<record, slots, expiry, queue, lock, tries, disk, metric, worker, deferred, outputVars>>

StartOperation(r) ==
    /\ run[r].pc = "start"
    /\ metric' \in Written(RecordStarted(run[r].job))
    /\ shared' = IF Alone(r) THEN shared ELSE shared \cup {run[r].job}
    /\ Goto(r, "execute")
    /\ UNCHANGED <<record, slots, expiry, queue, lock, tries, beat, disk, worker, deferred, left>>

\* What the operation does on its way: it creates, truncates, renames and unlinks
\* files in output/, whoever holds the claim and whoever else writes there.
WriteOutput(r) ==
    /\ run[r].pc = "execute"
    /\ disk' \in OutputWritten(run[r].job)
    /\ UNCHANGED <<record, slots, expiry, queue, lock, tries, beat, metric, worker, run, deferred,
                   outputVars>>

\* execute() needs the uploads and the output directory; it may fail for reasons
\* of its own.  What it leaves of its result is its own doing only where no
\* other run wrote.
ExecuteOperation(r) ==
    LET j == run[r].job
    IN  /\ run[r].pc = "execute"
        /\ \E outcome \in {"succeeded", "failed"} :
             /\ outcome = "succeeded" => {"dir", "files"} \subseteq disk[j]
             /\ disk' \in CASE outcome = "failed" -> {disk}
                            [] j \in shared -> OutputWritten(j)
                            [] OTHER -> {ResultMade(j)}
             /\ run' = [run EXCEPT ![r].pc = "store", ![r].outcome = outcome]
        /\ UNCHANGED <<record, slots, expiry, queue, lock, tries, beat, metric, worker, deferred, outputVars>>

StoreTerminalState(r) ==
    LET j == run[r].job
        next == IF MayStore(j, r) THEN [run[r] EXCEPT !.pc = "metric", !.stored = TRUE]
                ELSE [run[r] EXCEPT !.pc = "finish"]
    IN  /\ run[r].pc = "store"
        /\ \E reply \in Replies(r) :
             /\ IF MayStore(j, r) /\ TakesEffect(reply)
                THEN record' = Stored(j, run[r].outcome) /\ expiry' = expiry \cup {j}
                ELSE UNCHANGED <<record, expiry>>
             /\ run' = [run EXCEPT ![r] = After(r, reply, next)]
        /\ UNCHANGED <<slots, queue, lock, tries, beat, disk, metric, worker, deferred, outputVars>>

TerminalMetric(r) ==
    /\ run[r].pc = "metric"
    /\ metric' \in Written(RecordTerminal(run[r].job, run[r].outcome))
    /\ Goto(r, "finish")
    /\ UNCHANGED <<record, slots, expiry, queue, lock, tries, beat, disk, worker, deferred, outputVars>>

\* Only the run that ended the job, or that finds it cancelled, cleans up.
\* (Wrong: every run, only an ended job's, only a cancelled job's.)
CleansUpAlways(stored, seen) == TRUE
CleansUpEnded(stored, seen) == stored
CleansUpCancelled(stored, seen) == seen = "cancelled"
CleansUp(stored, seen) == stored \/ seen = "cancelled"

\* The finally clause gives the claim back first.
FinishJobClaim(r) ==
    LET j == run[r].job
        seen == IF Holds(r) THEN record[j].status ELSE "none"
        next == IF CleansUp(run[r].stored, seen) THEN "clean" ELSE "beat"
    IN  /\ run[r].pc = "finish"
        /\ \E reply \in Replies(r) :
             /\ record' = IF Holds(r) /\ TakesEffect(reply) THEN Unclaimed(j) ELSE record
             /\ run' = [run EXCEPT ![r] =
                          After(r, reply, [run[r] EXCEPT !.pc = next, !.outcome = seen])]
        /\ UNCHANGED <<slots, expiry, queue, lock, tries, beat, disk, metric, worker, deferred, outputVars>>

\* A cancelled job loses its directory, any other its uploads, if input/ exists.
CleanDirectory(r) ==
    LET j == run[r].job
    IN  /\ run[r].pc = "clean"
        /\ \/ /\ run[r].outcome = "cancelled"
              /\ disk' = DirectoryRemoved(j)
              /\ Goto(r, "release")
           \/ /\ run[r].outcome # "cancelled"
              /\ Goto(r, IF "dir" \in disk[j] THEN "unlink" ELSE "release")
              /\ UNCHANGED disk
        /\ UNCHANGED <<record, slots, expiry, queue, lock, tries, beat, metric, worker, deferred, outputVars>>

\* iterdir() raises when a DELETE removed the directory since exists().
UnlinkInputs(r) ==
    LET j == run[r].job
    IN  /\ run[r].pc = "unlink"
        /\ \/ /\ "dir" \in disk[j]
              /\ disk' = [disk EXCEPT ![j] = @ \ {"files"}]
              /\ Goto(r, "release")
           \/ /\ "dir" \notin disk[j]
              /\ Goto(r, "return")
              /\ UNCHANGED disk
        /\ UNCHANGED <<record, slots, expiry, queue, lock, tries, beat, metric, worker, deferred, outputVars>>

ReleaseActiveJob(r) ==
    /\ run[r].pc = "release"
    /\ \E reply \in Replies(r) :
         /\ slots' = IF TakesEffect(reply) THEN slots \ {run[r].job} ELSE slots
         /\ run' = [run EXCEPT ![r] = After(r, reply, [run[r] EXCEPT !.pc = "beat"])]
    /\ UNCHANGED <<record, expiry, queue, lock, tries, beat, disk, metric, worker, deferred, outputVars>>

FinalHeartbeat(r) ==
    /\ run[r].pc = "beat"
    /\ \E reply \in Replies(r) :
         /\ beat' = IF TakesEffect(reply) THEN beat \cup {run[r].worker} ELSE beat
         /\ run' = [run EXCEPT ![r] =
                      After(r, reply, [run[r] EXCEPT !.pc = ExitStep(run[r].interrupt)])]
    /\ UNCHANGED <<record, slots, expiry, queue, lock, tries, disk, metric, worker, deferred, outputVars>>

RunStep(r) ==
    \/ LoadRecord(r) \/ MarkJobRunning(r) \/ DeferBusyJob(r) \/ StartOperation(r)
    \/ ExecuteOperation(r) \/ StoreTerminalState(r) \/ TerminalMetric(r) \/ FinishJobClaim(r)
    \/ CleanDirectory(r) \/ UnlinkInputs(r) \/ ReleaseActiveJob(r) \/ FinalHeartbeat(r)

-----------------------------------------------------------------------------
(* arq around run_operation (external)                                        *)

\* arq takes a queued job nobody has locked, up to max_tries times.  The run's
\* uuid4 token is fresh.  (Wrong: one try too many.)
TriesLeftOffByOne(j) == tries[j] <= MaxTries
TriesLeft(j) == tries[j] < MaxTries

StartJob(w, r, j) ==
    /\ worker[w] = "up"
    /\ Cardinality(RunsOf(w)) < Concurrency
    /\ j \in queue \ (lock \cup deferred)
    /\ TriesLeft(j)
    /\ run[r] = Idle
    /\ \A k \in Jobs : record[k].token # r
    /\ lock' = lock \cup {j}
    /\ tries' = [tries EXCEPT ![j] = @ + 1]
    /\ run' = [run EXCEPT ![r] = [Idle EXCEPT !.pc = "load", !.job = j, !.worker = w]]
    /\ UNCHANGED <<record, slots, expiry, queue, beat, disk, metric, worker, deferred, outputVars>>

\* A job whose tries are used up is dropped without being run.
GiveUpJob(w, j) ==
    /\ worker[w] = "up"
    /\ j \in queue \ (lock \cup deferred)
    /\ tries[j] = MaxTries
    /\ queue' = queue \ {j}
    /\ UNCHANGED <<record, slots, expiry, lock, tries, beat, disk, metric, worker, run, deferred, outputVars>>

\* The run returned or raised: the job leaves the queue.
FinishJob(r) ==
    /\ run[r].pc = "return"
    /\ queue' = queue \ {run[r].job}
    /\ lock' = lock \ {run[r].job}
    /\ run' = [run EXCEPT ![r] = Idle]
    /\ UNCHANGED <<record, slots, expiry, tries, beat, disk, metric, worker, deferred, outputVars>>

\* Retry, or cancelled by a shutdown: the job stays queued for another run, a
\* Retry for CLAIM_RETRY_SECONDS later.
RequeueJob(r) ==
    /\ run[r].pc \in {"retry", "requeue"}
    /\ lock' = lock \ {run[r].job}
    /\ deferred' = IF run[r].pc = "retry" THEN deferred \cup {run[r].job} ELSE deferred
    /\ run' = [run EXCEPT ![r] = Idle]
    /\ UNCHANGED <<record, slots, expiry, queue, tries, beat, disk, metric, worker, outputVars>>

\* A worker that only has its on_shutdown left is gone within those seconds.
DeferEnds(j) ==
    /\ j \in deferred
    /\ \A w \in Workers : worker[w] = "stopping" => RunsOf(w) # {} \/ "stall" \in Faults
    /\ deferred' = deferred \ {j}
    /\ UNCHANGED <<storeVars, worker, run, outputVars>>

\* Cancellation delivered at an await whose command has not taken effect.
\* clean and unlink are synchronous code: nothing is delivered there.  Six of the
\* operations run in a thread, which nothing cancels.
ThreadLeft(r) == [left EXCEPT ![run[r].worker] = @ \cup {run[r].job}]

Interrupt(r) ==
    /\ run[r].pc \in TrySteps \cup {"load", "claim", "busy", "finish", "release", "beat"}
    /\ \E why \in Interrupts(r) : run' = [run EXCEPT ![r] = CancelledRun(r, why)]
    /\ left' \in {left} \cup (IF run[r].pc = "execute" THEN {ThreadLeft(r)} ELSE {})
    /\ UNCHANGED <<storeVars, worker, deferred, shared>>

\* The thread of a cancelled run writes to output/, and ends some time.
ThreadStep(w, j) ==
    /\ j \in left[w]
    /\ disk' \in OutputWritten(j)
    /\ left' \in {left, [left EXCEPT ![w] = @ \ {j}]}
    /\ UNCHANGED <<record, slots, expiry, queue, lock, tries, beat, metric, worker, run, deferred,
                   shared>>

-----------------------------------------------------------------------------
(* The worker process                                                         *)

OnStartup(w) ==
    /\ worker[w] = "off"
    /\ worker' = [worker EXCEPT ![w] = "up"]
    /\ beat' = beat \cup {w}
    /\ UNCHANGED <<record, slots, expiry, queue, lock, tries, disk, metric, run, deferred, outputVars>>

HeartbeatLoop(w) ==
    /\ worker[w] = "up"
    /\ beat' = beat \cup {w}
    /\ UNCHANGED <<record, slots, expiry, queue, lock, tries, disk, metric, worker, run, deferred, outputVars>>

\* A process that is not the last one may stop or die: the environment bounds
\* the restarts by the number of worker processes.
Replaceable(w) == \E v \in Workers \ {w} : worker[v] \in {"off", "up"}

Shutdown(w) ==
    /\ "shutdown" \in Faults
    /\ worker[w] = "up"
    /\ Replaceable(w)
    /\ worker' = [worker EXCEPT ![w] = "stopping"]
    /\ UNCHANGED <<storeVars, run, deferred, outputVars>>

\* on_shutdown runs when every cancelled run has ended; it deletes the heartbeat.
\* The interpreter then waits for the threads that are left.
OnShutdown(w) ==
    /\ worker[w] = "stopping"
    /\ RunsOf(w) = {}
    /\ worker' = [worker EXCEPT ![w] = "dead"]
    /\ beat' = beat \ {w}
    /\ UNCHANGED <<record, slots, expiry, queue, lock, tries, disk, metric, run, deferred, outputVars>>

\* A killed process leaves its claims, arq locks and heartbeat behind.
WorkerCrash(w) ==
    /\ "worker_crash" \in Faults
    /\ worker[w] \in {"up", "stopping"}
    /\ Replaceable(w)
    /\ worker' = [worker EXCEPT ![w] = "dead"]
    /\ run' = [r \in Runs |-> IF run[r].worker = w THEN Idle ELSE run[r]]
    /\ left' = [left EXCEPT ![w] = {}]
    /\ UNCHANGED <<storeVars, deferred, shared>>

WorkerNext ==
    \/ \E r \in Runs : RunStep(r) \/ WriteOutput(r) \/ FinishJob(r) \/ RequeueJob(r) \/ Interrupt(r)
    \/ \E w \in Workers, r \in Runs, j \in Jobs : StartJob(w, r, j)
    \/ \E w \in Workers, j \in Jobs : GiveUpJob(w, j) \/ ThreadStep(w, j)
    \/ \E j \in Jobs : DeferEnds(j)
    \/ \E w \in Workers : OnStartup(w) \/ HeartbeatLoop(w) \/ Shutdown(w) \/ OnShutdown(w)
                          \/ WorkerCrash(w)
=============================================================================
