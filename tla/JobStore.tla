------------------------------ MODULE JobStore ------------------------------
(* What the API, the workers and the cleanup service of gpthub-tools share:   *)
(* the Redis keys of a job, the arq queue, the job directories on disk and    *)
(* the metrics row.  Every operator below is one Redis command, one Lua       *)
(* script or one file-system call: the unit of atomicity of the system.       *)
(* All jobs belong to one client address, so `slots' is one active:<ip> set;  *)
(* other addresses share no slot with it.                                     *)
EXTENDS Naturals, FiniteSets

CONSTANTS
    Jobs,        \* job ids; each is minted once (secrets.token_urlsafe)
    Workers,     \* worker processes: a restarted worker is a new element
    Runs,        \* executions of run_operation; a run is its own run_token
    Requests,    \* DELETE requests under way at the API
    MaxActive,   \* settings.max_active_jobs_per_ip
    MaxTries,    \* arq's max_tries
    Concurrency, \* WORKER_CONCURRENCY: jobs one worker runs at a time
    NoWorker,    \* no run_owner field
    NoRun,       \* no run_token field
    NoJob,       \* no job in hand
    Faults       \* the faults the environment may inject

FaultKinds == {"worker_crash", "api_crash", "cleanup_crash", "shutdown",
               "timeout", "stall", "redis_error", "redis_restart",
               "metrics_error", "long_wait"}

ASSUME ConstantsAssumption ==
    /\ MaxActive \in Nat \ {0}
    /\ MaxTries \in Nat \ {0}
    /\ Concurrency \in Nat \ {0}
    /\ Faults \subseteq FaultKinds
    /\ IsFiniteSet(Jobs)
    /\ NoWorker \notin Workers
    /\ NoRun \notin Runs
    /\ NoJob \notin Jobs

VARIABLES
    record,  \* job:<id>: status, run_owner, run_token, and whether it has a TTL
    slots,   \* active:<ip>: the jobs that hold a concurrency slot
    expiry,  \* job-expirations: the jobs the cleanup sweep will look at
    queue,   \* arq's queue: the jobs still to be run
    lock,    \* arq's in-progress keys
    tries,   \* arq's retry counter per job
    beat,    \* worker-heartbeat:<id>: the workers whose heartbeat key exists
    disk,    \* what a job's directory holds
    metric   \* the status column of the job's metrics row

storeVars == <<record, slots, expiry, queue, lock, tries, beat, disk, metric>>

Live == {"queued", "running"}
Terminal == {"succeeded", "failed", "cancelled"}
Status == Live \cup Terminal

Records == [status: Status \cup {"absent"}, owner: Workers \cup {NoWorker},
            token: Runs \cup {NoRun}, ttl: BOOLEAN]

Absent == [status |-> "absent", owner |-> NoWorker, token |-> NoRun, ttl |-> FALSE]

\* "dir": the directory with input/ and output/; "files": the uploads in
\* input/; "result": a complete result in output/.
DiskContents == SUBSET {"dir", "files", "result"}

StoreTypeOK ==
    /\ record \in [Jobs -> Records]
    /\ slots \subseteq Jobs
    /\ expiry \subseteq Jobs
    /\ queue \subseteq Jobs
    /\ lock \subseteq Jobs
    /\ tries \in [Jobs -> 0..MaxTries]
    /\ beat \subseteq Workers
    /\ disk \in [Jobs -> DiskContents]
    /\ metric \in [Jobs -> Status \cup {"none"}]

StoreInit ==
    /\ record = [j \in Jobs |-> Absent]
    /\ slots = {}
    /\ expiry = {}
    /\ queue = {}
    /\ lock = {}
    /\ tries = [j \in Jobs |-> 0]
    /\ beat = {}
    /\ disk = [j \in Jobs |-> {}]
    /\ metric = [j \in Jobs |-> "none"]

-----------------------------------------------------------------------------
(* Redis commands and scripts, as the value the key has afterwards.           *)

\* A Redis command may fail before it takes effect ("error") or after, its
\* answer lost ("lost"): redis-py raises the same exception for both.
RedisReplies ==
    {"ok"} \cup (IF "redis_error" \in Faults THEN {"error", "lost"} ELSE {})

\* reserve_active_job grants a slot below the limit.  (Wrong: at the limit.)
SlotFreeAtLimit == Cardinality(slots) <= MaxActive
SlotFree == Cardinality(slots) < MaxActive

Deleted(j) == [record EXCEPT ![j] = Absent]

\* HSET of create_job_record; a key without TTL until the EXPIRE that follows.
Queued(j) == [record EXCEPT ![j] = [Absent EXCEPT !.status = "queued"]]

\* EXPIRE: a no-op on a key that is not there.  (Wrong: left out.)
NeverExpiring(j) == record
Expiring(j) == [record EXCEPT ![j].ttl = (record[j].status # "absent")]

\* mark_job_running: 1 claims, 2 the owner is alive, 0 there is nothing to run.
\* (Wrong: a running job is always somebody else's.)
CLAIMED == 1
CLAIM_BUSY == 2
ClaimWithoutTakeover(j) ==
    IF record[j].status = "queued" THEN CLAIMED ELSE IF record[j].status = "running" THEN CLAIM_BUSY ELSE 0
ClaimResult(j) ==
    IF record[j].status = "queued" \/ (record[j].status = "running" /\ record[j].owner \notin beat)
    THEN CLAIMED
    ELSE IF record[j].status = "running" THEN CLAIM_BUSY ELSE 0

Claimed(j, w, r) ==
    [record EXCEPT ![j] = [status |-> "running", owner |-> w, token |-> r, ttl |-> TRUE]]

\* store_terminal_state: only the run whose token the record holds may end it,
\* and only while the job runs.  (Wrong: either half alone.)
MayStoreUnfenced(j, r) == record[j].status = "running"
MayStoreCancelled(j, r) == record[j].token = r
MayStore(j, r) == record[j].status = "running" /\ record[j].token = r

Stored(j, outcome) ==
    [record EXCEPT ![j] = [@ EXCEPT !.status = outcome, !.ttl = TRUE]]

\* finish_job_claim: HDEL run_owner run_token.
Unclaimed(j) == [record EXCEPT ![j] = [@ EXCEPT !.owner = NoWorker, !.token = NoRun]]

\* cancel_job_transition on a queued or running job.
CancelledRecord(j) ==
    [record EXCEPT ![j] = [@ EXCEPT !.status = "cancelled", !.ttl = TRUE]]

-----------------------------------------------------------------------------
(* The metrics database: _safe_write swallows a failing write.                *)

Written(row) == {row} \cup (IF "metrics_error" \in Faults THEN {metric} ELSE {})

\* INSERT OR IGNORE
RecordAccepted(j) == IF metric[j] = "none" THEN [metric EXCEPT ![j] = "queued"] ELSE metric

RecordStarted(j) == IF metric[j] = "queued" THEN [metric EXCEPT ![j] = "running"] ELSE metric

\* UPDATE ... WHERE status IN ('queued', 'running').  (Wrong: 'running' only.)
RecordTerminalStarted(j, status) ==
    IF metric[j] = "running" THEN [metric EXCEPT ![j] = status] ELSE metric

RecordTerminal(j, status) ==
    IF metric[j] \in Live THEN [metric EXCEPT ![j] = status] ELSE metric

-----------------------------------------------------------------------------
(* The shared volume.                                                         *)

DirectoryRemoved(j) == [disk EXCEPT ![j] = {}]
=============================================================================
