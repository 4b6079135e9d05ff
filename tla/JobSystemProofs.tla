--------------------------- MODULE JobSystemProofs ---------------------------
(* Machine-checked facts about JobSystem, for every number of jobs, workers,  *)
(* runs and requests and under every combination of faults: the life cycle of *)
(* a job, then the claims, the heartbeats, the metrics rows, the slots and the *)
(* uploads, and that JobSystem implements JobPromise.  What depends on the     *)
(* environment names the faults it excludes.                                   *)
EXTENDS JobSystem, TLAPS, FiniteSetTheorems

(* What the commands and scripts of JobStore leave behind has the right type. *)

LEMMA RecordCommandTypes ==
    ASSUME StoreTypeOK, NEW j \in Jobs
    PROVE  /\ Deleted(j) \in [Jobs -> Records]
           /\ Queued(j) \in [Jobs -> Records]
           /\ Expiring(j) \in [Jobs -> Records]
           /\ Unclaimed(j) \in [Jobs -> Records]
           /\ CancelledRecord(j) \in [Jobs -> Records]
  <1>1. Absent \in Records /\ [Absent EXCEPT !.status = "queued"] \in Records
    BY DEF Absent, Records, Status, Live
  <1>2. record[j] \in Records
    BY DEF StoreTypeOK
  <1>3. /\ [record[j] EXCEPT !.ttl = (record[j].status # "absent")] \in Records
        /\ [record[j] EXCEPT !.status = "cancelled", !.ttl = TRUE] \in Records
        /\ [record[j] EXCEPT !.owner = NoWorker, !.token = NoRun] \in Records
    BY <1>2 DEF Records, Status, Live, Terminal
  <1> QED
    BY <1>1, <1>3, Zenon DEF StoreTypeOK, Deleted, Queued, Expiring, Unclaimed, CancelledRecord

LEMMA ClaimedType ==
    ASSUME StoreTypeOK, NEW j \in Jobs, NEW w \in Workers, NEW r \in Runs
    PROVE  Claimed(j, w, r) \in [Jobs -> Records]
  <1>1. [status |-> "running", owner |-> w, token |-> r, ttl |-> TRUE] \in Records
    BY DEF Records, Status, Live
  <1> QED BY <1>1 DEF StoreTypeOK, Claimed

LEMMA StoredType ==
    ASSUME StoreTypeOK, NEW j \in Jobs, NEW s \in Status
    PROVE  Stored(j, s) \in [Jobs -> Records]
  <1>1. [record[j] EXCEPT !.status = s, !.ttl = TRUE] \in Records
    BY DEF StoreTypeOK, Records
  <1> QED BY <1>1, Zenon DEF StoreTypeOK, Stored

LEMMA MetricTypes ==
    ASSUME StoreTypeOK, NEW j \in Jobs, NEW s \in Status
    PROVE  /\ RecordAccepted(j) \in [Jobs -> Status \cup {"none"}]
           /\ RecordStarted(j) \in [Jobs -> Status \cup {"none"}]
           /\ RecordTerminal(j, s) \in [Jobs -> Status \cup {"none"}]
           /\ Written(RecordAccepted(j)) \subseteq [Jobs -> Status \cup {"none"}]
           /\ Written(RecordStarted(j)) \subseteq [Jobs -> Status \cup {"none"}]
           /\ Written(RecordTerminal(j, s)) \subseteq [Jobs -> Status \cup {"none"}]
  <1>1. /\ RecordAccepted(j) \in [Jobs -> Status \cup {"none"}]
        /\ RecordStarted(j) \in [Jobs -> Status \cup {"none"}]
        /\ RecordTerminal(j, s) \in [Jobs -> Status \cup {"none"}]
    BY DEF StoreTypeOK, RecordAccepted, RecordStarted, RecordTerminal, Status, Live
  <1>2. metric \in [Jobs -> Status \cup {"none"}]
    BY DEF StoreTypeOK
  <1> QED BY <1>1, <1>2 DEF Written

-----------------------------------------------------------------------------
(* Types.  One lemma per component: its steps keep the types of the store and *)
(* of its own variables; it does not touch those of the others.               *)

LEMMA ApiTypes ==
    ASSUME TypeOK, ApiNext, UNCHANGED <<workerVars, cleanupVars>>
    PROVE  TypeOK'
  <1> USE DEF TypeOK
  <1>1. WorkerTypeOK' /\ CleanupTypeOK'
    BY DEF workerVars, outputVars, cleanupVars, WorkerTypeOK, CleanupTypeOK
  <1>2. ASSUME NEW j \in Jobs, CreateStep(j) \/ CreateCrash(j)
        PROVE  StoreTypeOK' /\ ApiTypeOK'
    <2> USE DEF CreateStep, CreateCrash, ReserveActiveJob, ConsumeRate, SaveUploads, CreateJobRecord,
         ExpireJobRecord, AcceptMetric, EnqueueJob, UndoMetric, UndoDirectory, UndoRecord, UndoSlot
    <2>1. ApiTypeOK'
      BY <1>2 DEF ApiTypeOK, CreateGoto, CreateSteps, UndoSteps, CreateOver, storeVars
    <2>2. record' \in [Jobs -> Records]
      BY <1>2, RecordCommandTypes DEF StoreTypeOK, storeVars
    <2>3. disk' \in [Jobs -> DiskContents]
      BY <1>2 DEF StoreTypeOK, storeVars, DirectoryRemoved, DiskContents
    <2>4. metric' \in [Jobs -> Status \cup {"none"}]
      <3>1. "failed" \in Status
        BY DEF Status, Terminal
      <3>2. /\ Written(RecordAccepted(j)) \subseteq [Jobs -> Status \cup {"none"}]
            /\ Written(RecordTerminal(j, "failed")) \subseteq [Jobs -> Status \cup {"none"}]
        BY <3>1, MetricTypes
      <3> QED BY <1>2, <3>2 DEF StoreTypeOK, storeVars
    <2>5. slots' \subseteq Jobs /\ expiry' \subseteq Jobs /\ queue' \subseteq Jobs /\ lock' \subseteq Jobs
          /\ tries' \in [Jobs -> 0..MaxTries] /\ beat' \subseteq Workers
      BY <1>2 DEF StoreTypeOK, storeVars
    <2> QED BY <2>1, <2>2, <2>3, <2>4, <2>5 DEF StoreTypeOK
  <1>3. ASSUME NEW q \in Requests, DeleteStep(q) \/ RequestCrash(q)
        PROVE  StoreTypeOK' /\ ApiTypeOK'
    <2> USE DEF DeleteStep, RequestCrash, CancelJobTransition, CancelMetric, CancelRemoveDirectory,
         CancelRelease, DeleteDirectory, DeleteRecord, DeleteExpiry
    <2> DEFINE j == request[q].job
    <2>1. j \in Jobs
      BY <1>3 DEF ApiTypeOK, NoRequest
    <2>2. ApiTypeOK'
      <3>1. record[j].status \in Status \cup {"absent"}
        BY <2>1 DEF StoreTypeOK, Records
      <3>2. NoRequest \in [pc: RequestSteps, job: Jobs \cup {NoJob}, prev: Status \cup {"absent"}]
        BY DEF NoRequest, RequestSteps
      <3>3. /\ request' \in [Requests -> [pc: RequestSteps, job: Jobs \cup {NoJob}, prev: Status \cup {"absent"}]]
            /\ create' = create
        BY <1>3, <3>1, <3>2 DEF ApiTypeOK, RequestGoto, NextAfterTransition, RequestSteps
      <3>4. \A p \in Requests : request'[p].pc # "idle" => request'[p].job \in Jobs
        BY <1>3, <2>1 DEF ApiTypeOK, RequestGoto, NoRequest
      <3> QED BY <3>3, <3>4 DEF ApiTypeOK
    <2>3. record' \in [Jobs -> Records]
      BY <1>3, <2>1, RecordCommandTypes DEF StoreTypeOK, storeVars
    <2>4. metric' \in [Jobs -> Status \cup {"none"}]
      <3>1. "cancelled" \in Status
        BY DEF Status, Terminal
      <3>2. Written(RecordTerminal(j, "cancelled")) \subseteq [Jobs -> Status \cup {"none"}]
        BY <2>1, <3>1, MetricTypes
      <3> QED BY <1>3, <3>2 DEF StoreTypeOK, storeVars
    <2>5. disk' \in [Jobs -> DiskContents]
      BY <1>3 DEF StoreTypeOK, storeVars, DirectoryRemoved, DiskContents
    <2>6. slots' \subseteq Jobs /\ expiry' \subseteq Jobs /\ queue' \subseteq Jobs /\ lock' \subseteq Jobs
          /\ tries' \in [Jobs -> 0..MaxTries] /\ beat' \subseteq Workers
      BY <1>3, <2>1 DEF StoreTypeOK, storeVars
    <2> QED BY <2>2, <2>3, <2>4, <2>5, <2>6 DEF StoreTypeOK
  <1>4. ASSUME NEW q \in Requests, NEW j \in Jobs, AuthorizedJob(q, j)
        PROVE  StoreTypeOK' /\ ApiTypeOK'
    BY <1>4 DEF AuthorizedJob, ApiTypeOK, StoreTypeOK, storeVars, RequestSteps
  <1> QED BY <1>1, <1>2, <1>3, <1>4 DEF ApiNext

LEMMA CleanupTypes ==
    ASSUME TypeOK, CleanupNext, UNCHANGED <<apiVars, workerVars>>
    PROVE  TypeOK'
  <1> USE DEF TypeOK
  <1>1. WorkerTypeOK' /\ ApiTypeOK'
    BY DEF workerVars, outputVars, apiVars, WorkerTypeOK, ApiTypeOK
  <1>2. ASSUME NEW j \in Jobs, ReadExpired(j) \/ ScanOrphan(j)
        PROVE  StoreTypeOK' /\ CleanupTypeOK'
    BY <1>2 DEF ReadExpired, ScanOrphan, NextAfterRead, CleanupTypeOK, StoreTypeOK, storeVars, SweepSteps, Records
  <1>3. ASSUME SweepStep \/ CleanupCrash
        PROVE  StoreTypeOK' /\ CleanupTypeOK'
    <2> USE DEF SweepStep, CleanupCrash, CheckOwner, PostponeOwned, SweepRelease,
         SweepRemoveDirectory, SweepDelete, SweepUnlist
    <2>1. sweep.job \in Jobs
      BY <1>3 DEF CleanupTypeOK
    <2>2. CleanupTypeOK'
      BY <1>3, <2>1 DEF CleanupTypeOK, SweepAfter, SweepGoto, NoSweep, SweepSteps, storeVars
    <2>3. record' \in [Jobs -> Records]
      BY <1>3, <2>1, RecordCommandTypes DEF StoreTypeOK, storeVars
    <2>4. disk' \in [Jobs -> DiskContents]
      BY <1>3, <2>1 DEF StoreTypeOK, storeVars, DirectoryRemoved, DiskContents
    <2>5. slots' \subseteq Jobs /\ expiry' \subseteq Jobs /\ queue' \subseteq Jobs /\ lock' \subseteq Jobs
          /\ tries' \in [Jobs -> 0..MaxTries] /\ beat' \subseteq Workers
          /\ metric' \in [Jobs -> Status \cup {"none"}]
      BY <1>3, <2>1 DEF StoreTypeOK, storeVars
    <2> QED BY <2>2, <2>3, <2>4, <2>5 DEF StoreTypeOK
  <1> QED BY <1>1, <1>2, <1>3 DEF CleanupNext

LEMMA EnvironmentTypes ==
    ASSUME TypeOK, EnvironmentNext, UNCHANGED <<apiVars, workerVars, cleanupVars>>
    PROVE  TypeOK'
  <1> USE DEF TypeOK
  <1>1. WorkerTypeOK' /\ ApiTypeOK' /\ CleanupTypeOK'
    BY DEF workerVars, outputVars, apiVars, cleanupVars, WorkerTypeOK, ApiTypeOK, CleanupTypeOK
  <1>2. ASSUME NEW j \in Jobs, RecordExpires(j) \/ SlotLapses(j) \/ LockExpires(j)
        PROVE  StoreTypeOK'
    BY <1>2, RecordCommandTypes DEF RecordExpires, SlotLapses, LockExpires, StoreTypeOK
  <1>3. ASSUME NEW w \in Workers, BeatExpires(w)
        PROVE  StoreTypeOK'
    BY <1>3 DEF BeatExpires, StoreTypeOK
  <1>4. ASSUME RedisRestart
        PROVE  StoreTypeOK'
    BY <1>4, ConstantsAssumption DEF RedisRestart, StoreTypeOK, Absent, Records
  <1> QED BY <1>1, <1>2, <1>3, <1>4 DEF EnvironmentNext

\* The run record after a step: where each of its fields comes from.
RunRecords ==
    [pc: RunSteps, job: Jobs \cup {NoJob}, worker: Workers \cup {NoWorker},
     outcome: Status \cup {"absent", "none"}, stored: BOOLEAN, interrupt: {"none", "shutdown", "timeout"}]

\* What WorkerTypeOK says of one run.
GoodRun(x) ==
    /\ x \in RunRecords
    /\ x.pc # "idle" => x.job \in Jobs /\ x.worker \in Workers
    /\ x.pc \in {"store", "metric"} => x.outcome \in {"succeeded", "failed"}

LEMMA GoodRuns ==
    WorkerTypeOK <=> /\ worker \in [Workers -> {"off", "up", "stopping", "dead"}]
                     /\ run \in [Runs -> RunRecords]
                     /\ \A r \in Runs : GoodRun(run[r])
                     /\ deferred \subseteq Jobs
                     /\ left \in [Workers -> SUBSET Jobs] /\ shared \subseteq Jobs
  BY DEF WorkerTypeOK, GoodRun, RunRecords

\* However a command of a run ends, its run record stays well formed.
LEMMA AfterIsGood ==
    ASSUME WorkerTypeOK, NEW r \in Runs, run[r].pc # "idle",
           NEW reply \in Replies(r), NEW next, GoodRun(next)
    PROVE  GoodRun(After(r, reply, next))
  <1>1. GoodRun(run[r])
    BY GoodRuns
  <1>2. reply \in {"ok", "error", "lost", "shutdown", "timeout"}
    BY DEF Replies, RedisReplies, Interrupts
  <1>3. GoodRun(RaisedRun(r))
    BY <1>1 DEF RaisedRun, GoodRun, RunRecords, RunSteps, Status, Terminal
  <1>4. ASSUME reply \in {"shutdown", "timeout"}
        PROVE  GoodRun(CancelledRun(r, reply))
    <2>1. \A step \in {"finish", "requeue", "return"} :
            GoodRun([run[r] EXCEPT !.pc = step, !.interrupt = reply])
      BY <1>1, <1>4 DEF GoodRun, RunRecords, RunSteps
    <2> QED BY <2>1 DEF CancelledRun, ExitStep
  <1> QED BY <1>2, <1>3, <1>4 DEF After

\* Whatever is written to output/, only the job's result comes or goes.
LEMMA WrittenOutputs ==
    ASSUME StoreTypeOK, NEW j \in Jobs, NEW d \in OutputWritten(j)
    PROVE  /\ \E c \in DiskContents : d = [disk EXCEPT ![j] = c]
           /\ \A k \in Jobs : d[k] \ {"result"} = disk[k] \ {"result"}
           /\ \A k \in Jobs \ {j} : d[k] = disk[k]
           /\ \A k \in Jobs : disk[k] = {} => d[k] = {}
           /\ d \in [Jobs -> DiskContents]
  BY DEF OutputWritten, ResultMade, ResultLost, StoreTypeOK, DiskContents

\* So it is when an operation ends.
LEMMA OperationOutputs ==
    ASSUME NEW r \in Runs, ExecuteOperation(r)
    PROVE  disk' \in OutputWritten(run[r].job)
  <1>1. PICK outcome \in {"succeeded", "failed"} :
          disk' \in CASE outcome = "failed" -> {disk}
                     [] run[r].job \in shared -> OutputWritten(run[r].job)
                     [] OTHER -> {ResultMade(run[r].job)}
    BY DEF ExecuteOperation
  <1> QED BY <1>1 DEF OutputWritten

LEMMA WorkerTypes ==
    ASSUME TypeOK, WorkerNext, UNCHANGED <<apiVars, cleanupVars>>
    PROVE  TypeOK'
  <1> USE DEF TypeOK
  <1>1. ApiTypeOK' /\ CleanupTypeOK'
    BY DEF apiVars, cleanupVars, ApiTypeOK, CleanupTypeOK
  <1>2. ASSUME NEW r \in Runs, RunStep(r)
        PROVE  StoreTypeOK' /\ WorkerTypeOK'
    <2> DEFINE j == run[r].job
    <2> USE DEF LoadRecord, MarkJobRunning, DeferBusyJob, StartOperation, ExecuteOperation,
         StoreTerminalState, TerminalMetric, FinishJobClaim, CleanDirectory, UnlinkInputs,
         ReleaseActiveJob, FinalHeartbeat, RunStep
    <2>1. j \in Jobs /\ run[r].worker \in Workers /\ run[r].pc # "idle" /\ GoodRun(run[r])
      BY <1>2, GoodRuns DEF WorkerTypeOK
    <2>2. WorkerTypeOK'
      <3>1. PICK x : GoodRun(x) /\ run' = [run EXCEPT ![r] = x]
        <4>1. CASE LoadRecord(r)
          <5>1. \A reply \in RedisReplies : reply \in Replies(r)
            BY DEF Replies
          <5>2. \A step \in {"claim", "return"} : GoodRun([run[r] EXCEPT !.pc = step])
            BY <2>1 DEF GoodRun, RunRecords, RunSteps
          <5> QED BY <4>1, <5>1, <5>2, <2>1, AfterIsGood
        <4>2. CASE MarkJobRunning(r)
          <5>1. \A step \in {"start", "busy", "return"} : GoodRun([run[r] EXCEPT !.pc = step])
            BY <2>1 DEF GoodRun, RunRecords, RunSteps
          <5> QED BY <4>2, <5>1, <2>1, AfterIsGood
        <4>3. CASE DeferBusyJob(r)
          <5>1. GoodRun([run[r] EXCEPT !.pc = "retry"])
            BY <2>1 DEF GoodRun, RunRecords, RunSteps
          <5> QED BY <4>3, <5>1, <2>1, AfterIsGood
        <4>4. CASE StartOperation(r)
          <5>1. GoodRun([run[r] EXCEPT !.pc = "execute"])
            BY <2>1 DEF GoodRun, RunRecords, RunSteps
          <5> QED BY <4>4, <5>1 DEF Goto
        <4>5. CASE ExecuteOperation(r)
          <5>1. \A outcome \in {"succeeded", "failed"} :
                  GoodRun([run[r] EXCEPT !.pc = "store", !.outcome = outcome])
            BY <2>1 DEF GoodRun, RunRecords, RunSteps, Status, Terminal
          <5> QED BY <4>5, <5>1, ZenonT(30)
        <4>6. CASE StoreTerminalState(r)
          <5>1. /\ GoodRun([run[r] EXCEPT !.pc = "metric", !.stored = TRUE])
                /\ GoodRun([run[r] EXCEPT !.pc = "finish"])
            BY <4>6, <2>1 DEF GoodRun, RunRecords, RunSteps
          <5> QED BY <4>6, <5>1, <2>1, AfterIsGood
        <4>7. CASE TerminalMetric(r)
          <5>1. GoodRun([run[r] EXCEPT !.pc = "finish"])
            BY <2>1 DEF GoodRun, RunRecords, RunSteps
          <5> QED BY <4>7, <5>1 DEF Goto
        <4>8. CASE FinishJobClaim(r)
          <5> DEFINE seen == IF Holds(r) THEN record[j].status ELSE "none"
          <5>1. seen \in Status \cup {"absent", "none"}
            BY <2>1 DEF StoreTypeOK, Records
          <5>2. \A step \in {"clean", "beat"} : GoodRun([run[r] EXCEPT !.pc = step, !.outcome = seen])
            BY <2>1, <5>1, ZenonT(30) DEF GoodRun, RunRecords, RunSteps
          <5> QED BY <4>8, <5>2, <2>1, AfterIsGood
        <4>9. CASE CleanDirectory(r) \/ UnlinkInputs(r)
          <5>1. \A step \in {"release", "unlink", "return"} : GoodRun([run[r] EXCEPT !.pc = step])
            BY <2>1 DEF GoodRun, RunRecords, RunSteps
          <5> QED BY <4>9, <5>1 DEF Goto
        <4>10. CASE ReleaseActiveJob(r) \/ FinalHeartbeat(r)
          <5>1. \A step \in {"beat", "return", "requeue"} : GoodRun([run[r] EXCEPT !.pc = step])
            BY <2>1 DEF GoodRun, RunRecords, RunSteps
          <5> QED BY <4>10, <5>1, <2>1, AfterIsGood DEF ExitStep
        <4> QED BY <1>2, <4>1, <4>2, <4>3, <4>4, <4>5, <4>6, <4>7, <4>8, <4>9, <4>10
      <3>2. /\ worker' = worker /\ deferred' = deferred
            /\ left' = left /\ shared' \subseteq Jobs
        BY <1>2, <2>1 DEF WorkerTypeOK, outputVars
      <3> QED BY <3>1, <3>2, GoodRuns DEF WorkerTypeOK, GoodRun, RunRecords
    <2>3. record' \in [Jobs -> Records]
      <3>1. /\ \A w \in Workers : Claimed(j, w, r) \in [Jobs -> Records]
            /\ \A s \in Status : Stored(j, s) \in [Jobs -> Records]
            /\ Unclaimed(j) \in [Jobs -> Records]
        BY <2>1, RecordCommandTypes, ClaimedType, StoredType
      <3>2. run[r].pc = "store" => run[r].outcome \in Status
        BY <2>1 DEF GoodRun, Status, Terminal
      <3> QED BY <1>2, <2>1, <3>1, <3>2 DEF StoreTypeOK, storeVars
    <2>4. metric' \in [Jobs -> Status \cup {"none"}]
      <3>1. run[r].pc = "metric" => run[r].outcome \in Status
        BY <2>1 DEF GoodRun, Status, Terminal
      <3>2. /\ Written(RecordStarted(j)) \subseteq [Jobs -> Status \cup {"none"}]
            /\ \A s \in Status : Written(RecordTerminal(j, s)) \subseteq [Jobs -> Status \cup {"none"}]
        <4>1. "failed" \in Status
          BY DEF Status, Terminal
        <4> QED BY <2>1, <4>1, MetricTypes
      <3> QED BY <1>2, <3>1, <3>2 DEF StoreTypeOK, storeVars
    <2>5. disk' \in [Jobs -> DiskContents]
      <3>1. disk \in [Jobs -> DiskContents]
        BY DEF StoreTypeOK
      <3>2. disk' = disk \/ \E d \in DiskContents : disk' = [disk EXCEPT ![j] = d]
        <4>1. CASE ExecuteOperation(r)
          <5>1. disk' \in OutputWritten(j)
            BY <2>1, <4>1, OperationOutputs
          <5> QED BY <2>1, <5>1, WrittenOutputs
        <4>2. CASE ~ExecuteOperation(r)
          BY <1>2, <2>1, <3>1, <4>2 DEF storeVars, DirectoryRemoved, DiskContents
        <4> QED BY <4>1, <4>2
      <3> QED BY <3>1, <3>2
    <2>6. slots' \subseteq Jobs /\ expiry' \subseteq Jobs /\ queue' \subseteq Jobs /\ lock' \subseteq Jobs
          /\ tries' \in [Jobs -> 0..MaxTries] /\ beat' \subseteq Workers
      BY <1>2, <2>1 DEF StoreTypeOK, storeVars
    <2> QED BY <2>2, <2>3, <2>4, <2>5, <2>6 DEF StoreTypeOK
  <1>3. ASSUME NEW r \in Runs, FinishJob(r) \/ RequeueJob(r) \/ Interrupt(r)
        PROVE  StoreTypeOK' /\ WorkerTypeOK'
    <2> USE DEF FinishJob, RequeueJob, Interrupt
    <2>1. run[r].job \in Jobs /\ run[r].pc # "idle" /\ GoodRun(run[r])
      BY <1>3, GoodRuns DEF WorkerTypeOK, TrySteps
    <2>2. GoodRun(Idle)
      BY DEF GoodRun, RunRecords, Idle, RunSteps
    <2>3. \A why \in Interrupts(r) : GoodRun(CancelledRun(r, why))
      <3>1. SUFFICES ASSUME NEW why \in Interrupts(r) PROVE GoodRun(CancelledRun(r, why))
        OBVIOUS
      <3>2. why \in {"shutdown", "timeout"} /\ why \in Replies(r)
        BY DEF Interrupts, Replies
      <3>3. GoodRun(After(r, why, Idle)) /\ After(r, why, Idle) = CancelledRun(r, why)
        BY <2>1, <2>2, <3>2, AfterIsGood DEF After
      <3> QED BY <3>3
    <2>4. PICK x : GoodRun(x) /\ run' = [run EXCEPT ![r] = x]
      BY <1>3, <2>2, <2>3
    <2>5. worker' = worker /\ deferred' \subseteq Jobs
      BY <1>3, <2>1 DEF WorkerTypeOK
    <2>7. left' \in [Workers -> SUBSET Jobs] /\ shared' \subseteq Jobs
      BY <1>3, <2>1, GoodRuns DEF WorkerTypeOK, GoodRun, ThreadLeft, outputVars
    <2>6. WorkerTypeOK'
      BY <2>4, <2>5, <2>7, GoodRuns DEF WorkerTypeOK, GoodRun, RunRecords
    <2> QED BY <1>3, <2>6 DEF StoreTypeOK, storeVars
  <1>4. ASSUME NEW w \in Workers, NEW r \in Runs, NEW j \in Jobs, StartJob(w, r, j)
        PROVE  StoreTypeOK' /\ WorkerTypeOK'
    <2> USE DEF StartJob
    <2>1. tries' \in [Jobs -> 0..MaxTries]
      BY <1>4, ConstantsAssumption DEF StoreTypeOK, TriesLeft
    <2>2. GoodRun([Idle EXCEPT !.pc = "load", !.job = j, !.worker = w])
      BY DEF GoodRun, RunRecords, Idle, RunSteps
    <2>3. WorkerTypeOK'
      BY <1>4, <2>2, GoodRuns DEF WorkerTypeOK, GoodRun, RunRecords, outputVars
    <2> QED BY <1>4, <2>1, <2>3 DEF StoreTypeOK
  <1>5. ASSUME NEW j \in Jobs, DeferEnds(j) \/ \E w \in Workers : GiveUpJob(w, j)
        PROVE  StoreTypeOK' /\ WorkerTypeOK'
    BY <1>5 DEF GiveUpJob, DeferEnds, StoreTypeOK, WorkerTypeOK, storeVars, outputVars
  <1>6. ASSUME NEW w \in Workers,
               OnStartup(w) \/ HeartbeatLoop(w) \/ Shutdown(w) \/ OnShutdown(w)
        PROVE  StoreTypeOK' /\ WorkerTypeOK'
    BY <1>6 DEF OnStartup, HeartbeatLoop, Shutdown, OnShutdown, StoreTypeOK, WorkerTypeOK, storeVars,
                outputVars
  <1>7. ASSUME NEW w \in Workers, WorkerCrash(w)
        PROVE  StoreTypeOK' /\ WorkerTypeOK'
    <2>1. GoodRun(Idle)
      BY DEF GoodRun, RunRecords, Idle, RunSteps
    <2> QED BY <1>7, <2>1, GoodRuns DEF WorkerCrash, StoreTypeOK, WorkerTypeOK, storeVars, GoodRun, RunRecords
  <1>8. ASSUME NEW j \in Jobs, disk' \in OutputWritten(j)
        PROVE  disk' \in [Jobs -> DiskContents]
    <2>1. PICK d \in DiskContents : disk' = [disk EXCEPT ![j] = d]
      BY <1>8, WrittenOutputs
    <2> QED BY <2>1 DEF StoreTypeOK
  <1>9. ASSUME NEW r \in Runs, WriteOutput(r)
        PROVE  StoreTypeOK' /\ WorkerTypeOK'
    <2>1. run[r].job \in Jobs
      BY <1>9 DEF WorkerTypeOK, WriteOutput
    <2> QED BY <1>8, <1>9, <2>1 DEF WriteOutput, StoreTypeOK, WorkerTypeOK, outputVars
  <1>10. ASSUME NEW w \in Workers, NEW j \in Jobs, ThreadStep(w, j)
         PROVE  StoreTypeOK' /\ WorkerTypeOK'
    BY <1>8, <1>10 DEF ThreadStep, StoreTypeOK, WorkerTypeOK
  <1> QED BY <1>1, <1>2, <1>3, <1>4, <1>5, <1>6, <1>7, <1>9, <1>10 DEF WorkerNext

LEMMA InitTypes == Init => TypeOK
  <1> SUFFICES ASSUME Init PROVE TypeOK
    OBVIOUS
  <1>1. StoreTypeOK
    BY ConstantsAssumption DEF Init, StoreInit, StoreTypeOK, Absent, Records, DiskContents
  <1>2. ApiTypeOK
    BY DEF Init, ApiInit, ApiTypeOK, CreateSteps, NoRequest, RequestSteps
  <1>3. WorkerTypeOK
    BY DEF Init, WorkerInit, WorkerTypeOK, Idle, RunSteps
  <1>4. CleanupTypeOK
    BY DEF Init, CleanupInit, CleanupTypeOK, NoSweep, SweepSteps
  <1> QED BY <1>1, <1>2, <1>3, <1>4 DEF TypeOK

LEMMA StepTypes == TypeOK /\ [Next]_vars => TypeOK'
  <1> SUFFICES ASSUME TypeOK, [Next]_vars PROVE TypeOK'
    OBVIOUS
  <1>1. CASE Next
    BY <1>1, ApiTypes, WorkerTypes, CleanupTypes, EnvironmentTypes DEF Next
  <1>2. CASE UNCHANGED vars
    BY <1>2 DEF vars, storeVars, apiVars, workerVars, cleanupVars, TypeOK, StoreTypeOK, ApiTypeOK,
                WorkerTypeOK, CleanupTypeOK, outputVars
  <1> QED BY <1>1, <1>2

\* Every reachable state is well typed: no arq counter passes max_tries, and
\* nobody has a job in hand that was never minted.
THEOREM TypesHold == SafetySpec => []TypeOK
  <1> QED BY InitTypes, StepTypes, PTL DEF SafetySpec

-----------------------------------------------------------------------------
(* How a job's status may move.  A status appears with the HSET of its        *)
(* creation, goes from live to running or terminal, and else only away.       *)

Moves(j) ==
    \/ record'[j].status \in {record[j].status, "absent"}
    \/ record[j].status \in Live /\ record'[j].status \in {"running"} \cup Terminal
    \/ create[j] = "hset" /\ create'[j] # "hset" /\ record'[j].status = "queued"

LEMMA CommandStatuses ==
    ASSUME StoreTypeOK, NEW j \in Jobs, NEW k \in Jobs
    PROVE  /\ Deleted(j)[k].status \in {record[k].status, "absent"}
           /\ Expiring(j)[k].status = record[k].status
           /\ Unclaimed(j)[k].status = record[k].status
           /\ k # j => /\ Queued(j)[k] = record[k]
                       /\ CancelledRecord(j)[k] = record[k]
                       /\ \A w \in Workers, r \in Runs : Claimed(j, w, r)[k] = record[k]
                       /\ \A s \in Status : Stored(j, s)[k] = record[k]
           /\ Deleted(j)[j].status = "absent"
           /\ Queued(j)[j].status = "queued"
           /\ CancelledRecord(j)[j].status = "cancelled"
           /\ \A w \in Workers, r \in Runs : Claimed(j, w, r)[j].status = "running"
           /\ \A s \in Status : Stored(j, s)[j].status = s
  <1>1. record \in [Jobs -> Records] /\ record[j] \in Records /\ record[k] \in Records
    BY DEF StoreTypeOK
  <1>2. /\ [record[j] EXCEPT !.ttl = (record[j].status # "absent")].status = record[j].status
        /\ [record[j] EXCEPT !.owner = NoWorker, !.token = NoRun].status = record[j].status
        /\ [record[j] EXCEPT !.status = "cancelled", !.ttl = TRUE].status = "cancelled"
        /\ \A s \in Status : [record[j] EXCEPT !.status = s, !.ttl = TRUE].status = s
    BY <1>1 DEF Records
  <1>3. Absent.status = "absent" /\ [Absent EXCEPT !.status = "queued"].status = "queued"
    BY DEF Absent
  <1> QED
    BY <1>1, <1>2, <1>3 DEF Deleted, Expiring, Unclaimed, Queued, CancelledRecord, Claimed, Stored

LEMMA ApiMoves ==
    ASSUME TypeOK, ApiNext, NEW k \in Jobs
    PROVE  Moves(k) /\ (PastRecord(k) => PastRecord(k)')
  <1>1. StoreTypeOK /\ ApiTypeOK
    BY DEF TypeOK
  <1>2. ASSUME NEW j \in Jobs, CreateStep(j) \/ CreateCrash(j)
        PROVE  Moves(k) /\ (PastRecord(k) => PastRecord(k)')
    <2> USE DEF CreateStep, CreateCrash, ReserveActiveJob, ConsumeRate, SaveUploads, CreateJobRecord,
         ExpireJobRecord, AcceptMetric, EnqueueJob, UndoMetric, UndoDirectory, UndoRecord, UndoSlot
    <2>1. Moves(k)
      BY <1>1, <1>2, CommandStatuses DEF Moves, storeVars, CreateGoto, ApiTypeOK
    <2>2. PastRecord(k) => PastRecord(k)'
      BY <1>1, <1>2 DEF PastRecord, CreateGoto, ApiTypeOK, UndoSteps, CreateOver
    <2> QED BY <2>1, <2>2
  <1>3. ASSUME NEW q \in Requests, DeleteStep(q) \/ RequestCrash(q) \/ \E j \in Jobs : AuthorizedJob(q, j)
        PROVE  Moves(k) /\ (PastRecord(k) => PastRecord(k)')
    <2> USE DEF DeleteStep, RequestCrash, CancelJobTransition, CancelMetric, CancelRemoveDirectory,
         CancelRelease, DeleteDirectory, DeleteRecord, DeleteExpiry, AuthorizedJob
    <2>1. create' = create
      BY <1>3
    <2>2. Moves(k)
      <3>1. CASE record' = record
        BY <3>1 DEF Moves
      <3>2. CASE record' # record
        <4>1. request[q].job \in Jobs
          BY <1>1, <1>3, <3>2 DEF ApiTypeOK, storeVars
        <4>2. \/ record' = CancelledRecord(request[q].job) /\ record[request[q].job].status \in Live
              \/ record' = Deleted(request[q].job)
          BY <1>3, <3>2 DEF storeVars, Cancellable
        <4> QED BY <1>1, <4>1, <4>2, CommandStatuses DEF Moves, Terminal
      <3> QED BY <3>1, <3>2
    <2> QED BY <2>1, <2>2 DEF PastRecord
  <1> QED BY <1>2, <1>3 DEF ApiNext

LEMMA WorkerMoves ==
    ASSUME TypeOK, WorkerNext, NEW k \in Jobs
    PROVE  Moves(k)
  <1>1. StoreTypeOK /\ WorkerTypeOK
    BY DEF TypeOK
  <1>2. CASE record' = record
    BY <1>2 DEF Moves
  <1>3. CASE record' # record
    <2>1. PICK r \in Runs : RunStep(r)
      BY <1>3 DEF WorkerNext, FinishJob, RequeueJob, Interrupt, StartJob, GiveUpJob, WriteOutput, ThreadStep, DeferEnds, OnStartup,
                  HeartbeatLoop, Shutdown, OnShutdown, WorkerCrash, storeVars
    <2>2. run[r].job \in Jobs /\ run[r].worker \in Workers
      <3>1. run[r].pc # "idle"
        BY <2>1 DEF RunStep, LoadRecord, MarkJobRunning, DeferBusyJob, StartOperation, ExecuteOperation,
                    StoreTerminalState, TerminalMetric, FinishJobClaim, CleanDirectory, UnlinkInputs,
                    ReleaseActiveJob, FinalHeartbeat
      <3> QED BY <3>1, <1>1 DEF WorkerTypeOK
    <2>3. \/ record' = Claimed(run[r].job, run[r].worker, r) /\ ClaimResult(run[r].job) = CLAIMED
          \/ /\ record' = Stored(run[r].job, run[r].outcome)
             /\ run[r].pc = "store" /\ MayStore(run[r].job, r)
          \/ record' = Unclaimed(run[r].job)
      BY <1>3, <2>1 DEF RunStep, LoadRecord, MarkJobRunning, DeferBusyJob, StartOperation,
                  ExecuteOperation, StoreTerminalState, TerminalMetric, FinishJobClaim, CleanDirectory,
                  UnlinkInputs, ReleaseActiveJob, FinalHeartbeat, storeVars
    <2>4. ClaimResult(run[r].job) = CLAIMED => record[run[r].job].status \in Live
      BY DEF ClaimResult, CLAIMED, CLAIM_BUSY, Live
    <2>5. run[r].pc = "store" => run[r].outcome \in Terminal /\ run[r].outcome \in Status
      BY <1>1 DEF WorkerTypeOK, Terminal, Status
    <2> QED BY <1>1, <2>2, <2>3, <2>4, <2>5, CommandStatuses DEF Moves, MayStore, Live
  <1> QED BY <1>2, <1>3

LEMMA CleanupMoves ==
    ASSUME TypeOK, CleanupNext, NEW k \in Jobs
    PROVE  Moves(k)
  <1>1. record' = record \/ (sweep.pc # "idle" /\ record' = Deleted(sweep.job))
    BY DEF CleanupNext, ReadExpired, ScanOrphan, SweepStep, CleanupCrash, CheckOwner, PostponeOwned,
           SweepRelease, SweepRemoveDirectory, SweepDelete, SweepUnlist, storeVars
  <1> QED BY <1>1, CommandStatuses DEF Moves, TypeOK, CleanupTypeOK

LEMMA EnvironmentMoves ==
    ASSUME TypeOK, EnvironmentNext, NEW k \in Jobs
    PROVE  Moves(k)
  <1>1. \/ record' = record
        \/ \E j \in Jobs : record' = Deleted(j)
        \/ record' = [j \in Jobs |-> Absent]
    BY DEF EnvironmentNext, RecordExpires, SlotLapses, LockExpires, BeatExpires, RedisRestart
  <1> QED BY <1>1, CommandStatuses DEF Moves, TypeOK, Absent

LEMMA StepMoves ==
    ASSUME TypeOK, [Next]_vars, NEW j \in Jobs
    PROVE  Moves(j) /\ (PastRecord(j) => PastRecord(j)')
  <1>1. CASE ApiNext
    BY <1>1, ApiMoves
  <1>2. CASE (WorkerNext \/ CleanupNext \/ EnvironmentNext) /\ UNCHANGED apiVars
    BY <1>2, WorkerMoves, CleanupMoves, EnvironmentMoves DEF apiVars, PastRecord
  <1>3. CASE UNCHANGED vars
    BY <1>3 DEF vars, storeVars, apiVars, Moves, PastRecord
  <1> QED BY <1>1, <1>2, <1>3 DEF Next, apiVars

\* A job that is over stays over.
LEMMA OverStays ==
    ASSUME TypeOK, LifeInv, [Next]_vars, NEW j \in Jobs, Over(j)
    PROVE  Over(j)'
  <1>1. Moves(j) /\ PastRecord(j)'
    BY StepMoves DEF Over
  <1> QED BY <1>1 DEF Over, Moves, PastRecord, Live, Terminal

-----------------------------------------------------------------------------
(* LifeInv is inductive.                                                      *)

LEMMA ApiLife ==
    ASSUME TypeOK, LifeInv, ApiNext, UNCHANGED <<workerVars, cleanupVars>>
    PROVE  LifeInv'
  <1>1. \A k \in Jobs : Moves(k) /\ (PastRecord(k) => PastRecord(k)') /\ (Over(k) => Over(k)')
    BY ApiMoves, OverStays DEF Next
  <1>2. ASSUME NEW j \in Jobs, CreateStep(j) \/ CreateCrash(j)
        PROVE  UploadsInPlace' /\ NothingBeforeRecord' /\ RequestsRemoveOver'
    <2> USE DEF CreateStep, CreateCrash, ReserveActiveJob, ConsumeRate, SaveUploads, CreateJobRecord,
         ExpireJobRecord, AcceptMetric, EnqueueJob, UndoMetric, UndoDirectory, UndoRecord, UndoSlot
    <2>1. create' = [create EXCEPT ![j] = create'[j]] /\ create \in [Jobs -> CreateSteps]
      BY <1>2 DEF CreateGoto, TypeOK, ApiTypeOK
    <2>2. UploadsInPlace'
      <3>1. ASSUME NEW k \in Jobs, k # j
            PROVE  disk'[k] = disk[k] /\ create'[k] = create[k] /\ record'[k] = record[k]
        <4>1. record' = record \/ record' = Queued(j) \/ record' = Expiring(j) \/ record' = Deleted(j)
          BY <1>2 DEF storeVars
        <4>2. record'[k] = record[k]
          BY <3>1, <4>1 DEF Queued, Expiring, Deleted, TypeOK, StoreTypeOK
        <4>3. disk'[k] = disk[k]
          BY <1>2, <3>1 DEF DirectoryRemoved, storeVars, TypeOK, StoreTypeOK
        <4> QED BY <2>1, <3>1, <4>2, <4>3
      <3>2. create'[j] = "upload" => "dir" \in disk'[j]
        BY <1>2, <2>1 DEF CreateGoto, TypeOK, StoreTypeOK, UndoSteps
      <3>3. create'[j] = "hset" => {"dir", "files"} \subseteq disk'[j]
        BY <1>2, <2>1 DEF CreateGoto, TypeOK, StoreTypeOK, UndoSteps, LifeInv, UploadsInPlace
      <3>4. Standing(j)' /\ record'[j].status \in Live => {"dir", "files"} \subseteq disk'[j]
        <4>1. SUFFICES ASSUME Standing(j)', record'[j].status \in Live
                       PROVE  {"dir", "files"} \subseteq disk'[j]
          OBVIOUS
        <4>2. create[j] = "hset" \/ (Standing(j) /\ record[j].status \in Live)
          BY <1>1, <1>2, <2>1, <4>1 DEF Standing, CreateGoto, UndoSteps, Moves, Live
        <4>3. disk' = disk
          BY <1>2, <4>2 DEF Standing, UndoSteps, storeVars
        <4> QED BY <4>2, <4>3 DEF LifeInv, UploadsInPlace
      <3> QED BY <3>1, <3>2, <3>3, <3>4 DEF UploadsInPlace, Standing, LifeInv
    <2>3. NothingBeforeRecord'
      <3>1. expiry' = expiry /\ queue' \subseteq queue \cup {j}
        BY <1>2 DEF storeVars
      <3>2. j \in queue' => PastRecord(j)'
        BY <1>1, <1>2 DEF LifeInv, NothingBeforeRecord, PastRecord, storeVars
      <3>3. create[j] = "hset" /\ record'[j].status # record[j].status => PastRecord(j)'
        BY <1>2, <2>1 DEF CreateGoto, PastRecord, storeVars
      <3>4. ASSUME NEW k \in Jobs, record'[k].status # "absent"
            PROVE  PastRecord(k)'
        <4>1. CASE record[k].status # "absent"
          BY <1>1, <4>1 DEF LifeInv, NothingBeforeRecord
        <4>2. CASE record[k].status = "absent"
          <5>1. create[k] = "hset" /\ record'[k].status # record[k].status
            BY <1>1, <3>4, <4>2 DEF Moves, Live
          <5>2. k = j
            BY <1>2, <5>1, <4>2 DEF storeVars, Queued, Expiring, Deleted, TypeOK, StoreTypeOK
          <5> QED BY <3>3, <5>1, <5>2
        <4> QED BY <4>1, <4>2
      <3> QED BY <1>1, <3>1, <3>2, <3>4 DEF LifeInv, NothingBeforeRecord
    <2>4. RequestsRemoveOver'
      <3>1. request' = request
        BY <1>2
      <3> QED BY <1>1, <3>1 DEF LifeInv, RequestsRemoveOver, TypeOK, ApiTypeOK
    <2> QED BY <2>2, <2>3, <2>4
  <1>3. ASSUME NEW q \in Requests, DeleteStep(q) \/ RequestCrash(q) \/ \E j \in Jobs : AuthorizedJob(q, j)
        PROVE  UploadsInPlace' /\ NothingBeforeRecord' /\ RequestsRemoveOver'
    <2> USE DEF DeleteStep, RequestCrash, CancelJobTransition, CancelMetric, CancelRemoveDirectory,
         CancelRelease, DeleteDirectory, DeleteRecord, DeleteExpiry, AuthorizedJob
    <2>1. create' = create /\ queue' = queue
      BY <1>3 DEF storeVars
    <2>2. ASSUME NEW k \in Jobs PROVE disk'[k] = disk[k] \/ Over(k)
      BY <1>3 DEF DirectoryRemoved, storeVars, LifeInv, RequestsRemoveOver, TypeOK, StoreTypeOK
    <2>3. UploadsInPlace'
      BY <1>1, <2>1, <2>2 DEF UploadsInPlace, LifeInv, Standing, Over, PastRecord, Moves
    <2>4. ASSUME NEW k \in Jobs, k \in expiry' PROVE Over(k)'
      <3>1. CASE k \in expiry
        BY <1>1, <3>1 DEF LifeInv, NothingBeforeRecord
      <3>2. CASE k \notin expiry
        <4>1. k = request[q].job /\ record' = CancelledRecord(k) /\ request[q].pc = "transition"
          BY <1>3, <2>4, <3>2 DEF storeVars
        <4>2. record'[k].status = "cancelled" /\ PastRecord(k)
          BY <4>1, CommandStatuses DEF TypeOK, LifeInv, RequestsRemoveOver
        <4> QED BY <1>1, <4>2 DEF Over, Live
      <3> QED BY <3>1, <3>2
    <2>5. NothingBeforeRecord'
      BY <1>1, <2>1, <2>4 DEF NothingBeforeRecord, LifeInv, PastRecord, Moves, Live
    <2>6. RequestsRemoveOver'
      <3>1. ASSUME NEW p \in Requests, p # q PROVE request'[p] = request[p]
        BY <1>3, <3>1 DEF RequestGoto, TypeOK, ApiTypeOK
      <3>2. request'[q].pc # "idle" => PastRecord(request[q].job)'
        BY <1>1, <1>3 DEF RequestGoto, TypeOK, ApiTypeOK, NoRequest, LifeInv, RequestsRemoveOver, PastRecord
      <3>3. request'[q].pc \notin {"idle", "transition"} => Over(request[q].job)'
        <4>1. SUFFICES ASSUME request'[q].pc \notin {"idle", "transition"}
                       PROVE  Over(request[q].job)'
          OBVIOUS
        <4>2. CASE request[q].pc # "transition"
          BY <1>1, <1>3, <4>1, <4>2 DEF RequestGoto, TypeOK, ApiTypeOK, NoRequest, LifeInv, RequestsRemoveOver
        <4>3. CASE request[q].pc = "transition"
          <5> DEFINE j == request[q].job
          <5>1. j \in Jobs /\ PastRecord(j)' /\ request'[q].job = j
            BY <1>1, <1>3, <4>1, <4>3 DEF TypeOK, ApiTypeOK, LifeInv, RequestsRemoveOver, NoRequest
          <5>2. record'[j].status \notin Live
            <6>1. CASE record[j].status \in Live
              <7>1. record' = CancelledRecord(j)
                BY <1>3, <4>1, <4>3, <6>1 DEF Cancellable, NoRequest, TypeOK, ApiTypeOK
              <7> QED BY <7>1, <5>1, CommandStatuses DEF TypeOK, Live
            <6>2. CASE record[j].status \notin Live
              BY <1>1, <5>1, <4>3, <6>2 DEF Moves, LifeInv, RequestsRemoveOver, PastRecord, Live
            <6> QED BY <6>1, <6>2
          <5> QED BY <5>1, <5>2 DEF Over
        <4> QED BY <4>2, <4>3
      <3> QED BY <1>1, <3>1, <3>2, <3>3 DEF LifeInv, RequestsRemoveOver, TypeOK, ApiTypeOK
    <2> QED BY <2>3, <2>5, <2>6
  <1>4. RunsRemoveOver' /\ SweepRemovesOver'
    BY <1>1 DEF RunsRemoveOver, SweepRemovesOver, LifeInv, workerVars, cleanupVars, TypeOK, WorkerTypeOK,
                CleanupTypeOK
  <1> QED BY <1>2, <1>3, <1>4 DEF ApiNext, LifeInv

LEMMA CleanupLife ==
    ASSUME TypeOK, LifeInv, CleanupNext, UNCHANGED <<apiVars, workerVars>>
    PROVE  LifeInv'
  <1> USE DEF CleanupNext, ReadExpired, ScanOrphan, SweepStep, CleanupCrash, CheckOwner, PostponeOwned,
       SweepRelease, SweepRemoveDirectory, SweepDelete, SweepUnlist, storeVars, SweepAfter, SweepGoto
  <1>1. \A k \in Jobs : Moves(k) /\ (Over(k) => Over(k)')
    BY CleanupMoves, OverStays DEF Next
  <1>2. create' = create /\ queue' = queue /\ request' = request /\ run' = run
    BY DEF apiVars, workerVars
  <1>3. ASSUME NEW k \in Jobs PROVE disk'[k] = disk[k] \/ Over(k)
    BY DEF DirectoryRemoved, LifeInv, SweepRemovesOver, TypeOK, StoreTypeOK
  <1>4. UploadsInPlace'
    BY <1>1, <1>2, <1>3 DEF UploadsInPlace, LifeInv, Standing, Over, PastRecord, Moves
  <1>5. NothingBeforeRecord'
    <2>1. \A k \in expiry' : k \in expiry \/ (k = sweep.job /\ sweep.pc # "idle")
      OBVIOUS
    <2>2. \A k \in Jobs : k \in expiry' => Over(k)'
      BY <1>1, <2>1 DEF LifeInv, NothingBeforeRecord, SweepRemovesOver
    <2> QED BY <1>1, <1>2, <2>2 DEF NothingBeforeRecord, LifeInv, PastRecord, Moves, Live
  <1>6. RequestsRemoveOver' /\ RunsRemoveOver'
    BY <1>1, <1>2 DEF RequestsRemoveOver, RunsRemoveOver, LifeInv, PastRecord, TypeOK, ApiTypeOK, WorkerTypeOK
  <1>7. SweepRemovesOver'
    <2>1. SUFFICES ASSUME sweep'.pc # "idle" PROVE Over(sweep.job)'
      BY DEF SweepRemovesOver
    <2>2. sweep'.job \in Jobs /\ Over(sweep'.job)
      <3>1. CASE sweep.pc # "idle"
        BY <2>1, <3>1 DEF TypeOK, CleanupTypeOK, LifeInv, SweepRemovesOver, NoSweep
      <3>2. CASE \E j \in Jobs : ReadExpired(j)
        BY <3>2 DEF LifeInv, NothingBeforeRecord
      <3>3. CASE \E j \in Jobs : create[j] \in CreateOver /\ ScanOrphan(j)
        BY <3>3 DEF Over, PastRecord, CreateOver, Live
      <3> QED BY <3>1, <3>2, <3>3
    <2> QED BY <1>1, <2>2
  <1> QED BY <1>4, <1>5, <1>6, <1>7 DEF LifeInv

LEMMA EnvironmentLife ==
    ASSUME TypeOK, LifeInv, EnvironmentNext, UNCHANGED <<apiVars, workerVars, cleanupVars>>
    PROVE  LifeInv'
  <1> USE DEF EnvironmentNext, RecordExpires, SlotLapses, LockExpires, BeatExpires, RedisRestart
  <1>1. \A k \in Jobs : Moves(k) /\ (Over(k) => Over(k)')
    BY EnvironmentMoves, OverStays DEF Next
  <1>2. create' = create /\ request' = request /\ run' = run /\ sweep' = sweep /\ disk' = disk
    BY DEF apiVars, workerVars, cleanupVars
  <1>3. UploadsInPlace'
    BY <1>1, <1>2 DEF UploadsInPlace, LifeInv, Standing, Moves, Live
  <1>4. NothingBeforeRecord'
    <2>1. expiry' \subseteq expiry /\ queue' \subseteq queue
      OBVIOUS
    <2> QED BY <1>1, <1>2, <2>1 DEF NothingBeforeRecord, LifeInv, PastRecord, Moves, Live
  <1>5. RequestsRemoveOver' /\ RunsRemoveOver' /\ SweepRemovesOver'
    BY <1>1, <1>2 DEF RequestsRemoveOver, RunsRemoveOver, SweepRemovesOver, LifeInv, PastRecord, TypeOK,
                      ApiTypeOK, WorkerTypeOK, CleanupTypeOK
  <1> QED BY <1>3, <1>4, <1>5 DEF LifeInv

\* A command that does not answer leaves the run with its job, outside the
\* steps that need a job that is over.
LEMMA AfterFields ==
    ASSUME WorkerTypeOK, NEW r \in Runs, run[r].pc # "idle", NEW reply \in Replies(r), reply # "ok", NEW next
    PROVE  /\ After(r, reply, next).job = run[r].job
           /\ After(r, reply, next).stored = run[r].stored
           /\ After(r, reply, next).pc \notin {"metric", "clean", "unlink"}
  <1>1. GoodRun(run[r]) /\ run[r] \in RunRecords
    BY GoodRuns
  <1>2. reply \in {"error", "lost", "shutdown", "timeout"}
    BY DEF Replies, RedisReplies, Interrupts
  <1>3. CASE reply \in {"error", "lost"}
    <2>1. /\ RaisedRun(r).job = run[r].job /\ RaisedRun(r).stored = run[r].stored
          /\ RaisedRun(r).pc \in {"return", "store", "finish"}
      BY <1>1 DEF RaisedRun, RunRecords
    <2> QED BY <1>3, <2>1 DEF After
  <1>4. CASE reply \in {"shutdown", "timeout"}
    <2>1. /\ CancelledRun(r, reply).job = run[r].job /\ CancelledRun(r, reply).stored = run[r].stored
          /\ CancelledRun(r, reply).pc \in {"finish", "requeue", "return"}
      <3>1. ASSUME NEW step
            PROVE  /\ [run[r] EXCEPT !.pc = step, !.interrupt = reply].job = run[r].job
                   /\ [run[r] EXCEPT !.pc = step, !.interrupt = reply].stored = run[r].stored
                   /\ [run[r] EXCEPT !.pc = step, !.interrupt = reply].pc = step
        BY <1>1 DEF RunRecords
      <3> QED BY <3>1 DEF CancelledRun, ExitStep
    <2> QED BY <1>4, <2>1 DEF After
  <1> QED BY <1>2, <1>3, <1>4

LEMMA WorkerLife ==
    ASSUME TypeOK, LifeInv, WorkerNext, UNCHANGED <<apiVars, cleanupVars>>
    PROVE  LifeInv'
  <1>1. \A k \in Jobs : Moves(k) /\ (Over(k) => Over(k)')
    BY WorkerMoves, OverStays DEF Next
  <1>2. create' = create /\ request' = request /\ sweep' = sweep
    BY DEF apiVars, cleanupVars
  <1>3. RequestsRemoveOver' /\ SweepRemovesOver'
    BY <1>1, <1>2 DEF RequestsRemoveOver, SweepRemovesOver, LifeInv, PastRecord, TypeOK, ApiTypeOK, CleanupTypeOK
  <1>4. ASSUME NEW r \in Runs, RunStep(r)
        PROVE  UploadsInPlace' /\ NothingBeforeRecord' /\ RunsRemoveOver'
    <2> USE DEF LoadRecord, MarkJobRunning, DeferBusyJob, StartOperation, ExecuteOperation,
         StoreTerminalState, TerminalMetric, FinishJobClaim, CleanDirectory, UnlinkInputs,
         ReleaseActiveJob, FinalHeartbeat, RunStep
    <2>1. run[r].job \in Jobs /\ run[r].pc # "idle" /\ GoodRun(run[r]) /\ run[r].worker \in Workers
      BY <1>4, GoodRuns DEF TypeOK, WorkerTypeOK
    <2>2. PICK j \in Jobs : j = run[r].job
      BY <2>1
    <2>3. PastRecord(j)
      BY <2>1, <2>2 DEF LifeInv, RunsRemoveOver
    <2>4. UploadsInPlace'
      <3>1. ASSUME NEW k \in Jobs PROVE disk[k] \ {"result"} \subseteq disk'[k] \/ Over(k)
        <4>1. run[r].pc \in {"clean", "unlink"} \/ run[r].stored => Over(j)
          BY <2>1, <2>2 DEF LifeInv, RunsRemoveOver
        <4>3. ExecuteOperation(r) => disk' \in OutputWritten(j)
          BY <2>2, OperationOutputs
        <4>2. \/ disk' \in OutputWritten(j)
              \/ disk' = disk
              \/ \E d : disk' = [disk EXCEPT ![j] = d] /\ (Over(j) \/ disk[j] \subseteq d)
          BY <1>4, <2>1, <2>2, <4>1, <4>3 DEF DirectoryRemoved, storeVars
        <4> QED BY <4>1, <4>2, <4>3, <2>2, WrittenOutputs DEF TypeOK, StoreTypeOK
      <3> QED BY <1>1, <1>2, <3>1 DEF UploadsInPlace, LifeInv, Standing, Over, PastRecord, Moves
    <2>5. ASSUME run[r].pc = "store", record' = Stored(j, run[r].outcome)
          PROVE  Over(j)'
      <3>1. run[r].outcome \in Status /\ run[r].outcome \notin Live
        BY <2>1, <2>5 DEF GoodRun, Status, Terminal, Live
      <3>2. record'[j].status = run[r].outcome
        BY <2>5, <3>1, CommandStatuses DEF TypeOK
      <3> QED BY <1>2, <2>3, <3>1, <3>2 DEF Over, PastRecord
    <2>6. NothingBeforeRecord'
      <3>1. queue' = queue
        BY <1>4 DEF storeVars
      <3>2. ASSUME NEW k \in Jobs, k \in expiry' PROVE Over(k)'
        <4>1. CASE k \in expiry
          BY <1>1, <4>1 DEF LifeInv, NothingBeforeRecord
        <4>2. CASE k \notin expiry
          BY <1>4, <2>2, <2>5, <3>2, <4>2 DEF storeVars
        <4> QED BY <4>1, <4>2
      <3> QED BY <1>1, <1>2, <3>1, <3>2 DEF NothingBeforeRecord, LifeInv, PastRecord, Moves, Live
    <2>7. RunsRemoveOver'
      <3>1. \A p \in Runs : p # r => run'[p] = run[p]
        BY <1>4 DEF Goto, TypeOK, WorkerTypeOK
      <3>2. /\ run'[r].job = j
            /\ run'[r].stored => run[r].stored \/ Over(j)'
            /\ run'[r].pc \in {"metric", "clean", "unlink"} => Over(j)'
        <4>1. run[r] \in RunRecords /\ run \in [Runs -> RunRecords] /\ WorkerTypeOK
          BY <2>1, GoodRuns DEF TypeOK
        <4>2. \A step, s : /\ [run[r] EXCEPT !.pc = step].job = j
                           /\ [run[r] EXCEPT !.pc = step].pc = step
                           /\ [run[r] EXCEPT !.pc = step].stored = run[r].stored
                           /\ [run[r] EXCEPT !.pc = step, !.outcome = s].job = j
                           /\ [run[r] EXCEPT !.pc = step, !.outcome = s].pc = step
                           /\ [run[r] EXCEPT !.pc = step, !.outcome = s].stored = run[r].stored
                           /\ [run[r] EXCEPT !.pc = step, !.stored = s].job = j
                           /\ [run[r] EXCEPT !.pc = step, !.stored = s].pc = step
          BY <2>2, <4>1 DEF RunRecords
        <4>3. CASE LoadRecord(r)
          <5>1. PICK reply \in RedisReplies, step \in {"claim", "return"} :
                  run'[r] = After(r, reply, [run[r] EXCEPT !.pc = step])
            BY <4>1, <4>3
          <5>2. reply \in Replies(r)
            BY DEF Replies
          <5> QED BY <2>1, <2>2, <4>1, <4>2, <5>1, <5>2, AfterFields DEF After
        <4>4. CASE MarkJobRunning(r) \/ DeferBusyJob(r) \/ ReleaseActiveJob(r) \/ FinalHeartbeat(r)
          <5>1. PICK reply \in Replies(r), step \in {"start", "busy", "return", "retry", "beat", "requeue"} :
                  run'[r] = After(r, reply, [run[r] EXCEPT !.pc = step])
            BY <4>1, <4>4 DEF ExitStep
          <5> QED BY <2>1, <2>2, <4>1, <4>2, <5>1, AfterFields DEF After
        <4>5. CASE StartOperation(r) \/ ExecuteOperation(r) \/ TerminalMetric(r)
          <5>1. CASE StartOperation(r) \/ TerminalMetric(r)
            <6>1. PICK step \in {"execute", "finish"} : run'[r] = [run[r] EXCEPT !.pc = step]
              BY <4>1, <5>1 DEF Goto
            <6> QED BY <4>2, <6>1
          <5>2. CASE ExecuteOperation(r)
            <6>1. PICK s \in {"succeeded", "failed"} : run'[r] = [run[r] EXCEPT !.pc = "store", !.outcome = s]
              BY <4>1, <5>2
            <6> QED BY <4>2, <6>1
          <5> QED BY <4>5, <5>1, <5>2
        <4>6. CASE StoreTerminalState(r)
          <5>1. PICK reply \in Replies(r) :
                  /\ MayStore(j, r) /\ reply = "ok" => record' = Stored(j, run[r].outcome)
                  /\ run'[r] = After(r, reply, IF MayStore(j, r) THEN [run[r] EXCEPT !.pc = "metric", !.stored = TRUE]
                                               ELSE [run[r] EXCEPT !.pc = "finish"])
            BY <2>2, <4>1, <4>6 DEF TakesEffect
          <5>2. CASE reply = "ok"
            <6>1. CASE MayStore(j, r)
              <7>1. run'[r] = [run[r] EXCEPT !.pc = "metric", !.stored = TRUE]
                BY <5>1, <5>2, <6>1 DEF After
              <7>2. Over(j)'
                BY <2>5, <4>6, <5>1, <5>2, <6>1
              <7> QED BY <4>2, <7>1, <7>2
            <6>2. CASE ~MayStore(j, r)
              <7>1. run'[r] = [run[r] EXCEPT !.pc = "finish"]
                BY <5>1, <5>2, <6>2 DEF After
              <7> QED BY <4>2, <7>1
            <6> QED BY <6>1, <6>2
          <5>3. CASE reply # "ok"
            BY <2>1, <2>2, <4>1, <5>1, <5>3, AfterFields
          <5> QED BY <5>2, <5>3
        <4>7. CASE FinishJobClaim(r)
          <5> DEFINE seen == IF Holds(r) THEN record[j].status ELSE "none"
          <5>1. PICK reply \in Replies(r) :
                  run'[r] = After(r, reply, [run[r] EXCEPT !.pc = IF CleansUp(run[r].stored, seen) THEN "clean" ELSE "beat",
                                                           !.outcome = seen])
            BY <2>2, <4>1, <4>7
          <5>2. CleansUp(run[r].stored, seen) => Over(j)
            BY <2>1, <2>2, <2>3 DEF CleansUp, Over, Live, LifeInv, RunsRemoveOver
          <5>3. CASE reply = "ok"
            <6>1. run'[r] = [run[r] EXCEPT !.pc = IF CleansUp(run[r].stored, seen) THEN "clean" ELSE "beat",
                                    !.outcome = seen]
              BY <5>1, <5>3 DEF After
            <6>2. /\ run'[r].job = j /\ run'[r].stored = run[r].stored
                  /\ run'[r].pc = IF CleansUp(run[r].stored, seen) THEN "clean" ELSE "beat"
              BY <4>2, <6>1
            <6>3. CleansUp(run[r].stored, seen) => Over(j)'
              BY <1>1, <5>2
            <6> QED BY <6>2, <6>3
          <5>4. CASE reply # "ok"
            BY <2>1, <2>2, <4>1, <5>1, <5>4, AfterFields
          <5> QED BY <5>3, <5>4
        <4>8. CASE CleanDirectory(r) \/ UnlinkInputs(r)
          <5>1. PICK step : run'[r] = [run[r] EXCEPT !.pc = step]
            BY <4>1, <4>8 DEF Goto
          <5>2. Over(j)'
            BY <1>1, <2>1, <2>2, <4>8 DEF LifeInv, RunsRemoveOver
          <5> QED BY <4>2, <5>1, <5>2
        <4> QED BY <1>4, <4>3, <4>4, <4>5, <4>6, <4>7, <4>8
      <3>3. ASSUME NEW p \in Runs, p # r
            PROVE  /\ run'[p].pc # "idle" => PastRecord(run[p].job)'
                   /\ run'[p].pc \in {"metric", "clean", "unlink"} => Over(run[p].job)'
                   /\ run'[p].pc # "idle" /\ run'[p].stored => Over(run[p].job)'
        BY <1>1, <1>2, <3>1, <3>3 DEF RunsRemoveOver, LifeInv, PastRecord, TypeOK, WorkerTypeOK
      <3>4. PastRecord(j)' /\ (run[r].stored => Over(j)')
        BY <1>1, <1>2, <2>1, <2>2, <2>3 DEF PastRecord, LifeInv, RunsRemoveOver
      <3> QED BY <3>2, <3>3, <3>4 DEF RunsRemoveOver
    <2> QED BY <2>4, <2>6, <2>7
  <1>5. ASSUME NEW r \in Runs, FinishJob(r) \/ RequeueJob(r) \/ Interrupt(r)
        PROVE  RunsRemoveOver'
    <2> USE DEF FinishJob, RequeueJob, Interrupt
    <2>1. \A p \in Runs : p # r => run'[p] = run[p]
      BY <1>5 DEF TypeOK, WorkerTypeOK
    <2>2. \/ run'[r] = Idle
          \/ \E why \in Interrupts(r) : run'[r] = CancelledRun(r, why)
      BY <1>5 DEF TypeOK, WorkerTypeOK
    <2>3. run[r].pc # "idle" /\ WorkerTypeOK
      BY <1>5 DEF TypeOK, TrySteps
    <2>4. ASSUME run'[r].pc # "idle"
          PROVE  /\ run'[r].pc \notin {"metric", "clean", "unlink"}
                 /\ run'[r].job = run[r].job /\ run'[r].stored = run[r].stored
      <3>1. PICK why \in Interrupts(r) : run'[r] = CancelledRun(r, why)
        BY <2>2, <2>4 DEF Idle
      <3>2. why \in Replies(r) /\ why \in {"shutdown", "timeout"} /\ After(r, why, Idle) = CancelledRun(r, why)
        BY DEF Replies, Interrupts, After
      <3> QED BY <2>3, <3>1, <3>2, AfterFields
    <2> QED BY <1>1, <1>2, <2>1, <2>3, <2>4 DEF RunsRemoveOver, LifeInv, PastRecord, TypeOK, WorkerTypeOK
  <1>6. ASSUME NEW w \in Workers, NEW r \in Runs, NEW j \in Jobs, StartJob(w, r, j)
        PROVE  RunsRemoveOver'
    <2>1. \A p \in Runs : p # r => run'[p] = run[p]
      BY <1>6 DEF StartJob, TypeOK, WorkerTypeOK
    <2>2. run'[r].job = j /\ run'[r].pc = "load" /\ ~run'[r].stored
      BY <1>6 DEF StartJob, TypeOK, WorkerTypeOK, Idle
    <2>3. PastRecord(j)
      BY <1>6 DEF StartJob, LifeInv, NothingBeforeRecord
    <2> QED BY <1>1, <1>2, <2>1, <2>2, <2>3 DEF RunsRemoveOver, LifeInv, PastRecord, TypeOK, WorkerTypeOK
  <1>7. ASSUME NEW w \in Workers, WorkerCrash(w)
        PROVE  RunsRemoveOver'
    <2>1. \A p \in Runs : run'[p] \in {Idle, run[p]}
      BY <1>7 DEF WorkerCrash
    <2> QED BY <1>1, <1>2, <2>1 DEF RunsRemoveOver, LifeInv, PastRecord, TypeOK, WorkerTypeOK, Idle
  <1>8. ASSUME ~\E r \in Runs : RunStep(r)
        PROVE  UploadsInPlace' /\ NothingBeforeRecord'
    <2>2. \A r \in Runs : WriteOutput(r) => disk' \in OutputWritten(run[r].job) /\ run[r].job \in Jobs
      BY DEF WriteOutput, TypeOK, WorkerTypeOK
    <2>3. disk' = disk \/ \E j \in Jobs : disk' \in OutputWritten(j)
      BY <1>8, <2>2 DEF WorkerNext, FinishJob, RequeueJob, Interrupt, StartJob, GiveUpJob, ThreadStep, DeferEnds,
                  OnStartup, HeartbeatLoop, Shutdown, OnShutdown, WorkerCrash, storeVars
    <2>4. \A k \in Jobs : disk'[k] \ {"result"} = disk[k] \ {"result"}
      BY <2>3, WrittenOutputs DEF TypeOK
    <2>1. record' = record /\ expiry' = expiry /\ queue' \subseteq queue
      BY <1>8 DEF WorkerNext, FinishJob, RequeueJob, Interrupt, StartJob, GiveUpJob, WriteOutput, ThreadStep, DeferEnds, OnStartup,
                  HeartbeatLoop, Shutdown, OnShutdown, WorkerCrash, storeVars
    <2> QED BY <1>1, <1>2, <2>1, <2>4 DEF UploadsInPlace, NothingBeforeRecord, LifeInv, Standing, Over,
                                          PastRecord
  <1>9. ASSUME ~\E r \in Runs : RunStep(r) \/ FinishJob(r) \/ RequeueJob(r) \/ Interrupt(r),
               ~\E w \in Workers, r \in Runs, j \in Jobs : StartJob(w, r, j),
               ~\E w \in Workers : WorkerCrash(w)
        PROVE  RunsRemoveOver'
    <2>1. run' = run
      BY <1>9 DEF WorkerNext, GiveUpJob, WriteOutput, ThreadStep, DeferEnds, OnStartup, HeartbeatLoop, Shutdown, OnShutdown
    <2> QED BY <1>1, <1>2, <2>1 DEF RunsRemoveOver, LifeInv, PastRecord, TypeOK, WorkerTypeOK
  <1> QED BY <1>3, <1>4, <1>5, <1>6, <1>7, <1>8, <1>9 DEF LifeInv

LEMMA InitLife == Init => LifeInv
  BY DEF Init, StoreInit, ApiInit, WorkerInit, CleanupInit, Idle, NoSweep, NoRequest, Absent, LifeInv,
         UploadsInPlace, NothingBeforeRecord, RequestsRemoveOver, RunsRemoveOver, SweepRemovesOver,
         PastRecord, Standing, Live

LEMMA StepLife == TypeOK /\ LifeInv /\ [Next]_vars => LifeInv'
  <1> SUFFICES ASSUME TypeOK, LifeInv, [Next]_vars PROVE LifeInv'
    OBVIOUS
  <1>1. CASE Next
    BY <1>1, ApiLife, WorkerLife, CleanupLife, EnvironmentLife DEF Next
  <1>2. CASE UNCHANGED vars
    BY <1>2 DEF vars, storeVars, apiVars, workerVars, cleanupVars, LifeInv, UploadsInPlace,
                NothingBeforeRecord, RequestsRemoveOver, RunsRemoveOver, SweepRemovesOver,
                PastRecord, Over, Standing
  <1> QED BY <1>1, <1>2

\* The strengthening is an invariant: whoever has a job in hand to remove
\* something of it, a DELETE, a run in its finally clause or the sweep, has a
\* job that is over, and the sweep's list holds only such jobs.
THEOREM LifeInvHolds == SafetySpec => [](TypeOK /\ LifeInv)
  <1> QED BY InitTypes, StepTypes, InitLife, StepLife, PTL DEF SafetySpec

\* While a client is told its job is queued or running, its uploads are on disk,
\* whoever crashes, is cancelled, loses an answer or works with a stale claim.
THEOREM InputsAreKept == SafetySpec => []LiveJobKeepsInputs
  <1>1. LifeInv => LiveJobKeepsInputs
    BY DEF LifeInv, UploadsInPlace, LiveJobKeepsInputs
  <1> QED BY <1>1, LifeInvHolds, PTL

\* No step turns one end of a job into another or revives it.
THEOREM EndsAreFinal == SafetySpec => TerminalIsFinal
  <1>1. TypeOK /\ LifeInv /\ [Next]_vars => [TerminalStep]_vars
    <2> SUFFICES ASSUME TypeOK, LifeInv, [Next]_vars, NEW j \in Jobs, record[j].status \in Terminal
                 PROVE  record'[j].status \in {record[j].status, "absent"}
      BY DEF TerminalStep
    <2>1. Moves(j)
      BY StepMoves
    <2>2. PastRecord(j)
      BY DEF LifeInv, NothingBeforeRecord, Terminal
    <2> QED BY <2>1, <2>2 DEF Moves, PastRecord, Live, Terminal
  <1> QED BY <1>1, LifeInvHolds, PTL DEF SafetySpec, TerminalIsFinal

-----------------------------------------------------------------------------
(* Claims, rows, slots and uploads                                             *)

(* What a step does to one record.  Each value a command leaves behind has a   *)
(* name, so that the provers need not look into it.                            *)

NewRecord == [Absent EXCEPT !.status = "queued"]
ExpiringRecord(k) == [record[k] EXCEPT !.ttl = (record[k].status # "absent")]
CancelledOne(k) == [record[k] EXCEPT !.status = "cancelled", !.ttl = TRUE]
UnclaimedOne(k) == [record[k] EXCEPT !.owner = NoWorker, !.token = NoRun]
StoredOne(k, s) == [record[k] EXCEPT !.status = s, !.ttl = TRUE]
ClaimedOne(w, r) == [status |-> "running", owner |-> w, token |-> r, ttl |-> TRUE]

\* If nothing can fail, who changed a record learns of it.
RunLearns(r, step) ==
    Replies(r) = {"ok"} =>
        run'[r].pc = step /\ run'[r].job = run[r].job /\ run'[r].outcome = run[r].outcome
RequestLearns(q) ==
    RedisReplies = {"ok"} => request'[q].pc = "metric" /\ request'[q].job = request[q].job

\* A run claims, ends or gives back its own job.
RunWrites(r, k) ==
    /\ run[r].job = k
    /\ \/ /\ run[r].pc = "claim" /\ ClaimResult(k) = CLAIMED
          /\ record'[k] = ClaimedOne(run[r].worker, r)
          /\ RunLearns(r, "start")
       \/ /\ run[r].pc = "store" /\ MayStore(k, r)
          /\ record'[k] = StoredOne(k, run[r].outcome)
          /\ RunLearns(r, "metric")
       \/ /\ run[r].pc = "finish" /\ Holds(r)
          /\ record'[k] = UnclaimedOne(k)
          /\ Replies(r) = {"ok"} => run'[r].pc # "finish"

RecordMoves(k) ==
    \/ record'[k] = record[k]
    \/ record'[k] = Absent
    \/ create[k] = "hset" /\ create'[k] # "hset" /\ record'[k] = NewRecord
    \/ create[k] = "expire" /\ record'[k] = ExpiringRecord(k)
    \/ /\ record[k].status \in Live /\ record'[k] = CancelledOne(k)
       /\ \E q \in Requests : request[q].pc = "transition" /\ request[q].job = k /\ RequestLearns(q)
    \/ \E r \in Runs : RunWrites(r, k)

LEMMA CommandRecords ==
    ASSUME StoreTypeOK, NEW j \in Jobs, NEW k \in Jobs
    PROVE  /\ Deleted(j)[k] = IF k = j THEN Absent ELSE record[k]
           /\ Queued(j)[k] = IF k = j THEN NewRecord ELSE record[k]
           /\ Expiring(j)[k] = IF k = j THEN ExpiringRecord(k) ELSE record[k]
           /\ CancelledRecord(j)[k] = IF k = j THEN CancelledOne(k) ELSE record[k]
           /\ Unclaimed(j)[k] = IF k = j THEN UnclaimedOne(k) ELSE record[k]
           /\ \A s : Stored(j, s)[k] = IF k = j THEN StoredOne(k, s) ELSE record[k]
           /\ \A w, r : Claimed(j, w, r)[k] = IF k = j THEN ClaimedOne(w, r) ELSE record[k]
  BY DEF StoreTypeOK, Deleted, Queued, Expiring, CancelledRecord, Unclaimed, Stored, Claimed,
         NewRecord, ExpiringRecord, CancelledOne, UnclaimedOne, StoredOne, ClaimedOne

LEMMA RecordFields ==
    ASSUME StoreTypeOK, NEW k \in Jobs
    PROVE  /\ Absent.status = "absent" /\ Absent.owner = NoWorker /\ Absent.token = NoRun
           /\ NewRecord.status = "queued" /\ NewRecord.owner = NoWorker /\ NewRecord.token = NoRun
           /\ LET x == ExpiringRecord(k)
              IN  /\ x.status = record[k].status /\ x.owner = record[k].owner
                  /\ x.token = record[k].token /\ x.ttl = (record[k].status # "absent")
           /\ LET x == CancelledOne(k)
              IN  x.status = "cancelled" /\ x.owner = record[k].owner /\ x.token = record[k].token /\ x.ttl
           /\ LET x == UnclaimedOne(k)
              IN  x.status = record[k].status /\ x.owner = NoWorker /\ x.token = NoRun /\ x.ttl = record[k].ttl
           /\ \A s : LET x == StoredOne(k, s)
                     IN  x.status = s /\ x.owner = record[k].owner /\ x.token = record[k].token /\ x.ttl
           /\ \A w, r : LET x == ClaimedOne(w, r)
                        IN  x.status = "running" /\ x.owner = w /\ x.token = r /\ x.ttl
  <1>1. record[k] \in Records
    BY DEF StoreTypeOK
  <1> QED
    BY <1>1 DEF Records, Absent, NewRecord, ExpiringRecord, CancelledOne, UnclaimedOne, StoredOne, ClaimedOne

\* The fields of a run that goes on.
LEMMA RunFields ==
    ASSUME WorkerTypeOK, NEW r \in Runs
    PROVE  /\ \A step : LET x == [run[r] EXCEPT !.pc = step]
                       IN  /\ x.pc = step /\ x.job = run[r].job /\ x.worker = run[r].worker
                           /\ x.stored = run[r].stored /\ x.outcome = run[r].outcome
           /\ \A step, s : LET x == [run[r] EXCEPT !.pc = step, !.outcome = s]
                          IN  /\ x.pc = step /\ x.job = run[r].job /\ x.worker = run[r].worker
                              /\ x.stored = run[r].stored /\ x.outcome = s
           /\ \A step : LET x == [run[r] EXCEPT !.pc = step, !.stored = TRUE]
                       IN  /\ x.pc = step /\ x.job = run[r].job /\ x.worker = run[r].worker
                           /\ x.stored /\ x.outcome = run[r].outcome
           /\ \A x : [run EXCEPT ![r] = x][r] = x
  <1>1. run \in [Runs -> RunRecords] /\ run[r] \in RunRecords
    BY GoodRuns
  <1> QED BY <1>1 DEF RunRecords

LEMMA ApiRecords ==
    ASSUME TypeOK, ApiNext, NEW k \in Jobs
    PROVE  RecordMoves(k)
  <1>1. StoreTypeOK /\ ApiTypeOK
    BY DEF TypeOK
  <1>2. ASSUME NEW j \in Jobs, CreateStep(j) \/ CreateCrash(j)
        PROVE  RecordMoves(k)
    <2> USE DEF CreateStep, CreateCrash, ReserveActiveJob, ConsumeRate, SaveUploads, CreateJobRecord,
         ExpireJobRecord, AcceptMetric, EnqueueJob, UndoMetric, UndoDirectory, UndoRecord, UndoSlot
    <2>1. \/ record' = record
          \/ create[j] = "hset" /\ create'[j] # "hset" /\ record' = Queued(j)
          \/ create[j] = "expire" /\ record' = Expiring(j)
          \/ record' = Deleted(j)
      BY <1>1, <1>2 DEF storeVars, CreateGoto, ApiTypeOK
    <2> QED BY <1>1, <2>1, CommandRecords DEF RecordMoves
  <1>3. ASSUME NEW q \in Requests, DeleteStep(q) \/ RequestCrash(q) \/ \E j \in Jobs : AuthorizedJob(q, j)
        PROVE  RecordMoves(k)
    <2> USE DEF DeleteStep, RequestCrash, CancelJobTransition, CancelMetric, CancelRemoveDirectory,
         CancelRelease, DeleteDirectory, DeleteRecord, DeleteExpiry, AuthorizedJob
    <2>1. CASE record' = record
      BY <2>1 DEF RecordMoves
    <2>2. CASE record' # record
      <3>1. request[q].job \in Jobs
        BY <1>1, <1>3, <2>2 DEF ApiTypeOK, storeVars
      <3>2. \/ CancelJobTransition(q) /\ record[request[q].job].status \in Live
            \/ record' = Deleted(request[q].job)
        BY <1>3, <2>2 DEF storeVars, Cancellable
      <3>3. CASE record' = Deleted(request[q].job)
        BY <1>1, <3>1, <3>3, CommandRecords DEF RecordMoves
      <3>4. CASE CancelJobTransition(q) /\ record[request[q].job].status \in Live
        <4>1. request[q].pc = "transition" /\ record' = CancelledRecord(request[q].job)
          BY <2>2, <3>4 DEF CancelJobTransition
        <4>2. RequestLearns(q)
          BY <1>1, <3>4 DEF RequestLearns, CancelJobTransition, NextAfterTransition, ApiTypeOK, Live
        <4> QED BY <1>1, <3>1, <3>4, <4>1, <4>2, CommandRecords DEF RecordMoves
      <3> QED BY <3>2, <3>3, <3>4
    <2> QED BY <2>1, <2>2
  <1> QED BY <1>2, <1>3 DEF ApiNext

LEMMA WorkerRecords ==
    ASSUME TypeOK, WorkerNext, NEW k \in Jobs
    PROVE  RecordMoves(k)
  <1>1. StoreTypeOK /\ WorkerTypeOK
    BY DEF TypeOK
  <1>2. CASE record' = record
    BY <1>2 DEF RecordMoves
  <1>3. CASE record' # record
    <2>1. PICK r \in Runs : RunStep(r)
      BY <1>3 DEF WorkerNext, FinishJob, RequeueJob, Interrupt, StartJob, GiveUpJob, WriteOutput, ThreadStep, DeferEnds, OnStartup,
                  HeartbeatLoop, Shutdown, OnShutdown, WorkerCrash, storeVars
    <2>2. MarkJobRunning(r) \/ StoreTerminalState(r) \/ FinishJobClaim(r)
      BY <1>3, <2>1 DEF RunStep, LoadRecord, DeferBusyJob, StartOperation, ExecuteOperation, TerminalMetric,
                  CleanDirectory, UnlinkInputs, ReleaseActiveJob, FinalHeartbeat, storeVars
    <2>3. run[r].job \in Jobs
      BY <1>1, <2>2 DEF WorkerTypeOK, MarkJobRunning, StoreTerminalState, FinishJobClaim
    <2>4. CASE MarkJobRunning(r)
      <3>1. run[r].pc = "claim" /\ ClaimResult(run[r].job) = CLAIMED /\ record' = Claimed(run[r].job, run[r].worker, r)
        BY <1>3, <2>4 DEF MarkJobRunning
      <3> DEFINE next == CASE ClaimResult(run[r].job) = CLAIMED -> "start"
                           [] ClaimResult(run[r].job) = CLAIM_BUSY -> "busy"
                           [] OTHER -> "return"
      <3>2. PICK reply \in Replies(r) : run' = [run EXCEPT ![r] = After(r, reply, [run[r] EXCEPT !.pc = next])]
        BY <2>4, Zenon DEF MarkJobRunning
      <3>3. next = "start"
        BY <3>1 DEF CLAIMED, CLAIM_BUSY
      <3>4. run' = [run EXCEPT ![r] = After(r, reply, [run[r] EXCEPT !.pc = "start"])]
        BY <3>2, <3>3
      <3>5. RunLearns(r, "start")
        BY <1>1, <3>4, RunFields DEF RunLearns, After
      <3> QED BY <1>1, <2>3, <3>1, <3>5, CommandRecords DEF RecordMoves, RunWrites
    <2>5. CASE StoreTerminalState(r)
      <3>1. run[r].pc = "store" /\ MayStore(run[r].job, r) /\ record' = Stored(run[r].job, run[r].outcome)
        BY <1>3, <2>5 DEF StoreTerminalState
      <3>2. PICK reply \in Replies(r) :
               run' = [run EXCEPT ![r] = After(r, reply, [run[r] EXCEPT !.pc = "metric", !.stored = TRUE])]
        BY <2>5, <3>1, Zenon DEF StoreTerminalState
      <3>3. RunLearns(r, "metric")
        BY <1>1, <3>2, RunFields DEF RunLearns, After
      <3> QED BY <1>1, <2>3, <3>1, <3>3, CommandRecords DEF RecordMoves, RunWrites
    <2>6. CASE FinishJobClaim(r)
      <3>1. run[r].pc = "finish" /\ Holds(r) /\ record' = Unclaimed(run[r].job)
        BY <1>3, <2>6 DEF FinishJobClaim
      <3>2. PICK step \in {"clean", "beat"} : \E s : \E reply \in Replies(r) :
              run' = [run EXCEPT ![r] = After(r, reply, [run[r] EXCEPT !.pc = step, !.outcome = s])]
        BY <2>6 DEF FinishJobClaim
      <3>3. Replies(r) = {"ok"} => run'[r].pc # "finish"
        BY <1>1, <3>2, RunFields DEF After
      <3> QED BY <1>1, <2>3, <3>1, <3>3, CommandRecords DEF RecordMoves, RunWrites
    <2> QED BY <2>2, <2>4, <2>5, <2>6
  <1> QED BY <1>2, <1>3

\* Whatever step is taken, a record changes as one command or script changes it.
LEMMA StepRecords ==
    ASSUME TypeOK, [Next]_vars, NEW k \in Jobs
    PROVE  RecordMoves(k)
  <1>1. CASE CleanupNext
    <2>1. record' = record \/ (sweep.pc # "idle" /\ record' = Deleted(sweep.job))
      BY <1>1 DEF CleanupNext, ReadExpired, ScanOrphan, SweepStep, CleanupCrash, CheckOwner, PostponeOwned,
             SweepRelease, SweepRemoveDirectory, SweepDelete, SweepUnlist, storeVars
    <2> QED BY <2>1, CommandRecords DEF RecordMoves, TypeOK, CleanupTypeOK
  <1>2. CASE EnvironmentNext
    <2>1. \/ record' = record
          \/ \E j \in Jobs : record' = Deleted(j)
          \/ record' = [j \in Jobs |-> Absent]
      BY <1>2 DEF EnvironmentNext, RecordExpires, SlotLapses, LockExpires, BeatExpires, RedisRestart
    <2> QED BY <2>1, CommandRecords DEF RecordMoves, TypeOK
  <1>3. CASE UNCHANGED vars
    BY <1>3 DEF vars, storeVars, RecordMoves
  <1> QED BY <1>1, <1>2, <1>3, ApiRecords, WorkerRecords DEF Next

-----------------------------------------------------------------------------
(* The steps of a run.                                                         *)

RunStarts(r) ==
    /\ run[r] = Idle
    /\ run'[r].pc = "load" /\ run'[r].job \in queue /\ ~run'[r].stored
    /\ worker[run'[r].worker] = "up" /\ worker' = worker
    /\ \A k \in Jobs : record[k].token # r
    /\ record' = record

Arrows ==
    {<<"load", "claim">>, <<"claim", "start">>, <<"claim", "busy">>, <<"busy", "retry">>,
     <<"start", "execute">>, <<"start", "finish">>, <<"execute", "store">>, <<"execute", "finish">>,
     <<"store", "store">>, <<"store", "metric">>, <<"store", "finish">>, <<"metric", "finish">>,
     <<"finish", "clean">>, <<"finish", "beat">>, <<"clean", "unlink">>, <<"clean", "release">>,
     <<"unlink", "release">>, <<"unlink", "return">>, <<"release", "beat">>}
    \cup {"load", "claim", "busy", "finish", "release", "beat"} \X {"return", "requeue"}

Seen(r) == IF Holds(r) THEN record[run[r].job].status ELSE "none"

RunGoes(r) ==
    LET j == run[r].job
    IN  /\ run[r].pc # "idle" /\ run'[r].job = j /\ run'[r].worker = run[r].worker
        /\ worker' = worker
        /\ <<run[r].pc, run'[r].pc>> \in Arrows
        /\ run[r].pc \notin {"claim", "store", "finish"} => record' = record
        /\ run'[r].stored # run[r].stored => run'[r].pc = "metric"
        /\ run'[r].pc = "start" => ClaimResult(j) = CLAIMED /\ record' = Claimed(j, run[r].worker, r)
        /\ run'[r].pc = "metric" =>
             MayStore(j, r) /\ record' = Stored(j, run[r].outcome) /\ run'[r].outcome = run[r].outcome
        /\ run[r].pc = "store" /\ run'[r].pc = "store" => run'[r].outcome = "failed"
        /\ run'[r].pc = "clean" =>
             /\ CleansUp(run[r].stored, Seen(r))
             /\ record' = IF Holds(r) THEN Unclaimed(j) ELSE record
        /\ run[r].pc = "execute" /\ run'[r].pc = "store" /\ run'[r].outcome = "succeeded" /\ j \notin shared =>
             "result" \in disk'[j]

RunMoves(r) == run'[r] = run[r] \/ run'[r] = Idle \/ RunStarts(r) \/ RunGoes(r)

\* Where a command that does not answer leaves a run.
LEMMA BadReply ==
    ASSUME WorkerTypeOK, NEW r \in Runs, run[r].pc # "idle", NEW reply \in Replies(r), reply # "ok", NEW next
    PROVE  LET x == After(r, reply, next)
           IN  /\ x.job = run[r].job /\ x.worker = run[r].worker /\ x.stored = run[r].stored
               /\ run[r].pc \in {"load", "claim", "busy", "finish", "release", "beat"} =>
                    x.pc \in {"return", "requeue"}
               /\ run[r].pc = "store" => x.pc = "finish" \/ (x.pc = "store" /\ x.outcome = "failed")
               /\ reply \in {"shutdown", "timeout"} /\ run[r].pc \in TrySteps => x.pc = "finish"
  <1>1. run[r] \in RunRecords
    BY GoodRuns
  <1>2. reply \in {"error", "lost", "shutdown", "timeout"}
    BY DEF Replies, RedisReplies, Interrupts
  <1>3. CASE reply \in {"error", "lost"}
    <2>1. LET x == RaisedRun(r)
          IN  /\ x.job = run[r].job /\ x.worker = run[r].worker /\ x.stored = run[r].stored
              /\ run[r].pc # "store" => x.pc = "return"
              /\ run[r].pc = "store" => x.pc = "finish" \/ (x.pc = "store" /\ x.outcome = "failed")
      BY <1>1 DEF RaisedRun, RunRecords
    <2> QED BY <1>3, <2>1 DEF After
  <1>4. CASE reply \in {"shutdown", "timeout"}
    <2>1. LET x == CancelledRun(r, reply)
          IN  /\ x.job = run[r].job /\ x.worker = run[r].worker /\ x.stored = run[r].stored
              /\ run[r].pc \in TrySteps => x.pc = "finish"
              /\ run[r].pc \notin TrySteps => x.pc \in {"return", "requeue"}
      BY <1>1 DEF CancelledRun, RunRecords, ExitStep
    <2> QED BY <1>4, <2>1 DEF After, TrySteps
  <1> QED BY <1>2, <1>3, <1>4

\* A command that does not answer, or an interruption, is a step of RunGoes.
LEMMA BadGoes ==
    ASSUME WorkerTypeOK, NEW r \in Runs, run[r].pc # "idle", worker' = worker,
           run[r].pc \notin {"claim", "store", "finish"} => record' = record,
           NEW reply \in Replies(r), reply # "ok", NEW next, run'[r] = After(r, reply, next),
           \/ run[r].pc \in {"load", "claim", "busy", "store", "finish", "release", "beat"}
           \/ run[r].pc \in TrySteps /\ reply \in {"shutdown", "timeout"}
    PROVE  RunGoes(r)
  <1>1. /\ run'[r].job = run[r].job /\ run'[r].worker = run[r].worker /\ run'[r].stored = run[r].stored
        /\ run[r].pc = "store" => run'[r].pc = "finish" \/ (run'[r].pc = "store" /\ run'[r].outcome = "failed")
    BY BadReply
  <1>2. /\ run[r].pc \in {"load", "claim", "busy", "finish", "release", "beat"} =>
             run'[r].pc \in {"return", "requeue"}
        /\ run[r].pc \in {"start", "execute", "metric"} => run'[r].pc = "finish"
    BY BadReply DEF TrySteps
  <1> QED BY <1>1, <1>2 DEF RunGoes, Arrows, TrySteps

\* So is a step that only goes on, to no point with a condition of its own.
LEMMA GoodGoes ==
    ASSUME WorkerTypeOK, NEW r \in Runs, run[r].pc # "idle", worker' = worker,
           run[r].pc \notin {"claim", "store", "finish"} => record' = record,
           NEW step, <<run[r].pc, step>> \in Arrows, step \notin {"start", "store", "metric", "clean"},
           \/ run'[r] = [run[r] EXCEPT !.pc = step]
           \/ \E s : run'[r] = [run[r] EXCEPT !.pc = step, !.outcome = s]
    PROVE  RunGoes(r)
  <1>1. /\ run'[r].pc = step /\ run'[r].job = run[r].job /\ run'[r].worker = run[r].worker
        /\ run'[r].stored = run[r].stored
    <2>1. CASE run'[r] = [run[r] EXCEPT !.pc = step]
      BY <2>1, RunFields
    <2>2. ASSUME NEW s, run'[r] = [run[r] EXCEPT !.pc = step, !.outcome = s]
          PROVE  /\ run'[r].pc = step /\ run'[r].job = run[r].job /\ run'[r].worker = run[r].worker
                 /\ run'[r].stored = run[r].stored
      <3>1. run[r] \in RunRecords
        BY GoodRuns
      <3> QED BY <2>2, <3>1 DEF RunRecords
    <2> QED BY <2>1, <2>2
  <1> QED BY <1>1 DEF RunGoes

LEMMA StepGoes ==
    ASSUME TypeOK, NEW r \in Runs, RunStep(r) \/ Interrupt(r)
    PROVE  RunGoes(r)
  <1> USE DEF LoadRecord, MarkJobRunning, DeferBusyJob, StartOperation, ExecuteOperation,
       StoreTerminalState, TerminalMetric, FinishJobClaim, CleanDirectory, UnlinkInputs,
       ReleaseActiveJob, FinalHeartbeat
  <1> DEFINE j == run[r].job
  <1>1. WorkerTypeOK /\ run[r].pc # "idle" /\ worker' = worker
    BY DEF TypeOK, RunStep, Interrupt, TrySteps
  <1>2. \A x : run' = [run EXCEPT ![r] = x] => run'[r] = x
    BY <1>1, GoodRuns
  <1>3. CASE LoadRecord(r)
    <2>1. record' = record
      BY <1>3 DEF storeVars
    <2>2. PICK reply \in RedisReplies, step \in {"claim", "return"} :
            run'[r] = After(r, reply, [run[r] EXCEPT !.pc = step])
      BY <1>2, <1>3
    <2>3. reply \in Replies(r)
      BY DEF Replies
    <2>4. CASE reply = "ok"
      BY <1>1, <1>3, <2>1, <2>2, <2>4, GoodGoes DEF After, Arrows
    <2> QED BY <1>1, <1>3, <2>1, <2>2, <2>3, <2>4, BadGoes
  <1>4. CASE MarkJobRunning(r)
    <2>1. PICK reply \in Replies(r) :
            /\ run'[r] = After(r, reply, [run[r] EXCEPT !.pc = CASE ClaimResult(j) = CLAIMED -> "start"
                                                                [] ClaimResult(j) = CLAIM_BUSY -> "busy"
                                                                [] OTHER -> "return"])
            /\ ClaimResult(j) = CLAIMED /\ TakesEffect(reply) => record' = Claimed(j, run[r].worker, r)
      BY <1>2, <1>4
    <2>2. CASE reply = "ok"
      <3>1. PICK step \in {"start", "busy", "return"} :
              run'[r] = [run[r] EXCEPT !.pc = step] /\ (step = "start" => ClaimResult(j) = CLAIMED)
        BY <2>1, <2>2 DEF CLAIMED, CLAIM_BUSY, After
      <3>2. CASE step = "start"
        <4>1. /\ run'[r].pc = "start" /\ run'[r].job = j /\ run'[r].worker = run[r].worker
              /\ run'[r].stored = run[r].stored
          BY <1>1, <3>1, <3>2, RunFields
        <4>2. record' = Claimed(j, run[r].worker, r)
          BY <2>1, <2>2, <3>1, <3>2 DEF TakesEffect
        <4> QED BY <1>1, <1>4, <3>1, <3>2, <4>1, <4>2 DEF RunGoes, Arrows
      <3> QED BY <1>1, <1>4, <3>1, <3>2, GoodGoes DEF Arrows
    <2> QED BY <1>1, <1>4, <2>1, <2>2, BadGoes
  <1>5. CASE DeferBusyJob(r) \/ ReleaseActiveJob(r) \/ FinalHeartbeat(r)
    <2>1. PICK reply \in Replies(r), step \in {"retry", "beat", "return", "requeue"} :
            /\ run'[r] = After(r, reply, [run[r] EXCEPT !.pc = step])
            /\ <<run[r].pc, step>> \in {<<"busy", "retry">>, <<"release", "beat">>, <<"beat", "return">>,
                                        <<"beat", "requeue">>}
      BY <1>2, <1>5 DEF ExitStep
    <2>2. record' = record
      BY <1>5
    <2>3. CASE reply = "ok"
      <3>1. run'[r] = [run[r] EXCEPT !.pc = step]
        BY <2>1, <2>3 DEF After
      <3> QED BY <1>1, <1>5, <2>1, <2>2, <3>1, GoodGoes DEF Arrows
    <2> QED BY <1>1, <1>5, <2>1, <2>2, <2>3, BadGoes
  <1>6. CASE StartOperation(r) \/ TerminalMetric(r)
    <2>1. PICK step \in {"execute", "finish"} :
            /\ run'[r] = [run[r] EXCEPT !.pc = step]
            /\ <<run[r].pc, step>> \in {<<"start", "execute">>, <<"metric", "finish">>}
      BY <1>1, <1>6, GoodRuns DEF Goto
    <2> QED BY <1>1, <1>6, <2>1, GoodGoes DEF Arrows
  <1>7. CASE ExecuteOperation(r)
    <2>1. PICK s \in {"succeeded", "failed"} :
            /\ run'[r] = [run[r] EXCEPT !.pc = "store", !.outcome = s]
            /\ s = "succeeded" /\ j \notin shared => "dir" \in disk[j] /\ disk' = ResultMade(j)
      BY <1>1, <1>7, GoodRuns
    <2>2. j \in Jobs
      BY <1>1 DEF WorkerTypeOK
    <2>3. s = "succeeded" /\ j \notin shared => "result" \in disk'[j]
      BY <2>1, <2>2 DEF TypeOK, StoreTypeOK, ResultMade
    <2>4. /\ run'[r].pc = "store" /\ run'[r].job = j /\ run'[r].worker = run[r].worker
          /\ run'[r].stored = run[r].stored /\ run'[r].outcome = s
      BY <1>1, <2>1, RunFields
    <2> QED BY <1>1, <1>7, <2>3, <2>4 DEF RunGoes, Arrows
  <1>8. CASE StoreTerminalState(r)
    <2>1. PICK reply \in Replies(r) :
            /\ MayStore(j, r) /\ TakesEffect(reply) => record' = Stored(j, run[r].outcome)
            /\ run' = [run EXCEPT ![r] = After(r, reply, IF MayStore(j, r) THEN [run[r] EXCEPT !.pc = "metric", !.stored = TRUE]
                                         ELSE [run[r] EXCEPT !.pc = "finish"])]
      BY <1>8
    <2>2. run'[r] = After(r, reply, IF MayStore(j, r) THEN [run[r] EXCEPT !.pc = "metric", !.stored = TRUE]
                                         ELSE [run[r] EXCEPT !.pc = "finish"])
      BY <1>2, <2>1
    <2>3. CASE reply = "ok" /\ MayStore(j, r)
      <3>1. run'[r] = [run[r] EXCEPT !.pc = "metric", !.stored = TRUE]
        BY <2>2, <2>3 DEF After
      <3>2. /\ run'[r].pc = "metric" /\ run'[r].job = j /\ run'[r].worker = run[r].worker
            /\ run'[r].stored /\ run'[r].outcome = run[r].outcome
        BY <1>1, <3>1, RunFields
      <3>3. record' = Stored(j, run[r].outcome)
        BY <2>1, <2>3 DEF TakesEffect
      <3> QED BY <1>1, <1>8, <2>3, <3>2, <3>3 DEF RunGoes, Arrows
    <2>4. CASE reply = "ok" /\ ~MayStore(j, r)
      <3>1. run'[r] = [run[r] EXCEPT !.pc = "finish"]
        BY <2>2, <2>4 DEF After
      <3>2. /\ run'[r].pc = "finish" /\ run'[r].job = j /\ run'[r].worker = run[r].worker
            /\ run'[r].stored = run[r].stored
        BY <1>1, <3>1, RunFields
      <3> QED BY <1>1, <1>8, <3>2 DEF RunGoes, Arrows
    <2> QED BY <1>1, <1>8, <2>2, <2>3, <2>4, BadGoes
  <1>9. CASE FinishJobClaim(r)
    <2> DEFINE step == IF CleansUp(run[r].stored, Seen(r)) THEN "clean" ELSE "beat"
    <2>1. PICK reply \in Replies(r) :
            /\ record' = IF Holds(r) /\ TakesEffect(reply) THEN Unclaimed(j) ELSE record
            /\ run' = [run EXCEPT ![r] = After(r, reply, [run[r] EXCEPT !.pc = step, !.outcome = Seen(r)])]
      BY <1>9 DEF Seen
    <2>2. run'[r] = After(r, reply, [run[r] EXCEPT !.pc = step, !.outcome = Seen(r)])
      BY <1>2, <2>1
    <2>3. CASE reply = "ok"
      <3>1. run'[r] = [run[r] EXCEPT !.pc = step, !.outcome = Seen(r)]
        BY <2>2, <2>3 DEF After
      <3>2. /\ run'[r].pc = step /\ run'[r].job = j /\ run'[r].worker = run[r].worker
            /\ run'[r].stored = run[r].stored
        BY <1>1, <3>1, RunFields
      <3>3. record' = IF Holds(r) THEN Unclaimed(j) ELSE record
        BY <2>1, <2>3 DEF TakesEffect
      <3> QED BY <1>1, <1>9, <3>2, <3>3 DEF RunGoes, Arrows
    <2> QED BY <1>1, <1>9, <2>2, <2>3, BadGoes
  <1>10. CASE CleanDirectory(r) \/ UnlinkInputs(r)
    <2>1. PICK step \in {"release", "unlink", "return"} :
            /\ run'[r] = [run[r] EXCEPT !.pc = step]
            /\ <<run[r].pc, step>> \in {<<"clean", "release">>, <<"clean", "unlink">>, <<"unlink", "release">>,
                                        <<"unlink", "return">>}
      BY <1>1, <1>10, GoodRuns DEF Goto
    <2> QED BY <1>1, <1>10, <2>1, GoodGoes DEF Arrows
  <1>11. CASE Interrupt(r)
    <2>1. PICK why \in Interrupts(r) : run'[r] = CancelledRun(r, why)
      BY <1>1, <1>11, GoodRuns DEF Interrupt
    <2>2. /\ why \in Replies(r) /\ why \in {"shutdown", "timeout"} /\ why # "ok"
          /\ After(r, why, Idle) = CancelledRun(r, why)
      BY DEF Replies, Interrupts, After
    <2>3. record' = record /\ run[r].pc \in TrySteps \cup {"load", "claim", "busy", "finish", "release", "beat"}
      BY <1>11 DEF Interrupt, storeVars
    <2> QED BY <1>1, <2>1, <2>2, <2>3, BadGoes
  <1> QED BY <1>3, <1>4, <1>5, <1>6, <1>7, <1>8, <1>9, <1>10, <1>11 DEF RunStep

\* Whatever step is taken, every run stays, ends, starts or goes one step on.
LEMMA StepRuns ==
    ASSUME TypeOK, [Next]_vars, NEW r \in Runs
    PROVE  RunMoves(r)
  <1>1. run \in [Runs -> RunRecords]
    BY GoodRuns DEF TypeOK
  <1>2. CASE run' = run
    BY <1>2 DEF RunMoves
  <1>3. CASE run' # run
    <2>1. WorkerNext
      BY <1>3 DEF Next, workerVars, vars
    <2>2. ASSUME NEW p \in Runs, RunStep(p) \/ Interrupt(p)
          PROVE  RunMoves(r)
      <3>1. p # r => run'[r] = run[r]
        BY <1>1, <2>2 DEF RunStep, LoadRecord, MarkJobRunning, DeferBusyJob, StartOperation, ExecuteOperation,
             StoreTerminalState, TerminalMetric, FinishJobClaim, CleanDirectory, UnlinkInputs,
             ReleaseActiveJob, FinalHeartbeat, Interrupt, Goto
      <3> QED BY <2>2, <3>1, StepGoes DEF RunMoves
    <2>3. ASSUME NEW p \in Runs, FinishJob(p) \/ RequeueJob(p)
          PROVE  RunMoves(r)
      BY <1>1, <2>3 DEF FinishJob, RequeueJob, RunMoves
    <2>4. ASSUME NEW w \in Workers, NEW p \in Runs, NEW j \in Jobs, StartJob(w, p, j)
          PROVE  RunMoves(r)
      BY <1>1, <2>4 DEF StartJob, RunMoves, RunStarts, Idle
    <2>5. ASSUME NEW w \in Workers, WorkerCrash(w)
          PROVE  RunMoves(r)
      BY <2>5 DEF WorkerCrash, RunMoves
    <2> QED BY <1>3, <2>1, <2>2, <2>3, <2>4, <2>5 DEF WorkerNext, GiveUpJob, WriteOutput, ThreadStep, DeferEnds, OnStartup,
                HeartbeatLoop, Shutdown, OnShutdown
  <1> QED BY <1>2, <1>3
-----------------------------------------------------------------------------
(* The steps of a create_job, of a DELETE request and of a metrics row.        *)

CreateArrows ==
    {<<"new", "rate">>, <<"new", "refused">>, <<"rate", "upload">>, <<"upload", "hset">>,
     <<"hset", "expire">>, <<"expire", "accept">>, <<"accept", "enqueue">>, <<"enqueue", "created">>,
     <<"enqueue", "undo_metric">>, <<"undo_metric", "undo_dir">>, <<"undo_dir", "undo_record">>,
     <<"undo_record", "undo_slot">>}
    \cup {"rate", "upload", "hset", "expire"} \X {"undo_dir"}
    \cup {"rate", "upload", "hset", "expire", "accept", "enqueue"} \X {"crashed"}
    \cup UndoSteps \X {"failed"}

CreateMoves(j) ==
    \/ create'[j] = create[j]
    \/ /\ <<create[j], create'[j]>> \in CreateArrows
       /\ create'[j] = "expire" => record' = Queued(j)
       /\ create'[j] = "accept" => record' = Expiring(j)
       /\ create'[j] = "undo_slot" => record' = Deleted(j)
       /\ create'[j] = "rate" => slots' = slots \cup {j}

LEMMA StepCreates ==
    ASSUME TypeOK, [Next]_vars, NEW k \in Jobs
    PROVE  CreateMoves(k)
  <1>1. CASE create' = create
    BY <1>1 DEF CreateMoves
  <1>2. CASE create' # create
    <2>1. PICK j \in Jobs : CreateStep(j) \/ CreateCrash(j)
      BY <1>2 DEF Next, ApiNext, apiVars, vars, DeleteStep, RequestCrash, CancelJobTransition, CancelMetric,
           CancelRemoveDirectory, CancelRelease, DeleteDirectory, DeleteRecord, DeleteExpiry, AuthorizedJob
    <2>2. create \in [Jobs -> CreateSteps]
      BY DEF TypeOK, ApiTypeOK
    <2>3. CASE k # j
      BY <2>1, <2>2, <2>3 DEF CreateMoves, CreateGoto, CreateStep, CreateCrash, ReserveActiveJob, ConsumeRate,
         SaveUploads, CreateJobRecord, ExpireJobRecord, AcceptMetric, EnqueueJob, UndoMetric, UndoDirectory,
         UndoRecord, UndoSlot
    <2>4. CASE k = j /\ CreateStep(j)
      BY <2>2, <2>4 DEF CreateMoves, CreateArrows, CreateGoto, CreateStep, ReserveActiveJob, ConsumeRate,
         SaveUploads, CreateJobRecord, ExpireJobRecord, AcceptMetric, EnqueueJob, UndoMetric, UndoDirectory,
         UndoRecord, UndoSlot, UndoSteps
    <2>5. CASE k = j /\ CreateCrash(j)
      <3>1. /\ create[k] \in CreateSteps \ (CreateOver \cup {"new"})
            /\ create'[k] = IF create[k] \in UndoSteps THEN "failed" ELSE "crashed"
        BY <2>2, <2>5 DEF CreateCrash, CreateGoto
      <3> QED BY <3>1 DEF CreateMoves, CreateArrows, CreateSteps, UndoSteps
    <2> QED BY <2>1, <2>3, <2>4, <2>5
  <1> QED BY <1>1, <1>2

RequestArrows ==
    {<<"metric", "rmtree">>, <<"rmtree", "release">>, <<"rmtree_done", "delete">>, <<"delete", "zrem">>}

\* authorized_job lets a request in; cancel_job_transition tells it what is left
\* to do; or it goes on with that.
RequestStarts(q) ==
    /\ request'[q].pc = "transition" /\ request'[q].job \in Jobs
    /\ create[request'[q].job] = "created" /\ record[request'[q].job].status # "absent"

RequestTransits(q) ==
    LET j == request[q].job
    IN  /\ request[q].pc = "transition" /\ request'[q].job = j
        /\ request'[q].pc = NextAfterTransition(record[j].status) /\ request'[q].pc # "idle"
        /\ request'[q].prev = record[j].status
        /\ record' = IF record[j].status \in Live THEN CancelledRecord(j) ELSE record

RequestGoes(q) ==
    /\ request'[q].job = request[q].job /\ request'[q].prev = request[q].prev
    /\ <<request[q].pc, request'[q].pc>> \in RequestArrows
    /\ request'[q].pc = "rmtree" => request[q].prev = "queued"

RequestMoves(q) ==
    \/ request'[q] \in {request[q], NoRequest}
    \/ RequestStarts(q) \/ RequestTransits(q) \/ RequestGoes(q)

LEMMA StepRequests ==
    ASSUME TypeOK, [Next]_vars, NEW q \in Requests
    PROVE  RequestMoves(q)
  <1>1. CASE request' = request
    BY <1>1 DEF RequestMoves
  <1>2. CASE request' # request
    <2>1. \/ \E p \in Requests : DeleteStep(p) \/ RequestCrash(p)
          \/ \E p \in Requests, j \in Jobs : AuthorizedJob(p, j)
      BY <1>2 DEF Next, ApiNext, apiVars, vars, CreateStep, CreateCrash, ReserveActiveJob, ConsumeRate,
         SaveUploads, CreateJobRecord, ExpireJobRecord, AcceptMetric, EnqueueJob, UndoMetric, UndoDirectory,
         UndoRecord, UndoSlot
    <2>2. request \in [Requests -> [pc: RequestSteps, job: Jobs \cup {NoJob}, prev: Status \cup {"absent"}]]
      BY DEF TypeOK, ApiTypeOK
    <2>3. ASSUME NEW p \in Requests, DeleteStep(p) \/ RequestCrash(p) \/ \E j \in Jobs : AuthorizedJob(p, j)
          PROVE  RequestMoves(q)
      <3>1. CASE q # p
        BY <2>2, <2>3, <3>1 DEF RequestMoves, RequestGoto, DeleteStep, RequestCrash, CancelJobTransition,
           CancelMetric, CancelRemoveDirectory, CancelRelease, DeleteDirectory, DeleteRecord, DeleteExpiry,
           AuthorizedJob
      <3>2. CASE q = p /\ (RequestCrash(p) \/ \E j \in Jobs : AuthorizedJob(p, j))
        BY <2>2, <3>2 DEF RequestMoves, RequestStarts, RequestCrash, AuthorizedJob
      <3>3. CASE q = p /\ CancelJobTransition(p)
        BY <2>2, <3>3 DEF RequestMoves, RequestTransits, CancelJobTransition, Cancellable
      <3>4. CASE q = p /\ DeleteStep(p) /\ ~CancelJobTransition(p)
        BY <2>2, <3>4 DEF RequestMoves, RequestGoes, RequestArrows, RequestGoto, DeleteStep, CleansCancelled,
           CancelMetric, CancelRemoveDirectory, CancelRelease, DeleteDirectory, DeleteRecord, DeleteExpiry
      <3> QED BY <2>3, <3>1, <3>2, <3>3, <3>4
    <2> QED BY <2>1, <2>3
  <1> QED BY <1>1, <1>2

MetricMoves(j) ==
    \/ metric'[j] = metric[j]
    \/ create[j] = "accept" /\ create'[j] = "enqueue" /\ metric'[j] = "queued"
    \/ /\ metric[j] = "queued" /\ metric'[j] = "running" /\ create' = create /\ record' = record
       /\ \E r \in Runs : run[r].pc = "start" /\ run[r].job = j
    \/ /\ metric[j] \in Live
       /\ \/ create[j] = "undo_metric" /\ create'[j] = "undo_dir"
          \/ /\ create' = create /\ record' = record
             /\ \/ \E q \in Requests :
                     request[q].pc = "metric" /\ request[q].job = j /\ metric'[j] = "cancelled"
                \/ \E r \in Runs :
                     run[r].pc = "metric" /\ run[r].job = j /\ metric'[j] = run[r].outcome

LEMMA MetricCommands ==
    ASSUME StoreTypeOK, NEW j \in Jobs, NEW k \in Jobs
    PROVE  /\ \A row \in Written(RecordAccepted(j)) : row[k] # metric[k] => k = j /\ row[k] = "queued"
           /\ \A row \in Written(RecordStarted(j)) :
                row[k] # metric[k] => k = j /\ metric[k] = "queued" /\ row[k] = "running"
           /\ \A s : \A row \in Written(RecordTerminal(j, s)) :
                row[k] # metric[k] => k = j /\ metric[k] \in Live /\ row[k] = s
  BY DEF StoreTypeOK, Written, RecordAccepted, RecordStarted, RecordTerminal

LEMMA StepRows ==
    ASSUME TypeOK, [Next]_vars, NEW k \in Jobs
    PROVE  MetricMoves(k)
  <1>1. CASE metric' = metric
    BY <1>1 DEF MetricMoves
  <1>2. CASE metric' # metric
    <2>1. StoreTypeOK /\ ApiTypeOK /\ WorkerTypeOK
      BY DEF TypeOK
    <2>2. \/ \E j \in Jobs : AcceptMetric(j) \/ UndoMetric(j)
          \/ \E q \in Requests : CancelMetric(q)
          \/ \E r \in Runs : (StartOperation(r) \/ TerminalMetric(r)) /\ create' = create
      <3>1. CASE ApiNext
        BY <1>2, <3>1 DEF ApiNext, CreateStep, CreateCrash, ReserveActiveJob, ConsumeRate,
           SaveUploads, CreateJobRecord, ExpireJobRecord, EnqueueJob, UndoDirectory,
           UndoRecord, UndoSlot, DeleteStep, RequestCrash, CancelJobTransition,
           CancelRemoveDirectory, CancelRelease, DeleteDirectory, DeleteRecord, DeleteExpiry, AuthorizedJob, storeVars
      <3>2. CASE WorkerNext /\ UNCHANGED apiVars
        <4>1. PICK r \in Runs : RunStep(r)
          BY <1>2, <3>2 DEF WorkerNext, FinishJob, RequeueJob, Interrupt, StartJob, GiveUpJob, WriteOutput, ThreadStep, DeferEnds, OnStartup,
                  HeartbeatLoop, Shutdown, OnShutdown, WorkerCrash, storeVars
        <4>2. StartOperation(r) \/ TerminalMetric(r)
          BY <1>2, <4>1 DEF RunStep, LoadRecord, MarkJobRunning, DeferBusyJob,
                  ExecuteOperation, StoreTerminalState, FinishJobClaim, CleanDirectory,
                  UnlinkInputs, ReleaseActiveJob, FinalHeartbeat, storeVars
        <4> QED BY <3>2, <4>2 DEF apiVars
      <3>3. CASE CleanupNext
        BY <1>2, <3>3 DEF CleanupNext, ReadExpired, ScanOrphan, SweepStep, CleanupCrash, CheckOwner, PostponeOwned,
             SweepRelease, SweepRemoveDirectory, SweepDelete, SweepUnlist, storeVars
      <3>4. CASE EnvironmentNext
        BY <1>2, <3>4 DEF EnvironmentNext, RecordExpires, SlotLapses, LockExpires, BeatExpires, RedisRestart
      <3> QED BY <1>2, <3>1, <3>2, <3>3, <3>4 DEF Next, vars, storeVars, workerVars, apiVars
    <2>3. CASE metric'[k] = metric[k]
      BY <2>3 DEF MetricMoves
    <2>4. CASE metric'[k] # metric[k]
      <3>1. ASSUME NEW j \in Jobs, AcceptMetric(j) PROVE MetricMoves(k)
        <4>1. k = j /\ metric'[k] = "queued"
          BY <2>1, <2>4, <3>1, MetricCommands DEF AcceptMetric
        <4> QED BY <2>1, <3>1, <4>1 DEF AcceptMetric, MetricMoves, CreateGoto, ApiTypeOK
      <3>2. ASSUME NEW j \in Jobs, UndoMetric(j) PROVE MetricMoves(k)
        <4>1. k = j /\ metric[k] \in Live
          BY <2>1, <2>4, <3>2, MetricCommands DEF UndoMetric
        <4> QED BY <2>1, <3>2, <4>1 DEF UndoMetric, MetricMoves, CreateGoto, ApiTypeOK
      <3>3. ASSUME NEW q \in Requests, CancelMetric(q) PROVE MetricMoves(k)
        <4>1. request[q].job \in Jobs
          BY <2>1, <3>3 DEF CancelMetric, ApiTypeOK
        <4>2. k = request[q].job /\ metric[k] \in Live /\ metric'[k] = "cancelled"
          BY <2>1, <2>4, <3>3, <4>1, MetricCommands DEF CancelMetric
        <4> QED BY <3>3, <4>2 DEF CancelMetric, MetricMoves
      <3>4. ASSUME NEW r \in Runs, StartOperation(r) \/ TerminalMetric(r), create' = create PROVE MetricMoves(k)
        <4>1. run[r].job \in Jobs
          BY <2>1, <3>4 DEF StartOperation, TerminalMetric, WorkerTypeOK
        <4>2. CASE StartOperation(r)
          BY <2>1, <2>4, <3>4, <4>1, <4>2, MetricCommands DEF StartOperation, MetricMoves
        <4>3. CASE TerminalMetric(r)
          <5>1. k = run[r].job /\ metric[k] \in Live /\ metric'[k] = run[r].outcome
            BY <2>1, <2>4, <4>1, <4>3, MetricCommands DEF TerminalMetric
          <5> QED BY <3>4, <4>3, <5>1 DEF TerminalMetric, MetricMoves
        <4> QED BY <3>4, <4>2, <4>3
      <3> QED BY <2>2, <3>1, <3>2, <3>3, <3>4
    <2> QED BY <2>3, <2>4
  <1> QED BY <1>1, <1>2
-----------------------------------------------------------------------------
(* ClaimInv is inductive.                                                      *)

\* A job that is over is claimed no more.
LEMMA OverTokens ==
    ASSUME TypeOK, LifeInv, [Next]_vars, NEW k \in Jobs, Over(k)
    PROVE  record'[k].token \in {record[k].token, NoRun}
  <1>1. RecordMoves(k) /\ StoreTypeOK
    BY StepRecords DEF TypeOK
  <1>2. create[k] # "hset" /\ record[k].status \notin Live
    BY DEF Over, PastRecord
  <1>3. ClaimResult(k) # CLAIMED
    BY <1>2 DEF ClaimResult, CLAIMED, CLAIM_BUSY, Live
  <1> QED BY <1>1, <1>2, <1>3, RecordFields DEF RecordMoves, RunWrites

LEMMA FencedStep ==
    ASSUME TypeOK, LifeInv, ClaimInv, [Next]_vars
    PROVE  ClaimsAreFenced'
  <1>1. SUFFICES ASSUME NEW r \in Runs, run'[r].pc # "idle"
                 PROVE  /\ run'[r].stored => record'[run'[r].job].token \in {r, NoRun}
                        /\ run'[r].pc \in {"clean", "unlink", "release"} =>
                             Over(run[r].job)' /\ record'[run'[r].job].token = NoRun
    BY DEF ClaimsAreFenced
  <1>2. RunMoves(r)
    BY StepRuns
  <1>3. CASE RunStarts(r)
    BY <1>3 DEF RunStarts
  <1>4. CASE run'[r] = run[r] \/ RunGoes(r)
    <2>1. PICK j \in Jobs : j = run[r].job /\ j = run'[r].job
      BY <1>1, <1>4 DEF RunGoes, TypeOK, WorkerTypeOK
    <2> StoreTypeOK
      BY DEF TypeOK
    <2>2. Over(j) => Over(j)' /\ record'[j].token \in {record[j].token, NoRun}
      BY <2>1, OverStays, OverTokens
    <2>3. /\ run[r].stored => Over(j) /\ record[j].token \in {r, NoRun}
          /\ run[r].pc \in {"clean", "unlink", "release"} => Over(j) /\ record[j].token = NoRun
          /\ PastRecord(j)
      BY <1>1, <1>4, <2>1 DEF ClaimInv, ClaimsAreFenced, LifeInv, RunsRemoveOver, RunGoes
    <2>4. run'[r].stored => record'[j].token \in {r, NoRun}
      <3>1. CASE run[r].stored
        BY <2>2, <2>3, <3>1
      <3>2. CASE ~run[r].stored /\ RunGoes(r) /\ run'[r].pc = "metric"
        <4>1. record'[j] = StoredOne(j, run[r].outcome) /\ record[j].token = r
          BY <2>1, <3>2, CommandRecords DEF RunGoes, MayStore
        <4> QED BY <2>1, <4>1, RecordFields
      <3> QED BY <1>4, <3>1, <3>2 DEF RunGoes
    <2>5. run'[r].pc \in {"clean", "unlink", "release"} => Over(j)' /\ record'[j].token = NoRun
      <3>1. CASE run[r].pc \in {"clean", "unlink", "release"}
        BY <2>2, <2>3, <3>1
      <3>2. CASE run'[r].pc = "clean" /\ RunGoes(r)
        <4>1. CleansUp(run[r].stored, Seen(r)) /\ record' = IF Holds(r) THEN Unclaimed(j) ELSE record
          BY <2>1, <3>2 DEF RunGoes
        <4>2. Over(j)
          BY <2>1, <2>3, <4>1 DEF CleansUp, Seen, Over, Live
        <4>3. record'[j].token = NoRun
          <5>1. CASE Holds(r)
            BY <2>1, <4>1, <5>1, CommandRecords, RecordFields
          <5>2. CASE ~Holds(r)
            <6>1. j # NoJob
              BY <2>1, ConstantsAssumption
            <6>2. run[r].stored /\ record' = record
              BY <4>1, <5>2 DEF CleansUp, Seen
            <6> QED BY <2>1, <2>3, <5>2, <6>1, <6>2 DEF Holds
          <5> QED BY <5>1, <5>2
        <4> QED BY <2>2, <4>2, <4>3
      <3> QED BY <1>4, <3>1, <3>2 DEF RunGoes, Arrows
    <2> QED BY <2>1, <2>4, <2>5
  <1> QED BY <1>1, <1>2, <1>3, <1>4 DEF RunMoves, Idle

LEMMA OwnersStep ==
    ASSUME TypeOK, LifeInv, ClaimInv, [Next]_vars
    PROVE  ClaimsHaveOwners'
  <1>1. StoreTypeOK /\ WorkerTypeOK
    BY DEF TypeOK
  <1>2. ASSUME NEW j \in Jobs, record'[j].status \in {"queued", "absent"}
        PROVE  record'[j].token = NoRun
    <2>1. record[j].status \in {"queued", "absent"} => record[j].token = NoRun
      BY DEF ClaimInv, ClaimsHaveOwners
    <2>2. \A r \in Runs : run[r].pc = "store" => run[r].outcome \notin {"queued", "absent"}
      BY <1>1 DEF WorkerTypeOK
    <2> QED BY <1>1, <1>2, <2>1, <2>2, StepRecords, RecordFields DEF RecordMoves, RunWrites
  <1>3. ASSUME NEW r \in Runs, run'[r].pc # "idle"
        PROVE  worker'[run'[r].worker] \in {"up", "stopping"}
    <2>1. CASE RunStarts(r)
      BY <2>1 DEF RunStarts
    <2>2. CASE RunGoes(r)
      BY <2>2 DEF RunGoes, ClaimInv, ClaimsHaveOwners
    <2>3. CASE run'[r] = run[r]
      <3> DEFINE v == run[r].worker
      <3>1. v \in Workers /\ worker[v] \in {"up", "stopping"}
        BY <1>1, <1>3, <2>3 DEF WorkerTypeOK, ClaimInv, ClaimsHaveOwners
      <3>2. CASE worker' = worker
        BY <2>3, <3>1, <3>2
      <3>3. CASE worker' # worker
        <4>1. PICK w \in Workers : OnStartup(w) \/ Shutdown(w) \/ OnShutdown(w) \/ WorkerCrash(w)
          BY <3>3 DEF Next, WorkerNext, workerVars, vars, RunStep, LoadRecord, MarkJobRunning, DeferBusyJob,
                StartOperation, ExecuteOperation, StoreTerminalState, TerminalMetric, FinishJobClaim,
                CleanDirectory, UnlinkInputs, ReleaseActiveJob, FinalHeartbeat, FinishJob, RequeueJob, Interrupt,
                StartJob, GiveUpJob, WriteOutput, ThreadStep, DeferEnds, HeartbeatLoop
        <4>2. CASE w # v
          BY <1>1, <2>3, <3>1, <4>1, <4>2 DEF WorkerTypeOK, OnStartup, Shutdown, OnShutdown, WorkerCrash
        <4>3. CASE w = v
          <5>1. r \in RunsOf(v)
            BY DEF RunsOf
          <5>2. ~WorkerCrash(v)
            BY <1>3, <2>3 DEF WorkerCrash, Idle
          <5> QED BY <1>1, <2>3, <3>1, <4>1, <4>3, <5>1, <5>2 DEF WorkerTypeOK, OnStartup, Shutdown, OnShutdown
        <4> QED BY <4>2, <4>3
      <3> QED BY <3>2, <3>3
    <2> QED BY <1>3, <2>1, <2>2, <2>3, StepRuns DEF RunMoves, Idle
  <1>4. ASSUME NEW r \in Runs, run'[r].pc # "idle", NEW j \in Jobs, record'[j].token = r
        PROVE  run'[r].job = j /\ record'[j].owner = run'[r].worker
    <2>1. ~RunStarts(r)
      BY <1>4 DEF RunStarts
    <2>2. run[r].pc # "idle" /\ run'[r].job = run[r].job /\ run'[r].worker = run[r].worker
      <3>1. run'[r] = run[r] \/ RunGoes(r)
        BY <1>4, <2>1, StepRuns DEF RunMoves, Idle
      <3> QED BY <1>4, <3>1 DEF RunGoes
    <2>3. record[j].token = r => run[r].job = j /\ record[j].owner = run[r].worker
      BY <2>2 DEF ClaimInv, ClaimsHaveOwners
    <2>4. r # NoRun
      BY ConstantsAssumption
    <2> QED BY <1>1, <1>4, <2>2, <2>3, <2>4, StepRecords, RecordFields DEF RecordMoves, RunWrites
  <1> QED BY <1>2, <1>3, <1>4 DEF ClaimsHaveOwners

LEMMA RowsStep ==
    ASSUME TypeOK, LifeInv, ClaimInv, [Next]_vars
    PROVE  RowsFollowRecords'
  <1>1. StoreTypeOK /\ ApiTypeOK /\ WorkerTypeOK
    BY DEF TypeOK
  <1> DEFINE Early == {"new", "rate", "upload", "hset", "expire", "accept"}
  <1>2. \A j \in Jobs : Moves(j) /\ CreateMoves(j) /\ MetricMoves(j) /\ (PastRecord(j) => PastRecord(j)')
    BY StepMoves, StepCreates, StepRows
  <1>3. \A j \in Jobs : create'[j] \in Early => create[j] \in Early
    BY <1>2 DEF CreateMoves, CreateArrows, UndoSteps
  <1>4. ASSUME NEW j \in Jobs, create'[j] \in Early
        PROVE  metric'[j] = "none"
    <2>1. metric[j] = "none"
      BY <1>3, <1>4 DEF ClaimInv, RowsFollowRecords
    <2> QED BY <1>2, <1>4, <2>1 DEF MetricMoves, Live
  <1>5. ASSUME NEW j \in Jobs, metric'[j] \in Terminal, create'[j] \notin UndoSteps \cup {"failed"}
        PROVE  record'[j].status \in {metric'[j], "absent"}
    <2>1. create[j] \notin UndoSteps \cup {"failed"}
      BY <1>2, <1>5 DEF CreateMoves, CreateArrows, UndoSteps
    <2>2. CASE metric'[j] = metric[j]
      <3>1. record[j].status \in {metric[j], "absent"} /\ create[j] # "hset"
        BY <1>5, <2>1, <2>2 DEF ClaimInv, RowsFollowRecords, Terminal
      <3> QED BY <1>2, <1>5, <2>2, <3>1 DEF Moves, Live, Terminal
    <2>3. CASE metric'[j] # metric[j]
      <3>1. /\ record' = record
            /\ \/ \E q \in Requests :
                    request[q].pc = "metric" /\ request[q].job = j /\ metric'[j] = "cancelled"
               \/ \E r \in Runs :
                    run[r].pc = "metric" /\ run[r].job = j /\ metric'[j] = run[r].outcome
        BY <1>2, <1>5, <2>1, <2>3 DEF MetricMoves, Terminal, UndoSteps
      <3> QED BY <3>1 DEF ClaimInv, RowsFollowRecords
    <2> QED BY <2>2, <2>3
  <1>6. ASSUME NEW r \in Runs, run'[r].pc = "metric"
        PROVE  record'[run'[r].job].status \in {run'[r].outcome, "absent"}
    <2> DEFINE j == run[r].job
    <2>1. CASE run'[r] = run[r]
      <3>1. j \in Jobs /\ run[r].outcome \in {"succeeded", "failed"} /\ PastRecord(j)
        BY <1>1, <1>6, <2>1 DEF WorkerTypeOK, LifeInv, RunsRemoveOver
      <3>2. record[j].status \in {run[r].outcome, "absent"}
        BY <1>6, <2>1 DEF ClaimInv, RowsFollowRecords
      <3> QED BY <1>2, <2>1, <3>1, <3>2 DEF Moves, Live, PastRecord
    <2>2. CASE RunGoes(r)
      <3>1. j \in Jobs /\ run'[r].job = j /\ run'[r].outcome = run[r].outcome
            /\ record' = Stored(j, run[r].outcome)
        BY <1>1, <1>6, <2>2 DEF RunGoes, WorkerTypeOK
      <3> QED BY <1>1, <3>1, CommandRecords, RecordFields
    <2> QED BY <1>6, <2>1, <2>2, StepRuns DEF RunMoves, RunStarts, Idle
  <1>7. ASSUME NEW q \in Requests, request'[q].pc = "metric"
        PROVE  record'[request'[q].job].status \in {"cancelled", "absent"}
    <2> DEFINE j == request[q].job
    <2>1. CASE request'[q] = request[q]
      <3>1. j \in Jobs /\ PastRecord(j) /\ record[j].status \in {"cancelled", "absent"}
        BY <1>1, <1>7, <2>1 DEF ApiTypeOK, LifeInv, RequestsRemoveOver, ClaimInv, RowsFollowRecords
      <3> QED BY <1>2, <2>1, <3>1 DEF Moves, Live, PastRecord
    <2>2. CASE RequestTransits(q)
      <3>1. j \in Jobs /\ request'[q].job = j /\ record[j].status \in Live
        BY <1>1, <1>7, <2>2 DEF ApiTypeOK, RequestTransits, NextAfterTransition, Live
      <3>2. record' = CancelledRecord(j)
        BY <2>2, <3>1 DEF RequestTransits
      <3> QED BY <1>1, <3>1, <3>2, CommandRecords, RecordFields
    <2> QED BY <1>7, <2>1, <2>2, StepRequests DEF RequestMoves, RequestStarts, RequestGoes, RequestArrows, NoRequest
  <1> QED BY <1>4, <1>5, <1>6, <1>7 DEF RowsFollowRecords

LEMMA TtlsStep ==
    ASSUME TypeOK, ClaimInv, [Next]_vars
    PROVE  TtlsAreSet'
  <1>1. SUFFICES ASSUME NEW j \in Jobs, create'[j] \in {"accept", "enqueue", "created"},
                        record'[j].status # "absent"
                 PROVE  record'[j].ttl
    BY DEF TtlsAreSet
  <1>2. StoreTypeOK
    BY DEF TypeOK
  <1>3. CASE create[j] = "expire"
    <2>1. record'[j] = ExpiringRecord(j)
      <3>1. create'[j] = "accept" /\ create'[j] # create[j]
        BY <1>1, <1>3, StepCreates DEF CreateMoves, CreateArrows, UndoSteps
      <3>2. record' = Expiring(j)
        BY <3>1, StepCreates DEF CreateMoves
      <3> QED BY <1>2, <3>2, CommandRecords
    <2> QED BY <1>1, <1>2, <2>1, RecordFields, ZenonT(30)
  <1>4. CASE create[j] # "expire"
    <2>1. create[j] \in {"accept", "enqueue", "created"}
      BY <1>1, <1>4, StepCreates DEF CreateMoves, CreateArrows, UndoSteps
    <2>2. record[j].status # "absent" => record[j].ttl
      BY <2>1 DEF ClaimInv, TtlsAreSet
    <2> QED BY <1>1, <1>2, <2>1, <2>2, StepRecords, RecordFields DEF RecordMoves, RunWrites
  <1> QED BY <1>3, <1>4

LEMMA StepClaims == TypeOK /\ LifeInv /\ ClaimInv /\ [Next]_vars => ClaimInv'
  BY FencedStep, OwnersStep, RowsStep, TtlsStep DEF ClaimInv

LEMMA InitClaims == Init => ClaimInv
  BY ConstantsAssumption DEF Init, StoreInit, ApiInit, WorkerInit, CleanupInit, Idle, NoRequest, Absent, ClaimInv,
         ClaimsAreFenced, ClaimsHaveOwners, RowsFollowRecords, TtlsAreSet, Terminal
-----------------------------------------------------------------------------
(* The steps of the slots, of the directories, of the sweep and of the         *)
(* heartbeats.                                                                 *)

\* Who takes a slot, and who frees one.
SlotMoves ==
    \/ slots' = slots
    \/ \E j \in Jobs : slots' = slots \cup {j} /\ (SlotFree \/ record[j].status \in Live)
    \/ \E j \in Jobs :
         /\ slots' = slots \ {j}
         /\ \/ record' = record /\ create[j] = "undo_slot" /\ create'[j] = "failed"
            \/ /\ record' = record /\ create' = create
               /\ \/ \E q \in Requests : request[q].pc = "release" /\ request[q].job = j
                  \/ \E r \in Runs : run[r].pc = "release" /\ run[r].job = j
            \/ UNCHANGED <<record, create, run>> /\ sweep.pc = "release" /\ sweep.job = j
            \/ "long_wait" \in Faults
    \/ "redis_restart" \in Faults

LEMMA StepSlots ==
    ASSUME TypeOK, [Next]_vars
    PROVE  SlotMoves
  <1>1. CASE slots' = slots
    BY <1>1 DEF SlotMoves
  <1>2. ASSUME slots' # slots, ApiNext
        PROVE  SlotMoves
    <2>1. \/ \E j \in Jobs : ReserveActiveJob(j) \/ UndoSlot(j)
          \/ \E q \in Requests : CancelRelease(q)
      BY <1>2 DEF ApiNext, CreateStep, CreateCrash, ConsumeRate, SaveUploads, CreateJobRecord, ExpireJobRecord,
         AcceptMetric, EnqueueJob, UndoMetric, UndoDirectory, UndoRecord, DeleteStep, RequestCrash,
         CancelJobTransition, CancelMetric, CancelRemoveDirectory, DeleteDirectory, DeleteRecord, DeleteExpiry,
         AuthorizedJob, storeVars
    <2>2. ASSUME NEW j \in Jobs, ReserveActiveJob(j)
          PROVE  SlotMoves
      BY <1>2, <2>2 DEF ReserveActiveJob, SlotMoves
    <2>3. ASSUME NEW j \in Jobs, UndoSlot(j)
          PROVE  SlotMoves
      <3>1. slots' = slots \ {j} /\ record' = record /\ create[j] = "undo_slot" /\ create'[j] = "failed"
        BY <1>2, <2>3 DEF UndoSlot, CreateGoto, TypeOK, ApiTypeOK
      <3> QED BY <3>1 DEF SlotMoves
    <2>4. ASSUME NEW q \in Requests, CancelRelease(q)
          PROVE  SlotMoves
      <3>1. /\ request[q].job \in Jobs /\ slots' = slots \ {request[q].job}
            /\ record' = record /\ create' = create /\ request[q].pc = "release"
        BY <1>2, <2>4 DEF CancelRelease, TypeOK, ApiTypeOK
      <3> QED BY <3>1 DEF SlotMoves
    <2> QED BY <2>1, <2>2, <2>3, <2>4
  <1>3. ASSUME slots' # slots, WorkerNext, UNCHANGED apiVars
        PROVE  SlotMoves
    <2>1. PICK r \in Runs : RunStep(r)
      BY <1>3 DEF WorkerNext, FinishJob, RequeueJob, Interrupt, StartJob, GiveUpJob, WriteOutput, ThreadStep, DeferEnds, OnStartup,
                  HeartbeatLoop, Shutdown, OnShutdown, WorkerCrash, storeVars
    <2>2. MarkJobRunning(r) \/ ReleaseActiveJob(r)
      BY <1>3, <2>1 DEF RunStep, LoadRecord, DeferBusyJob, StartOperation, ExecuteOperation, StoreTerminalState,
                  TerminalMetric, FinishJobClaim, CleanDirectory, UnlinkInputs, FinalHeartbeat, storeVars
    <2>3. run[r].job \in Jobs
      BY <2>2 DEF MarkJobRunning, ReleaseActiveJob, TypeOK, WorkerTypeOK
    <2>4. CASE MarkJobRunning(r)
      <3>1. ClaimResult(run[r].job) = CLAIMED /\ slots' = slots \cup {run[r].job}
        BY <1>3, <2>4 DEF MarkJobRunning
      <3>2. record[run[r].job].status \in Live
        BY <3>1 DEF ClaimResult, CLAIMED, CLAIM_BUSY, Live
      <3> QED BY <2>3, <3>1, <3>2 DEF SlotMoves
    <2>5. CASE ReleaseActiveJob(r)
      <3>1. /\ slots' = slots \ {run[r].job} /\ record' = record /\ create' = create
            /\ run[r].pc = "release"
        BY <1>3, <2>5 DEF ReleaseActiveJob, apiVars
      <3> QED BY <2>3, <3>1 DEF SlotMoves
    <2> QED BY <2>2, <2>4, <2>5
  <1>4. ASSUME slots' # slots, CleanupNext, UNCHANGED <<apiVars, workerVars>>
        PROVE  SlotMoves
    <2>1. SweepRelease
      BY <1>4 DEF CleanupNext, ReadExpired, ScanOrphan, SweepStep, CleanupCrash, CheckOwner, PostponeOwned,
             SweepRemoveDirectory, SweepDelete, SweepUnlist, storeVars
    <2>2. /\ sweep.job \in Jobs /\ slots' = slots \ {sweep.job} /\ sweep.pc = "release"
          /\ UNCHANGED <<record, create, run>>
      BY <1>4, <2>1 DEF SweepRelease, apiVars, workerVars, TypeOK, CleanupTypeOK
    <2> QED BY <2>2 DEF SlotMoves
  <1>5. ASSUME slots' # slots, EnvironmentNext
        PROVE  SlotMoves
    BY <1>5 DEF EnvironmentNext, RecordExpires, SlotLapses, LockExpires, BeatExpires, RedisRestart, SlotMoves
  <1> QED BY <1>1, <1>2, <1>3, <1>4, <1>5 DEF Next, vars, storeVars

\* What a job's directory loses and gains.
DiskMoves(j) ==
    \/ disk'[j] = disk[j]
    \/ create[j] \in {"rate", "upload"}
    \/ create[j] = "undo_dir" /\ create'[j] = "undo_record" /\ disk'[j] = {}
    \/ Over(j) /\ disk'[j] \in {{}, disk[j] \ {"files"}}
    \/ /\ \/ disk'[j] = disk[j] \cup {"result"} /\ "dir" \in disk[j]
          \/ disk'[j] = disk[j] \ {"result"}
       /\ record' = record /\ create' = create
       /\ Writing(j) # {} \/ Threads(j) # {}

LEMMA StepDisk ==
    ASSUME TypeOK, LifeInv, [Next]_vars, NEW k \in Jobs
    PROVE  DiskMoves(k)
  <1>1. CASE disk' = disk
    BY <1>1 DEF DiskMoves
  <1>2. disk \in [Jobs -> DiskContents] /\ create \in [Jobs -> CreateSteps]
    BY DEF TypeOK, StoreTypeOK, ApiTypeOK
  <1>3. ASSUME disk' # disk, ApiNext
        PROVE  DiskMoves(k)
    <2>1. \/ \E j \in Jobs : ConsumeRate(j) \/ SaveUploads(j) \/ UndoDirectory(j)
          \/ \E q \in Requests : CancelRemoveDirectory(q) \/ DeleteDirectory(q)
      BY <1>3 DEF ApiNext, CreateStep, CreateCrash, ReserveActiveJob, CreateJobRecord, ExpireJobRecord,
         AcceptMetric, EnqueueJob, UndoMetric, UndoRecord, UndoSlot, DeleteStep, RequestCrash,
         CancelJobTransition, CancelMetric, CancelRelease, DeleteRecord, DeleteExpiry,
         AuthorizedJob, storeVars
    <2>2. ASSUME NEW j \in Jobs, ConsumeRate(j) \/ SaveUploads(j) \/ UndoDirectory(j)
          PROVE  DiskMoves(k)
      BY <1>2, <2>2 DEF ConsumeRate, SaveUploads, UndoDirectory, CreateGoto, DirectoryRemoved, DiskMoves
    <2>3. ASSUME NEW q \in Requests, CancelRemoveDirectory(q) \/ DeleteDirectory(q)
          PROVE  DiskMoves(k)
      <3>1. disk' = DirectoryRemoved(request[q].job) /\ Over(request[q].job)
        BY <2>3 DEF CancelRemoveDirectory, DeleteDirectory, LifeInv, RequestsRemoveOver
      <3> QED BY <1>2, <3>1 DEF DirectoryRemoved, DiskMoves
    <2> QED BY <2>1, <2>2, <2>3
  <1>4. ASSUME disk' # disk, WorkerNext, UNCHANGED apiVars
        PROVE  DiskMoves(k)
    <2>4. ASSUME NEW j \in Jobs, disk' \in OutputWritten(j), record' = record,
                 Writing(j) # {} \/ Threads(j) # {}
          PROVE  DiskMoves(k)
      BY <1>2, <1>4, <2>4 DEF OutputWritten, ResultMade, ResultLost, DiskMoves, apiVars
    <2>5. ASSUME NEW r \in Runs, WriteOutput(r) \/ ExecuteOperation(r)
          PROVE  DiskMoves(k)
      <3>1. run[r].job \in Jobs /\ r \in Writing(run[r].job) /\ record' = record
        BY <2>5 DEF WriteOutput, ExecuteOperation, TypeOK, WorkerTypeOK, Writing, RunsOn
      <3>2. disk' \in OutputWritten(run[r].job)
        BY <2>5, OperationOutputs DEF WriteOutput
      <3> QED BY <2>4, <3>1, <3>2
    <2>6. ASSUME NEW w \in Workers, NEW j \in Jobs, ThreadStep(w, j)
          PROVE  DiskMoves(k)
      BY <2>4, <2>6 DEF ThreadStep, Threads
    <2> SUFFICES ASSUME ~\E r \in Runs : WriteOutput(r) \/ ExecuteOperation(r),
                        ~\E w \in Workers, j \in Jobs : ThreadStep(w, j)
                 PROVE  DiskMoves(k)
      BY <2>5, <2>6
    <2>1. PICK r \in Runs : RunStep(r)
      BY <1>4 DEF WorkerNext, FinishJob, RequeueJob, Interrupt, StartJob, GiveUpJob, DeferEnds, OnStartup,
                  HeartbeatLoop, Shutdown, OnShutdown, WorkerCrash, storeVars
    <2>3. CASE CleanDirectory(r) \/ UnlinkInputs(r)
      <3>1. /\ Over(run[r].job)
            /\ \/ disk' = DirectoryRemoved(run[r].job)
               \/ disk' = [disk EXCEPT ![run[r].job] = @ \ {"files"}]
        BY <1>4, <2>3 DEF CleanDirectory, UnlinkInputs, LifeInv, RunsRemoveOver
      <3> QED BY <1>2, <3>1 DEF DirectoryRemoved, DiskMoves
    <2> QED BY <1>4, <2>1, <2>3 DEF RunStep, LoadRecord, MarkJobRunning, DeferBusyJob, StartOperation,
                  StoreTerminalState, TerminalMetric, FinishJobClaim, ReleaseActiveJob, FinalHeartbeat, storeVars
  <1>5. ASSUME disk' # disk, CleanupNext
        PROVE  DiskMoves(k)
    <2>1. disk' = DirectoryRemoved(sweep.job) /\ Over(sweep.job)
      BY <1>5 DEF CleanupNext, ReadExpired, ScanOrphan, SweepStep, CleanupCrash, CheckOwner, PostponeOwned,
             SweepRelease, SweepRemoveDirectory, SweepDelete, SweepUnlist, storeVars, LifeInv, SweepRemovesOver
    <2> QED BY <1>2, <2>1 DEF DirectoryRemoved, DiskMoves
  <1>6. ASSUME disk' # disk, EnvironmentNext
        PROVE  DiskMoves(k)
    BY <1>6 DEF EnvironmentNext, RecordExpires, SlotLapses, LockExpires, BeatExpires, RedisRestart
  <1> QED BY <1>1, <1>3, <1>4, <1>5, <1>6 DEF Next, vars, storeVars

SweepMoves ==
    \/ sweep' \in {sweep, NoSweep}
    \/ /\ UNCHANGED <<record, create, run, worker>>
       /\ \/ /\ \E j \in expiry : sweep' = [pc |-> NextAfterRead(j), job |-> j, owner |-> record[j].owner]
          \/ /\ sweep'.pc = "rmtree" /\ sweep'.job \in Jobs /\ record[sweep'.job].status = "absent"
             /\ create[sweep'.job] \in CreateOver
          \/ /\ sweep.pc = "owner" /\ sweep'.job = sweep.job /\ sweep'.owner = sweep.owner
             /\ sweep'.pc = IF sweep.owner \in beat THEN "postpone" ELSE "release"
    \/ /\ UNCHANGED <<create, run, worker>> /\ sweep'.job = sweep.job
       /\ sweep.pc \in {"release", "rmtree", "delete"}

LEMMA StepSweep ==
    ASSUME TypeOK, [Next]_vars
    PROVE  SweepMoves
  <1>1. CASE sweep' = sweep
    BY <1>1 DEF SweepMoves
  <1>2. CASE sweep' # sweep
    <2>1. CleanupNext /\ UNCHANGED <<create, run, worker>>
      BY <1>2 DEF Next, vars, cleanupVars, apiVars, workerVars
    <2>2. sweep \in [pc: SweepSteps, job: Jobs \cup {NoJob}, owner: Workers \cup {NoWorker}]
          /\ (sweep.pc # "idle" => sweep.job \in Jobs)
      BY DEF TypeOK, CleanupTypeOK
    <2>3. ASSUME NEW j \in Jobs, ReadExpired(j) \/ (create[j] \in CreateOver /\ ScanOrphan(j))
          PROVE  SweepMoves
      BY <2>1, <2>3 DEF ReadExpired, ScanOrphan, storeVars, SweepMoves
    <2>4. CASE CheckOwner
      BY <2>1, <2>2, <2>4 DEF CheckOwner, SweepAfter, storeVars, SweepMoves
    <2>5. CASE PostponeOwned \/ SweepUnlist \/ CleanupCrash
      BY <2>1, <2>5 DEF PostponeOwned, SweepUnlist, CleanupCrash, SweepMoves
    <2>6. CASE SweepRelease \/ SweepRemoveDirectory \/ SweepDelete
      BY <2>1, <2>2, <2>6 DEF SweepRelease, SweepRemoveDirectory, SweepDelete, SweepAfter, SweepGoto, SweepMoves
    <2> QED BY <2>1, <2>3, <2>4, <2>5, <2>6 DEF CleanupNext, SweepStep
  <1> QED BY <1>1, <1>2

\* Only a process that stops, or a heartbeat that is not renewed, ends one.
BeatMoves(w) ==
    \/ worker'[w] \in {"off", "dead"}
    \/ w \in beat'
    \/ worker'[w] = worker[w] /\ (w \in beat => w \in beat')
    \/ worker[w] = "up" /\ worker'[w] = "stopping" /\ beat' = beat
    \/ ~Steady

LEMMA StepBeats ==
    ASSUME TypeOK, [Next]_vars, NEW w \in Workers
    PROVE  BeatMoves(w)
  <1>1. worker \in [Workers -> {"off", "up", "stopping", "dead"}]
    BY DEF TypeOK, WorkerTypeOK
  <1>2. CASE worker' = worker /\ beat \subseteq beat'
    BY <1>2 DEF BeatMoves
  <1>3. ASSUME ~(worker' = worker /\ beat \subseteq beat')
        PROVE  \/ \E v \in Workers : OnStartup(v) \/ Shutdown(v) \/ OnShutdown(v) \/ WorkerCrash(v)
               \/ RedisRestart
               \/ \E v \in Workers : BeatExpires(v) /\ worker' = worker
    <2>1. CASE ApiNext /\ UNCHANGED workerVars
      BY <1>3, <2>1 DEF ApiNext, workerVars, CreateStep, CreateCrash, ReserveActiveJob, ConsumeRate, SaveUploads,
         CreateJobRecord, ExpireJobRecord, AcceptMetric, EnqueueJob, UndoMetric, UndoDirectory, UndoRecord, UndoSlot,
         DeleteStep, RequestCrash, CancelJobTransition, CancelMetric, CancelRemoveDirectory, CancelRelease,
         DeleteDirectory, DeleteRecord, DeleteExpiry, AuthorizedJob, storeVars
    <2>2. CASE WorkerNext
      <3>1. CASE \E r \in Runs : RunStep(r)
        BY <1>3, <3>1 DEF RunStep, LoadRecord, MarkJobRunning, DeferBusyJob, StartOperation,
                  ExecuteOperation, StoreTerminalState, TerminalMetric, FinishJobClaim, CleanDirectory,
                  UnlinkInputs, ReleaseActiveJob, FinalHeartbeat, storeVars
      <3> QED BY <1>3, <2>2, <3>1 DEF WorkerNext, FinishJob, RequeueJob, Interrupt, StartJob, GiveUpJob, WriteOutput, ThreadStep, DeferEnds,
                  HeartbeatLoop, storeVars
    <2>3. CASE CleanupNext /\ UNCHANGED workerVars
      BY <1>3, <2>3 DEF workerVars, CleanupNext, ReadExpired, ScanOrphan, SweepStep, CleanupCrash, CheckOwner,
             PostponeOwned, SweepRelease, SweepRemoveDirectory, SweepDelete, SweepUnlist, storeVars
    <2>4. CASE EnvironmentNext /\ UNCHANGED workerVars
      BY <1>3, <2>4 DEF workerVars, EnvironmentNext, RecordExpires, SlotLapses, LockExpires
    <2> QED BY <1>3, <2>1, <2>2, <2>3, <2>4 DEF Next, vars, storeVars, workerVars
  <1>4. ASSUME NEW v \in Workers, OnStartup(v) \/ Shutdown(v) \/ OnShutdown(v) \/ WorkerCrash(v)
        PROVE  BeatMoves(w)
    BY <1>1, <1>4 DEF OnStartup, Shutdown, OnShutdown, WorkerCrash, storeVars, BeatMoves
  <1>5. ASSUME RedisRestart \/ \E v \in Workers : BeatExpires(v) /\ worker' = worker
        PROVE  BeatMoves(w)
    BY <1>1, <1>5 DEF RedisRestart, BeatExpires, BeatMoves, Steady
  <1> QED BY <1>2, <1>3, <1>4, <1>5
-----------------------------------------------------------------------------
(* The other parts of JobInv.                                                  *)

\* While a run has its result to store, or its operation to end, the record that
\* lets it store it has not changed hands.
LEMMA ClaimKept ==
    ASSUME TypeOK, LifeInv, ClaimInv, [Next]_vars, NEW r \in Runs, NEW j \in Jobs,
           run[r].job = j, run[r].pc \in {"start", "execute", "store"}, record'[j].token = r,
           record'[j].status \in {"running", "cancelled"}
    PROVE  /\ record[j].token = r
           /\ record[j].status = record'[j].status \/ record[j].status \in Live
  <1>1. StoreTypeOK /\ RecordMoves(j) /\ PastRecord(j) /\ r # NoRun
    BY StepRecords, ConstantsAssumption DEF TypeOK, LifeInv, RunsRemoveOver
  <1>2. create[j] # "hset"
    BY <1>1 DEF PastRecord
  <1>3. CASE record'[j] \in {record[j], Absent} \/ record'[j] = ExpiringRecord(j)
    BY <1>1, <1>3, RecordFields
  <1>4. CASE record[j].status \in Live /\ record'[j] = CancelledOne(j)
    BY <1>1, <1>4, RecordFields
  <1>5. ASSUME NEW p \in Runs, RunWrites(p, j)
        PROVE  /\ record[j].token = r
               /\ record[j].status = record'[j].status \/ record[j].status \in Live
    BY <1>1, <1>5, RecordFields DEF RunWrites, MayStore, Live
  <1> QED BY <1>1, <1>2, <1>3, <1>4, <1>5 DEF RecordMoves

\* Who writes to a job's output/ changes only as a run begins its operation, ends
\* it, or leaves a thread behind.
NoneBegins(j) == Writing(j)' \subseteq Writing(j) /\ Threads(j)' \subseteq Threads(j)

Leaves(r, j) ==
    r \in Writing(j) /\ Writing(j)' \subseteq Writing(j) \ {r} /\ run'[r].pc # "store"

Begins(r, j) ==
    /\ Writing(j)' \subseteq Writing(j) \cup {r} /\ Threads(j)' \subseteq Threads(j)
    /\ run[r].pc = "start" /\ run[r].job = j /\ run'[r].pc = "execute"
    /\ \A p \in Runs \ {r} : run'[p] = run[p]

LEMMA OperationArrows ==
    ASSUME TypeOK, [Next]_vars, NEW r \in Runs, run'[r] # run[r]
    PROVE  /\ run'[r].pc = "execute" => run[r].pc = "start"
           /\ run'[r].pc = "store" => run[r].pc \in {"execute", "store"} /\ run'[r].job = run[r].job
  <1>1. CASE run'[r] = Idle
    BY <1>1 DEF Idle
  <1>2. CASE RunStarts(r)
    BY <1>2 DEF RunStarts
  <1>3. CASE RunGoes(r)
    BY <1>3 DEF RunGoes, Arrows
  <1> QED BY <1>1, <1>2, <1>3, StepRuns DEF RunMoves

LEMMA StepWriters ==
    ASSUME TypeOK, [Next]_vars, NEW j \in Jobs
    PROVE  /\ shared \subseteq shared'
           /\ \/ NoneBegins(j)
              \/ \E r \in Runs : Leaves(r, j)
              \/ \E r \in Runs : Begins(r, j) /\ (j \in shared' \/ Alone(r))
  <1>1. WorkerTypeOK /\ run \in [Runs -> RunRecords]
    BY GoodRuns DEF TypeOK
  <1> DEFINE Fewer == shared' = shared /\ NoneBegins(j)
  <1> USE DEF NoneBegins
  <1>2. ASSUME shared' = shared, left' = left,
               \A r \in Runs : run'[r] = run[r] \/ run'[r].pc # "execute"
        PROVE  Fewer
    BY <1>1, <1>2 DEF Writing, RunsOn, Threads
  <1>3. ASSUME NEW r \in Runs, StartOperation(r), run[r].job # j
        PROVE  shared \subseteq shared' /\ NoneBegins(j)
    BY <1>1, <1>3 DEF StartOperation, Goto, Writing, RunsOn, Threads, RunRecords
  <1>4. ASSUME NEW r \in Runs, StartOperation(r), run[r].job = j
        PROVE  shared \subseteq shared' /\ Begins(r, j) /\ (j \in shared' \/ Alone(r))
    BY <1>1, <1>4 DEF StartOperation, Goto, Writing, RunsOn, Threads, RunRecords, Begins
  <1>5. ASSUME NEW r \in Runs, RunStep(r), ~StartOperation(r)
        PROVE  Fewer
    <2>1. shared' = shared /\ left' = left /\ \A p \in Runs \ {r} : run'[p] = run[p]
      BY <1>1, <1>5 DEF RunStep, LoadRecord, MarkJobRunning, DeferBusyJob, ExecuteOperation, StoreTerminalState,
           TerminalMetric, FinishJobClaim, CleanDirectory, UnlinkInputs, ReleaseActiveJob, FinalHeartbeat, Goto,
           outputVars
    <2>2. run'[r] = run[r] \/ run'[r].pc # "execute"
      <3>1. run[r].pc # "start"
        BY <1>1, <1>5 DEF RunStep, LoadRecord, MarkJobRunning, DeferBusyJob, ExecuteOperation, StoreTerminalState,
             TerminalMetric, FinishJobClaim, CleanDirectory, UnlinkInputs, ReleaseActiveJob, FinalHeartbeat
      <3> QED BY <3>1, OperationArrows
    <2> QED BY <1>2, <2>1, <2>2
  <1>6. ASSUME NEW r \in Runs, Interrupt(r)
        PROVE  shared' = shared /\ (NoneBegins(j) \/ Leaves(r, j))
    <2>1. shared' = shared /\ (\A p \in Runs \ {r} : run'[p] = run[p]) /\ run[r].pc # "idle"
      BY <1>1, <1>6 DEF Interrupt, TrySteps
    <2>2. run'[r].pc \notin {"execute", "store"}
      <3>1. PICK why \in Interrupts(r) : run'[r] = CancelledRun(r, why)
        BY <1>1, <1>6 DEF Interrupt
      <3> QED BY <1>1, <3>1 DEF CancelledRun, ExitStep, RunRecords
    <2>3. Writing(j)' \subseteq Writing(j) \ {r}
      BY <1>1, <2>1, <2>2 DEF Writing, RunsOn
    <2>4. CASE run[r].pc = "execute" /\ run[r].job = j
      BY <2>1, <2>2, <2>3, <2>4 DEF Writing, RunsOn, Leaves
    <2>5. CASE ~(run[r].pc = "execute" /\ run[r].job = j)
      <3>1. left' \in {left, [left EXCEPT ![run[r].worker] = @ \cup {run[r].job}]}
        BY <1>6 DEF Interrupt, ThreadLeft
      <3>2. run[r].job = j => left' = left
        BY <1>6, <2>5 DEF Interrupt
      <3>3. Threads(j)' \subseteq Threads(j)
        BY <1>1, <3>1, <3>2 DEF Threads, WorkerTypeOK
      <3> QED BY <2>1, <2>3, <3>3
    <2> QED BY <2>4, <2>5
  <1>7. ASSUME NEW w \in Workers, NEW k \in Jobs, ThreadStep(w, k)
        PROVE  Fewer
    BY <1>1, <1>7 DEF ThreadStep, Writing, RunsOn, Threads, WorkerTypeOK
  <1>8. ASSUME NEW w \in Workers, WorkerCrash(w)
        PROVE  Fewer
    <2>1. Writing(j)' \subseteq Writing(j)
      BY <1>1, <1>8 DEF WorkerCrash, Writing, RunsOn, Idle
    <2> QED BY <1>1, <1>8, <2>1 DEF WorkerCrash, Threads, WorkerTypeOK
  <1>9. ASSUME NEW w \in Workers, NEW r \in Runs, NEW k \in Jobs, StartJob(w, r, k)
        PROVE  Fewer
    <2>1. \A p \in Runs : run'[p] = run[p] \/ run'[p].pc # "execute"
      BY <1>1, <1>9 DEF StartJob, Idle
    <2> QED BY <1>2, <1>9, <2>1 DEF StartJob, outputVars
  <1>10. ASSUME NEW r \in Runs, FinishJob(r) \/ RequeueJob(r)
         PROVE  Fewer
    <2>1. \A p \in Runs : run'[p] = run[p] \/ run'[p].pc # "execute"
      BY <1>1, <1>10 DEF FinishJob, RequeueJob, Idle
    <2> QED BY <1>2, <1>10, <2>1 DEF FinishJob, RequeueJob, outputVars
  <1>11. ASSUME WorkerNext,
                ~\E r \in Runs : RunStep(r) \/ Interrupt(r) \/ FinishJob(r) \/ RequeueJob(r),
                ~\E w \in Workers, k \in Jobs : ThreadStep(w, k) \/ \E r \in Runs : StartJob(w, r, k),
                ~\E w \in Workers : WorkerCrash(w)
         PROVE  Fewer
    <2>1. run' = run /\ left' = left /\ shared' = shared
      BY <1>11 DEF WorkerNext, WriteOutput, GiveUpJob, DeferEnds, OnStartup, HeartbeatLoop, Shutdown, OnShutdown,
           outputVars
    <2> QED BY <1>2, <2>1
  <1>12. CASE ~WorkerNext
    <2>1. run' = run /\ left' = left /\ shared' = shared
      BY <1>12 DEF Next, vars, workerVars, outputVars
    <2> QED BY <1>2, <2>1
  <1> QED BY <1>3, <1>4, <1>5, <1>6, <1>7, <1>8, <1>9, <1>10, <1>11, <1>12, ZenonT(30)

LEMMA OutputsStep ==
    ASSUME TypeOK, LifeInv, ClaimInv, OutputsAreOwn, [Next]_vars
    PROVE  OutputsAreOwn'
  <1> DEFINE Announced(j) == \/ record[j].status = "succeeded"
                             \/ \E r \in RunsOn(j) : run[r].pc = "store" /\ MayStore(j, r)
  <1>1. StoreTypeOK /\ WorkerTypeOK
    BY DEF TypeOK
  <1>2. ASSUME NEW j \in Jobs \ shared',
               \A r \in Writing(j) : Writing(j) = {r} /\ Threads(j) = {},
               Announced(j) => Writing(j) = {} /\ Threads(j) = {}
        PROVE  /\ \A r \in Writing(j)' : Writing(j)' = {r} /\ Threads(j)' = {}
               /\ Announced(j)' => Writing(j)' = {} /\ Threads(j)' = {}
    <2>1. \/ NoneBegins(j)
          \/ \E r \in Runs : Leaves(r, j)
          \/ \E r \in Runs : Begins(r, j) /\ Alone(r)
      BY <1>2, StepWriters
    <2>2. \A r \in Runs : Alone(r) /\ run[r].job = j =>
            MayStore(j, r) /\ Writing(j) = {} /\ Threads(j) = {}
      BY DEF Alone
    <2>3. \A r \in Writing(j)' : Writing(j)' = {r} /\ Threads(j)' = {}
      BY <1>2, <2>1, <2>2 DEF NoneBegins, Leaves, Begins
    <2>4. Announced(j)' => Announced(j) \/ \E r \in Writing(j) : run'[r].pc = "store"
      <3>1. ASSUME record'[j].status = "succeeded", record[j].status # "succeeded"
            PROVE  \E r \in RunsOn(j) : run[r].pc = "store" /\ MayStore(j, r)
        BY <1>1, <3>1, StepRecords, RecordFields DEF RecordMoves, RunWrites, RunsOn
      <3>2. ASSUME NEW r \in Runs, run'[r].job = j, run'[r].pc = "store", MayStore(j, r)'
            PROVE  (run[r].pc = "store" /\ r \in RunsOn(j) /\ MayStore(j, r)) \/ r \in Writing(j)
        <4>1. run[r].job = j /\ run[r].pc \in {"execute", "store"}
          BY <3>2, OperationArrows
        <4>2. record[j].token = r /\ record[j].status \in Live
          BY <3>2, <4>1, ClaimKept DEF MayStore, Live
        <4>3. record[j].status = "running"
          BY <1>1, <4>2, ConstantsAssumption DEF Live, ClaimInv, ClaimsHaveOwners
        <4> QED BY <4>1, <4>2, <4>3 DEF MayStore, Writing, RunsOn
      <3> QED BY <3>1, <3>2 DEF RunsOn
    <2>5. CASE Announced(j)
      <3>1. ASSUME NEW r \in Runs, Begins(r, j), Alone(r)
            PROVE  FALSE
        BY <2>2, <2>5, <3>1 DEF MayStore, RunsOn, Begins
      <3>2. Writing(j) = {} /\ Threads(j) = {}
        BY <1>2, <2>5
      <3>3. NoneBegins(j)
        BY <2>1, <3>1, <3>2 DEF Leaves
      <3>4. Writing(j)' = {} /\ Threads(j)' = {}
        BY <3>2, <3>3 DEF NoneBegins
      <3> QED BY <3>4
    <2>6. ASSUME NEW r \in Writing(j), run'[r].pc = "store"
          PROVE  Writing(j)' = {} /\ Threads(j)' = {}
      <3>1. Writing(j) = {r} /\ Threads(j) = {} /\ r \notin Writing(j)'
        BY <1>2, <2>6 DEF Writing, RunsOn
      <3> QED BY <2>1, <2>2, <2>6, <3>1 DEF NoneBegins, Leaves, Begins
    <2> QED BY <2>3, <2>4, <2>5, <2>6
  <1>3. shared \subseteq shared'
    <2>1. CASE Jobs = {}
      BY <2>1, <1>1 DEF WorkerTypeOK
    <2> QED BY <2>1, StepWriters
  <1> QED BY <1>2, <1>3 DEF OutputsAreOwn

LEMMA ResultsStep ==
    ASSUME TypeOK, LifeInv, ClaimInv, OutputsAreOwn, ResultsAreThere, [Next]_vars
    PROVE  ResultsAreThere'
  <1> SUFFICES ASSUME NEW j \in Jobs \ shared', create'[j] \notin UndoSteps \cup {"failed"}
               PROVE  /\ \A r \in Runs :
                           run'[r].pc = "store" /\ run'[r].outcome = "succeeded" /\ run'[r].job = j /\ MayStore(j, r)'
                           => "result" \in disk'[j]
                      /\ record'[j].status = "succeeded" => "result" \in disk'[j] \/ disk'[j] = {}
    BY DEF ResultsAreThere
  <1>1. StoreTypeOK /\ WorkerTypeOK
    BY DEF TypeOK
  <1>2. create[j] \notin UndoSteps \cup {"failed"}
    BY StepCreates DEF CreateMoves, CreateArrows, UndoSteps
  <1>3. DiskMoves(j) /\ j \notin shared
    BY StepDisk, StepWriters
  <1>4. ASSUME NEW r \in Runs, run'[r].pc = "store", run'[r].outcome = "succeeded", run'[r].job = j, MayStore(j, r)'
        PROVE  "result" \in disk'[j]
    <2>1. CASE RunGoes(r)
      <3>1. run[r].pc = "execute" \/ run[r].pc = "store"
        BY <1>4, <2>1 DEF RunGoes, Arrows
      <3> QED BY <1>3, <1>4, <2>1, <3>1 DEF RunGoes
    <2>2. CASE run'[r] = run[r]
      <3>1. run[r].job = j /\ run[r].pc = "store" /\ record'[j].status = "running" /\ record'[j].token = r
        BY <1>4, <2>2 DEF MayStore
      <3>2. record[j].token = r /\ record[j].status \in Live
        BY <3>1, ClaimKept DEF Live
      <3>3. record[j].status = "running"
        BY <3>2, ConstantsAssumption DEF Live, ClaimInv, ClaimsHaveOwners
      <3>4. "result" \in disk[j]
        BY <1>2, <1>3, <1>4, <2>2, <3>1, <3>2, <3>3 DEF ResultsAreThere, MayStore
      <3>6. Writing(j) = {} /\ Threads(j) = {}
        BY <1>3, <3>1, <3>2, <3>3 DEF OutputsAreOwn, MayStore, RunsOn
      <3>5. PastRecord(j) /\ ~Over(j)
        BY <3>1, <3>2 DEF LifeInv, RunsRemoveOver, Over
      <3> QED BY <1>2, <1>3, <3>4, <3>5, <3>6 DEF DiskMoves, PastRecord, UndoSteps
    <2> QED BY <1>4, <2>1, <2>2, StepRuns DEF RunMoves, RunStarts, Idle
  <1>5. ASSUME record'[j].status = "succeeded"
        PROVE  "result" \in disk'[j] \/ disk'[j] = {}
    <2>1. CASE record[j].status = "succeeded"
      <3>1. "result" \in disk[j] \/ disk[j] = {}
        BY <1>2, <1>3, <2>1 DEF ResultsAreThere
      <3>2. PastRecord(j)
        BY <2>1 DEF LifeInv, NothingBeforeRecord
      <3>3. Writing(j) = {} /\ Threads(j) = {}
        BY <1>3, <2>1 DEF OutputsAreOwn
      <3> QED BY <1>2, <1>3, <3>1, <3>2, <3>3 DEF DiskMoves, PastRecord, UndoSteps
    <2>2. CASE record[j].status # "succeeded"
      <3>1. PICK r \in Runs : RunWrites(r, j) /\ run[r].pc = "store" /\ MayStore(j, r)
                              /\ run[r].outcome = "succeeded" /\ run[r].job = j
        BY <1>1, <1>5, <2>2, StepRecords, RecordFields DEF RecordMoves, RunWrites
      <3>2. "result" \in disk[j]
        BY <1>2, <1>3, <3>1 DEF ResultsAreThere
      <3>3. PastRecord(j) /\ ~Over(j)
        BY <3>1 DEF LifeInv, RunsRemoveOver, Over, MayStore, Live
      <3>4. Writing(j) = {} /\ Threads(j) = {}
        BY <1>3, <3>1 DEF OutputsAreOwn, RunsOn
      <3> QED BY <1>2, <1>3, <3>2, <3>3, <3>4 DEF DiskMoves, PastRecord, UndoSteps
    <2> QED BY <2>1, <2>2
  <1> QED BY <1>4, <1>5

LEMMA BeatsStep ==
    ASSUME TypeOK, LifeInv, ClaimInv, Steady, HeartbeatsHold, [Next]_vars
    PROVE  HeartbeatsHold'
  <1>1. StoreTypeOK /\ WorkerTypeOK
    BY DEF TypeOK
  <1>2. ASSUME NEW w \in Workers, worker'[w] \in {"up", "stopping"}
        PROVE  w \in beat'
    BY <1>2, StepBeats DEF BeatMoves, HeartbeatsHold
  <1>3. ASSUME NEW r \in Runs, run'[r].pc \in {"start", "execute"}
        PROVE  \/ record'[run'[r].job].status = "absent"
               \/ /\ record'[run'[r].job].status \in {"running", "cancelled"}
                  /\ record'[run'[r].job].token = r
    <2>1. run'[r] = run[r] \/ RunGoes(r)
      BY <1>3, StepRuns DEF RunMoves, RunStarts, Idle
    <2>2. PICK j \in Jobs : run[r].job = j /\ run'[r].job = j /\ run[r].pc # "idle"
      BY <1>1, <1>3, <2>1 DEF WorkerTypeOK, RunGoes
    <2>3. CASE run[r].pc = "claim"
      <3>1. record' = Claimed(j, run[r].worker, r)
        BY <1>3, <2>1, <2>2, <2>3 DEF RunGoes, Arrows
      <3> QED BY <1>1, <2>2, <3>1, CommandRecords, RecordFields
    <2>4. CASE run[r].pc # "claim"
      <3>1. run[r].pc \in {"start", "execute"}
        BY <1>3, <2>1, <2>4 DEF RunGoes, Arrows
      <3>2. \/ record[j].status = "absent"
            \/ record[j].status \in {"running", "cancelled"} /\ record[j].token = r
        BY <2>2, <3>1 DEF HeartbeatsHold
      <3>3. create[j] # "hset"
        BY <2>2 DEF LifeInv, RunsRemoveOver, PastRecord
      <3>4. record[j].token = r => record[j].owner \in beat
        BY <1>1, <2>2 DEF ClaimInv, ClaimsHaveOwners, HeartbeatsHold, WorkerTypeOK
      <3>5. ASSUME NEW p \in Runs, RunWrites(p, j)
            PROVE  FALSE
        <4>1. record[j].status # "absent"
          <5>1. record[j].status = "absent" => record[j].token # p
            BY ConstantsAssumption DEF ClaimInv, ClaimsHaveOwners
          <5> QED BY <3>5, <5>1 DEF RunWrites, ClaimResult, CLAIMED, CLAIM_BUSY, MayStore, Holds
        <4>2. record[j].token = r /\ record[j].owner \in beat /\ record[j].status # "queued"
          BY <3>2, <3>4, <4>1
        <4> QED BY <3>1, <3>5, <4>2 DEF RunWrites, ClaimResult, CLAIMED, CLAIM_BUSY, MayStore, Holds
      <3> QED BY <1>1, <2>2, <3>2, <3>3, <3>5, StepRecords, RecordFields DEF RecordMoves, Live
    <2> QED BY <2>3, <2>4
  <1> QED BY <1>2, <1>3 DEF HeartbeatsHold

LEMMA SweepAsks ==
    ASSUME TypeOK, LifeInv, ClaimInv, Steady, HeartbeatsHold, SweepAsksOwner, [Next]_vars
    PROVE  SweepAsksOwner'
  <1>1. SUFFICES ASSUME NEW r \in Runs, Working(r)', sweep'.pc # "idle", sweep'.job = run'[r].job
                 PROVE  sweep'.pc \in {"owner", "postpone"} /\ sweep'.owner = run'[r].worker
    BY DEF SweepAsksOwner
  <1>2. StoreTypeOK /\ WorkerTypeOK /\ CleanupTypeOK
    BY DEF TypeOK
  <1>3. /\ run'[r].pc \in {"start", "execute", "store"} /\ record'[run'[r].job].token = r
        /\ record'[run'[r].job].status \in {"running", "cancelled"}
    BY <1>1 DEF Working, Holds
  <1>4. run'[r] = run[r] \/ RunGoes(r)
    BY <1>3, StepRuns DEF RunMoves, RunStarts, Idle
  <1>5. PICK j \in Jobs : run[r].job = j /\ run'[r].job = j /\ run[r].pc # "idle"
    BY <1>2, <1>3, <1>4 DEF WorkerTypeOK, RunGoes
  <1>6. run'[r].worker = run[r].worker /\ run[r].worker \in Workers
    BY <1>2, <1>4, <1>5 DEF RunGoes, WorkerTypeOK
  <1>7. ASSUME Over(j)
        PROVE  Working(r) /\ record[j].status = "cancelled"
    <2>1. ClaimResult(j) # CLAIMED
      BY <1>7 DEF ClaimResult, CLAIMED, CLAIM_BUSY, Over, Live
    <2>2. run[r].pc \in {"start", "execute", "store"}
      BY <1>3, <1>4, <1>5, <2>1 DEF RunGoes, Arrows
    <2>3. record[j].token = r /\ record[j].status = record'[j].status
      BY <1>3, <1>5, <1>7, <2>2, ClaimKept DEF Over
    <2> QED BY <1>3, <1>5, <1>7, <2>2, <2>3, ConstantsAssumption DEF Working, Holds, Over, Live
  <1>8. Working(r) => worker[run[r].worker] \in {"up", "stopping"} /\ run[r].worker \in beat
                      /\ record[j].owner = run[r].worker /\ record[j].token = r
    BY <1>5, <1>6 DEF Working, Holds, ClaimInv, ClaimsHaveOwners, HeartbeatsHold
  <1>9. CASE sweep' = sweep
    <2>1. Over(j)
      BY <1>1, <1>5, <1>9 DEF LifeInv, SweepRemovesOver
    <2> QED BY <1>1, <1>5, <1>6, <1>7, <1>9, <2>1 DEF SweepAsksOwner
  <1>10. ASSUME NEW k \in expiry, sweep' = [pc |-> NextAfterRead(k), job |-> k, owner |-> record[k].owner],
                UNCHANGED <<record, create, run, worker>>
         PROVE  sweep'.pc \in {"owner", "postpone"} /\ sweep'.owner = run'[r].worker
    <2>1. k = j /\ Over(j)
      BY <1>1, <1>5, <1>10 DEF LifeInv, NothingBeforeRecord
    <2>2. NextAfterRead(j) = "owner"
      BY <1>7, <1>8, <2>1, ConstantsAssumption DEF NextAfterRead
    <2> QED BY <1>6, <1>7, <1>8, <1>10, <2>1, <2>2
  <1>11. ASSUME UNCHANGED <<record, create, run, worker>>, sweep'.pc = "rmtree", sweep'.job \in Jobs,
                record[sweep'.job].status = "absent"
         PROVE  FALSE
    BY <1>1, <1>3, <1>5, <1>11
  <1>12. ASSUME sweep.pc \in {"owner", "release", "rmtree", "delete"}, sweep'.job = sweep.job
         PROVE  sweep.pc = "owner" /\ sweep.owner = run[r].worker /\ sweep.owner \in beat
    <2>1. sweep.job = j /\ Over(j)
      BY <1>1, <1>5, <1>12 DEF LifeInv, SweepRemovesOver
    <2> QED BY <1>5, <1>7, <1>8, <1>12, <2>1 DEF SweepAsksOwner
  <1>13. CASE sweep.pc = "owner" /\ sweep'.job = sweep.job /\ sweep'.owner = sweep.owner
              /\ sweep'.pc = IF sweep.owner \in beat THEN "postpone" ELSE "release"
    BY <1>6, <1>12, <1>13
  <1> QED BY <1>1, <1>9, <1>10, <1>11, <1>12, <1>13, StepSweep DEF SweepMoves, NoSweep

\* A job is occupied after a step if it was, or if the step is its HSET.
LEMMA OccupiedStays ==
    ASSUME TypeOK, LifeInv, ClaimInv, [Next]_vars, NEW j \in Jobs, Occupied(j)'
    PROVE  Occupied(j) \/ create[j] = "hset"
  <1>1. CASE record[j].status \in Live
    BY <1>1 DEF Occupied
  <1>2. CASE record[j].status \notin Live /\ record'[j].status \in Live
    BY <1>2, StepMoves DEF Moves, Live
  <1>3. CASE record[j].status \notin Live /\ record'[j].status \notin Live
    <2>1. PICK r \in Runs : run'[r].job = j /\ Working(r)'
      BY <1>3 DEF Occupied, RunsOn
    <2>2. /\ run'[r].pc \in {"start", "execute", "store"} /\ record'[j].token = r
          /\ record'[j].status \in {"running", "cancelled"}
      BY <2>1 DEF Working, Holds
    <2>3. run'[r] = run[r] \/ RunGoes(r)
      BY <2>2, StepRuns DEF RunMoves, RunStarts, Idle
    <2>4. ClaimResult(j) # CLAIMED
      BY <1>3 DEF ClaimResult, CLAIMED, CLAIM_BUSY, Live
    <2>5. run[r].pc \in {"start", "execute", "store"} /\ run[r].job = j
      BY <2>1, <2>2, <2>3, <2>4 DEF RunGoes, Arrows
    <2>6. record[j].token = r /\ record[j].status = record'[j].status
      BY <1>3, <2>2, <2>5, ClaimKept
    <2>7. j # NoJob
      BY ConstantsAssumption
    <2> QED BY <2>2, <2>5, <2>6, <2>7 DEF Occupied, Working, Holds, RunsOn
  <1> QED BY <1>1, <1>2, <1>3

\* Without a claim, nobody works on a job that is over.
LEMMA OverIsFree ==
    ASSUME TypeOK, NEW j \in Jobs, record[j].token = NoRun, record[j].status \notin Live
    PROVE  ~Occupied(j)
  BY ConstantsAssumption DEF Occupied, Working, Holds, RunsOn

LEMMA SlotsStep ==
    ASSUME TypeOK, LifeInv, ClaimInv, Punctual, HeartbeatsHold, SweepAsksOwner, SlotsAreKept, [Next]_vars
    PROVE  SlotsAreKept'
  <1>1. StoreTypeOK /\ ApiTypeOK /\ WorkerTypeOK
    BY DEF TypeOK
  <1>2. ASSUME NEW j \in Jobs, create'[j] = "undo_slot"
        PROVE  record'[j].status = "absent"
    <2>1. CASE create[j] = "undo_slot"
      <3>1. record[j].status = "absent"
        BY <2>1 DEF SlotsAreKept
      <3> QED BY <2>1, <3>1, StepMoves DEF Moves, Live
    <2>2. CASE create[j] # "undo_slot"
      <3>1. record' = Deleted(j)
        BY <1>2, <2>2, StepCreates DEF CreateMoves
      <3> QED BY <1>1, <3>1, CommandRecords, RecordFields
    <2> QED BY <2>1, <2>2
  <1>3. ASSUME NEW j \in Jobs, create'[j] \in {"rate", "upload", "hset"} \/ Occupied(j)'
        PROVE  j \in slots'
    <2>1. CASE create[j] = "new" /\ create'[j] = "rate"
      BY <2>1, StepCreates DEF CreateMoves
    <2>2. CASE ~(create[j] = "new" /\ create'[j] = "rate")
      <3>1. create[j] \in {"rate", "upload", "hset"} \/ Occupied(j)
        BY <1>3, <2>2, StepCreates, OccupiedStays DEF CreateMoves, CreateArrows, UndoSteps
      <3>2. j \in slots
        BY <3>1 DEF SlotsAreKept
      <3>3. ASSUME NEW k \in Jobs, slots' = slots \ {k}, record' = record, create[k] = "undo_slot",
                   create'[k] = "failed"
            PROVE  k # j
        <4>1. record[k].status = "absent" /\ record[k].token = NoRun
          BY <3>3 DEF SlotsAreKept, ClaimInv, ClaimsHaveOwners
        <4>2. ~Occupied(k)
          BY <4>1, OverIsFree DEF Live
        <4> QED BY <3>1, <3>3, <4>2
      <3>4. ASSUME NEW k \in Jobs, create' = create, record' = record,
                   \/ \E q \in Requests : request[q].pc = "release" /\ request[q].job = k
                   \/ \E r \in Runs : run[r].pc = "release" /\ run[r].job = k
            PROVE  k # j
        <4>1. Over(k) /\ record[k].token = NoRun
          BY <3>4 DEF SlotsAreKept, ClaimInv, ClaimsAreFenced, LifeInv, RequestsRemoveOver
        <4>2. ~Occupied(k)
          BY <4>1, OverIsFree DEF Over
        <4> QED BY <3>1, <4>1, <4>2 DEF Over, PastRecord
      <3>5. ASSUME sweep.pc = "release", sweep.job = j, UNCHANGED <<record, create, run>>
            PROVE  FALSE
        <4>1. Over(j)
          BY <3>5 DEF LifeInv, SweepRemovesOver
        <4>2. PICK r \in RunsOn(j) : Working(r)
          BY <3>1, <4>1 DEF Occupied, Over, PastRecord
        <4> QED BY <3>5, <4>2 DEF SweepAsksOwner, RunsOn
      <3> QED BY <3>2, <3>3, <3>4, <3>5, StepSlots DEF SlotMoves, Punctual, Steady
    <2> QED BY <2>1, <2>2
  <1>4. ASSUME NEW q \in Requests,
               request'[q].pc \in {"rmtree", "release"} \/ (request'[q].pc = "metric" /\ request'[q].prev = "queued")
        PROVE  record'[request'[q].job].token = NoRun
    <2>1. PICK j \in Jobs : request[q].job = j /\ request'[q].job = j /\ request[q].pc # "idle"
      BY <1>1, <1>4, StepRequests DEF RequestMoves, RequestStarts, RequestTransits, RequestGoes, RequestArrows,
           NoRequest, ApiTypeOK
    <2>2. CASE RequestTransits(q)
      <3>1. record[j].status = "queued" /\ record' = CancelledRecord(j)
        BY <1>4, <2>1, <2>2 DEF RequestTransits, NextAfterTransition, Live
      <3>2. record[j].token = NoRun
        BY <3>1 DEF ClaimInv, ClaimsHaveOwners
      <3> QED BY <1>1, <2>1, <3>1, <3>2, CommandRecords, RecordFields
    <2>3. CASE request'[q] = request[q] \/ RequestGoes(q)
      <3>1. Over(j) /\ record[j].token = NoRun
        BY <1>4, <2>1, <2>3 DEF RequestGoes, RequestArrows, SlotsAreKept, LifeInv, RequestsRemoveOver
      <3>2. record'[j].token \in {record[j].token, NoRun}
        BY <3>1, OverTokens
      <3> QED BY <2>1, <3>1, <3>2
    <2> QED BY <1>4, <2>2, <2>3, StepRequests DEF RequestMoves, RequestStarts, NoRequest
  <1>5. Cardinality(slots') <= MaxActive
    <2>1. slots \subseteq Jobs /\ IsFiniteSet(slots) /\ Cardinality(slots) \in Nat /\ Cardinality(slots) <= MaxActive
          /\ MaxActive \in Nat
      BY <1>1, ConstantsAssumption, FS_Subset, FS_CardinalityType DEF StoreTypeOK, SlotsAreKept
    <2>2. ASSUME NEW j \in Jobs, slots' = slots \cup {j}, SlotFree \/ record[j].status \in Live
          PROVE  Cardinality(slots') <= MaxActive
      <3>1. CASE j \in slots
        <4>1. slots' = slots
          BY <2>2, <3>1
        <4> QED BY <2>1, <4>1
      <3>2. CASE j \notin slots
        <4>1. Cardinality(slots) < MaxActive
          BY <2>2, <3>2 DEF SlotsAreKept, Occupied, SlotFree
        <4>2. Cardinality(slots') = Cardinality(slots) + 1
          BY <2>1, <2>2, <3>2, FS_AddElement
        <4> QED BY <2>1, <4>1, <4>2
      <3> QED BY <3>1, <3>2
    <2>3. ASSUME slots' \subseteq slots
          PROVE  Cardinality(slots') <= MaxActive
      BY <2>1, <2>3, FS_Subset, FS_CardinalityType
    <2>4. \/ slots' \subseteq slots
          \/ \E j \in Jobs : slots' = slots \cup {j} /\ (SlotFree \/ record[j].status \in Live)
      BY StepSlots DEF SlotMoves, Punctual, Steady
    <2> QED BY <2>2, <2>3, <2>4
  <1> QED
    <2>1. \A j \in Jobs : /\ create'[j] = "undo_slot" => record'[j].status = "absent"
                          /\ create'[j] \in {"rate", "upload", "hset"} \/ Occupied(j)' => j \in slots'
      BY <1>2, <1>3
    <2> QED BY <1>4, <1>5, <2>1 DEF SlotsAreKept

-----------------------------------------------------------------------------
(* No row stays behind.                                                        *)

\* What a step adds to the queue is a job whose create_job is over with it.
LEMMA StepQueue ==
    ASSUME TypeOK, [Next]_vars, NEW k \in Jobs, k \in queue', k \notin queue
    PROVE  create[k] = "enqueue" /\ create'[k] \in {"created", "undo_metric"}
  <1>1. ApiNext
    BY DEF Next, vars, storeVars, WorkerNext, RunStep, LoadRecord, MarkJobRunning, DeferBusyJob, StartOperation,
           ExecuteOperation, StoreTerminalState, TerminalMetric, FinishJobClaim, CleanDirectory, UnlinkInputs,
           ReleaseActiveJob, FinalHeartbeat, FinishJob, RequeueJob, Interrupt, StartJob, GiveUpJob, WriteOutput, ThreadStep, DeferEnds,
           OnStartup, HeartbeatLoop, Shutdown, OnShutdown, WorkerCrash, CleanupNext, ReadExpired, ScanOrphan,
           SweepStep, CleanupCrash, CheckOwner, PostponeOwned, SweepRelease, SweepRemoveDirectory, SweepDelete,
           SweepUnlist, EnvironmentNext, RecordExpires, SlotLapses, LockExpires, BeatExpires, RedisRestart
  <1>2. PICK j \in Jobs : EnqueueJob(j)
    BY <1>1 DEF ApiNext, storeVars, CreateStep, CreateCrash, ReserveActiveJob, ConsumeRate, SaveUploads,
           CreateJobRecord, ExpireJobRecord, AcceptMetric, UndoMetric, UndoDirectory, UndoRecord, UndoSlot,
           DeleteStep, RequestCrash, CancelJobTransition, CancelMetric, CancelRemoveDirectory, CancelRelease,
           DeleteDirectory, DeleteRecord, DeleteExpiry, AuthorizedJob
  <1>3. k = j
    BY <1>2 DEF EnqueueJob
  <1> QED BY <1>2, <1>3 DEF EnqueueJob, CreateGoto, TypeOK, ApiTypeOK

LEMMA UntouchedStep ==
    ASSUME TypeOK, LifeInv, Untouched, [Next]_vars
    PROVE  Untouched'
  <1>1. StoreTypeOK /\ ApiTypeOK /\ WorkerTypeOK
    BY DEF TypeOK
  <1> DEFINE Early == {"new", "rate", "upload", "hset", "expire", "accept", "enqueue"}
  <1>2. ASSUME NEW j \in Jobs, create'[j] \in Early
        PROVE  /\ record'[j].status \in {"queued", "absent"}
               /\ j \notin queue' /\ RunsOn(j)' = {}
               /\ \A q \in Requests : request'[q].job # j
    <2>1. create[j] \in Early
      BY <1>2, StepCreates DEF CreateMoves, CreateArrows, UndoSteps
    <2>2. /\ record[j].status \in {"queued", "absent"} /\ j \notin queue
          /\ \A r \in Runs : run[r].job # j
          /\ \A q \in Requests : request[q].job # j
      BY <2>1 DEF Untouched, RunsOn
    <2>3. record'[j].status \in {"queued", "absent"}
      BY <1>1, <2>2, StepRecords, RecordFields DEF RecordMoves, RunWrites
    <2>4. j \notin queue'
      BY <1>2, <2>2, StepQueue
    <2>5. ASSUME NEW r \in Runs PROVE run'[r].job # j
      <3>1. RunMoves(r) /\ NoJob # j
        BY StepRuns, ConstantsAssumption
      <3> QED BY <2>2, <3>1 DEF RunMoves, RunStarts, RunGoes, Idle
    <2>6. ASSUME NEW q \in Requests PROVE request'[q].job # j
      <3>1. RequestMoves(q) /\ NoJob # j /\ create[j] # "created"
        BY <2>1, StepRequests, ConstantsAssumption
      <3> QED BY <2>2, <3>1 DEF RequestMoves, RequestStarts, RequestTransits, RequestGoes, NoRequest
    <2> QED BY <2>3, <2>4, <2>5, <2>6 DEF RunsOn
  <1>3. ASSUME NEW r \in Runs, run'[r].pc = "start"
        PROVE  record'[run'[r].job].status # "queued"
    <2> DEFINE j == run[r].job
    <2>1. run'[r] = run[r] \/ RunGoes(r)
      BY <1>3, StepRuns DEF RunMoves, RunStarts, Idle
    <2>2. run'[r].job = j /\ run[r].pc # "idle" /\ j \in Jobs /\ PastRecord(j)
      BY <1>1, <1>3, <2>1 DEF RunGoes, WorkerTypeOK, LifeInv, RunsRemoveOver
    <2>3. CASE run[r].pc = "start"
      <3>1. record[j].status # "queued" /\ create[j] # "hset"
        BY <2>2, <2>3 DEF Untouched, PastRecord
      <3> QED BY <1>1, <2>2, <3>1, StepRecords, RecordFields DEF RecordMoves, RunWrites, WorkerTypeOK
    <2>4. CASE run[r].pc # "start"
      <3>1. record' = Claimed(j, run[r].worker, r)
        BY <1>3, <2>1, <2>4 DEF RunGoes
      <3> QED BY <1>1, <2>2, <3>1, CommandRecords, RecordFields
    <2> QED BY <2>3, <2>4
  <1> QED BY <1>2, <1>3 DEF Untouched

\* Where no write is lost, whoever has a row to write does so with its next step,
\* unless its process stops.
LEMMA RowsAreWritten ==
    ASSUME TypeOK, "metrics_error" \notin Faults, [Next]_vars
    PROVE  /\ \A j \in Jobs : create[j] = "accept" /\ create'[j] = "enqueue" =>
                metric' = RecordAccepted(j) /\ record' = record
           /\ \A r \in Runs :
                Interrupts(r) = {} /\ worker'[run[r].worker] # "dead" /\ run'[r] # run[r] =>
                  /\ run[r].pc = "start" => metric' = RecordStarted(run[r].job) /\ record' = record
                  /\ run[r].pc = "metric" =>
                       metric' = RecordTerminal(run[r].job, run[r].outcome) /\ record' = record
           /\ "api_crash" \notin Faults => \A q \in Requests :
                request[q].pc = "metric" /\ request'[q] # request[q] =>
                  metric' = RecordTerminal(request[q].job, "cancelled") /\ record' = record
  <1>1. \A row : Written(row) = {row}
    BY DEF Written
  <1>2. ASSUME NEW j \in Jobs, create[j] = "accept", create'[j] = "enqueue"
        PROVE  metric' = RecordAccepted(j) /\ record' = record
    <2>1. PICK k \in Jobs : CreateStep(k) \/ CreateCrash(k)
      BY <1>2 DEF Next, ApiNext, apiVars, vars, DeleteStep, RequestCrash, CancelJobTransition, CancelMetric,
           CancelRemoveDirectory, CancelRelease, DeleteDirectory, DeleteRecord, DeleteExpiry, AuthorizedJob
    <2>2. create \in [Jobs -> CreateSteps]
      BY DEF TypeOK, ApiTypeOK
    <2>3. k = j
      BY <1>2, <2>1, <2>2 DEF CreateGoto, CreateStep, CreateCrash, ReserveActiveJob, ConsumeRate, SaveUploads,
         CreateJobRecord, ExpireJobRecord, AcceptMetric, EnqueueJob, UndoMetric, UndoDirectory, UndoRecord, UndoSlot
    <2>4. AcceptMetric(j)
      BY <1>2, <2>1, <2>2, <2>3 DEF CreateGoto, CreateStep, CreateCrash, ReserveActiveJob, ConsumeRate, SaveUploads,
         CreateJobRecord, ExpireJobRecord, EnqueueJob, UndoMetric, UndoDirectory, UndoRecord, UndoSlot
    <2> QED BY <1>1, <2>4 DEF AcceptMetric
  <1>3. ASSUME NEW r \in Runs, Interrupts(r) = {}, worker'[run[r].worker] # "dead", run'[r] # run[r],
               run[r].pc \in {"start", "metric"}
        PROVE  StartOperation(r) \/ TerminalMetric(r)
    <2>1. run \in [Runs -> RunRecords] /\ worker \in [Workers -> {"off", "up", "stopping", "dead"}]
      BY GoodRuns DEF TypeOK, WorkerTypeOK
    <2>2. WorkerNext
      BY <1>3 DEF Next, workerVars, vars
    <2>3. ~\E p \in Runs \ {r} : RunStep(p) \/ Interrupt(p)
      BY <1>3, <2>1, ZenonT(60) DEF RunStep, LoadRecord, MarkJobRunning, DeferBusyJob, StartOperation, ExecuteOperation,
         StoreTerminalState, TerminalMetric, FinishJobClaim, CleanDirectory, UnlinkInputs, ReleaseActiveJob,
         FinalHeartbeat, Interrupt, Goto
    <2>4. ~\E w \in Workers : WorkerCrash(w)
      BY <1>3, <2>1 DEF WorkerCrash
    <2>5. ~\E p \in Runs : FinishJob(p) \/ RequeueJob(p)
      BY <1>3, <2>1 DEF FinishJob, RequeueJob
    <2>6. ~\E w \in Workers, p \in Runs, j \in Jobs : StartJob(w, p, j)
      <3> SUFFICES ASSUME NEW w \in Workers, NEW p \in Runs, NEW j \in Jobs, StartJob(w, p, j) PROVE FALSE
        OBVIOUS
      <3>1. p # r
        BY <1>3 DEF StartJob, Idle
      <3> QED BY <1>3, <2>1, <3>1 DEF StartJob
    <2>7. RunStep(r)
      BY <1>3, <2>2, <2>3, <2>4, <2>5, <2>6 DEF WorkerNext, Interrupt, GiveUpJob, WriteOutput, ThreadStep, DeferEnds, OnStartup,
         HeartbeatLoop, Shutdown, OnShutdown
    <2> QED BY <1>3, <2>7 DEF RunStep, LoadRecord, MarkJobRunning, DeferBusyJob, ExecuteOperation,
         StoreTerminalState, FinishJobClaim, CleanDirectory, UnlinkInputs, ReleaseActiveJob, FinalHeartbeat
  <1>4. ASSUME NEW q \in Requests, "api_crash" \notin Faults, request[q].pc = "metric", request'[q] # request[q]
        PROVE  metric' = RecordTerminal(request[q].job, "cancelled") /\ record' = record
    <2>1. PICK p \in Requests : DeleteStep(p) \/ \E j \in Jobs : AuthorizedJob(p, j)
      BY <1>4 DEF Next, ApiNext, apiVars, vars, CreateStep, CreateCrash, ReserveActiveJob, ConsumeRate,
         SaveUploads, CreateJobRecord, ExpireJobRecord, AcceptMetric, EnqueueJob, UndoMetric, UndoDirectory,
         UndoRecord, UndoSlot, RequestCrash
    <2>2. request \in [Requests -> [pc: RequestSteps, job: Jobs \cup {NoJob}, prev: Status \cup {"absent"}]]
      BY DEF TypeOK, ApiTypeOK
    <2>3. CancelMetric(q)
      BY <1>4, <2>1, <2>2 DEF RequestGoto, DeleteStep, CancelJobTransition, CancelMetric, CancelRemoveDirectory,
         CancelRelease, DeleteDirectory, DeleteRecord, DeleteExpiry, AuthorizedJob
    <2> QED BY <1>1, <2>3 DEF CancelMetric
  <1>5. \A r \in Runs : /\ StartOperation(r) => run[r].pc = "start" /\ metric' = RecordStarted(run[r].job)
                        /\ TerminalMetric(r) =>
                             run[r].pc = "metric" /\ metric' = RecordTerminal(run[r].job, run[r].outcome)
                        /\ StartOperation(r) \/ TerminalMetric(r) => record' = record
    BY <1>1 DEF StartOperation, TerminalMetric
  <1> QED BY <1>2, <1>3, <1>4, <1>5

\* A worker that stops never comes back: as long as none has, no command fails
\* and no run is interrupted.
LEMMA NobodyFails ==
    ASSUME TypeOK, ClaimsHaveOwners, Recorded, [Next]_vars, Attended'
    PROVE  /\ Attended /\ RedisReplies = {"ok"}
           /\ \A r \in Runs : run[r].pc # "idle" =>
                Interrupts(r) = {} /\ Replies(r) = {"ok"} /\ worker'[run[r].worker] # "dead"
  <1>1. worker \in [Workers -> {"off", "up", "stopping", "dead"}]
    BY DEF TypeOK, WorkerTypeOK
  <1>2. Attended
    <2>1. CASE worker' = worker
      BY <2>1 DEF Attended
    <2>2. CASE worker' # worker
      <3>1. PICK w \in Workers : OnStartup(w) \/ Shutdown(w) \/ OnShutdown(w) \/ WorkerCrash(w)
        BY <2>2 DEF Next, WorkerNext, workerVars, vars, RunStep, LoadRecord, MarkJobRunning, DeferBusyJob,
              StartOperation, ExecuteOperation, StoreTerminalState, TerminalMetric, FinishJobClaim,
              CleanDirectory, UnlinkInputs, ReleaseActiveJob, FinalHeartbeat, FinishJob, RequeueJob, Interrupt,
              StartJob, GiveUpJob, WriteOutput, ThreadStep, DeferEnds, HeartbeatLoop
      <3>2. OnStartup(w)
        BY <1>1, <3>1 DEF Attended, Shutdown, OnShutdown, WorkerCrash
      <3> QED BY <1>1, <3>2 DEF OnStartup, Attended
    <2> QED BY <2>1, <2>2
  <1>3. RedisReplies = {"ok"}
    BY DEF RedisReplies, Recorded
  <1>4. ASSUME NEW r \in Runs, run[r].pc # "idle"
        PROVE  Interrupts(r) = {} /\ Replies(r) = {"ok"} /\ worker'[run[r].worker] # "dead"
    <2>1. run[r].worker \in Workers /\ worker[run[r].worker] = "up"
      BY <1>2, <1>4 DEF Attended, ClaimsHaveOwners, TypeOK, WorkerTypeOK
    <2>2. Interrupts(r) = {}
      BY <2>1 DEF Interrupts, Recorded
    <2> QED BY <1>3, <2>1, <2>2 DEF Replies, Attended
  <1> QED BY <1>2, <1>3, <1>4

\* What a written row says.
LEMMA RowCommands ==
    ASSUME StoreTypeOK, NEW j \in Jobs
    PROVE  /\ metric[j] = "none" => RecordAccepted(j)[j] = "queued"
           /\ metric[j] \in Live => RecordStarted(j)[j] = "running"
           /\ \A s : metric[j] \in Live => RecordTerminal(j, s)[j] = s
  BY DEF StoreTypeOK, RecordAccepted, RecordStarted, RecordTerminal, Live

LEMMA RowsKeepStep ==
    ASSUME TypeOK, LifeInv, ClaimInv, Untouched, Attended => RowsKeepUp, Recorded, [Next]_vars, Attended'
    PROVE  RowsKeepUp'
  <1>1. StoreTypeOK /\ WorkerTypeOK /\ ApiTypeOK /\ RowsFollowRecords /\ ClaimsHaveOwners
    BY DEF TypeOK, ClaimInv
  <1>2. /\ RowsKeepUp /\ RedisReplies = {"ok"}
        /\ "metrics_error" \notin Faults /\ "api_crash" \notin Faults
        /\ \A r \in Runs : run[r].pc # "idle" =>
             Interrupts(r) = {} /\ Replies(r) = {"ok"} /\ worker'[run[r].worker] # "dead"
    BY <1>1, NobodyFails DEF Recorded
  <1> SUFFICES ASSUME NEW j \in Jobs, create'[j] \in {"enqueue", "created"},
                      record'[j].status \notin {"absent", metric'[j]}
               PROVE  /\ metric'[j] \in Live
                      /\ \/ record'[j].status = "running" /\ \E r \in RunsOn(j)' : run'[r].pc = "start"
                         \/ \E r \in RunsOn(j)' : run'[r].pc = "metric" /\ run'[r].outcome = record'[j].status
                         \/ record'[j].status = "cancelled"
                            /\ \E q \in Requests : request'[q].pc = "metric" /\ request'[q].job = j
    BY DEF RowsKeepUp
  <1>3. RecordMoves(j) /\ MetricMoves(j) /\ CreateMoves(j)
    BY StepRecords, StepRows, StepCreates
  <1>4. create[j] \in {"enqueue", "created"}
    <2>1. create[j] \in {"accept", "enqueue", "created"}
      BY <1>3 DEF CreateMoves, CreateArrows, UndoSteps
    <2>2. create[j] # "accept"
      <3> SUFFICES ASSUME create[j] = "accept" PROVE FALSE
        OBVIOUS
      <3>1. create'[j] = "enqueue"
        BY <1>3 DEF CreateMoves, CreateArrows, UndoSteps
      <3>2. metric' = RecordAccepted(j) /\ record' = record /\ metric[j] = "none"
        BY <1>1, <1>2, <3>1, RowsAreWritten DEF RowsFollowRecords
      <3> QED BY <1>1, <3>2, RowCommands DEF Untouched
    <2> QED BY <2>1, <2>2
  <1>5. record[j].status \in Live => metric[j] \in Live
    BY <1>2, <1>4 DEF RowsKeepUp, Live
  <1>6. CASE record'[j].status # record[j].status
    <2>1. record[j].status \in Live
      BY <1>1, <1>3, <1>4, <1>6, RecordFields DEF RecordMoves, RunWrites, ClaimResult, CLAIMED, CLAIM_BUSY, MayStore,
         Live
    <2>2. metric'[j] \in Live
      BY <1>3, <1>4, <1>5, <1>6, <2>1 DEF MetricMoves, Live
    <2>3. \/ \E q \in Requests : RequestLearns(q) /\ request[q].job = j /\ record'[j].status = "cancelled"
          \/ \E r \in Runs : /\ RunLearns(r, "start") /\ run[r].job = j /\ run[r].pc # "idle"
                             /\ record'[j].status = "running"
          \/ \E r \in Runs : /\ RunLearns(r, "metric") /\ run[r].job = j /\ run[r].pc # "idle"
                             /\ record'[j].status = run[r].outcome
      BY <1>1, <1>3, <1>4, <1>6, RecordFields DEF RecordMoves, RunWrites
    <2> QED BY <1>2, <2>2, <2>3 DEF RunLearns, RequestLearns, RunsOn
  <1>7. CASE record'[j].status = record[j].status
    <2>1. CASE record[j].status = metric[j]
      <3>1. metric'[j] # metric[j] /\ metric[j] \in Live
        BY <1>3, <1>4, <1>7, <2>1 DEF MetricMoves, Live
      <3>2. metric[j] = "queued" => \A r \in Runs : run[r].pc = "start" => run[r].job # j
        BY <2>1 DEF Untouched
      <3>3. record'[j].status \in {metric'[j], "absent"}
        BY <1>1, <1>3, <1>4, <1>7, <3>1, <3>2 DEF MetricMoves, RowsFollowRecords
      <3> QED BY <3>3
    <2>2. CASE record[j].status # metric[j]
      <3>1. /\ metric[j] \in Live
            /\ \/ record[j].status = "running" /\ \E r \in RunsOn(j) : run[r].pc = "start"
               \/ \E r \in RunsOn(j) : run[r].pc = "metric" /\ run[r].outcome = record[j].status
               \/ record[j].status = "cancelled"
                  /\ \E q \in Requests : request[q].pc = "metric" /\ request[q].job = j
        BY <1>2, <1>4, <1>7, <2>2 DEF RowsKeepUp
      <3>2. metric'[j] \in Live
        BY <1>1, <1>3, <1>4, <1>7, <3>1 DEF MetricMoves, RowsFollowRecords, Live
      <3>3. CASE record[j].status = "running" /\ \E r \in RunsOn(j) : run[r].pc = "start"
        <4>1. PICK r \in Runs : run[r].job = j /\ run[r].pc = "start"
          BY <3>3 DEF RunsOn
        <4>2. run'[r] = run[r]
          BY <1>1, <1>2, <1>7, <3>1, <3>3, <4>1, RowsAreWritten, RowCommands
        <4> QED BY <1>7, <3>2, <3>3, <4>1, <4>2 DEF RunsOn
      <3>4. CASE \E r \in RunsOn(j) : run[r].pc = "metric" /\ run[r].outcome = record[j].status
        <4>1. PICK r \in Runs : run[r].job = j /\ run[r].pc = "metric" /\ run[r].outcome = record[j].status
          BY <3>4 DEF RunsOn
        <4>2. run'[r] = run[r]
          BY <1>1, <1>2, <1>7, <3>1, <4>1, RowsAreWritten, RowCommands
        <4> QED BY <1>7, <3>2, <4>1, <4>2 DEF RunsOn
      <3>5. CASE /\ record[j].status = "cancelled"
                 /\ \E q \in Requests : request[q].pc = "metric" /\ request[q].job = j
        <4>1. PICK q \in Requests : request[q].pc = "metric" /\ request[q].job = j
          BY <3>5
        <4>2. request'[q] = request[q]
          BY <1>1, <1>2, <1>7, <3>1, <3>5, <4>1, RowsAreWritten, RowCommands
        <4> QED BY <1>7, <3>2, <3>5, <4>1, <4>2
      <3> QED BY <3>1, <3>3, <3>4, <3>5
    <2> QED BY <2>1, <2>2
  <1> QED BY <1>6, <1>7

-----------------------------------------------------------------------------
(* The uploads.  Where nothing is interrupted, no process ever stops and every *)
(* command answers.                                                            *)

LEMMA AllAnswer ==
    ASSUME TypeOK, ClaimsHaveOwners, Uninterrupted, Attended
    PROVE  /\ RedisReplies = {"ok"}
           /\ \A r \in Runs : run[r].pc # "idle" => Interrupts(r) = {} /\ Replies(r) = {"ok"}
  <1>1. RedisReplies = {"ok"}
    BY DEF RedisReplies, Uninterrupted
  <1>2. ASSUME NEW r \in Runs, run[r].pc # "idle"
        PROVE  Interrupts(r) = {} /\ Replies(r) = {"ok"}
    <2>1. run[r].worker \in Workers /\ worker[run[r].worker] = "up"
      BY <1>2 DEF Attended, ClaimsHaveOwners, TypeOK, WorkerTypeOK
    <2>2. Interrupts(r) = {}
      BY <2>1 DEF Interrupts, Uninterrupted
    <2> QED BY <1>1, <2>2 DEF Replies
  <1> QED BY <1>1, <1>2

LEMMA NoneStops ==
    ASSUME TypeOK, Uninterrupted, Attended, [Next]_vars
    PROVE  Attended'
  <1>1. worker \in [Workers -> {"off", "up", "stopping", "dead"}]
    BY DEF TypeOK, WorkerTypeOK
  <1>2. CASE worker' = worker
    BY <1>2 DEF Attended
  <1>3. CASE worker' # worker
    <2>1. PICK w \in Workers : OnStartup(w) \/ Shutdown(w) \/ OnShutdown(w) \/ WorkerCrash(w)
      BY <1>3, ZenonT(30) DEF Next, WorkerNext, workerVars, vars, RunStep, LoadRecord, MarkJobRunning, DeferBusyJob,
            StartOperation, ExecuteOperation, StoreTerminalState, TerminalMetric, FinishJobClaim,
            CleanDirectory, UnlinkInputs, ReleaseActiveJob, FinalHeartbeat, FinishJob, RequeueJob, Interrupt,
            StartJob, GiveUpJob, WriteOutput, ThreadStep, DeferEnds, HeartbeatLoop
    <2>2. OnStartup(w)
      BY <2>1 DEF Attended, Uninterrupted, Shutdown, OnShutdown, WorkerCrash
    <2> QED BY <1>1, <2>2 DEF OnStartup, Attended
  <1> QED BY <1>2, <1>3

GoesTo(r, step) ==
    run'[r].pc = step /\ run'[r].job = run[r].job /\ run'[r].stored = run[r].stored

\* What the next step of a run does then.
SureStep(r) ==
    LET j == run[r].job
    IN  /\ run[r].pc = "load" /\ WorthRunning(record[j].status) => GoesTo(r, "claim")
        /\ run[r].pc = "claim" /\ ClaimResult(j) = CLAIMED =>
             GoesTo(r, "start") /\ record' = Claimed(j, run[r].worker, r)
        /\ run[r].pc = "start" => GoesTo(r, "execute") /\ record' = record
        /\ run[r].pc = "execute" => GoesTo(r, "store") /\ record' = record
        /\ run[r].pc = "store" /\ MayStore(j, r) => run'[r].pc = "metric" /\ run'[r].job = j /\ run'[r].stored
        /\ run[r].pc = "store" /\ ~MayStore(j, r) => GoesTo(r, "finish") /\ record' = record
        /\ run[r].pc = "metric" => GoesTo(r, "finish")
        /\ run[r].pc = "finish" /\ CleansUp(run[r].stored, Seen(r)) => GoesTo(r, "clean")
        /\ run[r].pc = "clean" /\ "dir" \in disk[j] => GoesTo(r, "unlink") \/ disk' = DirectoryRemoved(j)
        /\ run[r].pc = "unlink" /\ "dir" \in disk[j] => disk' = [disk EXCEPT ![j] = @ \ {"files"}]

LEMMA Goes ==
    ASSUME WorkerTypeOK, NEW r \in Runs, NEW step
    PROVE  /\ run'[r] = [run[r] EXCEPT !.pc = step] => GoesTo(r, step)
           /\ \A s : run'[r] = [run[r] EXCEPT !.pc = step, !.outcome = s] => GoesTo(r, step)
           /\ run'[r] = [run[r] EXCEPT !.pc = step, !.stored = TRUE] =>
                run'[r].pc = step /\ run'[r].job = run[r].job /\ run'[r].stored
  <1>1. run[r] \in RunRecords
    BY GoodRuns
  <1> QED BY <1>1 DEF RunRecords, GoesTo

LEMMA SureSteps ==
    ASSUME TypeOK, ClaimsHaveOwners, Uninterrupted, Attended, [Next]_vars, NEW r \in Runs,
           run'[r] # run[r], run[r].pc \notin {"idle", "return", "retry", "requeue"}
    PROVE  SureStep(r)
  <1>1. run \in [Runs -> RunRecords] /\ run[r] \in RunRecords /\ WorkerTypeOK
    BY GoodRuns DEF TypeOK
  <1>2. WorkerNext
    BY DEF Next, workerVars, vars
  <1>3. Interrupts(r) = {} /\ Replies(r) = {"ok"} /\ RedisReplies = {"ok"}
    BY AllAnswer
  <1>4. ~\E p \in Runs \ {r} : RunStep(p) \/ Interrupt(p)
    BY <1>1, ZenonT(30) DEF RunStep, LoadRecord, MarkJobRunning, DeferBusyJob, StartOperation, ExecuteOperation,
       StoreTerminalState, TerminalMetric, FinishJobClaim, CleanDirectory, UnlinkInputs, ReleaseActiveJob,
       FinalHeartbeat, Interrupt, Goto
  <1>5. ~\E p \in Runs : FinishJob(p) \/ RequeueJob(p)
    BY <1>1 DEF FinishJob, RequeueJob
  <1>6. ~\E w \in Workers, p \in Runs, j \in Jobs : StartJob(w, p, j)
    <2> SUFFICES ASSUME NEW w \in Workers, NEW p \in Runs, NEW j \in Jobs, StartJob(w, p, j) PROVE FALSE
      OBVIOUS
    <2>1. p # r
      BY DEF StartJob, Idle
    <2> QED BY <1>1, <2>1 DEF StartJob
  <1>7. RunStep(r)
    BY <1>2, <1>3, <1>4, <1>5, <1>6 DEF WorkerNext, Interrupt, GiveUpJob, WriteOutput, ThreadStep, DeferEnds, OnStartup,
       HeartbeatLoop, Shutdown, OnShutdown, WorkerCrash, Uninterrupted
  <1>8. \A next : After(r, "ok", next) = next
    BY DEF After
  <1>9. CASE run[r].pc = "load"
    <2>1. LoadRecord(r)
      BY <1>7, <1>9 DEF RunStep, MarkJobRunning, DeferBusyJob, StartOperation, ExecuteOperation,
         StoreTerminalState, TerminalMetric, FinishJobClaim, CleanDirectory, UnlinkInputs, ReleaseActiveJob,
         FinalHeartbeat
    <2>2. WorthRunning(record[run[r].job].status) => run'[r] = [run[r] EXCEPT !.pc = "claim"]
      BY <1>1, <1>3, <1>8, <2>1 DEF LoadRecord
    <2> QED BY <1>1, <1>9, <2>2, Goes DEF SureStep
  <1>10. CASE run[r].pc = "claim"
    <2>1. MarkJobRunning(r)
      BY <1>7, <1>10 DEF RunStep, LoadRecord, DeferBusyJob, StartOperation, ExecuteOperation,
         StoreTerminalState, TerminalMetric, FinishJobClaim, CleanDirectory, UnlinkInputs, ReleaseActiveJob,
         FinalHeartbeat
    <2>2. ASSUME ClaimResult(run[r].job) = CLAIMED
          PROVE  run'[r] = [run[r] EXCEPT !.pc = "start"] /\ record' = Claimed(run[r].job, run[r].worker, r)
      <3>1. PICK reply \in Replies(r) :
              /\ TakesEffect(reply) => record' = Claimed(run[r].job, run[r].worker, r)
              /\ run' = [run EXCEPT ![r] = After(r, reply, [run[r] EXCEPT !.pc = "start"])]
        <4> DEFINE next == CASE ClaimResult(run[r].job) = CLAIMED -> "start"
                             [] ClaimResult(run[r].job) = CLAIM_BUSY -> "busy"
                             [] OTHER -> "return"
        <4>1. PICK reply \in Replies(r) :
                /\ TakesEffect(reply) => record' = Claimed(run[r].job, run[r].worker, r)
                /\ run' = [run EXCEPT ![r] = After(r, reply, [run[r] EXCEPT !.pc = next])]
          BY <2>1, <2>2 DEF MarkJobRunning
        <4>2. next = "start"
          BY <2>2 DEF CLAIMED, CLAIM_BUSY
        <4> QED BY <4>1, <4>2
      <3> QED BY <1>1, <1>3, <1>8, <3>1 DEF TakesEffect
    <2> QED BY <1>1, <1>10, <2>2, Goes DEF SureStep
  <1>11. CASE run[r].pc = "start"
    <2>1. StartOperation(r)
      BY <1>7, <1>11 DEF RunStep, LoadRecord, MarkJobRunning, DeferBusyJob, ExecuteOperation,
         StoreTerminalState, TerminalMetric, FinishJobClaim, CleanDirectory, UnlinkInputs, ReleaseActiveJob,
         FinalHeartbeat
    <2>2. run'[r] = [run[r] EXCEPT !.pc = "execute"] /\ record' = record
      BY <1>1, <2>1 DEF StartOperation, Goto
    <2> QED BY <1>1, <1>11, <2>2, Goes DEF SureStep
  <1>12. CASE run[r].pc = "execute"
    <2>1. ExecuteOperation(r)
      BY <1>7, <1>12 DEF RunStep, LoadRecord, MarkJobRunning, DeferBusyJob, StartOperation,
         StoreTerminalState, TerminalMetric, FinishJobClaim, CleanDirectory, UnlinkInputs, ReleaseActiveJob,
         FinalHeartbeat
    <2>2. record' = record /\ \E s : run'[r] = [run[r] EXCEPT !.pc = "store", !.outcome = s]
      BY <1>1, <2>1 DEF ExecuteOperation
    <2> QED BY <1>1, <1>12, <2>2, Goes DEF SureStep
  <1>13. CASE run[r].pc = "store"
    <2>1. StoreTerminalState(r)
      BY <1>7, <1>13 DEF RunStep, LoadRecord, MarkJobRunning, DeferBusyJob, StartOperation, ExecuteOperation,
         TerminalMetric, FinishJobClaim, CleanDirectory, UnlinkInputs, ReleaseActiveJob, FinalHeartbeat
    <2>2. IF MayStore(run[r].job, r) THEN run'[r] = [run[r] EXCEPT !.pc = "metric", !.stored = TRUE]
          ELSE run'[r] = [run[r] EXCEPT !.pc = "finish"] /\ record' = record
      BY <1>1, <1>3, <1>8, <2>1 DEF StoreTerminalState
    <2> QED BY <1>1, <1>13, <2>2, Goes DEF SureStep
  <1>14. CASE run[r].pc = "metric"
    <2>1. TerminalMetric(r)
      BY <1>7, <1>14 DEF RunStep, LoadRecord, MarkJobRunning, DeferBusyJob, StartOperation, ExecuteOperation,
         StoreTerminalState, FinishJobClaim, CleanDirectory, UnlinkInputs, ReleaseActiveJob, FinalHeartbeat
    <2>2. run'[r] = [run[r] EXCEPT !.pc = "finish"]
      BY <1>1, <2>1 DEF TerminalMetric, Goto
    <2> QED BY <1>1, <1>14, <2>2, Goes DEF SureStep
  <1>15. CASE run[r].pc = "finish"
    <2>1. FinishJobClaim(r)
      BY <1>7, <1>15 DEF RunStep, LoadRecord, MarkJobRunning, DeferBusyJob, StartOperation, ExecuteOperation,
         StoreTerminalState, TerminalMetric, CleanDirectory, UnlinkInputs, ReleaseActiveJob, FinalHeartbeat
    <2>2. CleansUp(run[r].stored, Seen(r)) => run'[r] = [run[r] EXCEPT !.pc = "clean", !.outcome = Seen(r)]
      BY <1>1, <1>3, <1>8, <2>1 DEF FinishJobClaim, Seen
    <2> QED BY <1>1, <1>15, <2>2, Goes DEF SureStep
  <1>16. CASE run[r].pc = "clean"
    <2>1. CleanDirectory(r)
      BY <1>7, <1>16 DEF RunStep, LoadRecord, MarkJobRunning, DeferBusyJob, StartOperation, ExecuteOperation,
         StoreTerminalState, TerminalMetric, FinishJobClaim, UnlinkInputs, ReleaseActiveJob, FinalHeartbeat
    <2>2. "dir" \in disk[run[r].job] =>
            disk' = DirectoryRemoved(run[r].job) \/ run'[r] = [run[r] EXCEPT !.pc = "unlink"]
      BY <1>1, <2>1 DEF CleanDirectory, Goto
    <2> QED BY <1>1, <1>16, <2>2, Goes DEF SureStep
  <1>17. CASE run[r].pc = "unlink"
    <2>1. UnlinkInputs(r)
      BY <1>7, <1>17 DEF RunStep, LoadRecord, MarkJobRunning, DeferBusyJob, StartOperation, ExecuteOperation,
         StoreTerminalState, TerminalMetric, FinishJobClaim, CleanDirectory, ReleaseActiveJob, FinalHeartbeat
    <2> QED BY <1>17, <2>1 DEF UnlinkInputs, SureStep
  <1> QED BY <1>9, <1>10, <1>11, <1>12, <1>13, <1>14, <1>15, <1>16, <1>17 DEF SureStep

\* What the next step of a DELETE request does then.
LEMMA SureRequests ==
    ASSUME TypeOK, Uninterrupted, [Next]_vars, NEW q \in Requests, request'[q] # request[q]
    PROVE  /\ request[q].pc = "metric" /\ request[q].prev = "queued" =>
                request'[q].pc = "rmtree" /\ request'[q].job = request[q].job
           /\ request[q].pc \in {"rmtree", "rmtree_done"} => disk' = DirectoryRemoved(request[q].job)
  <1>1. request \in [Requests -> [pc: RequestSteps, job: Jobs \cup {NoJob}, prev: Status \cup {"absent"}]]
    BY DEF TypeOK, ApiTypeOK
  <1>2. \/ \E p \in Requests : DeleteStep(p)
        \/ \E p \in Requests, j \in Jobs : AuthorizedJob(p, j)
    BY DEF Next, ApiNext, apiVars, vars, CreateStep, CreateCrash, ReserveActiveJob, ConsumeRate,
       SaveUploads, CreateJobRecord, ExpireJobRecord, AcceptMetric, EnqueueJob, UndoMetric, UndoDirectory,
       UndoRecord, UndoSlot, RequestCrash, Uninterrupted
  <1>3. CASE \E p \in Requests, j \in Jobs : AuthorizedJob(p, j)
    BY <1>1, <1>3 DEF AuthorizedJob
  <1>4. ASSUME NEW p \in Requests, DeleteStep(p)
        PROVE  p = q
    BY <1>1, <1>4 DEF RequestGoto, DeleteStep, CancelJobTransition, CancelMetric, CancelRemoveDirectory,
       CancelRelease, DeleteDirectory, DeleteRecord, DeleteExpiry
  <1>5. CASE DeleteStep(q)
    BY <1>1, <1>5 DEF RequestGoto, DeleteStep, CancelJobTransition, CancelMetric, CancelRemoveDirectory,
       CancelRelease, DeleteDirectory, DeleteRecord, DeleteExpiry, CleansCancelled
  <1> QED BY <1>2, <1>3, <1>4, <1>5

\* A record goes with an empty directory, or when nobody has its job in hand.
LEMMA RecordsGo ==
    ASSUME TypeOK, DeletedIsEmpty, Uninterrupted, [Next]_vars, NEW k \in Jobs,
           create[k] # "undo_record", record[k].status # "absent", record'[k].status = "absent"
    PROVE  "files" \notin disk[k] \/ (RunsOn(k) = {} /\ k \notin queue /\ create[k] \in CreateOver)
  <1>1. StoreTypeOK /\ record'[k] # record[k]
    BY DEF TypeOK
  <1>2. CASE ApiNext
    <2>1. (\E q \in Requests : DeleteRecord(q)) \/ (\E j \in Jobs : UndoRecord(j))
          \/ (\E j \in Jobs : CreateJobRecord(j) \/ ExpireJobRecord(j))
          \/ (\E q \in Requests : CancelJobTransition(q))
      BY <1>1, <1>2 DEF ApiNext, CreateStep, CreateCrash, ReserveActiveJob, ConsumeRate, SaveUploads,
         AcceptMetric, EnqueueJob, UndoMetric, UndoDirectory, UndoSlot, DeleteStep, RequestCrash,
         CancelMetric, CancelRemoveDirectory, CancelRelease, DeleteDirectory, DeleteExpiry, AuthorizedJob, storeVars
    <2>2. ASSUME NEW q \in Requests, DeleteRecord(q)
          PROVE  "files" \notin disk[k]
      <3>1. record' = Deleted(request[q].job) /\ request[q].pc = "delete"
        BY <1>1, <2>2 DEF DeleteRecord
      <3>2. request[q].job = k
        BY <1>1, <3>1 DEF Deleted, StoreTypeOK
      <3> QED BY <3>1, <3>2 DEF DeletedIsEmpty
    <2>3. ASSUME NEW j \in Jobs, UndoRecord(j)
          PROVE  FALSE
      BY <1>1, <2>3 DEF UndoRecord, Deleted, StoreTypeOK
    <2>4. ASSUME NEW j \in Jobs, CreateJobRecord(j) \/ ExpireJobRecord(j)
          PROVE  FALSE
      <3>1. record' = Queued(j) \/ record' = Expiring(j)
        BY <1>1, <2>4 DEF CreateJobRecord, ExpireJobRecord
      <3> QED BY <1>1, <3>1, CommandRecords, RecordFields
    <2>5. ASSUME NEW q \in Requests, CancelJobTransition(q)
          PROVE  FALSE
      <3>1. record' = CancelledRecord(request[q].job) /\ request[q].job \in Jobs
        BY <1>1, <2>5 DEF CancelJobTransition, TypeOK, ApiTypeOK
      <3> QED BY <1>1, <3>1, CommandRecords, RecordFields
    <2> QED BY <2>1, <2>2, <2>3, <2>4, <2>5
  <1>3. CASE WorkerNext
    <2>1. RecordMoves(k)
      BY StepRecords
    <2>2. PICK r \in Runs : RunStep(r)
      BY <1>1, <1>3 DEF WorkerNext, FinishJob, RequeueJob, Interrupt, StartJob, GiveUpJob, WriteOutput, ThreadStep, DeferEnds, OnStartup,
                  HeartbeatLoop, Shutdown, OnShutdown, WorkerCrash, storeVars
    <2>3. MarkJobRunning(r) \/ StoreTerminalState(r) \/ FinishJobClaim(r)
      BY <1>1, <2>2 DEF RunStep, LoadRecord, DeferBusyJob, StartOperation, ExecuteOperation, TerminalMetric,
                  CleanDirectory, UnlinkInputs, ReleaseActiveJob, FinalHeartbeat, storeVars
    <2>4. run[r].job \in Jobs
      BY <2>3 DEF TypeOK, WorkerTypeOK, MarkJobRunning, StoreTerminalState, FinishJobClaim
    <2>5. /\ run[r].pc = "store" => run[r].outcome \in {"succeeded", "failed"}
          /\ \/ record' = Claimed(run[r].job, run[r].worker, r)
             \/ run[r].pc = "store" /\ record' = Stored(run[r].job, run[r].outcome)
             \/ record' = Unclaimed(run[r].job)
      BY <1>1, <2>3 DEF MarkJobRunning, StoreTerminalState, FinishJobClaim, TypeOK, WorkerTypeOK
    <2> QED BY <1>1, <2>4, <2>5, CommandRecords, RecordFields
  <1>4. CASE CleanupNext
    <2>1. SweepDelete
      BY <1>1, <1>4 DEF CleanupNext, ReadExpired, ScanOrphan, SweepStep, CleanupCrash, CheckOwner, PostponeOwned,
             SweepRelease, SweepRemoveDirectory, SweepUnlist, storeVars
    <2>2. record' = Deleted(sweep.job) /\ sweep.pc = "delete"
      BY <1>1, <2>1 DEF SweepDelete
    <2>3. sweep.job = k
      BY <1>1, <2>2 DEF Deleted, StoreTypeOK
    <2> QED BY <2>2, <2>3 DEF DeletedIsEmpty
  <1>5. CASE EnvironmentNext
    <2>1. PICK j \in Jobs : RecordExpires(j)
      BY <1>1, <1>5 DEF EnvironmentNext, SlotLapses, LockExpires, BeatExpires, RedisRestart, Uninterrupted
    <2>2. j = k
      BY <1>1, <2>1 DEF RecordExpires, Deleted, StoreTypeOK
    <2> QED BY <2>1, <2>2 DEF RecordExpires, Executing, Uninterrupted
  <1> QED BY <1>1, <1>2, <1>3, <1>4, <1>5 DEF Next, vars, storeVars

\* A job leaves arq's queue when its run is over, or its tries are.
LEMMA LeavesQueue ==
    ASSUME Uninterrupted, [Next]_vars, NEW k \in Jobs, k \in queue, k \notin queue'
    PROVE  \/ tries[k] = MaxTries /\ run' = run
           \/ \E r \in RunsOn(k) : run[r].pc = "return"
  <1>1. WorkerNext
    BY DEF Next, vars, storeVars, ApiNext, CreateStep, CreateCrash, ReserveActiveJob, ConsumeRate, SaveUploads,
           CreateJobRecord, ExpireJobRecord, AcceptMetric, EnqueueJob, UndoMetric, UndoDirectory, UndoRecord,
           UndoSlot, DeleteStep, RequestCrash, CancelJobTransition, CancelMetric, CancelRemoveDirectory,
           CancelRelease, DeleteDirectory, DeleteRecord, DeleteExpiry, AuthorizedJob, CleanupNext, ReadExpired,
           ScanOrphan, SweepStep, CleanupCrash, CheckOwner, PostponeOwned, SweepRelease, SweepRemoveDirectory,
           SweepDelete, SweepUnlist, EnvironmentNext, RecordExpires, SlotLapses, LockExpires, BeatExpires,
           RedisRestart, Uninterrupted
  <1>2. (\E r \in Runs : FinishJob(r)) \/ (\E w \in Workers, j \in Jobs : GiveUpJob(w, j))
    BY <1>1 DEF WorkerNext, storeVars, RunStep, LoadRecord, MarkJobRunning, DeferBusyJob, StartOperation,
           ExecuteOperation, StoreTerminalState, TerminalMetric, FinishJobClaim, CleanDirectory, UnlinkInputs,
           ReleaseActiveJob, FinalHeartbeat, RequeueJob, Interrupt, StartJob,
           WriteOutput, ThreadStep, DeferEnds,
           OnStartup, HeartbeatLoop, Shutdown, OnShutdown, WorkerCrash
  <1>3. ASSUME NEW r \in Runs, FinishJob(r)
        PROVE  r \in RunsOn(k) /\ run[r].pc = "return"
    BY <1>3 DEF FinishJob, RunsOn
  <1>4. ASSUME NEW w \in Workers, NEW j \in Jobs, GiveUpJob(w, j)
        PROVE  tries[k] = MaxTries /\ run' = run
    BY <1>4 DEF GiveUpJob
  <1> QED BY <1>2, <1>3, <1>4

\* Each try of a job is a run that loads it from the queue.
LEMMA TriesCount ==
    ASSUME TypeOK, Uninterrupted, [Next]_vars, NEW k \in Jobs, tries'[k] # tries[k]
    PROVE  k \in queue /\ \E r \in Runs : run'[r].job = k /\ run'[r].pc = "load"
  <1>1. WorkerNext
    BY DEF Next, vars, storeVars, ApiNext, CreateStep, CreateCrash, ReserveActiveJob, ConsumeRate, SaveUploads,
           CreateJobRecord, ExpireJobRecord, AcceptMetric, EnqueueJob, UndoMetric, UndoDirectory, UndoRecord,
           UndoSlot, DeleteStep, RequestCrash, CancelJobTransition, CancelMetric, CancelRemoveDirectory,
           CancelRelease, DeleteDirectory, DeleteRecord, DeleteExpiry, AuthorizedJob, CleanupNext, ReadExpired,
           ScanOrphan, SweepStep, CleanupCrash, CheckOwner, PostponeOwned, SweepRelease, SweepRemoveDirectory,
           SweepDelete, SweepUnlist, EnvironmentNext, RecordExpires, SlotLapses, LockExpires, BeatExpires,
           RedisRestart, Uninterrupted
  <1>2. PICK w \in Workers, r \in Runs, j \in Jobs : StartJob(w, r, j)
    BY <1>1 DEF WorkerNext, storeVars, RunStep, LoadRecord, MarkJobRunning, DeferBusyJob, StartOperation,
           ExecuteOperation, StoreTerminalState, TerminalMetric, FinishJobClaim, CleanDirectory, UnlinkInputs,
           ReleaseActiveJob, FinalHeartbeat, RequeueJob, FinishJob, GiveUpJob, WriteOutput, ThreadStep, Interrupt, DeferEnds,
           OnStartup, HeartbeatLoop, Shutdown, OnShutdown, WorkerCrash
  <1>3. j = k
    BY <1>2 DEF StartJob, TypeOK, StoreTypeOK
  <1>4. run'[r].job = j /\ run'[r].pc = "load"
    BY <1>2, GoodRuns DEF StartJob, Idle, TypeOK
  <1> QED BY <1>2, <1>3, <1>4 DEF StartJob

\* Without faults a record that is written is announced, and a creation that is
\* queued is created.
LEMMA HsetAnswers ==
    ASSUME TypeOK, Uninterrupted, [Next]_vars, NEW j \in Jobs, create'[j] # create[j]
    PROVE  /\ create[j] = "hset" /\ record'[j] = NewRecord => create'[j] = "expire"
           /\ create[j] = "enqueue" => create'[j] = "created" /\ j \in queue'
  <1>1. create \in [Jobs -> CreateSteps] /\ StoreTypeOK
    BY DEF TypeOK, ApiTypeOK
  <1>2. RedisReplies = {"ok"}
    BY DEF RedisReplies, Uninterrupted
  <1>3. ApiNext
    BY DEF Next, apiVars, vars
  <1>4. PICK k \in Jobs : CreateStep(k)
    BY <1>3 DEF ApiNext, CreateCrash, DeleteStep, RequestCrash, CancelJobTransition, CancelMetric,
           CancelRemoveDirectory, CancelRelease, DeleteDirectory, DeleteRecord, DeleteExpiry, AuthorizedJob,
           Uninterrupted
  <1>5. k = j
    BY <1>1, <1>4 DEF CreateGoto, CreateStep, ReserveActiveJob, ConsumeRate, SaveUploads, CreateJobRecord,
       ExpireJobRecord, AcceptMetric, EnqueueJob, UndoMetric, UndoDirectory, UndoRecord, UndoSlot
  <1>6. CASE create[j] = "hset"
    <2>1. CreateJobRecord(j)
      BY <1>4, <1>5, <1>6 DEF CreateStep, ReserveActiveJob, ConsumeRate, SaveUploads,
         ExpireJobRecord, AcceptMetric, EnqueueJob, UndoMetric, UndoDirectory, UndoRecord, UndoSlot
    <2> QED BY <1>1, <1>2, <1>6, <2>1 DEF CreateJobRecord, CreateGoto
  <1>7. CASE create[j] = "enqueue"
    <2>1. EnqueueJob(j)
      BY <1>4, <1>5, <1>7 DEF CreateStep, ReserveActiveJob, ConsumeRate, SaveUploads, CreateJobRecord,
         ExpireJobRecord, AcceptMetric, UndoMetric, UndoDirectory, UndoRecord, UndoSlot
    <2> QED BY <1>1, <1>2, <1>7, <2>1 DEF EnqueueJob, CreateGoto
  <1> QED BY <1>6, <1>7

\* A run on a queued job loads it or claims it next.
LEMMA WaitingRuns ==
    ASSUME TypeOK, ClaimsHaveOwners, WaitingIsUntried, Uninterrupted, Attended, [Next]_vars,
           NEW j \in Jobs, record[j].status = "queued", record'[j].status = "queued", NEW r \in RunsOn(j)
    PROVE  run'[r].job = j /\ run'[r].pc \in {"load", "claim"}
  <1>1. r \in Runs /\ run[r].job = j /\ run[r].pc \in {"load", "claim"}
    BY DEF WaitingIsUntried, RunsOn
  <1>2. CASE run'[r] # run[r]
    <2>1. SureStep(r)
      BY <1>1, <1>2, SureSteps
    <2>2. CASE run[r].pc = "load"
      BY <1>1, <2>1, <2>2 DEF SureStep, WorthRunning, GoesTo
    <2>3. CASE run[r].pc = "claim"
      <3>1. record' = Claimed(j, run[r].worker, r)
        BY <1>1, <2>1, <2>3 DEF SureStep, ClaimResult
      <3> QED BY <3>1, CommandRecords, RecordFields DEF TypeOK
    <2> QED BY <1>1, <2>2, <2>3
  <1> QED BY <1>1, <1>2

LEMMA WaitingStep ==
    ASSUME TypeOK, ClaimsHaveOwners, Untouched, Untouched', WaitingIsUntried, Uninterrupted, Attended, [Next]_vars
    PROVE  WaitingIsUntried'
  <1> DEFINE Early == {"new", "rate", "upload", "hset", "expire", "accept", "enqueue"}
  <1>1. StoreTypeOK /\ WorkerTypeOK
    BY DEF TypeOK
  <1>2. ASSUME NEW j \in Jobs, create'[j] \in Early
        PROVE  create[j] \in Early /\ tries'[j] = 0
    <2>1. create[j] \in Early
      BY <1>2, StepCreates DEF CreateMoves, CreateArrows, UndoSteps
    <2>2. tries[j] = 0 /\ j \notin queue
      BY <2>1 DEF WaitingIsUntried, Untouched
    <2> QED BY <2>1, <2>2, TriesCount
  <1>3. ASSUME NEW j \in Jobs, record'[j].status = "queued"
        PROVE  /\ \A r \in RunsOn(j)' : run'[r].pc \in {"load", "claim"}
               /\ tries'[j] = 0 \/ RunsOn(j)' # {}
    <2>1. CASE create'[j] \in Early
      <3>1. RunsOn(j)' = {}
        BY <2>1 DEF Untouched
      <3> QED BY <1>2, <2>1, <3>1
    <2>2. CASE create'[j] \notin Early
      <3>1. record[j].status = "queued"
        <4>1. ~(create[j] = "hset" /\ create'[j] # "hset" /\ record'[j] = NewRecord)
          <5>1. SUFFICES ASSUME create[j] = "hset", create'[j] # "hset", record'[j] = NewRecord PROVE FALSE
            OBVIOUS
          <5>2. create'[j] \in {"undo_dir", "crashed"}
            BY <2>2, <5>1, StepCreates DEF CreateMoves, CreateArrows, UndoSteps
          <5> QED BY <5>1, <5>2, HsetAnswers
        <4>2. record'[j] # Absent
          BY <1>3, RecordFields, <1>1
        <4>3. RecordMoves(j)
          BY StepRecords
        <4>4. ASSUME NEW r \in Runs, RunWrites(r, j) PROVE record[j].status = "queued"
          <5>1. run[r].pc = "store" => run[r].outcome \in {"succeeded", "failed"}
            BY <1>1 DEF WorkerTypeOK
          <5> QED BY <1>1, <1>3, <4>4, <5>1, RecordFields DEF RunWrites
        <4> QED BY <1>1, <1>3, <4>1, <4>2, <4>3, <4>4, RecordFields DEF RecordMoves
      <3>2. ASSUME NEW r \in RunsOn(j)'
            PROVE  run'[r].pc \in {"load", "claim"}
        <4>1. r \in Runs /\ run'[r].job = j /\ j # NoJob
          BY ConstantsAssumption DEF RunsOn
        <4>2. CASE r \in RunsOn(j)
          BY <1>3, <3>1, <4>2, WaitingRuns
        <4>3. CASE r \notin RunsOn(j)
          <5>1. RunMoves(r) /\ run[r].job # j
            BY <4>1, <4>3, StepRuns DEF RunsOn
          <5>2. RunStarts(r)
            BY <4>1, <5>1 DEF RunMoves, RunGoes, Idle
          <5> QED BY <5>2 DEF RunStarts
        <4> QED BY <4>2, <4>3
      <3>3. tries'[j] = 0 \/ RunsOn(j)' # {}
        <4>1. CASE tries'[j] # tries[j]
          BY <4>1, TriesCount DEF RunsOn
        <4>2. CASE tries'[j] = tries[j] /\ tries[j] # 0
          <5>1. PICK r \in RunsOn(j) : TRUE
            BY <3>1, <4>2 DEF WaitingIsUntried
          <5>2. run'[r].job = j /\ r \in Runs
            BY <1>3, <3>1, WaitingRuns DEF RunsOn
          <5> QED BY <5>2 DEF RunsOn
        <4> QED BY <4>1, <4>2
      <3> QED BY <3>2, <3>3
    <2> QED BY <2>1, <2>2
  <1> QED BY <1>2, <1>3 DEF WaitingIsUntried

\* Who is about to delete a record has emptied its directory, and no upload comes
\* back.
LEMMA DeletedStep ==
    ASSUME TypeOK, LifeInv, DeletedIsEmpty, Uninterrupted, [Next]_vars
    PROVE  DeletedIsEmpty'
  <1>1. disk \in [Jobs -> DiskContents]
    BY DEF TypeOK, StoreTypeOK
  <1>2. ASSUME NEW j \in Jobs, PastRecord(j), "files" \notin disk[j]
        PROVE  "files" \notin disk'[j]
    BY <1>1, <1>2, StepDisk DEF DiskMoves, PastRecord, DiskContents
  <1>3. ASSUME NEW q \in Requests, request'[q].pc = "delete"
        PROVE  "files" \notin disk'[request'[q].job]
    <2>1. request[q].pc \in {"delete", "rmtree_done"} /\ request'[q].job = request[q].job
          /\ (request[q].pc = "delete" => request'[q] = request[q])
      BY <1>3, StepRequests DEF RequestMoves, RequestStarts, RequestTransits, RequestGoes, RequestArrows, NoRequest,
         NextAfterTransition
    <2>2. request[q].job \in Jobs /\ PastRecord(request[q].job)
      BY <2>1 DEF TypeOK, ApiTypeOK, LifeInv, RequestsRemoveOver
    <2>3. CASE request[q].pc = "delete"
      BY <1>2, <2>1, <2>2, <2>3 DEF DeletedIsEmpty
    <2>4. CASE request[q].pc = "rmtree_done"
      <3>1. disk' = DirectoryRemoved(request[q].job)
        BY <1>3, <2>4, SureRequests
      <3> QED BY <1>1, <2>1, <2>2, <3>1 DEF DirectoryRemoved
    <2> QED BY <2>1, <2>3, <2>4
  <1>4. ASSUME sweep'.pc = "delete"
        PROVE  "files" \notin disk'[sweep'.job]
    <2>1. CASE sweep' = sweep
      <3>1. sweep.job \in Jobs /\ PastRecord(sweep.job)
        BY <1>4, <2>1 DEF TypeOK, CleanupTypeOK, LifeInv, SweepRemovesOver, Over
      <3> QED BY <1>2, <1>4, <2>1, <3>1 DEF DeletedIsEmpty
    <2>2. CASE sweep' # sweep
      <3>1. sweep \in [pc: SweepSteps, job: Jobs \cup {NoJob}, owner: Workers \cup {NoWorker}]
            /\ (sweep.pc # "idle" => sweep.job \in Jobs)
        BY DEF TypeOK, CleanupTypeOK
      <3>2. CleanupNext
        BY <2>2 DEF Next, vars, cleanupVars
      <3>3. SweepRemoveDirectory
        BY <1>4, <2>2, <3>1, <3>2 DEF CleanupNext, ReadExpired, ScanOrphan, SweepStep, CleanupCrash, CheckOwner,
           PostponeOwned, SweepRelease, SweepDelete, SweepUnlist, SweepAfter, NoSweep, NextAfterRead
      <3>4. disk' = DirectoryRemoved(sweep.job) /\ sweep'.job = sweep.job /\ sweep.job \in Jobs
        BY <3>1, <3>3 DEF SweepRemoveDirectory, SweepGoto
      <3> QED BY <1>1, <3>4 DEF DirectoryRemoved
    <2> QED BY <2>1, <2>2
  <1> QED BY <1>3, <1>4 DEF DeletedIsEmpty

\* The run that removes a job's uploads goes on until they are gone, unless another
\* takes the job over.
LEMMA KeptByRun ==
    ASSUME TypeOK, LifeInv, ClaimsHaveOwners, DeletedIsEmpty, Uninterrupted, Attended, [Next]_vars,
           NEW j \in Jobs, Standing(j), {"dir", "files"} \subseteq disk[j], "files" \in disk'[j],
           NEW r \in RunsOn(j), Keeps(r)
    PROVE  \E p \in Runs : run'[p].job = j /\ Keeps(p)'
  <1>1. StoreTypeOK /\ WorkerTypeOK /\ disk \in [Jobs -> DiskContents] /\ r \in Runs /\ run[r].job = j /\ j # NoJob
    BY ConstantsAssumption DEF TypeOK, StoreTypeOK, RunsOn
  <1>2. run[r].pc \in {"start", "execute", "store", "metric", "finish", "clean", "unlink"}
    BY DEF Keeps, Working
  <1>3. \A p \in Runs : run[p].pc # "idle" => Replies(p) = {"ok"}
    BY AllAnswer
  <1>4. CASE run'[r] = run[r]
    <2>1. CASE ~(Holds(r) /\ record[j].status \in {"running", "cancelled"} /\ run[r].pc \in {"start", "execute", "store", "finish"})
      BY <1>1, <1>4, <2>1 DEF Keeps, Working
    <2>2. CASE /\ record[j].token = r /\ record[j].status \in {"running", "cancelled"}
               /\ run[r].pc \in {"start", "execute", "store", "finish"}
      <3>1. CASE record'[j].token = r /\ record'[j].status \in {record[j].status, "cancelled"}
        BY <1>1, <1>4, <2>2, <3>1 DEF Keeps, Working, Holds
      <3>2. record'[j] # Absent
        <4>1. create[j] # "undo_record" /\ record[j].status # "absent" /\ RunsOn(j) # {}
          BY <2>2 DEF Standing
        <4> QED BY <1>1, <4>1, RecordsGo, RecordFields
      <3>3. create[j] # "hset"
        BY DEF Standing
      <3>4. ASSUME NEW p \in Runs, RunWrites(p, j)
            PROVE  run'[p].job = j /\ Keeps(p)'
        <4>1. run[p].pc \in {"claim", "store", "finish"} /\ run[p].job = j /\ Replies(p) = {"ok"}
          BY <1>3, <3>4 DEF RunWrites
        <4>2. CASE run[p].pc = "claim"
          <5>1. record'[j] = ClaimedOne(run[p].worker, p) /\ run'[p].pc = "start" /\ run'[p].job = j
            BY <3>4, <4>1, <4>2 DEF RunWrites, RunLearns
          <5>2. record'[j].token = p /\ record'[j].status = "running"
            BY <1>1, <5>1, RecordFields
          <5> QED BY <1>1, <5>1, <5>2 DEF Keeps, Working, Holds
        <4>3. CASE run[p].pc \in {"store", "finish"}
          <5>1. p = r
            BY <1>1, <2>2, <3>4, <4>1, <4>3 DEF RunWrites, MayStore, Holds
          <5> QED BY <1>4, <3>4, <4>1, <4>3, <5>1 DEF RunWrites, RunLearns
        <4> QED BY <4>1, <4>2, <4>3
      <3>5. CASE record'[j] = record[j]
        BY <2>2, <3>1, <3>5
      <3>6. CASE record'[j] = ExpiringRecord(j) \/ record'[j] = CancelledOne(j)
        BY <1>1, <2>2, <3>1, <3>6, RecordFields
      <3> QED BY <3>2, <3>3, <3>4, <3>5, <3>6, StepRecords DEF RecordMoves
    <2> QED BY <1>1, <2>1, <2>2 DEF Holds
  <1>5. CASE run'[r] # run[r]
    <2>1. SureStep(r)
      BY <1>2, <1>5, <1>1, SureSteps
    <2>2. CASE run[r].pc \in {"start", "execute"}
      <3>1. run'[r].pc \in {"execute", "store"} /\ run'[r].job = j /\ record' = record
        BY <1>1, <2>1, <2>2 DEF SureStep, GoesTo
      <3>2. Holds(r) /\ record[j].status \in {"running", "cancelled"}
        BY <1>1, <2>2 DEF Keeps, Working
      <3> QED BY <1>1, <3>1, <3>2 DEF Keeps, Working, Holds
    <2>3. CASE run[r].pc = "store"
      <3>1. Holds(r) /\ record[j].status \in {"running", "cancelled"}
        BY <1>1, <2>3 DEF Keeps, Working
      <3>2. CASE MayStore(j, r)
        <4>1. run'[r].pc = "metric" /\ run'[r].job = j /\ run'[r].stored
          BY <1>1, <2>1, <2>3, <3>2 DEF SureStep
        <4> QED BY <1>1, <4>1 DEF Keeps
      <3>3. CASE ~MayStore(j, r)
        <4>1. run'[r].pc = "finish" /\ run'[r].job = j /\ record' = record
          BY <1>1, <2>1, <2>3, <3>3 DEF SureStep, GoesTo
        <4>2. record[j].status = "cancelled" /\ record[j].token = r
          BY <1>1, <3>1, <3>3 DEF MayStore, Holds
        <4> QED BY <1>1, <4>1, <4>2 DEF Keeps, Holds
      <3> QED BY <3>2, <3>3
    <2>4. CASE run[r].pc = "metric"
      <3>1. run'[r].pc = "finish" /\ run'[r].job = j /\ run'[r].stored
        BY <1>1, <2>1, <2>4 DEF SureStep, GoesTo, Keeps, Working
      <3> QED BY <1>1, <3>1 DEF Keeps
    <2>5. CASE run[r].pc = "finish"
      <3>1. CleansUp(run[r].stored, Seen(r))
        BY <1>1, <2>5 DEF Keeps, Working, CleansUp, Seen
      <3>2. run'[r].pc = "clean" /\ run'[r].job = j
        BY <1>1, <2>1, <2>5, <3>1 DEF SureStep, GoesTo
      <3> QED BY <1>1, <3>2 DEF Keeps
    <2>6. CASE run[r].pc = "clean"
      <3>1. run'[r].pc = "unlink" /\ run'[r].job = j
        BY <1>1, <2>1, <2>6 DEF SureStep, GoesTo, DirectoryRemoved
      <3> QED BY <1>1, <3>1 DEF Keeps
    <2>7. CASE run[r].pc = "unlink"
      BY <1>1, <2>1, <2>7 DEF SureStep
    <2> QED BY <1>2, <2>2, <2>3, <2>4, <2>5, <2>6, <2>7
  <1> QED BY <1>4, <1>5

\* A job that waits keeps waiting, is claimed, or is cancelled by a DELETE.
LEMMA KeptByQueue ==
    ASSUME TypeOK, LifeInv, ClaimsHaveOwners, WaitingIsUntried, DeletedIsEmpty, Uninterrupted, Attended, [Next]_vars,
           NEW j \in Jobs, Standing(j), "files" \in disk[j], record[j].status = "queued",
           create[j] = "created" => j \in queue \/ \E r \in RunsOn(j) : run[r].pc \in {"load", "claim"}
    PROVE  HasKeeper(j)'
  <1>1. StoreTypeOK /\ WorkerTypeOK /\ j # NoJob
    BY ConstantsAssumption DEF TypeOK
  <1>2. \A p \in Runs : run[p].pc # "idle" => Replies(p) = {"ok"}
    BY AllAnswer
  <1>3. CASE record'[j].status = "queued"
    <2>1. SUFFICES ASSUME create'[j] = "created"
                   PROVE  j \in queue' \/ \E r \in RunsOn(j)' : run'[r].pc \in {"load", "claim"}
      BY <1>3 DEF HasKeeper
    <2>2. ASSUME NEW r \in RunsOn(j)
          PROVE  r \in RunsOn(j)' /\ run'[r].pc \in {"load", "claim"}
      BY <1>3, WaitingRuns DEF RunsOn
    <2>3. CASE create[j] # "created"
      <3>1. create[j] = "enqueue"
        BY <2>1, <2>3, StepCreates DEF CreateMoves, CreateArrows, UndoSteps
      <3> QED BY <2>1, <3>1, HsetAnswers
    <2>4. CASE RunsOn(j) # {}
      BY <2>2, <2>4
    <2>5. CASE create[j] = "created" /\ RunsOn(j) = {} /\ j \notin queue'
      <3>1. tries[j] = MaxTries
        BY <2>5, LeavesQueue
      <3>2. tries[j] = 0
        BY <2>5 DEF WaitingIsUntried
      <3> QED BY <3>1, <3>2, ConstantsAssumption
    <2> QED BY <2>3, <2>4, <2>5
  <1>4. CASE record'[j].status # "queued"
    <2>1. record'[j] # Absent
      <3>1. create[j] # "undo_record" /\ (create[j] \in CreateOver => create[j] = "created")
        BY DEF Standing, CreateOver
      <3>2. ~(RunsOn(j) = {} /\ j \notin queue /\ create[j] \in CreateOver)
        BY <3>1
      <3> QED BY <1>1, <3>1, <3>2, RecordsGo, RecordFields
    <2>2. create[j] # "hset" /\ record'[j] # record[j] /\ record'[j] # ExpiringRecord(j)
      BY <1>1, <1>4, RecordFields DEF Standing
    <2>3. ASSUME NEW q \in Requests, request[q].pc = "transition", request[q].job = j, RequestLearns(q)
          PROVE  HasKeeper(j)'
      <3>1. request'[q].pc = "metric" /\ request'[q].job = j
        BY <2>3, AllAnswer DEF RequestLearns
      <3>2. request'[q].prev = "queued"
        BY <2>3, <3>1, StepRequests DEF RequestMoves, RequestStarts, RequestTransits, RequestGoes, RequestArrows, NoRequest
      <3> QED BY <3>1, <3>2 DEF HasKeeper, Removes
    <2>4. ASSUME NEW p \in Runs, RunWrites(p, j)
          PROVE  HasKeeper(j)'
      <3>1. record[j].token = NoRun /\ p # NoRun
        BY ConstantsAssumption DEF ClaimsHaveOwners
      <3>2. run[p].pc = "claim" /\ run[p].job = j
        BY <2>4, <3>1 DEF RunWrites, MayStore, Holds
      <3>3. record'[j] = ClaimedOne(run[p].worker, p) /\ run'[p].pc = "start" /\ run'[p].job = j
        BY <1>2, <2>4, <3>2 DEF RunWrites, RunLearns
      <3>4. record'[j].token = p /\ record'[j].status = "running"
        BY <1>1, <3>3, RecordFields
      <3> QED BY <1>1, <3>3, <3>4 DEF HasKeeper, RunsOn, Keeps, Working, Holds
    <2> QED BY <2>1, <2>2, <2>3, <2>4, StepRecords DEF RecordMoves
  <1> QED BY <1>3, <1>4

LEMMA KeepersStep ==
    ASSUME TypeOK, LifeInv, LifeInv', ClaimsHaveOwners, UploadsHaveKeepers, WaitingIsUntried, DeletedIsEmpty,
           Uninterrupted, Attended, [Next]_vars
    PROVE  UploadsHaveKeepers'
  <1> SUFFICES ASSUME NEW j \in Jobs, Standing(j)', "files" \in disk'[j]
               PROVE  "dir" \in disk'[j] /\ HasKeeper(j)'
    BY DEF UploadsHaveKeepers
  <1>1. disk \in [Jobs -> DiskContents] /\ StoreTypeOK
    BY DEF TypeOK, StoreTypeOK
  <1>2. CASE ~Standing(j)
    <2>1. create'[j] = "expire" /\ record' = Queued(j)
      BY <1>2, StepCreates DEF Standing, CreateMoves, CreateArrows, UndoSteps
    <2>2. record'[j].status = "queued"
      BY <1>1, <2>1, CommandRecords, RecordFields
    <2>3. "dir" \in disk'[j]
      BY <2>2 DEF LifeInv, UploadsInPlace, Live
    <2> QED BY <2>1, <2>2, <2>3 DEF HasKeeper
  <1>3. CASE Standing(j)
    <2>1. DiskMoves(j) /\ create[j] \notin {"rate", "upload", "undo_dir"}
      BY <1>3, StepDisk DEF Standing
    <2>2. "files" \in disk[j]
      BY <2>1 DEF DiskMoves
    <2>3. "dir" \in disk[j] /\ HasKeeper(j)
      BY <1>3, <2>2 DEF UploadsHaveKeepers
    <2>4. "dir" \in disk'[j]
      BY <2>1, <2>3 DEF DiskMoves
    <2>5. CASE /\ record[j].status = "queued"
               /\ create[j] = "created" => j \in queue \/ \E r \in RunsOn(j) : run[r].pc \in {"load", "claim"}
      BY <1>3, <2>2, <2>4, <2>5, KeptByQueue
    <2>6. ASSUME NEW r \in RunsOn(j), Keeps(r)
          PROVE  HasKeeper(j)'
      <3>1. PICK p \in Runs : run'[p].job = j /\ Keeps(p)'
        BY <1>3, <2>2, <2>3, <2>6, KeptByRun
      <3> QED BY <3>1 DEF HasKeeper, RunsOn
    <2>7. ASSUME NEW q \in Requests, request[q].job = j, Removes(q)
          PROVE  HasKeeper(j)'
      <3>1. CASE request'[q] = request[q]
        BY <2>7, <3>1 DEF HasKeeper, Removes
      <3>2. CASE request'[q] # request[q] /\ request[q].pc = "metric"
        <4>1. request'[q].pc = "rmtree" /\ request'[q].job = j
          BY <2>7, <3>2, SureRequests DEF Removes
        <4> QED BY <4>1 DEF HasKeeper, Removes
      <3>3. CASE request'[q] # request[q] /\ request[q].pc = "rmtree"
        BY <1>1, <2>7, <3>3, SureRequests DEF DirectoryRemoved
      <3> QED BY <2>7, <3>1, <3>2, <3>3 DEF Removes
    <2> QED BY <2>3, <2>4, <2>5, <2>6, <2>7 DEF HasKeeper
  <1> QED BY <1>2, <1>3

-----------------------------------------------------------------------------
(* The invariant, and what follows from it.                                    *)

LEMMA InitJobInv == Init => JobInv
  <1> SUFFICES ASSUME Init PROVE JobInv
    OBVIOUS
  <1>1. LifeInv /\ ClaimInv
    BY InitLife, InitClaims
  <1>6. OutputsAreOwn
    BY DEF Init, StoreInit, WorkerInit, Idle, Absent, OutputsAreOwn, Writing, Threads, RunsOn
  <1>2. ResultsAreThere /\ HeartbeatsHold /\ SweepAsksOwner
    BY DEF Init, StoreInit, ApiInit, WorkerInit, CleanupInit, Idle, NoSweep, Absent, ResultsAreThere, HeartbeatsHold,
           SweepAsksOwner
  <1>3. SlotsAreKept
    <2>1. Cardinality(slots) <= MaxActive
      BY FS_EmptySet, ConstantsAssumption DEF Init, StoreInit
    <2>2. \A j \in Jobs : ~Occupied(j)
      <3>1. \A j \in Jobs : record[j].status \notin Live
        BY DEF Init, StoreInit, Absent, Live
      <3>2. \A r \in Runs : run[r].pc = "idle"
        BY DEF Init, WorkerInit, Idle
      <3> QED BY <3>1, <3>2 DEF Occupied, RunsOn, Working
    <2> QED BY <2>1, <2>2 DEF SlotsAreKept, Init, StoreInit, ApiInit, NoRequest, Absent
  <1>4. Untouched /\ RowsKeepUp
    BY ConstantsAssumption DEF Init, StoreInit, ApiInit, WorkerInit, Idle, NoRequest, Absent, Untouched, RowsKeepUp,
       RunsOn
  <1>5. Attended /\ UploadsHaveKeepers /\ WaitingIsUntried /\ DeletedIsEmpty
    BY DEF Init, StoreInit, ApiInit, WorkerInit, CleanupInit, Absent, NoRequest, NoSweep, Attended, UploadsHaveKeepers,
       Standing, WaitingIsUntried, DeletedIsEmpty
  <1> QED BY <1>1, <1>2, <1>3, <1>4, <1>5, <1>6 DEF JobInv

LEMMA StepJobInv == TypeOK /\ JobInv /\ [Next]_vars => JobInv'
  <1> SUFFICES ASSUME TypeOK, JobInv, [Next]_vars PROVE JobInv'
    OBVIOUS
  <1>1. LifeInv /\ ClaimInv /\ OutputsAreOwn /\ ResultsAreThere /\ Untouched
    BY DEF JobInv
  <1>2. LifeInv' /\ ClaimInv' /\ OutputsAreOwn' /\ ResultsAreThere' /\ Untouched'
    BY <1>1, StepLife, StepClaims, OutputsStep, ResultsStep, UntouchedStep
  <1>3. Steady => (HeartbeatsHold /\ SweepAsksOwner)'
    BY <1>1, BeatsStep, SweepAsks DEF JobInv
  <1>4. Punctual => SlotsAreKept'
    BY <1>1, SlotsStep DEF JobInv, Punctual
  <1>5. Recorded /\ Attended' => RowsKeepUp'
    BY <1>1, RowsKeepStep DEF JobInv
  <1>6. ASSUME Uninterrupted
        PROVE  (Attended /\ UploadsHaveKeepers /\ WaitingIsUntried /\ DeletedIsEmpty)'
    <2>1. Attended /\ UploadsHaveKeepers /\ WaitingIsUntried /\ DeletedIsEmpty /\ ClaimsHaveOwners
      BY <1>1, <1>6 DEF JobInv, ClaimInv
    <2> QED BY <1>1, <1>2, <1>6, <2>1, NoneStops, KeepersStep, WaitingStep, DeletedStep
  <1> QED BY <1>2, <1>3, <1>4, <1>5, <1>6 DEF JobInv, Steady, Punctual, Recorded, Uninterrupted

\* The strengthening is an invariant: claims name their run and its process, and
\* are given back before anything is removed; what the metrics rows say follows
\* the records; and, as far as the faults allow, a process that is up has its
\* heartbeat, the sweep asks for it, and a slot is freed only when nobody works.
THEOREM JobInvHolds == SafetySpec => [](TypeOK /\ JobInv)
  <1> QED BY InitTypes, StepTypes, InitJobInv, StepJobInv, PTL DEF SafetySpec

\* When the row and the record of a created job are both terminal they tell the
\* same end, whoever crashed, raised or was cancelled between the two writes.
THEOREM RowsAgree == SafetySpec => []MetricsAgree
  <1>1. JobInv => MetricsAgree
    BY DEF JobInv, ClaimInv, RowsFollowRecords, MetricsAgree, UndoSteps
  <1> QED BY <1>1, JobInvHolds, PTL

\* If rows are lost only with the worker that was to write them, every job that arq
\* is done with has its end in the metrics, or a worker stopped before it could
\* write it; and no record of a created job is kept for ever.
THEOREM JobsHaveRows ==
    ASSUME Recorded
    PROVE  SafetySpec => []JobsAreRecorded
  <1>1. TypeOK /\ JobInv => JobsAreRecorded
    <2> SUFFICES ASSUME TypeOK, JobInv PROVE JobsAreRecorded
      OBVIOUS
    <2>1. RecordsExpire
      BY DEF JobInv, ClaimInv, TtlsAreSet, RecordsExpire
    <2>2. ASSUME NEW j \in Jobs, Quiet(j), record[j].status # "absent", metric[j] # record[j].status
          PROVE  metric[j] \notin Terminal /\ \E w \in Workers : worker[w] \notin {"off", "up"}
      <3>1. metric[j] \notin Terminal
        BY <2>2 DEF JobInv, ClaimInv, RowsFollowRecords, Quiet, UndoSteps
      <3>2. ~(Recorded /\ Attended /\ RowsKeepUp)
        BY <2>2 DEF Quiet, RowsKeepUp
      <3> QED BY <3>1, <3>2 DEF JobInv, Attended
    <2> QED BY <2>1, <2>2 DEF JobsAreRecorded, MetricsSettled
  <1> QED BY <1>1, JobInvHolds, PTL

\* A run whose claim was taken over changes no record, frees no slot and removes
\* neither the directory nor the uploads the new owner reads, however it wakes up,
\* fails or is cancelled.  Nothing fences output/, where it goes on writing.
THEOREM StaleRunsDoNoHarm == SafetySpec => StaleRunIsFenced
  <1>1. TypeOK /\ JobInv /\ [Next]_vars => [SupersededStep]_vars
    <2> SUFFICES ASSUME TypeOK, JobInv, [Next]_vars, NEW r \in Runs, Superseded(r),
                        run[r].pc \notin {"load", "claim"}, run'[r] # run[r]
                 PROVE  /\ record' = record /\ slots' = slots
                        /\ disk[run[r].job] \subseteq disk'[run[r].job] \cup {"result"}
      BY DEF SupersededStep
    <2>1. WorkerTypeOK /\ StoreTypeOK /\ run \in [Runs -> RunRecords]
      BY GoodRuns DEF TypeOK
    <2>2. WorkerNext
      BY DEF Next, workerVars, vars
    <2>3. run[r].job \in Jobs /\ record[run[r].job].token \notin {r, NoRun} /\ run[r] # Idle
      BY <2>1, ConstantsAssumption DEF Superseded, WorkerTypeOK, RunRecords, Idle
    <2>4. CASE RunStep(r)
      <3>1. run[r].pc \notin {"clean", "unlink", "release"} /\ ~Holds(r) /\ ~MayStore(run[r].job, r)
        BY <2>3 DEF JobInv, ClaimInv, ClaimsAreFenced, Holds, MayStore
      <3>2. record' = record /\ slots' = slots
        BY <2>4, <3>1 DEF RunStep, LoadRecord, MarkJobRunning, DeferBusyJob, StartOperation, ExecuteOperation,
             StoreTerminalState, TerminalMetric, FinishJobClaim, CleanDirectory, UnlinkInputs, ReleaseActiveJob,
             FinalHeartbeat, storeVars
      <3>3. disk' = disk \/ ExecuteOperation(r)
        BY <2>4, <3>1 DEF RunStep, LoadRecord, MarkJobRunning, DeferBusyJob, StartOperation,
             StoreTerminalState, TerminalMetric, FinishJobClaim, CleanDirectory, UnlinkInputs, ReleaseActiveJob,
             FinalHeartbeat, storeVars
      <3>4. disk' \in OutputWritten(run[r].job)
        BY <3>3, OperationOutputs DEF OutputWritten
      <3> QED BY <2>1, <2>3, <3>2, <3>4 DEF StoreTypeOK, OutputWritten, ResultMade, ResultLost
    <2>5. CASE ~RunStep(r)
      <3>1. ~\E p \in Runs \ {r} : RunStep(p)
        BY <2>1, ZenonT(30) DEF RunStep, LoadRecord, MarkJobRunning, DeferBusyJob, StartOperation, ExecuteOperation,
             StoreTerminalState, TerminalMetric, FinishJobClaim, CleanDirectory, UnlinkInputs, ReleaseActiveJob,
             FinalHeartbeat, Goto
      <3>2. record' = record /\ slots' = slots /\ disk' = disk
        BY <2>2, <2>5, <3>1 DEF WorkerNext, FinishJob, RequeueJob, Interrupt, StartJob, GiveUpJob, WriteOutput,
             ThreadStep, DeferEnds, OnStartup, HeartbeatLoop, Shutdown, OnShutdown, WorkerCrash, storeVars
      <3> QED BY <3>2
    <2> QED BY <2>4, <2>5
  <1> QED BY <1>1, JobInvHolds, PTL DEF SafetySpec, StaleRunIsFenced

\* As long as no process that is up loses its heartbeat and Redis keeps its data,
\* the sweep never releases, removes or deletes anything of a job that a run with
\* the claim is at work on, though it decides several steps before.
THEOREM LiveRunsAreSpared ==
    ASSUME Steady
    PROVE  SafetySpec => SweepSparesLiveRun
  <1>1. TypeOK /\ JobInv /\ [Next]_vars => [\A r \in Runs : Working(r) => ~SweepRemoves(run[r].job)]_vars
    BY DEF JobInv, SweepAsksOwner, SweepRemoves
  <1> QED BY <1>1, JobInvHolds, PTL DEF SafetySpec, SweepSparesLiveRun

\* If besides no lease of a slot ends before its job, no address has more than
\* MaxActive jobs queued or running, whatever crashes, fails or is retried.
THEOREM LimitHolds ==
    ASSUME Punctual
    PROVE  SafetySpec => []ConcurrencyLimit
  <1>1. TypeOK /\ JobInv => ConcurrencyLimit
    <2> SUFFICES ASSUME TypeOK, JobInv PROVE ConcurrencyLimit
      OBVIOUS
    <2> DEFINE Busy == {j \in Jobs : Standing(j) /\ Occupied(j)}
    <2>1. SlotsAreKept /\ slots \subseteq Jobs
      BY DEF JobInv, Punctual, TypeOK, StoreTypeOK
    <2>2. Busy \subseteq slots /\ IsFiniteSet(slots)
      BY <2>1, FS_Subset, ConstantsAssumption DEF SlotsAreKept
    <2>3. Cardinality(Busy) <= Cardinality(slots) /\ Cardinality(Busy) \in Nat /\ Cardinality(slots) \in Nat
      BY <2>2, FS_Subset, FS_CardinalityType
    <2> QED BY <2>1, <2>3, ConstantsAssumption DEF SlotsAreKept, ConcurrencyLimit
  <1> QED BY <1>1, JobInvHolds, PTL

\* Unless something stops or fails half-way, once arq is done with a job, however the
\* job ended and whoever cancelled it, none of its uploads is left.
THEOREM UploadsAreRemoved ==
    ASSUME Uninterrupted
    PROVE  SafetySpec => []ProcessedInputsDeleted
  <1>1. TypeOK /\ JobInv => ProcessedInputsDeleted
    <2> SUFFICES ASSUME JobInv, NEW j \in Jobs, Quiet(j), "files" \in disk[j] PROVE FALSE
      BY DEF ProcessedInputsDeleted
    <2>1. HasKeeper(j)
      BY DEF JobInv, UploadsHaveKeepers, Quiet, Standing
    <2> QED BY <2>1 DEF HasKeeper, Quiet
  <1> QED BY <1>1, JobInvHolds, PTL
-----------------------------------------------------------------------------
(* JobSystem implements JobPromise: what a client is shown of its jobs, step   *)
(* by step.                                                                    *)

Ready(j) == View(j) = "succeeded" /\ "result" \in disk[j]

(* What a step does to the view of one job.                                    *)

ViewMoves(j) ==
    \/ View(j)' = View(j) /\ (Ready(j)' => Ready(j) \/ j \in shared)
    \/ View(j) = "none" /\ View(j)' = "queued" /\ create[j] = "hset"
    \/ View(j) = "none" /\ View(j)' = "gone"
    \/ View(j) = "queued" /\ View(j)' = "running"
    \/ View(j) = "running" /\ View(j)' = "succeeded" /\ (Ready(j)' \/ j \in shared)
    \/ View(j) = "running" /\ View(j)' = "failed"
    \/ View(j) \in Live /\ View(j)' = "cancelled"
    \/ View(j) \notin {"none", "gone"} /\ View(j)' = "gone"

LEMMA StepViews ==
    ASSUME TypeOK, JobInv, [Next]_vars, NEW j \in Jobs
    PROVE  ViewMoves(j)
  <1> DEFINE Early == {"new", "rate", "upload", "hset"}
  <1>1. LifeInv /\ ClaimInv /\ OutputsAreOwn /\ ResultsAreThere /\ StoreTypeOK /\ ApiTypeOK /\ WorkerTypeOK
    BY DEF JobInv, TypeOK
  <1>2. CreateMoves(j) /\ Moves(j) /\ RecordMoves(j) /\ DiskMoves(j)
    BY <1>1, StepCreates, StepMoves, StepRecords, StepDisk
  <1>3. create'[j] \in Early => create[j] \in Early
    BY <1>2 DEF CreateMoves, CreateArrows, UndoSteps
  <1>4. record[j].status \in Status \cup {"absent"}
    BY <1>1 DEF StoreTypeOK, Records
  <1>5. record[j].status # "absent" => PastRecord(j)
    BY <1>1 DEF LifeInv, NothingBeforeRecord
  <1>6. CASE create'[j] \in UndoSteps \cup {"failed"}
    <2>1. View(j)' = "gone"
      BY <1>6 DEF View
    <2> QED BY <2>1 DEF ViewMoves, Ready
  <1>7. CASE create'[j] \notin UndoSteps \cup {"failed"}
    <2>1. create[j] \notin UndoSteps \cup {"failed"}
      BY <1>2, <1>7 DEF CreateMoves, CreateArrows, UndoSteps
    <2>2. CASE record[j].status = "absent" /\ record'[j].status = "absent"
      <3>1. /\ View(j) = IF create[j] \in Early THEN "none" ELSE "gone"
            /\ View(j)' = IF create'[j] \in Early THEN "none" ELSE "gone"
        BY <1>7, <2>1, <2>2 DEF View
      <3> QED BY <1>3, <3>1 DEF ViewMoves, Ready
    <2>3. CASE record[j].status = "absent" /\ record'[j].status # "absent"
      <3>1. create[j] = "hset" /\ record'[j].status = "queued"
        BY <1>2, <2>3 DEF Moves, Live
      <3>2. View(j) = "none" /\ View(j)' = "queued"
        BY <1>7, <2>1, <2>3, <3>1 DEF View
      <3> QED BY <3>1, <3>2 DEF ViewMoves
    <2>4. CASE record[j].status # "absent" /\ record'[j].status = "absent"
      <3>1. View(j) = record[j].status /\ View(j)' = "gone"
        BY <1>3, <1>5, <1>7, <2>1, <2>4 DEF View, PastRecord
      <3>2. View(j) \notin {"none", "gone"}
        BY <1>4, <2>4, <3>1 DEF Status, Live, Terminal
      <3> QED BY <3>1, <3>2 DEF ViewMoves
    <2>5. CASE record[j].status # "absent" /\ record'[j].status # "absent"
      <3>1. View(j) = record[j].status /\ View(j)' = record'[j].status
        BY <1>7, <2>1, <2>5 DEF View
      <3>2. PastRecord(j)
        BY <1>5, <2>5
      <3>3. CASE record'[j].status = record[j].status
        <4>1. ASSUME record[j].status = "succeeded", "result" \in disk'[j], j \notin shared
              PROVE  "result" \in disk[j]
          <5>1. Writing(j) = {} /\ Threads(j) = {}
            BY <1>1, <4>1 DEF OutputsAreOwn
          <5> QED BY <1>1, <1>2, <2>1, <3>2, <4>1, <5>1 DEF ResultsAreThere, DiskMoves, PastRecord, UndoSteps
        <4> QED BY <3>1, <3>3, <4>1 DEF ViewMoves, Ready
      <3>4. CASE record'[j].status # record[j].status
        <4>1. \/ record[j].status \in Live /\ record'[j] = CancelledOne(j)
              \/ \E r \in Runs : RunWrites(r, j)
          BY <1>1, <1>2, <2>5, <3>2, <3>4, RecordFields DEF RecordMoves, PastRecord
        <4>2. CASE record[j].status \in Live /\ record'[j] = CancelledOne(j)
          BY <1>1, <3>1, <4>2, RecordFields DEF ViewMoves
        <4>3. ASSUME NEW r \in Runs, RunWrites(r, j)
              PROVE  ViewMoves(j)
          <5>1. CASE run[r].pc = "claim"
            BY <1>1, <3>1, <3>4, <4>3, <5>1, RecordFields DEF RunWrites, ViewMoves, ClaimResult, CLAIMED, CLAIM_BUSY
          <5>2. CASE run[r].pc = "store"
            <6>1. /\ run[r].job = j /\ MayStore(j, r) /\ record[j].status = "running"
                  /\ record'[j].status = run[r].outcome /\ run[r].outcome \in {"succeeded", "failed"}
              BY <1>1, <4>3, <5>2, RecordFields DEF RunWrites, MayStore, WorkerTypeOK
            <6>2. ASSUME run[r].outcome = "succeeded", j \notin shared
                  PROVE  "result" \in disk'[j]
              <7>1. ~Over(j)
                BY <6>1 DEF Over, Live
              <7>2. Writing(j) = {} /\ Threads(j) = {}
                BY <1>1, <5>2, <6>1, <6>2 DEF OutputsAreOwn, RunsOn
              <7> QED BY <1>1, <1>2, <2>1, <3>2, <5>2, <6>1, <6>2, <7>1, <7>2
                      DEF ResultsAreThere, DiskMoves, PastRecord, UndoSteps
            <6> QED BY <3>1, <6>1, <6>2 DEF ViewMoves, Ready
          <5>3. CASE run[r].pc = "finish"
            BY <1>1, <3>4, <4>3, <5>3, RecordFields DEF RunWrites
          <5> QED BY <4>3, <5>1, <5>2, <5>3 DEF RunWrites
        <4> QED BY <4>1, <4>2, <4>3
      <3> QED BY <3>3, <3>4
    <2> QED BY <2>2, <2>3, <2>4, <2>5
  <1> QED BY <1>6, <1>7

Touches(k) == record'[k] # record[k] \/ create'[k] # create[k] \/ disk'[k] # disk[k]

\* But for a restart of Redis, a step has one job in hand.
LEMMA OneJob ==
    ASSUME TypeOK, [Next]_vars, "redis_restart" \notin Faults, NEW j \in Jobs, NEW k \in Jobs,
           Touches(j), Touches(k)
    PROVE  j = k
  <1>1. StoreTypeOK /\ ApiTypeOK
    BY DEF TypeOK
  <1>2. ASSUME NEW i,
               \/ record' \in {record, Deleted(i), Queued(i), Expiring(i), CancelledRecord(i), Unclaimed(i)}
               \/ \E s : record' = Stored(i, s)
               \/ \E w, r : record' = Claimed(i, w, r),
               create' = create \/ \E s : create' = [create EXCEPT ![i] = s],
               disk' = disk \/ \E s : disk' = [disk EXCEPT ![i] = s]
        PROVE  j = k
    <2>1. ASSUME NEW x \in Jobs, x # i
          PROVE  ~Touches(x)
      <3>1. record'[x] = record[x]
        BY <1>1, <1>2, <2>1 DEF StoreTypeOK, Deleted, Queued, Expiring, CancelledRecord, Unclaimed, Stored, Claimed
      <3>2. create'[x] = create[x] /\ disk'[x] = disk[x]
        BY <1>1, <1>2, <2>1 DEF StoreTypeOK, ApiTypeOK
      <3> QED BY <3>1, <3>2 DEF Touches
    <2> QED BY <2>1
  <1>3. ASSUME NEW i \in Jobs, CreateStep(i) \/ CreateCrash(i)
        PROVE  j = k
    BY <1>2, <1>3 DEF CreateStep, CreateCrash, CreateGoto, ReserveActiveJob, ConsumeRate, SaveUploads, CreateJobRecord,
         ExpireJobRecord, AcceptMetric, EnqueueJob, UndoMetric, UndoDirectory, UndoRecord, UndoSlot, DirectoryRemoved,
         storeVars
  <1>4. ASSUME NEW q \in Requests, DeleteStep(q) \/ RequestCrash(q) \/ \E i \in Jobs : AuthorizedJob(q, i)
        PROVE  j = k
    BY <1>2, <1>4 DEF DeleteStep, RequestCrash, CancelJobTransition, CancelMetric, CancelRemoveDirectory,
         CancelRelease, DeleteDirectory, DeleteRecord, DeleteExpiry, AuthorizedJob, DirectoryRemoved, storeVars
  <1>5. ASSUME NEW r \in Runs, RunStep(r), create' = create
        PROVE  j = k
    <2>1. CASE ExecuteOperation(r)
      <3>1. disk' \in OutputWritten(run[r].job) /\ record' = record
        BY <2>1, OperationOutputs DEF ExecuteOperation
      <3> QED BY <1>2, <1>5, <3>1 DEF OutputWritten, ResultMade, ResultLost
    <2> QED BY <1>2, <1>5, <2>1 DEF RunStep, LoadRecord, MarkJobRunning, DeferBusyJob, StartOperation,
         StoreTerminalState, TerminalMetric, FinishJobClaim, CleanDirectory, UnlinkInputs, ReleaseActiveJob,
         FinalHeartbeat, DirectoryRemoved, storeVars
  <1>6. ASSUME WorkerNext, ~\E r \in Runs : RunStep(r), create' = create
        PROVE  j = k
    <2>1. ASSUME NEW i, disk' \in OutputWritten(i), record' = record
          PROVE  j = k
      BY <1>2, <1>6, <2>1 DEF OutputWritten, ResultMade, ResultLost
    <2>2. CASE \/ \E r \in Runs : WriteOutput(r)
               \/ \E w \in Workers, i \in Jobs : ThreadStep(w, i)
      BY <2>1, <2>2 DEF WriteOutput, ThreadStep
    <2> QED BY <1>6, <2>2 DEF Touches, WorkerNext, FinishJob, RequeueJob, Interrupt, StartJob, GiveUpJob,
         DeferEnds, OnStartup, HeartbeatLoop, Shutdown, OnShutdown, WorkerCrash, storeVars
  <1>7. ASSUME CleanupNext, create' = create
        PROVE  j = k
    BY <1>2, <1>7 DEF CleanupNext, ReadExpired, ScanOrphan, SweepStep, CleanupCrash, CheckOwner, PostponeOwned,
         SweepRelease, SweepRemoveDirectory, SweepDelete, SweepUnlist, DirectoryRemoved, storeVars
  <1>8. ASSUME EnvironmentNext, create' = create
        PROVE  j = k
    BY <1>2, <1>8 DEF EnvironmentNext, RecordExpires, SlotLapses, LockExpires, BeatExpires, RedisRestart
  <1>9. CASE UNCHANGED vars
    BY <1>9 DEF vars, storeVars, apiVars, Touches
  <1> QED BY <1>3, <1>4, <1>5, <1>6, <1>7, <1>8, <1>9 DEF Next, ApiNext, apiVars

-----------------------------------------------------------------------------
(* The step of JobPromise that a step of one job is.                           *)

LEMMA InitPromise == Init => Promise!Init
  BY DEF Init, StoreInit, ApiInit, WorkerInit, Absent, View, UndoSteps, Promise!Init

\* There is room for a job whose record is about to be written: it has its slot.
LEMMA RoomForOne ==
    ASSUME TypeOK, JobInv, Punctual, NEW j \in Jobs, create[j] = "hset"
    PROVE  Promise!Cardinality(Promise!Active) < MaxActive
  <1> DEFINE Active == {i \in Jobs : View(i) \in Live}
  <1>1. SlotsAreKept /\ slots \subseteq Jobs /\ LifeInv
    BY DEF JobInv, Punctual, TypeOK, StoreTypeOK
  <1>2. j \in slots /\ IsFiniteSet(slots)
    BY <1>1, FS_Subset, ConstantsAssumption DEF SlotsAreKept
  <1>3. \A i \in Active : record[i].status \in Live
    BY DEF View, Live
  <1>4. Active \subseteq slots
    BY <1>1, <1>3 DEF SlotsAreKept, Occupied
  <1>5. j \notin Active
    BY <1>1, <1>3 DEF LifeInv, NothingBeforeRecord, PastRecord, Live
  <1>6. Active \subseteq slots \ {j}
    BY <1>4, <1>5
  <1>7. /\ IsFiniteSet(slots \ {j}) /\ Cardinality(slots \ {j}) = Cardinality(slots) - 1
        /\ Cardinality(slots) \in Nat
    BY <1>2, FS_RemoveElement, FS_CardinalityType
  <1>8. Cardinality(Active) <= Cardinality(slots \ {j}) /\ Cardinality(Active) \in Nat
    BY <1>6, <1>7, FS_Subset, FS_CardinalityType
  <1>9. Cardinality(Active) < MaxActive
    BY <1>1, <1>7, <1>8, ConstantsAssumption DEF SlotsAreKept
  <1>10. Promise!Active = Active
    BY DEF Promise!Active, Promise!Live, Live
  <1>11. Promise!Cardinality(Active) = Cardinality(Active)
    BY Zenon DEF Promise!Cardinality, Cardinality
  <1> QED BY <1>9, <1>10, <1>11

\* Two runs share output/ from the step on in which the second begins its operation:
\* the job was claimed, so it is not, or no longer, waiting.
LEMMA StepShares ==
    ASSUME TypeOK, JobInv, [Next]_vars, shared' # shared
    PROVE  \E j \in Jobs : /\ shared' = shared \cup {j}
                          /\ View(j) \notin {"none", "queued"}
                          /\ UNCHANGED <<record, create, disk>>
  <1>1. WorkerNext /\ create' = create
    BY DEF Next, vars, workerVars, outputVars, apiVars
  <1>2. PICK r \in Runs : StartOperation(r)
    BY <1>1 DEF WorkerNext, RunStep, LoadRecord, MarkJobRunning, DeferBusyJob, ExecuteOperation,
         StoreTerminalState, TerminalMetric, FinishJobClaim, CleanDirectory, UnlinkInputs, ReleaseActiveJob,
         FinalHeartbeat, FinishJob, RequeueJob, Interrupt, StartJob, GiveUpJob, WriteOutput, ThreadStep, DeferEnds,
         OnStartup, HeartbeatLoop, Shutdown, OnShutdown, WorkerCrash, outputVars
  <1>3. PICK j \in Jobs : run[r].job = j /\ run[r].pc = "start"
    BY <1>2 DEF StartOperation, TypeOK, WorkerTypeOK
  <1>4. shared' = shared \cup {j} /\ UNCHANGED <<record, create, disk>>
    BY <1>1, <1>2, <1>3 DEF StartOperation
  <1>5. PastRecord(j) /\ record[j].status # "queued" /\ record[j].status \in Status \cup {"absent"}
    BY <1>3 DEF JobInv, LifeInv, RunsRemoveOver, Untouched, TypeOK, StoreTypeOK, Records
  <1>6. View(j) \notin {"none", "queued"}
    BY <1>5 DEF View, PastRecord, Status, Live, Terminal
  <1> QED BY <1>4, <1>6

LEMMA StepPromise ==
    ASSUME TypeOK, JobInv, Punctual, [Next]_vars
    PROVE  [Promise!Next]_Promise!vars
  <1> DEFINE view == [i \in Jobs |-> View(i)]
             ready == {i \in Jobs : View(i) = "succeeded" /\ "result" \in disk[i]}
  <1>4. ASSUME shared' # shared
        PROVE  Promise!Next
    <2>1. PICK j \in Jobs : /\ shared' = shared \cup {j}
                            /\ View(j) \notin {"none", "queued"}
                            /\ UNCHANGED <<record, create, disk>>
      BY <1>4, StepShares
    <2>2. view' = view /\ ready' = ready
      BY <2>1 DEF View
    <2>3. Promise!Share(j)
      BY <2>1, <2>2 DEF Promise!Share
    <2> QED BY <2>3 DEF Promise!Next
  <1>1. \A i \in Jobs : ~Touches(i) => View(i)' = View(i) /\ Ready(i)' = Ready(i)
    BY DEF Touches, View, Ready
  <1>2. CASE shared' = shared /\ \A i \in Jobs : View(i)' = View(i) /\ Ready(i)' = Ready(i)
    <2>1. view' = view /\ ready' = ready
      BY <1>2 DEF Ready
    <2> QED BY <1>2, <2>1 DEF Promise!vars
  <1>3. ASSUME shared' = shared, NEW j \in Jobs, ~(View(j)' = View(j) /\ Ready(j)' = Ready(j))
        PROVE  Promise!Next
    <2>1. \A i \in Jobs : i # j => View(i)' = View(i) /\ Ready(i)' = Ready(i)
      BY <1>1, <1>3, OneJob DEF Punctual, Steady
    <2>2. ViewMoves(j)
      BY StepViews
    <2>3. view' = [view EXCEPT ![j] = View(j)']
      BY <2>1
    <2>4. ready' = IF Ready(j)' THEN ready \cup {j} ELSE ready \ {j}
      BY <2>1 DEF Ready
    <2>5. view[j] = View(j) /\ (j \in ready <=> Ready(j))
      BY DEF Ready
    <2>6. CASE View(j)' = View(j) /\ Ready(j)
      <3>1. view' = view /\ ~Ready(j)'
        BY <1>3, <2>1, <2>6 DEF Ready
      <3>2. j \in ready /\ ready' = ready \ {j}
        BY <2>4, <2>5, <2>6, <3>1
      <3>3. Promise!Withdraw(j)
        BY <1>3, <3>1, <3>2 DEF Promise!Withdraw
      <3> QED BY <3>3 DEF Promise!Next
    <2>12. CASE View(j)' = View(j) /\ ~Ready(j)
      <3>1. view' = view /\ Ready(j)' /\ j \in shared
        BY <1>3, <2>1, <2>2, <2>12 DEF Ready, ViewMoves, Live
      <3>2. view[j] = "succeeded" /\ ready' = ready \cup {j}
        BY <2>4, <2>5, <2>12, <3>1 DEF Ready
      <3>3. Promise!Restore(j)
        BY <1>3, <3>1, <3>2 DEF Promise!Restore
      <3> QED BY <3>3 DEF Promise!Next
    <2>7. CASE View(j) = "none" /\ View(j)' = "queued" /\ create[j] = "hset"
      <3>1. Promise!Cardinality(Promise!Active) < MaxActive
        BY <2>7, RoomForOne
      <3>2. ready' = ready
        BY <2>4, <2>5, <2>7 DEF Ready
      <3>3. view[j] = "none" /\ view' = [view EXCEPT ![j] = "queued"]
        BY <2>3, <2>5, <2>7
      <3>4. Promise!Accept(j)
        BY <1>3, <3>1, <3>2, <3>3 DEF Promise!Accept
      <3> QED BY <3>4 DEF Promise!Next
    <2>8. CASE View(j) = "none" /\ View(j)' = "gone"
      <3>1. ready' = ready
        BY <2>4, <2>5, <2>8 DEF Ready
      <3>2. view[j] = "none" /\ view' = [view EXCEPT ![j] = "gone"]
        BY <2>3, <2>5, <2>8
      <3>3. Promise!Refuse(j)
        BY <1>3, <3>1, <3>2 DEF Promise!Refuse
      <3> QED BY <3>3 DEF Promise!Next
    <2>9. CASE \/ View(j) = "queued" /\ View(j)' = "running"
               \/ View(j) = "running" /\ View(j)' = "failed"
               \/ View(j) \in Live /\ View(j)' = "cancelled"
      <3>1. ready' = ready
        BY <2>4, <2>5, <2>9 DEF Ready, Live
      <3>2. view' = [view EXCEPT ![j] = View(j)'] /\ view[j] = View(j)
        BY <2>3, <2>5
      <3>3. Promise!Start(j) \/ Promise!Fail(j) \/ Promise!Cancel(j)
        BY <1>3, <2>9, <3>1, <3>2 DEF Live, Promise!Live, Promise!Start, Promise!Fail, Promise!Cancel
      <3> QED BY <3>3 DEF Promise!Next
    <2>10. CASE View(j) = "running" /\ View(j)' = "succeeded" /\ (Ready(j)' \/ j \in shared)
      <3>1. ready' \in {ready \cup {j}} \cup (IF j \in shared THEN {ready} ELSE {})
        <4>1. j \notin ready
          BY <2>5, <2>10 DEF Ready
        <4> QED BY <2>4, <2>10, <4>1
      <3>2. view[j] = "running" /\ view' = [view EXCEPT ![j] = "succeeded"]
        BY <2>3, <2>5, <2>10
      <3>3. Promise!Succeed(j)
        BY <1>3, <3>1, <3>2 DEF Promise!Succeed
      <3> QED BY <3>3 DEF Promise!Next
    <2>11. CASE View(j) \notin {"none", "gone"} /\ View(j)' = "gone"
      <3>1. ready' = ready \ {j}
        BY <2>4, <2>11 DEF Ready
      <3>2. view[j] \notin {"none", "gone"} /\ view' = [view EXCEPT ![j] = "gone"]
        BY <2>3, <2>5, <2>11
      <3>3. Promise!Forget(j)
        BY <1>3, <3>1, <3>2 DEF Promise!Forget
      <3> QED BY <3>3 DEF Promise!Next
    <2> QED BY <2>2, <2>6, <2>7, <2>8, <2>9, <2>10, <2>11, <2>12 DEF ViewMoves
  <1> QED BY <1>2, <1>3, <1>4

\* As long as no process that is up loses its heartbeat, no lease of a slot ends
\* before its job and Redis keeps its data, what a client sees is a behaviour of
\* JobPromise: statuses move forward only, a succeeded job has its result until
\* somebody removes it, unless two of its runs shared output/, and no more than
\* MaxActive jobs are shown as live.
THEOREM PromiseIsKept ==
    ASSUME Punctual
    PROVE  SafetySpec => KeepsPromise
  <1>1. Init => Promise!Init
    BY InitPromise
  <1>2. TypeOK /\ JobInv /\ [Next]_vars => [Promise!Next]_Promise!vars
    BY StepPromise
  <1> QED BY <1>1, <1>2, JobInvHolds, PTL DEF SafetySpec, KeepsPromise
==============================================================================
