# A formal model of gpthub-tools

gpthub-tools is a self-hosted file-conversion service: a FastAPI process takes uploads and
creates jobs, arq workers run them, a cleanup process removes what has expired, and Redis, a
shared volume and a SQLite metrics database hold the state they share.  A React page follows the
jobs, two AI services work for the image operations, and two shell scripts deploy releases.  This
directory holds TLA+ modules of these parts, the TLC configurations that check them, and TLAPS
proofs of the most important invariants for every size of the system.

Everything is in one directory: `tlc -config X.cfg M.tla` runs the configuration `X.cfg` of module
`M`, `tlapm M.tla` checks the proofs of a `...Proofs` module, and `PROJECT.json` lists the runs
with their modules, the deliberately wrong variants, the source lines behind each definition, the
hazards and the findings.

## 1. The system

| Component | Source | State it keeps | Operations | Modelled in |
|---|---|---|---|---|
| Job store | `backend/app/storage.py`, the scripts in `main.py`, `worker.py` | `job:<id>` hash, `active:<ip>` set of leases, `job-expirations` zset, `worker-heartbeat:<id>`, job directories | reserve, release, record, claim, store end, give claim back, cancel | `JobStore`, `ActiveSlots` |
| API | `backend/app/main.py` | nothing but the request in hand | `create_job`, `delete_job`; reads (`get_job`, `download`, `runtime`) change nothing | `Api`, `UploadChecks`, `RateLimit` |
| Worker | `backend/app/worker.py` | the run in hand, its `run_token` | `run_operation`, `heartbeat_loop`, `on_startup`, `on_shutdown` | `Worker` |
| arq (library) | used by `worker.py`, `main.py` | queue, in-progress keys, retry counters | take, retry, time out, requeue, give up | `Worker`, marked external |
| Cleanup | `backend/app/cleanup.py` | the sweep in hand | `cleanup_expired`, `cleanup_once` | `Cleanup` |
| Metrics store | `backend/app/metrics.py` | `job_metrics` rows, rejections | accepted, started, terminal; reports, buckets, prune | `JobStore` (a job's row), `MetricsReport` (the table over time) |
| Rate window | `main.py` `consume_rate` | `rate:<kind>:<ip>` zset of units | prune and count, add, expire | `RateLimit`; one choice of `Api` |
| Upload checks | `security.py`, `main.py` | the files saved so far | chunks, magic bytes, archive entries, structure, ClamAV scan | `UploadChecks`; one step of `Api` that may fail |
| Image operations | `image_options.py`, `image_pipeline.py`, `operations.py` | the output directory | upscale, enhance, remove background, pipeline, package | `ImageJob` |
| OCR, Office subprocess, document conversion | `ocr.py`, `office_runner.py`, `operations.py` | runner and tool processes, response and temporary files | run isolated, report, time out, kill, retry | `IsolatedRun` |
| Office conversions | `office_operations.py` | rows, merges, links, pictures, tables being built | XML limits, Word to Excel, Excel and CSV to Word | `XmlPackage`, `WordSheet`, `WordText`, `SheetBands` |
| PDF operations | `operations.py` | none | merge, split, pages to and from images | one step of `Worker` that may fail |
| Web client | `frontend/src/App.tsx`, `ImageLab.tsx` | a task per tool, polls, previews, object URLs | submit, poll, cancel, reload, preview models | `WebTracker`, `PreviewExplorer` |
| CPU image service | `ai-backends/background-remover/` | lock, sessions, restorer | remove background, restore | `CpuServer` |
| Upscaler | `ai-backends/upscaler/` | its loaded model | upscale | what it accepts, in `ImageJob` |
| Deployment | `deploy/activate-release.sh`, `rollback.sh` | release links, containers, images | activate, roll back, restore, clean up | `Deploy` |

### How they interact

1. `create_job` takes a concurrency slot (a Lua script), counts the hour's rate, makes the
   directory, saves and checks the uploads, writes the record (HSET, then EXPIRE), the metrics
   row, and enqueues the job.  Any failure runs the except branch: metrics, directory, record, slot.
2. A worker takes the job off arq's queue, loads the record, claims it with a script
   (`CLAIMED`, `CLAIM_BUSY` or nothing to run), runs the operation, stores the end with a script
   that only the holder of the claim gets past, and in the `finally` clause gives back the claim,
   removes the inputs (or the whole directory of a cancelled job), and releases the slot.
3. An operation calls an AI service over HTTP, or starts a runner process in a group of its own that
   starts Tesseract or LibreOffice, or works in a thread.
4. `delete_job` turns a live job into a cancelled one with a script.  A queued job is cleaned up
   by the request, a running one by its worker; an ended job is removed at once.
5. The sweep removes ended jobs whose time is up, and directories whose record is gone.
6. The page polls the status of each tool's task and loads the image of a task that has succeeded.

No two of the steps on the job store exclude each other but by the scripts: the processes read,
decide and act in separate commands, on three stores, and any of them may die in between.

### What is hard, and what makes the system correct

The list is `hazards` in `PROJECT.json`, each at its line.  In short:

* *Interleaving and ordering*: DELETE against the end of a run; two metrics writers; a queue entry
  whose creation is being undone; polls that overlap; previews that a new file overtakes; two threads
  with one model in memory.
* *Stale state*: a run whose claim was taken over after a stall, or the thread a cancelled run leaves behind, in the
  `output/` of the run that follows; a sweep that has read an owner's
  heartbeat and removes in later steps; `exists()` before `iterdir()`; an answer for a task that was
  replaced.
* *Partial failure*: a lost Redis answer, a cancellation delivered while an answer is awaited,
  HSET without its EXPIRE, half of a runner's response, a deployment that stops between two links.
* *Crashes and restarts*: of the API between any two steps, of a worker with claims, of the sweep,
  of a Redis without persistence, of a runner beside its tool.
* *Timeouts and retries*: the job timeout, `Retry(defer=15)`, `max_tries`, a second attempt on the
  directory of the first.
* *Bounds and numbers*: three concurrent jobs per address against leases that lapse; the rate
  window's check and its increment; limits counted while a file streams; rows and columns that move;
  report periods at the edge of a day.

| Component | Correct when |
|---|---|
| Job store, API | no more than `max_active_jobs_per_ip` jobs of an address are at work (`ConcurrencyLimit`, `LimitKept`); every record has a TTL, every row its job's end (`JobsAreRecorded`); the hourly limit is passed by no more than the other slots' units (`OvershootBounded`) |
| Worker | an end is final (`TerminalIsFinal`); inputs outlive every unfinished run (`LiveJobKeepsInputs`) and no other (`ProcessedInputsDeleted`); a run that lost its claim is kept from the record, the slot, the directory and the uploads, though not from `output/` (`StaleRunIsFenced`); every accepted job ends (`AcceptedJobSettles`); slots come back (`SlotReturned`) |
| Cleanup | no live run loses its job to the sweep (`SweepSparesLiveRun`); nothing is left for ever (`OrphanRemoved`) |
| Metrics | row and record never tell different ends (`MetricsAgree`); a report's parts add up (`ReportAddsUp`) and no count falls (`CountsNeverFall`) |
| Upload checks | no file gets past the type and structure checks, the limits and the scanner's word on it (`UploadsAreChecked`), whatever the order of an archive's entries (`WalkMatchesArchive`) |
| Image operations | what the API accepts the services do (`ServicesAcceptRequests`), and the result is what was asked for (`ResultAsAsked`) |
| Isolated runs | only whole responses count (`ResponseReadWhole`), and a run leaves no process, and no file where the code removes it (`RunLeavesNothing`) |
| Office conversions | a package is judged by what is in it (`PackageIsJudged`); nothing is lost, moved or shown twice (`EverythingInOrder`, `AnchorsFollowRows`, `TablesMakeTheSheet`, `AnchorsKeepPlace`); the writer need not refuse (`WriterNeverRefuses`) |
| Web client | a tool shows its own task (`ToolsShowTheirTasks`), its end (`EndIsShown`) and its image (`PreviewIsShown`); an overtaken preview is harmless (`OvertakenIsHarmless`) |
| CPU image service | one model at a time, kept while it is used (`ModelsTakeTurns`) |
| Deployment | the linked release is the one that runs (`LiveReleaseRuns`), and its images and those to go back to stay (`ImagesRetained`) |
| The whole | what a client sees is a behaviour of `JobPromise` (`KeepsPromise`, `KeepsWholePromise`) |

## 2. The modules

### The job system

* **`JobStore`** — the shared variables, and each Redis command, script and file-system call as the
  value its key has afterwards.  One script is one atomic step, which is what Redis guarantees.  The
  record keeps status, owner, token and whether it has a TTL.  `slots` is the `active:<ip>` set of one
  address; jobs of other addresses share no key with it.
* **`Api`** — `create_job` and `delete_job` as step machines, one step per await (`create[j]`,
  `request[q]`).  The validation loop is one step that may fail: what it refuses, and why, does not
  matter to any other process (`UploadChecks` has its inside).
* **`Worker`** — `run_operation` as a step machine (`run[r]`), the process states, and arq around it.  While a run is in
  `execute` it writes in `output/` (`WriteOutput`): a result is made, or one that is there is truncated, renamed or
  unlinked, whoever made it.  Most operations work in a thread, which nothing cancels: a run cancelled there may leave
  the thread behind (`left`), and it goes on writing (`ThreadStep`) until it ends or its process is gone.  `shared` is a
  history variable: the jobs whose `output/` two of them have been writing, one of them perhaps without the claim.
* **`Cleanup`** — the sweep: it reads in one step and removes in later ones.
* **`JobSystem`** — the composition, the expiries and faults of the environment, fairness, and the
  properties.
* **`JobPromise`** — the abstract specification: what the holder of a job's token is shown, what it
  can download, and admission.  Of a job in `shared` it promises no result: two runs wrote it, and one may destroy what the
  other announced.  `JobSystem` implements it under the mapping `View` and `ready`.
* **`MCJobSystem`** — the symmetries; the `.cfg` files give the instances.

A DELETE can only come from the client that got the token, so `AuthorizedJob` waits for
`create[j] = "created"`.  A run's `run_token` is a uuid4: a run of the model is its own token, and
`StartJob` takes one no record holds.

### A request beside its job (composed by `MCRequests`)

* **`ActiveSlots`** — the key `active:<ip>` alone, with a clock: the leases as the three scripts set, renew,
  drop and release them, the key's own TTL, and the string in which an earlier version kept one job.  The
  jobs are only the phases that matter to a lease and how long each may last.  `JobSystem` leaves the clock
  out and may let a slot lapse only under `long_wait`; this module says when that is right.
* **`RateLimit`** — `consume_rate` with a clock: the transaction that prunes and counts, the ZADD and the
  EXPIRE as three steps of each request, under the concurrency slots taken before.  One key is modelled;
  the AI, local and preview keys differ in their limit.
* **`UploadChecks`** — a request's files: saved in chunks against the file's and the job's limit, looked at
  by content, walked entry by entry if they are archives, scanned.  A file is its extension, the sizes of
  its chunks, what is wrong with it (`faults`, in the order the code looks for them) and its entries.  An image may be
  refused for its size after its content was looked at; which sizes are is in `ImageJob`.  `replies` keeps what the scanner
  sent back: `FOUND` or `OK`, a reply without a word on the file (an empty one, the status `ERROR`), or none at all (an
  exception).  The code refuses on `FOUND`, and on no reply if one is required.
* **`ImageJob`** — one image job from the options of the API through the stages of each file to the
  requests the upscaler and the CPU image service get and the saved result.  Sizes are in megapixels; an
  image is the factor it has grown by and what is behind its subject.
* **`MetricsReport`** — the metrics table over time: rows written late by several processes, pruning, and
  a report as sets of events counted over half-open periods and buckets.

### The parts beside the job system (composed by `MCParts`)

* **`IsolatedRun`** — OCR and Office conversions in a runner process with a tool (Tesseract, LibreOffice)
  under it, and `convert_documents` in a thread, over the attempts at one job.  Processes and files are sets,
  so what survives a kill is visible.  Each tool's end is one of three, as the code removes its directory after some only:
  it succeeded, it was refused (a bad return code, its timeout), or the call raised something else.
* **`CpuServer`** — the threads of the CPU image service: the import of `enhance`, one lock, the sessions
  that are dropped before another model is loaded, and the forwarding to a remote host.
* **`WebTracker`** — the page's task per tool.  A React state update is applied to `shown` at once and becomes
  `view`, which polls and buttons read, at the next render; a change of the polled tasks stops the old effect
  and starts a new one.  Requests are in flight in `calls` and answered in any order.
* **`PreviewExplorer`** — `ModelExplorer`: previews of one crop by several models, each an asynchronous call
  that a new file or crop overtakes by raising `generation`.
* **`Deploy`** — the two scripts on links, containers and images; any step may fail, and the connection may be
  lost.

### The Office conversions (composed by `MCDocuments`)

* **`XmlPackage`** — `_safe_xml_package`: the counters and stacks of one pass over the start and end events of
  a package's parts.  Before each file of the archive the clock is looked at (`NextFile`).  The elements read so far are also
  kept as a tree, which the code never sees; the properties compare the counters with it.
* **`WordSheet`** — Word to Excel.  A cell says where in the document it comes from, so that text that was
  lost, moved or shown twice is visible; merges clear cells as openpyxl does.  `WordText` adds the text of a
  document in reading order, a recursive operator, and compares the sheet with it.
* **`SheetBands`** — Excel and CSV to Word: unused rows and columns are dropped, wide sheets cut into bands
  that repeat the first column.  A picture that Word cannot show keeps its row and column and is dropped itself.  A row
  of a CSV file is the number of its values, of those not empty, and of its delimiters, which are counted first.

### The proofs

| Module | Theorems about | Extends |
|---|---|---|
| `JobSystemProofs` | types, inputs of live jobs, final ends; claims, metrics rows, stale runs, the sweep, the limit, removal of uploads; the steps of `JobSystem` as steps of `JobPromise` | `JobSystem` |
| `CountProofs` | slots with a clock, the hourly limit, reports | `ActiveSlots`, `RateLimit`, `MetricsReport`, `Sums` |
| `FileProofs` | image jobs, upload checks | `ImageJob`, `UploadChecks`, `Sums` |
| `ProcessProofs` | isolated runs, the CPU image service, deployments | `IsolatedRun`, `CpuServer`, `Deploy` |
| `PageProofs` | previews, the task tracker | `PreviewExplorer`, `WebTracker` |
| `DocumentProofs` | limits of XML packages; Excel and CSV to Word | `XmlPackage`, `SheetBands`, `Sums` |
| `WordProofs` | Word to Excel | `WordSheet`, `Sums` |
| `Sums` | sums over finite sets and over sequences | |

Section 4 says what they show and how.

### The environment, and why

* **Redis commands** answer, fail without effect, or take effect and lose the answer
  (`redis_error`).  redis-py raises the same exception for the last two.
* **Cancellation** is delivered at an await: before the command takes effect (`Interrupt`) or while its
  answer is awaited (`Replies`).  arq cancels a run once, at a graceful shutdown or at `job_timeout`.
  A `CancelledError` of a shutdown puts the job back; a timeout ends it, as arq treats it as an
  exception that is no `Retry`.
* **Expiries.** A record's TTL is renewed to 7200 s at the claim, and a run lasts at most 1830 s: a
  record does not run out under a run that holds it (`RecordExpires`).  arq's lock lives 1840 s, longer
  than a run and longer than the 90 s heartbeat of its dead owner (`LockExpires`, `BeatExpires`).  The
  fault `stall` drops these relations: a process paused for longer, or a key evicted by Redis'
  `allkeys-lru` policy.  The fault `long_wait` is a queue longer than the TTLs.
* **The sweep** may look at an entry of `job-expirations` any time after it was made; the code waits for
  its score.  A directory past the orphan cutoff (3600 s without a change) belongs to a creation that is over.
* **Restarts** are bounded by the worker processes of the model: the last one neither stops nor dies
  (`Replaceable`).  A restarted process is a new element, as its `WORKER_ID` is a new uuid4.
* **`max_tries`** is arq's limit.  A job whose tries are used up is dropped from the queue and its
  record left as it is.
* **Processes of a container.** The worker is the first process of its container: when it is killed, runner and
  tool die with it.  After a graceful shutdown the container goes a little later (`ContainerEnds`).  The kernel
  may kill the runner alone, for want of memory (`KillRunner`).
* **The AI services** answer with an image of the size asked for, with one of another size, or with an error of
  any kind, a lost connection included.
* **Stamps.** A metrics row carries the clock a process read before it waited for a thread and for the
  database: this hour or the one before.
* **The page.** React applies state updates and runs effects at a render; the interval of the polls does not
  fire between an update and its render.

### Fairness

`JobSystem`: weak fairness for the next step of every request, run and worker that is up (asyncio tasks run,
commands answer), for the start of a job a worker can start, for the expiry of locks and heartbeats, and for
the sweep's next step.  Strong fairness for reading an entry, for finding an orphan and for the removal of a
directory: the loop comes back to all of them, and does not die before the same one for ever.
No fairness for faults, cancellations, DELETE requests, record expiry or the start of an upload.

`MCParts`, for the page only: weak fairness for a render (React flushes its updates), for a poll (an interval),
for the oldest request (the browser answers or gives up each one) and for the end of a job.  None for the user,
for failures or for the end of a record.  The other parts have no liveness properties: a `threading.Lock`
favours nobody, and an operator need not run a script again.

## 3. The runs

| Run | Module, instance | Faults | Shows |
|---|---|---|---|
| `life_cycle` | `MCJobSystem`: 2 jobs, 2 workers, 2 runs, 2 tries, 1 DELETE, limit 1 | none | `ConcurrencyLimit`, `ProcessedInputsDeleted`, `JobInv`, `KeepsPromise` |
| `faults` | `MCJobSystem`: 1 job, 2 workers, 2 runs, 2 tries, 1 DELETE | crashes of all three, shutdown, timeout, Redis and metrics errors | `TypeOK`, `LiveJobKeepsInputs`, `JobInv`, `MetricsAgree`, `TerminalIsFinal`, `SweepSparesLiveRun` |
| `stall` | `MCJobSystem`: 1 job, 2 workers, 2 runs, 2 tries, 1 DELETE | stall, worker crash | `StaleRunIsFenced` |
| `settle` | `MCJobSystem`: 1 job, 2 workers, 2 runs, 3 tries, 1 DELETE | worker crash, shutdown | `JobsAreRecorded`, `AcceptedJobSettles`, `SlotReturned`, `KeepsWholePromise` |
| `restart` | `MCJobSystem`: 1 job, 2 workers, 2 runs, 2 tries | Redis restart, all crashes, long wait | `OrphanRemoved` |
| `requests` | `MCRequests`: five parts, below | run crash, failures at any step | `LimitKept`, `SlotInv`, `OvershootBounded`, `WalkMatchesArchive`, `UploadsAreChecked`, `ServicesAcceptRequests`, `ResultAsAsked`, `ReportAddsUp`, `CountsNeverFall` |
| `parts` | `MCParts`: five parts, below | shutdown, crash, timeout, kills, lost answers, failing steps | `ModelsTakeTurns`, `RunLeavesNothing`, `ResponseReadWhole`, `ToolsShowTheirTasks`, `OvertakenIsHarmless`, `LiveReleaseRuns`, `ImagesRetained`, `EndIsShown`, `PreviewIsShown` |
| `documents` | `MCDocuments`: three parts, below | deadline, broken input | `PackageIsJudged`, `EverythingInOrder`, `AnchorsFollowRows`, `TablesMakeTheSheet`, `AnchorsKeepPlace`, `WriterNeverRefuses` |

Each of the last three composes modules that share no state: one part moves in a behaviour, the others stay in
one initial state, so the states of the parts add up and do not multiply.  The distinct states are about
476 000 (`life_cycle`), 1 140 000 (`faults`), 657 000 (`stall`), 188 000 (`settle`), 62 000 (`restart`),
316 000 (`requests`), 358 000 (`parts`) and 819 000 (`documents`).

**The job system.** The jobs of an address meet only in `slots`, in the limit and in the one sweep: two jobs and
a limit of one already make them compete.  Two workers and two runs give a takeover, two runs of one job at a
time, and a stale one; two tries let a job be run again and also be given up, three let it be interrupted twice.
One DELETE request can be repeated, as a finished request is idle again.  `Concurrency` is 1: two runs of one
process share nothing but its heartbeat.

**`requests`.** *Slots*: 3 jobs, limit 2, nothing or one job in a string at the start, TTL 5, lease 4, run 2,
upload 2, wait 2, takeover 1, 10 ticks; three jobs for two slots give one that is refused, and the string's job
two rivals.  *Rate*: 4 requests of 2, 2, 2 and 1 units, limit 3, 2 slots, window 2, 3 ticks; two requests are
under way before and two after a prune, and one unit off the limit tells an exact check from a loose one.  The
clocks run past the key's TTL and past the window, so that leases, members and keys run out and are made again.
The rate part assumes that the key's TTL does not end in the moment between a ZADD and its EXPIRE (the guard in
`ClockTicks`), and that no slot lapses under its request, which is `ActiveSlots`' business.  *Uploads*: one to
three files of every extension with every fault their kind can have, archives whose extra entries come before or
after the main ones, sizes on both sides of the limits of a file and of a job, every reply of the scanner.  *Image jobs*: every operation,
scale, model, face strength, stage and format the page can send, with sizes on both sides of every limit (the
constants are the real limits in megapixels, 100, 200 and 32).  *Reports*: one job and one refusal over 8 hours of
4 days, 2 days kept; each report is a sum over events, so one of each kind at every pair of hours is every way
to be lost or counted twice.

**`parts`.** Two threads, three presets (gunicorn's `--threads 2`; the third preset is one to be dropped for
another).  Two attempts and two pages or files per run.  Two tools and two tasks, two requests in flight, one
failure, one change of the tool or reload.  Two models, three previews and two crops, so that a preview is
overtaken by the next crop's.  Three releases and four scripts: the first activation, one that fails,
a repetition and a rollback.

**`documents`.** Packages of up to eight elements against limits of two or three, with nested tables, spans, merged
ranges that end in the last column or one beyond, and a clock looked at every third element instead of every 1024th.  2115 Word documents with spans, continued
cells, pictures, and tables nested two deep, two of them in one cell.  About 4000 worksheets with gaps, up to
two merged ranges and a picture against bands of three columns, pictures Word cannot show, workbooks at and over the
limit of sheets (three); every CSV file of up to three rows, with empty values and quoted delimiters.
Properties of rows, columns and counters go wrong at the first nested table, gap or band edge, which these have in
every combination; the real limits only lie further away.

Deadlock is not checked where the system or its bounded clock stops: jobs, tasks, scripts and conversions end.

**Which faults where.** `JobInv`, the inductive invariant of section 4, is checked under every fault that `faults` has, and
in `life_cycle`, where every condition of its parts holds and none of them is vacuous.  A run leaves out the faults under which its property is not claimed.
`ProcessedInputsDeleted` holds without crashes and cancellations (not under a timeout, see the findings).
`stall` leaves cancellation out for its size only: with `shutdown` or `timeout` in `Faults` it passes too, in some 2.5 to 2.8
million states, and `StaleRunsDoNoHarm` is proved under every fault.
`AcceptedJobSettles` and the fairness of `KeepsWholePromise` are conditional on `NeverAbandoned`: a shutdown whose
run is killed before its `finally` clause leaves a claim behind, each `CLAIM_BUSY` retry takes 15 s and one of
the five tries, and they can be used up before the dead owner's heartbeat (90 s) is; the record then stays
running until its TTL ends.  `SlotReturned` is conditional on `Undisturbed`: no worker stops and no DELETE is under
way, because of the second finding.  `CountsNeverFall` leaves the ends in the first day of the longest report out:
the row of a job that was accepted the day before goes with that day.

Each property has wrong variants of a definition in `PROJECT.json` (`mutants`) under which it fails: a dropped half
of a guard, a limit off by one, a stack that is not restored, a cleanup that asks for too much or too little.  Those
definitions stand next to the right ones, marked "Wrong".

### Findings

Four runs are expected to violate their property; each shows a disagreement of the code and a document or test.

* `timeout_keeps_inputs` — a run that `job_timeout` cancels gives its claim back, but stores no end and
  keeps inputs and slot, and arq does not run it again; `docs/OFFICE_CONVERSIONS.md` says inputs are
  deleted when processing finishes or fails.
* `kept_slot` — a DELETE of a job that has just ended removes the directory between the worker's
  `exists()` and `iterdir()`; the exception skips the release of the slot, which then counts against the
  limit until its lease ends.
* `retry_of_conversion` — the directory of LibreOffice's profile belongs to the job; the one an
  interrupted attempt left makes `mkdir()` fail in the retry, which ends as `INTERNAL_ERROR`.
* `stale_error` — the catch clause of a poll does not look at `stopped`: a status request that fails late marks a
  task as failed that an overlapping poll has already shown as succeeded, and nothing polls it again.

### Known limits of the code, without a run

* A slot's lease can run out while its job still waits in a queue longer than the key's TTL; another job
  is admitted, and the claim adds the first one's slot again without looking at the limit.  `LimitKept` assumes it away
  by `ShortWaits` (section 4).
* The hourly limit is not exact: uploads that count before either adds pass together.  `OvershootBounded` says by
  how much at most, the units of `max_active_jobs_per_ip - 1` other requests.
* `output/` belongs to the job and nothing fences it.  A run whose claim was taken over, and the thread of a run that was
  cancelled, write, rename and unlink in it beside the next run: a result that was announced may be gone, or be the other
  one's.  Their `lo-profile-<n>` makes the `mkdir()` of the next run fail, as in `retry_of_conversion`.  `StaleRunIsFenced`
  leaves `output/` out, and `KeepsPromise` promises no result of a job in `shared`; of all others it does.
* A scanner whose reply is empty or has the status `ERROR` lets the file pass, `clamav_required` or not: only `FOUND` and
  exceptions are refused.  `UploadsAreChecked` says what is left: every file was shown to the scanner, none it found
  something in passed, and none without a reply where one is required.
* `.office-convert-*` is removed when LibreOffice refuses or is too slow and when the conversion is through.  Any other
  exception, or the deadline noticed between its end and the parse, leaves the directory, after a run that ended by itself;
  `RunLeavesNothing` excepts these.
* The API that dies between HSET and EXPIRE leaves a record without a TTL.  The model has this crash; `JobsAreRecorded` asks
  for the TTL of jobs whose creation was completed, as the code gives no other.
* A worker that stops between storing an end and writing it to the metrics leaves the row queued or running
  (`JobsAreRecorded` allows just that).
* A background removal while another thread imports `enhance` for the first time may find the module without its
  `SESSION` and is answered by a server error (`"half"` in `CpuServer`), though the models still take turns.  Errors of the remote background host are
  `OSError`s and answered as an invalid image.
* The runner killed alone leaves its tool and its files; a killed group leaves `.office-result-*.tmp`,
  `.office-convert-*` and `.ocr-pages-*` until the job's directory goes.  The thread of a document conversion
  outlives a timeout or a shutdown.
* The PNG between two stages may pass the upload limits of a service; it is an error of the service in `ImageJob`.
* Nothing bounds the cells that the rows of paragraphs and labels are merged over (`MergedRows`).
* The page: a tool whose job's record is gone stays busy until a reload after the expiry; the task of an upload
  that a reload cuts off is lost; a preview whose DELETE fails, or the answer to whose creation is lost, stays
  until its job ends.
* Deployment: a failure between the two links leaves `previous` equal to `current`.

## 4. What is proved

Every theorem is proved for every value of the constants that satisfies the named assumptions, none for an instance.
The property of a theorem is hardly ever inductive by itself.  It follows from a strengthened invariant, a conjunction of
named parts, which holds initially and is preserved by every action (one step of a proof each).  The invariants `JobInv`
(with `LifeInv`) and `SlotInv` stand in the modules of the runs and are checked there too; the others are defined in the
modules of the proofs.

A theorem that holds only without some faults, or under a relation of time constants, says so as a hypothesis (`ASSUME`),
and each hypothesis is one that instances of the runs satisfy.

### The life cycle of a job (`JobSystemProofs`)

For every finite set of jobs, every set of workers, runs and requests, every limit and *every* subset of the
faults (`ConstantsAssumption`: limits positive, null values outside the sets they stand in for):

* `TypesHold` — `TypeOK`; `LifeInvHolds` — `LifeInv`.
* `InputsAreKept` — `LiveJobKeepsInputs`.
* `EndsAreFinal` — `TerminalIsFinal`.

`LiveJobKeepsInputs` is not inductive: a removal happens steps after the decision to
remove, and nothing in the property says what the remover has found.  `LifeInv` adds that.  A job is
*over* when it is past its HSET and no longer queued or running.  A status moves in four ways only
(`Moves`): with the HSET of its creation, from live to running or terminal, away, or not at all; so what
is over stays over (`OverStays`).  A DELETE past its transition, a run with a stored end or about to clean
up, and the sweep all have a job that is over in hand, and `job-expirations` holds only such jobs; so what
they remove is never an input of a live job.  `UploadsInPlace` says what `create_job` has put on disk by
each of its steps, and `NothingBeforeRecord` that queue, list and record come after the HSET, so that no
job is revived by a late HSET.  The proof has one lemma per component for types, for `Moves` and for
`LifeInv`.  The invariant also shows that the sweep never meets a queued or running job: its branches for them are
there for entries that no current code writes.

### Claims, rows, slots and uploads (`JobSystemProofs`)

For the same constants; `JobInvHolds` is `JobInv`, from which follow:

| Theorem | Property | Hypothesis on the faults |
|---|---|---|
| `RowsAgree` | `MetricsAgree` | none |
| `StaleRunsDoNoHarm` | `StaleRunIsFenced` | none |
| `LiveRunsAreSpared` | `SweepSparesLiveRun` | `Steady`: no `stall`, no `redis_restart` |
| `LimitHolds` | `ConcurrencyLimit` | `Punctual`: `Steady`, no `long_wait` |
| `JobsHaveRows` | `JobsAreRecorded` | `Recorded`: no timeout, no Redis or metrics error, no crash of the API |
| `UploadsAreRemoved` | `ProcessedInputsDeleted` | `Uninterrupted`: stalls, metrics errors and crashes of the sweep only |

The hypotheses are those under which the code keeps the property; section 3 and the findings say what happens without them.
A stall is a run whose claim another one took over: a takeover does not keep uploads from being removed, as the new owner
removes them.  The parts of `JobInv`, with what depends on a hypothesis under its condition:

* `ClaimsAreFenced`, `ClaimsHaveOwners`: a run that stored an end shares its claim with nobody, and one that cleans up has given
  it back and nobody can take it again; a token names one run, and its owner the process that the run is in.
  With them a superseded run finds no step open to it that would touch the record, the slot, the directory or the uploads its
  successor has.  `output/` is not among them: the code has no fence there.
* `RowsFollowRecords`, `TtlsAreSet`: what a row tells of an end, or somebody is about to write into it, is what the
  record tells.  The order of the record's script and the row's write is enough for that, as ends are final.
* `OutputsAreOwn`, `ResultsAreThere`, `Untouched`: where `output/` is not `shared`, one run or thread at most writes there, and
  nobody once a result is about to be announced; so the result is on disk when `succeeded` is stored and goes only with its
  directory.  Before its ENQUEUE nobody but `create_job` has a job in hand.
* `HeartbeatsHold`, `SweepAsksOwner` (if `Steady`): a process that is up has its heartbeat, so the claim of a run at
  work is not taken over, and a sweep with that job in hand is on its way to ask for the owner.
* `SlotsAreKept` (if `Punctual`): every job at work is in `slots`, and whoever is about to release a slot knows of no claim.
  The set is never larger than the limit, so the jobs are not either.
* `RowsKeepUp` (if `Recorded`, and no worker has stopped): if a row is behind its record, the one that changed the record
  is about to write it.
* `UploadsHaveKeepers`, `WaitingIsUntried`, `DeletedIsEmpty` (if `Uninterrupted`): while an upload is on disk, somebody is on the
  way to remove it (`HasKeeper`): a queue entry or a run that is yet to claim the job, a run that works on it or has stored its
  end (`Keeps`), or a DELETE that found it queued (`Removes`).  A job that is `queued` is in its first try, so
  `max_tries` cannot drop it; a record is deleted after its uploads.

The steps of all components are first put into one shape each, so that the proofs of the parts need not look into the handlers:
`StepRecords` (how one record may change), `StepRuns` and `StepGoes` (where a run may go), `StepCreates`, `StepRequests`, `StepRows`,
`StepSlots`, `StepDisk`, `StepSweep`, `StepBeats` and `StepQueue`; and `SureSteps`, `SureRequests` and `RecordsGo` for the steps where nothing
fails.  `JobInv` is checked in the runs `faults` and `life_cycle`.

### The promise to a client (`JobSystemProofs`)

`PromiseIsKept`: if `Punctual`, `SafetySpec => KeepsPromise`, that is, every step of `JobSystem` is a step of `JobPromise` under the mapping
of section 2, or leaves what a client sees alone.  `StepViews` says what a step does to the view of one job, from `Moves`,
`RecordMoves` and `ResultsAreThere` (a result that is announced can be downloaded, unless `output/` is `shared`, for which
`JobPromise` has the actions `Share` and `Restore`); `OneJob` that a step,
unless it is a restart of Redis, has one job in hand; `RoomForOne` that there is room when a job is accepted, from
`SlotsAreKept`.  `Punctual` is needed for admission, and because a `RedisRestart` forgets all records in one step, where
`JobPromise` takes one at a time.

### Counts (`CountProofs`, with `Sums`)

*Slots with a clock.*  For every finite set of jobs, every limit, every choice of the time constants with
`Lease <= JobTTL` (2100 s and 7200 s by default, `SlotConstants`) and every bound of the clock, if `ShortWaits`:
`SlotInvHolds` (`SlotInv`) and `LimitIsKept` (`LimitKept`).

`ShortWaits` is the hypothesis that an upload and the wait in the queue together are shorter than a job's
TTL, and that a run and the time to its takeover are shorter than the lease of a claim.  The second half is
1830 s against 2100 s: a takeover more than 270 s after the last possible end of a run comes too late.  Nothing in the
code enforces the first half.  `LimitKept` counts jobs, the scripts count leases.  `SlotInv` joins them: every active
job holds a lease that outlives its phase and the next phase that does not renew it (`Covered`).  So what a
reservation counts is at least the active jobs (`FreeSlotIsFree`), and no tick takes an active job's lease.  While
the key is still a string, its holder is the only active job, so a claim renews just that one's lease.

*The hourly limit.*  For every finite set of requests of any sizes up to `MaxUnits`, every limit, window and TTL of the key:
`OvershootIsBounded` (`OvershootBounded`).  `RateInv` says that a request that passed is in the sorted set from its ZADD until it has left
the window, since the key's TTL outlives it; so a check misses only the requests between their own check and their ZADD,
and these hold the other `MaxRequests - 1` slots.  The invariant bounds
the units of all that passed (`Passed`), those not yet added included, as no later check holds them back.

*Reports.*  For every finite set of jobs and of refusals and every retention: `ReportsAddUp` (`ReportAddsUp`) and `CountsDoNotFall`
(`CountsNeverFall`).  The first partitions the events of a period into its buckets, and into operations (`SumOfClasses`); the
second needs `EndsWithinADay`, that the end of a job is less than a day after its acceptance, so that pruning by the day
of acceptance takes no end with it that is a day younger.

`Sums` has what these proofs, and those of uploads, need of the sums: an element more is its number more, the order does
not matter, equal numbers have equal sums, a part has no larger one, and a sum is that of its classes.
The folds of the community modules choose elements in an order nobody knows, so each of these is an induction; as a
theorem with an operator parameter cannot be used, it is done with least numbers (`LeastNumber`): a smallest subset on
which a claim fails is not empty, and is one element more than a smaller one.  `AllNumbers` and `AllSubsets` say this once,
for a set of numbers and for a set of subsets.

### Files (`FileProofs`)

*Image jobs.*  For every number and size of images, every limit and every set of requests (`ImageAssumption`):
`ResultsAreAsAsked` (`ResultAsAsked`), and `ServicesAccept` (`ServicesAcceptRequests`) if `MaxPixels <= MaxOutput`, which the settings
satisfy (100 and 200 megapixels): an image that is not enlarged is an output too.  `StagesArePlanned` says of the plan what
the properties need, whatever is combined: only the last stage scales and restores faces, only the first removes a background.  `ImageInv` says how far the current
file has come along the plan (`Gone`), what was sent for it (`Asks`), and what the finished ones are like (`Finished`).

*Uploads.*  For any number of files of any format, any chunks, faults, entries and limits: `UploadInvHolds`, `UploadsPassTheirChecks`
(`UploadsAreChecked`) and `WalkMatches` (`WalkMatchesArchive`).  `UploadAssumption` asks that the faults of a file fit its format (`FaultsFit`:
an encrypted docx is an OLE container, only a legacy file has an OLE macro stream, and so on), which is what the
parsers of the code look for; without it a file could carry a fault that its format has no place for.  `UploadsPassed`
says which checks each file is through, `UploadsScanned` that each file that is through has its reply, `UploadsWithinLimits` that what was read is within the limits at every chunk, and
`UploadWalked` that the counters of the walk are the sums of the entries so far (`Walked`).  Since the counters only grow, a
walk that stops early has met a sum that the whole archive passes too (`FitsIsWalked`), whatever comes behind it.

### Processes (`ProcessProofs`)

*Isolated runs.*  For every number of attempts and of pages or files, through shutdowns, crashes, timeouts and kills: `RunInvHolds`,
`ResponsesAreReadWhole` (`ResponseReadWhole`) and `NothingIsLeft` (`RunLeavesNothing`).  `RunInv` orders the attempts
(`AttemptsInTurn`), ties the tool's life to the runner's unless that was killed alone (`RunnerAndTool`), the response to
the pages that were left and the verdict when it was written (`ReportOf`), and the files to who uses them (`FilesInUse`,
`ProfilesInUse`: a first conversion's thread has the one profile of the file it works on).  Of Office's directory it
says that it is gone when a result, or that LibreOffice refused, is reported; after any other failure it may stay.

*The CPU image service.*  For every number of threads and set of presets, with or without a remote host: `CpuInvHolds` and
`ModelsTakeTurnsHolds` (`ModelsTakeTurns`).  `CpuInv` joins the lock to the steps under it (`OnlyHolderInside`) and to what
is in memory (`RoomIsMade`: one session or the restorer, and nothing while a model is loaded).  The holder being the
only thread inside is why a session cannot be dropped under another thread.

*Deployment.*  For every set of releases and every number of scripts: `LiveReleaseHolds` (`LiveReleaseRuns`) and
`ImagesAreRetained` (`ImagesRetained`).  `DeployInv` says what a script has found and done by each step: before the
links are set `current` is the release it found, from the health check on the containers are the target's alone, after a
restoration those of the old release.  So a script that ends well in either way leaves containers and link equal,
and the clean-up, which keeps the target and `previous`, keeps what the links name.

### The page (`PageProofs`)

*Previews.*  For every number of models, calls, files and crops: `ExplorerInvHolds` and `OvertakenPreviewsAreHarmless`
(`OvertakenIsHarmless`).  `ExplorerInv` says that generations only rise (`OfThePast`), that the call under way is the one
that disabled the button (`OneUnderWay`), and that `active.current` is that call's job (`ActiveIsUnderWay`); so a
`finally` clause of an older generation has nothing to tidy that is not its own.

*Tasks.*  For every finite set of tools and any number of tasks and requests: `TrackerInvHolds` and `ToolsShowTheirTasksHolds`
(`ToolsShowTheirTasks`).  Three copies of a task are about at a time, what is stored (`shown`), what is rendered (`view`) and what is
answered (`calls`).  `TrackerInv` says that each was true when it was made and still is, as the server only goes on
(`EntriesTrue`, `CallsTrue`), and that an image is under way once and for a task that has none (`OneFetchEach`), so that no answer
takes the place of an object URL that is in use.

### The Office conversions (`DocumentProofs`, `WordProofs`)

*Packages.*  For every package, all limits (zero included), every depth and every interval of looks at the clock:
`PackagesAreJudged` (`PackageIsJudged`).  The code keeps one number per kind and two stacks; the property speaks of
the tree of elements, which it never has.  So the invariant `XmlInv` says, while the scan reads, what of the tree is in those
numbers (`Reading`):

* `IsTree`, `IsPath`, `OneSpan`: the elements are numbered in the order they start, each under one that may contain it; the
  open ones are a path from a root, and what starts next goes under its end.
* `Counted`: every counter is the sum of what the elements added when they started, and those that ended when they did.
  The order in which they started and ended does not matter (`SumOfExtended`, `SumOfChosen`).
* `TablesOpen`: the two stacks have an entry for each open table, in the order of the path: the columns of its grid so far, and the
  width of its open row, or that it has none.  A nested table starts with an entry of its own and takes it away, so
  a row goes on where it was: that is the part a stack that is not restored would break.
* `ClockSeen`: the elements read after the deadline are fewer than those since the last look at the clock.

`VerdictMatchesTree` is a conjunct of its own, for a scan that has ended.  Both halves need that the limits were kept until now and
an event can only pass those it adds to: a start of an element deepens one path and widens one grid or row (`WidthsSeen`), an end changes
one row and the counters, and is where a merged range past the last column is met (`WideRange`).  `Depth` is a recursive function; that it exists, which TLA+ does not give for free, is
`DepthExists`, and that a longer tree leaves the depths in it as they are a lemma of its own.

*Sheets.*  For all workbooks and CSV files, whatever their size, gaps, merged ranges and pictures (those that Word cannot show are
dropped), for every `BandWidth` from 2 and all
limits (`BandsAssumption`): `WriterAccepts` (`WriterNeverRefuses`), `SheetsAreWhole` (`TablesMakeTheSheet`) and
`SheetAnchorsStay` (`AnchorsKeepPlace`).  `SheetInv` says that each parsed sheet is within the limits (`ParsedFit`), that what is
parsed is what the worksheets give that show something, in order (`BookIsParsed`), and that the tables written are those of the
sheets up to here (`SheetsAreWritten`).  The rest is about one sheet.  `Rank` and `Nth` are inverse and keep the order
(`NthOfRank`), so dropping what is unused moves nothing off its row or column, and a merged range, all of whose lines are in use,
stays as high and as wide (`RangeMaps`).  The bands cover the columns after the first by intervals that do not overlap (`InBand`):
a cell is in the one band its column is in, and a merged range in a table if no edge cuts it.

*Word to Excel.*  For all documents, with tables merged and nested in any way, and all limits (`WordAssumption`; a table is
`WellFormed` if a cell that continues the one above has its columns, as in what Word writes and what python-docx needs to find the
cell above): `WordAnchorsFollow` (`AnchorsFollowRows`).  The argument has two halves.

* One table: the cells of a row take columns that do not overlap (`EndsInOrder`, `OneCovers`), and a place of the grid leads up to the
  one cell that covers it in every row on the way (`CellsHaveSources`).  So the places of a cell are a block (`CellsAreBlocks`), its
  first place is the corner the code finds by the order of its loops, and merges of different cells do not meet.
* The rows so far: `Laid` is an invariant of the parse, preserved by the separating row, a label and a table one after the other
  (`ParagraphLaid`, `LabelLaid`, `TableLaid`).  Rows are only added below, so what is said of earlier rows stays true (`Kept`).  That a link
  finds the label of *its* table needs more than that: texts are written once (`Texts`), the label and the cell of a table still to come
  are known before (`Waiting`), none of them is below another, and nothing written is below it (`Apart`, `Unsaid`), although
  a table puts its own tables in front of those of its parent.

At the end of the document the paragraph and label rows are merged over the widest table.  They have one cell (`OwnRows`), so these merges clear
nothing and meet none of a table (`EverythingFits`); that `widest` never passes the limit is `Wide`.

### Only model-checked

* Liveness: `AcceptedJobSettles`, `SlotReturned`, `OrphanRemoved`, `EndIsShown`, `PreviewIsShown`, and the fairness of `KeepsWholePromise`; TLAPS
  does not prove properties under fairness.
* Word to Excel: `EverythingInOrder`.  A table holds tables of any depth; the property compares the sheet with what a recursive
  operator makes of them, which is an induction over data.

## 5. Not modelled

* Scores of `job-expirations` and lengths of TTLs in `JobSystem`: time is the order in which things may run
  out, under the relations above.  `ActiveSlots` and `RateLimit` have a clock.
* What Tesseract, LibreOffice, pypdf, pdf2docx and the models compute; the PDF operations, which are one call of a library
  in one thread; text escaping, styles, number formats and formulas of the Office conversions.
* The parsing of each file format in `security.py`: a file has a fault or has it not.
* The upscaler's tiles and its lock: all models are loaded when it starts and none is dropped, and a request takes the
  one lock once for the whole of its work, so requests share nothing that could go wrong.
* Spellings of an option other than those the page sends; the text of errors and filenames.
* Durations in reports.
* The page's forms, file lists and cropping; the flag of a preview that is loading; "queued" is shown as "running",
  and a failed job takes the place of a succeeded one without a result.
* Configuration, which appears as assumptions on constants, and the ClamAV supervisor, a loop of two counters in the
  Compose file.

## 6. The plan

1. *(done)* `JobStore`, `Api`, `Worker`, `Cleanup`, `JobSystem`, `JobPromise`; the proofs of types, inputs
   and final ends.
2. *(done)* `ActiveSlots` and the proof of the limit under `ShortWaits`; `RateLimit`.
3. *(done)* `UploadChecks`, `MetricsReport`, `ImageJob`, `IsolatedRun`, `CpuServer`, `WebTracker`,
   `PreviewExplorer`, `Deploy`; the Office conversions.
4. *(done)* Proofs of the deployments, the CPU image service, the isolated runs and the previews.
5. *(done)* Proofs of the claims, rows, slots and uploads of `JobSystem` and of its steps as steps of `JobPromise`; of
   the hourly limit and the reports; of image jobs and upload checks; of the task tracker.
6. *(done)* Proofs of the Office conversions: `PackageIsJudged`, what `SheetBands` promises, and that Word anchors
   follow their rows (`AnchorsFollowRows`).
7. Pure algorithms that are left: page ranges, upscaler tiles, percentiles, against reference definitions.
