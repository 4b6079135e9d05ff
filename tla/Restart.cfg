SPECIFICATION Spec
CONSTANTS
    j1 = j1
    w1 = w1
    w2 = w2
    r1 = r1
    r2 = r2
    Jobs = {j1}
    Workers = {w1, w2}
    Runs = {r1, r2}
    Requests = {}
    MaxActive = 1
    MaxTries = 2
    Concurrency = 1
    NoWorker = NoWorker
    NoRun = NoRun
    NoJob = NoJob
    Faults = {"redis_restart", "worker_crash", "api_crash", "cleanup_crash", "long_wait"}
PROPERTY OrphanRemoved
