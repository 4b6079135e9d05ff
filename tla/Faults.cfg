SPECIFICATION SafetySpec
CONSTANTS
    j1 = j1
    w1 = w1
    w2 = w2
    r1 = r1
    r2 = r2
    q1 = q1
    Jobs = {j1}
    Workers = {w1, w2}
    Runs = {r1, r2}
    Requests = {q1}
    MaxActive = 1
    MaxTries = 2
    Concurrency = 1
    NoWorker = NoWorker
    NoRun = NoRun
    NoJob = NoJob
    Faults = {"worker_crash", "api_crash", "cleanup_crash", "shutdown", "timeout", "redis_error", "metrics_error"}
SYMMETRY Symmetry
INVARIANT TypeOK
INVARIANT LiveJobKeepsInputs
INVARIANT JobInv
INVARIANT MetricsAgree
PROPERTY TerminalIsFinal
PROPERTY SweepSparesLiveRun
