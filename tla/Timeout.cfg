SPECIFICATION SafetySpec
CONSTANTS
    j1 = j1
    w1 = w1
    r1 = r1
    q1 = q1
    Jobs = {j1}
    Workers = {w1}
    Runs = {r1}
    Requests = {q1}
    MaxActive = 1
    MaxTries = 2
    Concurrency = 1
    NoWorker = NoWorker
    NoRun = NoRun
    NoJob = NoJob
    Faults = {"timeout"}
INVARIANT ProcessedInputsDeleted
