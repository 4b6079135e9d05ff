SPECIFICATION Spec
CONSTANTS
    Parts = {"slots", "rate", "upload", "image", "report"}
    r1 = r1
    r2 = r2
    r3 = r3
    r4 = r4
    Requests <- SomeRequests
    UnitsOf <- SomeUnits
    MaxUnits = 2
    Limit = 3
    Window = 2
    Slack = 1
    MaxRequests = 2
    LastTick = 3
    Uploads <- SomeUploads
    Operations = {"ocr", "document-convert", "word-to-excel", "excel-to-word", "upscale"}
    MaxFiles = 2
    MaxImage = 2
    MaxDocument = 3
    MaxJob = 5
    MaxEntries = 4
    MaxUnpacked = 4
    MaxMediaFiles = 2
    MaxMedia = 1
    MaxMetadata = 1
    ScannerRequired = TRUE
    ImageRequests <- SomeImages
    MaxPixels = 100
    MaxOutput = 200
    FacePixels = 32
    j1 = j1
    j2 = j2
    j3 = j3
    Jobs = {j1, j2, j3}
    MaxActive = 2
    JobTTL = 5
    Lease = 4
    Timeout = 2
    MaxUpload = 2
    MaxWait = 2
    MaxGap = 1
    MaxTime = 10
    refused1 = refused1
    Metered = {j1}
    Refused = {refused1}
    OperationOf <- SomeOperationOf
    HoursPerDay = 2
    Retention = 2
    MaxHourly = 1
    LastHour = 8
SYMMETRY SomeSymmetry
INVARIANT LimitKept
INVARIANT SlotInv
INVARIANT OvershootBounded
INVARIANT WalkMatchesArchive
INVARIANT UploadsAreChecked
INVARIANT ServicesAcceptRequests
INVARIANT ResultAsAsked
INVARIANT ReportAddsUp
PROPERTY CountsNeverFall
\* Requests end; the clock stops.
CHECK_DEADLOCK FALSE
