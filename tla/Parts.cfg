SPECIFICATION Spec
CONSTANTS
    Parts = {"cpu", "run", "tracker", "explorer", "deploy"}
    Threads = {t1, t2}
    Presets = {fast, quality, portrait}
    Fast = fast
    NoThread = none
    Kinds = {"ocr", "office", "convert"}
    MaxAttempts = 2
    MaxTools = 2
    Tools = {upscale, convert}
    Tasks = {j1, j2}
    ImageTasks = {j1}
    NoTask = none
    MaxCalls = 2
    MaxFailures = 1
    MaxMoves = 1
    Models = {m1, m2}
    Previews = {p1, p2, p3}
    NoPreview = none
    MaxGeneration = 2
    Releases = {a, b, c}
    NoRelease = none
    MaxScripts = 4
INVARIANT ModelsTakeTurns
INVARIANT RunLeavesNothing
INVARIANT ResponseReadWhole
INVARIANT ToolsShowTheirTasks
INVARIANT OvertakenIsHarmless
INVARIANT LiveReleaseRuns
PROPERTY EndIsShown
PROPERTY PreviewIsShown
PROPERTY ImagesRetained
\* Jobs, tasks and scripts end.
CHECK_DEADLOCK FALSE
