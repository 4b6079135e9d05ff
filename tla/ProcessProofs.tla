---------------------------- MODULE ProcessProofs ----------------------------
(* What processes, threads and scripts outside the job system do, for every     *)
(* number of them: isolated runs, the CPU image service, deployments.           *)
EXTENDS CpuServer, IsolatedRun, Deploy, Integers, FiniteSetTheorems, TLAPS

------------------------------------------------------------------------------
(* Isolated runs, for every number of attempts and of pages or files.         *)

RunSpec == RunInit /\ [][RunNext]_runVars

Outcomes ==
    {"none", "running", "succeeded", "failed", "timeout", "unexpected", "exists", "stopped", "crashed"}

Reports == {"result", "refused", "error"}

RunTypeOK ==
    /\ kind \in {"ocr", "office", "convert"}
    /\ attempt \in Attempts
    /\ outcome \in [Attempts -> Outcomes]
    /\ left \in [Attempts -> Int]
    /\ verdict \in [Attempts -> Reports]
    /\ exit \in [Attempts -> {"none", "zero", "error", "killed"}]
    /\ response \in [Attempts -> {"none", "partial"} \cup Reports]

\* An attempt begins when the one before was stopped or has crashed.
AttemptsInTurn ==
    \A a \in Attempts :
        /\ a < attempt <=> outcome[a] \in {"stopped", "crashed"}
        /\ a > attempt => outcome[a] = "none"
        /\ outcome[a] = "none" => Runner(a) \notin alive /\ Tool(a) \notin alive /\ exit[a] = "none"

\* An isolated run that is over, or whose runner has ended, has no process but
\* the tool of a runner that was killed.
RunnerAndTool(a) ==
    /\ Over(a) \/ exit[a] # "none" => Runner(a) \notin alive
    /\ outcome[a] = "running" /\ exit[a] = "none" => Runner(a) \in alive
    /\ Tool(a) \in alive => Runner(a) \in alive \/ exit[a] = "killed"

\* What the runner has written, and from what.
ReportOf(a) ==
    /\ Tool(a) \in alive => AtWork(a)
    /\ response[a] # "none" => Draft(a) \notin disk
    /\ Draft(a) \in disk \/ response[a] = "partial" => left[a] = 0 \/ verdict[a] # "result"
    /\ response[a] \in Reports => response[a] = verdict[a]
    /\ response[a] = "result" => left[a] = 0
    /\ kind = "ocr" => verdict[a] # "error"
    /\ kind = "ocr" /\ exit[a] = "zero" => response[a] \in Reports

\* The files of a run: a report comes after the last directory, but for the report
\* of an exception that left one.
FilesInUse(a) ==
    /\ outcome[a] = "none" => Pages(a) \notin disk
    /\ Draft(a) \in disk \/ response[a] # "none" => verdict[a] = "error" \/ Pages(a) \notin disk
    /\ verdict[a] = "refused" => Pages(a) \notin disk
    /\ kind = "ocr" /\ exit[a] = "error" => Pages(a) \notin disk
    /\ outcome[a] \in {"succeeded", "failed"} => exit[a] # "none" /\ Request(a) \notin disk

\* A conversion's thread has one profile at a time, and none when it ends.
ProfilesInUse ==
    /\ \A a \in Attempts :
         /\ exit[a] = "none"
         /\ outcome[a] \in {"succeeded", "failed", "unexpected", "exists"} =>
                Runner(a) \notin alive /\ Tool(a) \notin alive
         /\ Tool(a) \in alive => Runner(a) \in alive
    /\ attempt = 1 =>
         \A n \in Nat : Profile(n) \in disk => Tool(1) \in alive /\ n = left[1]

RunInv ==
    /\ RunTypeOK
    /\ AttemptsInTurn
    /\ Isolated => \A a \in Attempts :
         /\ RunnerAndTool(a) /\ ReportOf(a) /\ FilesInUse(a)
         /\ outcome[a] \notin {"unexpected", "exists"}
         /\ outcome[a] = "succeeded" => response[a] = "result"
    /\ ~Isolated => ProfilesInUse

-----------------------------------------------------------------------------

\* The names of processes and files tell them apart.
LEMMA Names ==
    ASSUME NEW a, NEW b
    PROVE  /\ Runner(a) # Tool(b) /\ (Runner(a) = Runner(b) => a = b) /\ (Tool(a) = Tool(b) => a = b)
           /\ Request(a) # Draft(b) /\ Request(a) # Pages(b) /\ Draft(a) # Pages(b)
           /\ Request(a) # Profile(b) /\ Draft(a) # Profile(b) /\ Pages(a) # Profile(b)
           /\ (Request(a) = Request(b) => a = b) /\ (Draft(a) = Draft(b) => a = b)
           /\ (Pages(a) = Pages(b) => a = b) /\ (Profile(a) = Profile(b) => a = b)
BY DEF Runner, Tool, Request, Draft, Pages, Profile

LEMMA RunInitHolds == RunInit => RunInv
BY RunAssumption
DEF RunInit, RunInv, RunTypeOK, Outcomes, Reports, Attempts, AttemptsInTurn, RunnerAndTool, ReportOf,
    AtWork, FilesInUse, ProfilesInUse, Over, Isolated

LEMMA StartToolHolds ==
    ASSUME RunInv, NEW b \in Attempts, StartTool(b)
    PROVE  RunInv'
<1> USE RunAssumption, Names DEF RunInv, RunTypeOK, Attempts, Isolated, StartTool, CanRun, AtWork, Over
<1>1. RunTypeOK' /\ AttemptsInTurn'
    BY DEF AttemptsInTurn
<1>2. ASSUME Isolated, NEW a \in Attempts
      PROVE  RunnerAndTool(a)' /\ ReportOf(a)' /\ FilesInUse(a)'
    BY <1>2 DEF AttemptsInTurn, RunnerAndTool, ReportOf, AtWork, FilesInUse
<1>3. ASSUME ~Isolated
      PROVE  ProfilesInUse'
    <2>1. attempt = 1 => b = 1
        BY <1>3 DEF AttemptsInTurn
    <2>2. attempt = 1 => \A n \in Nat : Profile(n) \notin disk
        BY <1>3, <2>1 DEF ProfilesInUse
    <2> QED BY <1>3, <2>1, <2>2, ZenonT(30), ZenonT(60) DEF ProfilesInUse
<1> QED BY <1>1, <1>2, <1>3

LEMMA EndToolHolds ==
    ASSUME RunInv, NEW b \in Attempts, NEW end \in {"ok", "refused", "raised"}, EndTool(b, end)
    PROVE  RunInv'
<1> USE RunAssumption, Names
    DEF RunInv, RunTypeOK, Outcomes, Reports, Attempts, Isolated, EndTool, DirectoryUsed, ThreadEnds, AtWork, Over
<1>1. RunTypeOK' /\ AttemptsInTurn'
    <2>1. CASE UNCHANGED outcome
        BY <2>1 DEF AttemptsInTurn
    <2>2. CASE ThreadEnds(b, IF end = "refused" THEN "failed" ELSE "unexpected") /\ UNCHANGED <<left, verdict>>
        BY <2>2 DEF AttemptsInTurn
    <2> QED BY <2>1, <2>2
<1>2. ASSUME Isolated, NEW a \in Attempts
      PROVE  RunnerAndTool(a)' /\ ReportOf(a)' /\ FilesInUse(a)'
    BY <1>2 DEF RunnerAndTool, ReportOf, FilesInUse
<1>3. ASSUME ~Isolated
      PROVE  ProfilesInUse'
    <2>1. attempt = 1 => b = 1
        BY <1>3 DEF AttemptsInTurn
    <2>2. attempt = 1 => \A n \in Nat : Profile(n) \notin disk'
        BY <1>3, <2>1 DEF ProfilesInUse
    <2> QED BY <1>3, <2>1, <2>2 DEF ProfilesInUse
<1> QED BY <1>1, <1>2, <1>3

\* The end of a conversion's thread.
LEMMA ThreadHolds ==
    ASSUME RunInv, NEW b \in Attempts, ProfileExists(b) \/ EndThread(b)
    PROVE  RunInv'
<1> USE RunAssumption, Names DEF RunInv, Isolated
<1>1. PICK result \in {"unexpected", "exists", "succeeded", "failed"} :
          /\ ThreadEnds(b, result) /\ ~Isolated /\ CanRun(b)
          /\ UNCHANGED <<kind, attempt, left, verdict, exit, response, disk>>
    BY DEF ProfileExists, EndThread
<1>2. RunTypeOK' /\ AttemptsInTurn'
    BY <1>1 DEF RunTypeOK, Outcomes, Attempts, AttemptsInTurn, ThreadEnds
<1>3. ProfilesInUse'
    <2>1. attempt = 1 => b = 1
        BY <1>1 DEF AttemptsInTurn, RunTypeOK, Attempts, CanRun
    <2>2. attempt = 1 => \A n \in Nat : Profile(n) \notin disk
        BY <1>1, <2>1 DEF ProfilesInUse, CanRun
    <2> QED BY <1>1, <2>1, <2>2 DEF RunTypeOK, ProfilesInUse, ThreadEnds
<1> QED BY <1>1, <1>2, <1>3

\* The report and the end of an isolated runner, or of what it left.
LEMMA RunnerHolds ==
    ASSUME RunInv, NEW b \in Attempts,
           CloseDirectory(b) \/ BeginReport(b) \/ EndReport(b) \/ Exit(b) \/ KillRunner(b)
    PROVE  RunInv'
<1> USE RunAssumption, Names DEF RunInv, Isolated, Over
<1>1. Isolated /\ Isolated' /\ UNCHANGED <<kind, attempt, outcome, left>>
    BY DEF CloseDirectory, BeginReport, EndReport, Exit, KillRunner
<1>2. RunTypeOK' /\ AttemptsInTurn'
    BY DEF CloseDirectory, BeginReport, EndReport, Exit, KillRunner, CanRun, RunTypeOK, Reports,
           AttemptsInTurn
<1>3. ASSUME NEW a \in Attempts
      PROVE  RunnerAndTool(a)' /\ ReportOf(a)' /\ FilesInUse(a)'
    <2> USE DEF RunTypeOK, Reports, AtWork, RunnerAndTool, ReportOf, FilesInUse
    <2>1. CASE BeginReport(b)
        BY <1>1, <2>1 DEF BeginReport, ReadyToReport, CanRun, WritesInPlace
    <2>2. CASE EndReport(b)
        BY <1>1, <2>2 DEF EndReport, CanRun
    <2>3. CASE Exit(b)
        BY <1>1, <2>3 DEF Exit, CanRun
    <2>4. CASE CloseDirectory(b)
        BY <1>1, <2>4 DEF CloseDirectory, CanRun
    <2>5. CASE KillRunner(b)
        BY <1>1, <2>5 DEF KillRunner
    <2> QED BY <2>1, <2>2, <2>3, <2>4, <2>5
<1>4. ASSUME NEW a \in Attempts
      PROVE  outcome'[a] \notin {"unexpected", "exists"} /\ (outcome'[a] = "succeeded" => response'[a] = "result")
    BY <1>1 DEF CloseDirectory, BeginReport, EndReport, Exit, KillRunner, RunnerAndTool, RunTypeOK, CanRun
<1> QED BY <1>1, <1>2, <1>3, <1>4

\* An exception of an isolated runner.
LEMMA RaiseHolds ==
    ASSUME RunInv, NEW b \in Attempts, Raise(b)
    PROVE  RunInv'
<1> USE RunAssumption, Names DEF RunInv, Isolated, Over
<1>1. Isolated /\ Isolated' /\ UNCHANGED <<kind, attempt, outcome, left, response>>
    BY DEF Raise
<1>2. CanRun(b) /\ response[b] \in {"none", "partial"}
    BY DEF Raise
<1>3. kind \in {"ocr", "office"}
    BY <1>1 DEF RunTypeOK
<1> DEFINE Holding == RunTypeOK' /\ AttemptsInTurn'
                      /\ \A a \in Attempts : RunnerAndTool(a)' /\ ReportOf(a)' /\ FilesInUse(a)'
<1> USE DEF RunTypeOK, Reports, AtWork, CanRun, AttemptsInTurn, RunnerAndTool, ReportOf, FilesInUse
<1>4. ASSUME kind = "office", verdict[b] = "result", verdict' = [verdict EXCEPT ![b] = "error"],
             UNCHANGED <<alive, exit>>, disk' = disk \/ (disk' = disk \cup {Pages(b)} /\ Draft(b) \notin disk)
      PROVE  Holding
    BY <1>1, <1>2, <1>4
<1>5. ASSUME Traceback(b),
             \/ kind = "office" /\ disk' = disk
             \/ kind = "ocr" /\ disk' = disk \ {Pages(b)}
      PROVE  Holding
    BY <1>1, <1>2, <1>5 DEF Traceback
<1>6. ASSUME kind = "ocr", response[b] = "none", verdict' = [verdict EXCEPT ![b] = "refused"],
             UNCHANGED <<alive, exit>>, disk' = disk \ {Pages(b)}
      PROVE  Holding
    BY <1>1, <1>2, <1>6
<1> HIDE DEF Holding, RunInv, RunTypeOK, Reports, AtWork, AttemptsInTurn, RunnerAndTool, ReportOf, FilesInUse
<1>7. ASSUME kind = "office", verdict[b] = "result"
      PROVE  Holding
    BY <1>4, <1>7 DEF Raise, OfficeLeavings
<1>8. ASSUME kind = "office", verdict[b] # "result"
      PROVE  Holding
    BY <1>5, <1>8 DEF Raise
<1>9. ASSUME kind = "ocr"
      PROVE  Holding
    BY <1>5, <1>6, <1>9 DEF Raise, CanRun
<1>10. Holding
    BY <1>3, <1>7, <1>8, <1>9
<1>11. \A a \in Attempts : outcome[a] \notin {"unexpected", "exists"} /\ (outcome[a] = "succeeded" => response[a] = "result")
    BY <1>1 DEF RunInv
<1> QED BY <1>1, <1>10, <1>11 DEF Holding, RunInv

\* What becomes of the processes of a killed runner, and of a stopped container.
LEMMA LeftoversHold ==
    ASSUME RunInv, NEW b \in Attempts, EndOrphan(b) \/ ContainerEnds(b)
    PROVE  RunInv'
<1> USE RunAssumption, Names DEF RunInv, Isolated, Over, EndOrphan, ContainerEnds
<1>1. RunTypeOK' /\ AttemptsInTurn'
    BY DEF RunTypeOK, AttemptsInTurn
<1>2. ASSUME Isolated, NEW a \in Attempts
      PROVE  RunnerAndTool(a)' /\ ReportOf(a)' /\ FilesInUse(a)'
    BY <1>2 DEF RunTypeOK, RunnerAndTool, ReportOf, AtWork, FilesInUse
<1>3. ASSUME ~Isolated
      PROVE  ProfilesInUse'
    BY <1>3 DEF RunTypeOK, AttemptsInTurn, ProfilesInUse, Attempts
<1> QED BY <1>1, <1>2, <1>3

LEMMA BeginHolds ==
    ASSUME RunInv, Begin
    PROVE  RunInv'
<1> USE RunAssumption, Names DEF RunInv, RunTypeOK, Isolated, Over, Begin
<1>1. RunTypeOK' /\ AttemptsInTurn'
    BY DEF Outcomes, AttemptsInTurn
<1>2. ASSUME Isolated, NEW a \in Attempts
      PROVE  RunnerAndTool(a)' /\ ReportOf(a)' /\ FilesInUse(a)'
    BY <1>2 DEF AttemptsInTurn, RunnerAndTool, ReportOf, AtWork, FilesInUse
<1>3. ASSUME ~Isolated
      PROVE  ProfilesInUse'
    BY <1>3 DEF AttemptsInTurn, ProfilesInUse, Attempts
<1> QED BY <1>1, <1>2, <1>3

LEMMA NoticeHolds ==
    ASSUME RunInv, Notice
    PROVE  RunInv'
<1> USE RunAssumption, Names DEF RunInv, RunTypeOK, Isolated, Over, Notice, Finish, Counts
<1>1. RunTypeOK' /\ AttemptsInTurn'
    BY DEF Outcomes, AttemptsInTurn
<1>2. ASSUME NEW a \in Attempts
      PROVE  /\ RunnerAndTool(a)' /\ ReportOf(a)' /\ FilesInUse(a)'
             /\ outcome'[a] \notin {"unexpected", "exists"}
             /\ outcome'[a] = "succeeded" => response'[a] = "result"
    BY DEF RunnerAndTool, ReportOf, Reports, AtWork, FilesInUse
<1> QED BY <1>1, <1>2

\* The worker gives up waiting, at a timeout or a shutdown, or dies.
LEMMA GivingUpHolds ==
    ASSUME RunInv, Timeout \/ Stop \/ Crash
    PROVE  RunInv'
<1> USE RunAssumption, Names DEF RunInv, RunTypeOK, Attempts, Isolated, Over, Timeout, Stop, Crash, Finish, Killed
<1>1. RunTypeOK'
    <2>1. attempt' \in Attempts
        OBVIOUS
    <2> QED BY <2>1 DEF Outcomes
<1>2. AttemptsInTurn'
    BY DEF AttemptsInTurn
<1>3. ASSUME Isolated, NEW a \in Attempts
      PROVE  RunnerAndTool(a)' /\ ReportOf(a)' /\ FilesInUse(a)'
    <2> USE DEF RunnerAndTool, ReportOf, AtWork, FilesInUse
    <2>1. CASE Timeout
        BY <1>3, <2>1
    <2>2. CASE Stop
        BY <1>3, <2>2
    <2>3. CASE Crash
        BY <1>3, <2>3
    <2> QED BY <2>1, <2>2, <2>3
<1>4. ASSUME ~Isolated
      PROVE  ProfilesInUse'
    BY <1>4 DEF ProfilesInUse
<1> QED BY <1>1, <1>2, <1>3, <1>4

\* No step of a runner, a thread or the worker breaks the invariant.
LEMMA RunStepHolds ==
    ASSUME RunInv, [RunNext]_runVars
    PROVE  RunInv'
<1>1. CASE UNCHANGED runVars
    BY <1>1
    DEF runVars, RunInv, RunTypeOK, AttemptsInTurn, RunnerAndTool, ReportOf, AtWork, FilesInUse,
        ProfilesInUse, Over, Isolated
<1> QED
    BY <1>1, StartToolHolds, EndToolHolds, ThreadHolds, RunnerHolds, RaiseHolds, LeftoversHold,
       BeginHolds, NoticeHolds, GivingUpHolds
    DEF RunNext, RunStep

\* The invariant of runs and conversions, over all attempts at a job.
THEOREM RunInvHolds == RunSpec => []RunInv
BY RunInitHolds, RunStepHolds, PTL DEF RunSpec

\* A response is taken for a result only if it was written whole and after the last
\* tool, whatever ends the runner, and a half-written one is never parsed.
THEOREM ResponsesAreReadWhole == RunSpec => []ResponseReadWhole
<1>1. RunInv => ResponseReadWhole
    BY DEF RunInv, ResponseReadWhole, ReportOf, Reports
<1> QED BY <1>1, RunInvHolds, PTL

\* When the worker has done with a run, no process of it remains beside the next job;
\* if it ended by itself neither does its request, a draft of its response, a profile,
\* or a directory of OCR, nor Office's if it succeeded or LibreOffice refused.
\* All but for a runner that the kernel killed alone.
THEOREM NothingIsLeft == RunSpec => []RunLeavesNothing
<1>1. ASSUME RunInv
      PROVE  RunLeavesNothing
    <2> USE RunAssumption DEF RunInv, RunTypeOK
    <2>1. NothingOutlivesRun
        BY <1>1 DEF NothingOutlivesRun, RunnerAndTool, Over
    <2>2. ASSUME NEW a \in Attempts, outcome[a] \in {"succeeded", "failed"}, exit[a] # "killed", Isolated
          PROVE  /\ exit[a] # "none" /\ Request(a) \notin disk
                 /\ response[a] # "none" => Draft(a) \notin disk
                 /\ kind = "ocr" \/ response[a] \in {"result", "refused"} => Pages(a) \notin disk
        BY <1>1, <2>2 DEF FilesInUse, ReportOf, Reports
    <2>3. ASSUME 1 \in Attempts, outcome[1] \in {"succeeded", "failed", "unexpected"}, ~Isolated
          PROVE  ~\E n \in 1..MaxTools : Profile(n) \in disk
        <3>1. attempt = 1
            BY <1>1, <2>3, SMTT(30) DEF AttemptsInTurn, Attempts
        <3>2. Tool(1) \notin alive
            BY <1>1, <2>3 DEF ProfilesInUse
        <3> QED BY <1>1, <2>3, <3>1, <3>2 DEF ProfilesInUse
    <2>4. RunLeavesNoFiles
        BY <2>2, <2>3 DEF RunLeavesNoFiles
    <2> QED BY <2>1, <2>4 DEF RunLeavesNothing
<1> QED BY <1>1, RunInvHolds, PTL

------------------------------------------------------------------------------
(* The CPU image service, for every number of threads and every set of presets.*)

CpuSpec == CpuInit /\ [][CpuNext]_cpuVars

\* The steps under LOCK.
Inside == {"make room", "load", "use"}

CpuTypeOK ==
    /\ asks \in [Threads -> Presets \cup {"enhance"}]
    /\ at \in [Threads -> {"idle", "import", "forward", "open", "acquire"} \cup Inside]
    /\ lock \in Threads \cup {NoThread}
    /\ sessions \subseteq Presets
    /\ restorer \in BOOLEAN

\* The thread inside is the one that holds LOCK.
OnlyHolderInside == \A t \in Threads : at[t] \in Inside <=> lock = t

\* One background model or the restoration model is loaded; nothing is while a
\* thread loads a model.
RoomIsMade ==
    /\ \A p, q \in sessions : p = q
    /\ restorer => sessions = {}
    /\ \A t \in Threads : at[t] = "load" => sessions = {} /\ ~restorer

CpuInv == CpuTypeOK /\ OnlyHolderInside /\ RoomIsMade /\ ModelStaysInUse

LEMMA CpuInitHolds == CpuInit => CpuInv
BY CpuAssumption DEF CpuInit, CpuInv, CpuTypeOK, Inside, OnlyHolderInside, RoomIsMade, ModelStaysInUse

LEMMA EnhanceMakesRoomHolds ==
    ASSUME CpuInv, NEW t \in Threads, EnhanceMakesRoom(t)
    PROVE  CpuInv'
BY CpuAssumption
   DEF CpuInv, CpuTypeOK, Inside, OnlyHolderInside, RoomIsMade, ModelStaysInUse,
       EnhanceMakesRoom, Goto, Reply, ReplyUnlocked, Unlock

LEMMA ProcessMakesRoomHolds ==
    ASSUME CpuInv, NEW t \in Threads, ProcessMakesRoom(t)
    PROVE  CpuInv'
<1>1. /\ at[t] = "make room" /\ asks[t] \in Presets
      /\ UNCHANGED <<remote, asks, module, importer>>
    BY DEF ProcessMakesRoom
<1>2. CASE ReplyUnlocked(t, "half") /\ UNCHANGED <<sessions, restorer>>
    BY <1>1, <1>2, CpuAssumption
       DEF CpuInv, CpuTypeOK, Inside, OnlyHolderInside, RoomIsMade, ModelStaysInUse,
           Reply, ReplyUnlocked, Unlock
<1>3. CASE /\ restorer' = FALSE
           /\ sessions' = SessionsFor(sessions, asks[t])
           /\ Goto(t, IF asks[t] \in sessions THEN "use" ELSE "load")
           /\ UNCHANGED lock
    BY <1>1, <1>3, CpuAssumption
       DEF CpuInv, CpuTypeOK, Inside, OnlyHolderInside, RoomIsMade, ModelStaysInUse,
           SessionsFor, Goto
<1> QED BY <1>2, <1>3 DEF ProcessMakesRoom

LEMMA LoadHolds ==
    ASSUME CpuInv, NEW t \in Threads, Load(t)
    PROVE  CpuInv'
BY CpuAssumption
  , ZenonT(30) DEF CpuInv, CpuTypeOK, Inside, OnlyHolderInside, RoomIsMade, ModelStaysInUse,
       Load, Goto, Reply, ReplyUnlocked, Unlock

LEMMA UseHolds ==
    ASSUME CpuInv, NEW t \in Threads, Use(t)
    PROVE  CpuInv'
BY CpuAssumption
  , ZenonT(30) DEF CpuInv, CpuTypeOK, Inside, OnlyHolderInside, RoomIsMade, ModelStaysInUse,
       Use, Reply, ReplyUnlocked, Unlock

\* No step of a thread breaks the invariant.
LEMMA CpuStepHolds ==
    ASSUME CpuInv, [CpuNext]_cpuVars
    PROVE  CpuInv'
<1> USE CpuAssumption DEF CpuInv, CpuTypeOK, Inside, OnlyHolderInside, RoomIsMade, ModelStaysInUse
<1>1. ASSUME NEW t \in Threads, NEW what \in Presets \cup {"enhance"}, Receive(t, what)
      PROVE  CpuInv'
    <2>1. PICK step \in {"import", "forward", "open"} : at' = [at EXCEPT ![t] = step]
        <3>1. CASE what = "enhance"
            BY <1>1, <3>1 DEF Receive, Goto
        <3>2. CASE what # "enhance" /\ remote /\ what \in Presets \ {Fast}
            BY <1>1, <3>2 DEF Receive, Goto
        <3>3. CASE what # "enhance" /\ ~(remote /\ what \in Presets \ {Fast})
            BY <1>1, <3>3 DEF Receive, Goto
        <3> QED BY <3>1, <3>2, <3>3
    <2>2. /\ at[t] = "idle" /\ asks' = [asks EXCEPT ![t] = what]
          /\ UNCHANGED <<lock, sessions, restorer>>
        BY <1>1 DEF Receive
    <2>3. CpuTypeOK'
        BY <2>1, <2>2
    <2>4. OnlyHolderInside'
        BY <2>1, <2>2
    <2>5. RoomIsMade' /\ ModelStaysInUse'
        BY <2>1, <2>2
    <2> QED BY <2>3, <2>4, <2>5
<1>2. ASSUME UNCHANGED <<asks, at, lock, sessions, restorer>>
      PROVE  CpuInv'
    BY <1>2
<1>3. ASSUME NEW t \in Threads, at[t] \in {"import", "forward", "open"},
             NEW step \in {"idle", "acquire"}, at' = [at EXCEPT ![t] = step],
             UNCHANGED <<asks, lock, sessions, restorer>>
      PROVE  CpuInv'
    BY <1>3
<1>4. ASSUME NEW t \in Threads, CheckEnhance(t) \/ Forward(t) \/ Open(t)
      PROVE  CpuInv'
    BY <1>3, <1>4 DEF CheckEnhance, Forward, Open, Goto, Reply
<1>5. ASSUME NEW t \in Threads, Acquire(t)
      PROVE  CpuInv'
    BY <1>5 DEF Acquire, Free, Goto
<1> HIDE DEF CpuInv
<1> QED
    BY <1>1, <1>2, <1>4, <1>5, EnhanceMakesRoomHolds, ProcessMakesRoomHolds, LoadHolds, UseHolds
    DEF CpuNext, Work, BeginImport, EndImport, cpuVars

\* At most one of a background model, the restoration model and a model being
\* loaded: what the three parts of the invariant say as one sum.
LEMMA SumIsAtMostOne ==
    ASSUME CpuInv
    PROVE  OneModelInMemory
<1> DEFINE loading == {t \in Threads : at[t] = "load"}
<1>1. sessions = {} \/ \E p \in sessions : sessions = {p}
    BY DEF CpuInv, RoomIsMade
<1>2. loading = {} \/ \E t \in loading : loading = {t}
    BY DEF CpuInv, OnlyHolderInside, Inside
<1>3. Cardinality({}) = 0 /\ \A p : Cardinality({p}) = 1
    BY FS_EmptySet, FS_Singleton
<1>4. loading # {} => sessions = {} /\ ~restorer
    BY DEF CpuInv, RoomIsMade
<1>5. restorer => sessions = {}
    BY DEF CpuInv, RoomIsMade
<1>6. Cardinality(sessions) = 0 \/ (Cardinality(sessions) = 1 /\ ~restorer /\ loading = {})
    BY <1>1, <1>3, <1>4, <1>5
<1>7. Cardinality(loading) = 0 \/ (Cardinality(loading) = 1 /\ ~restorer /\ sessions = {})
    BY <1>2, <1>3, <1>4
<1> HIDE DEF loading
<1>8. Cardinality(sessions) + (IF restorer THEN 1 ELSE 0) + Cardinality(loading) <= 1
    BY <1>3, <1>6, <1>7
<1> QED BY <1>8 DEF OneModelInMemory, loading

\* However the threads interleave and whatever fails, the invariant of the service holds.
THEOREM CpuInvHolds == CpuSpec => []CpuInv
BY CpuInitHolds, CpuStepHolds, PTL DEF CpuSpec

\* The threads take turns with the models: one model at most is in memory or on its
\* way there, a thread's model stays while it runs, and no error keeps LOCK.
THEOREM ModelsTakeTurnsHolds == CpuSpec => []ModelsTakeTurns
<1>1. CpuInv => ModelsTakeTurns
    BY SumIsAtMostOne
    DEF ModelsTakeTurns, NoLockIsLeft, CpuInv, CpuTypeOK, OnlyHolderInside, Inside
<1> QED BY <1>1, CpuInvHolds, PTL

------------------------------------------------------------------------------
(* Deployments, for every set of releases and every number of scripts.        *)

DeploySpec == DeployInit /\ [][DeployNext]_deployVars

Steps == {"over", "build", "up", "health", "previous", "current", "clean", "restore", "old health"}
Scripts == [kind : {"none", "activate", "rollback"}, step : Steps,
            target : Releases \cup {NoRelease}, old : Releases \cup {NoRelease}]
Live == {current} \ {NoRelease}

\* What a script has found and done so far.  A build has not touched the containers;
\* until the links are set `current' is what the script found; a target that answered,
\* or an old stack that was started again, has all the containers.
DeployInv ==
    /\ script \in Scripts
    /\ current \in Releases \cup {NoRelease}
    /\ ~At("over") => script.target \in Releases
    /\ script.step \notin {"over", "clean"} => script.old = current
    /\ script.step \in {"over", "build"} /\ ended = "well" => containers = Live
    /\ script.step \in {"health", "previous", "current", "clean"} => containers = {script.target}
    /\ At("clean") => current = script.target
    /\ At("old health") => containers = {script.old} /\ script.old # NoRelease

\* Before the first release nothing is linked and nothing runs.
LEMMA InitHolds == DeployInit => DeployInv
BY DEF DeployInit, DeployInv, Scripts, Steps, Live, At

\* compose up: the release alone, or a mixture and a failure.
LEMMA UpHolds ==
    ASSUME DeployInv, At("up"), Up
    PROVE  DeployInv'
<1>1. CASE GoOn("health") /\ containers' = {script.target} /\ UNCHANGED ended
    BY <1>1 DEF DeployInv, Up, Scripts, Steps, Live, At, GoOn
<1>2. CASE GoOn("restore") /\ UNCHANGED ended
    BY <1>2 DEF DeployInv, Up, Scripts, Steps, Live, At, GoOn
<1> QED BY <1>1, <1>2 DEF Up, ComposeUp

LEMMA RestoreHolds ==
    ASSUME DeployInv, Restore
    PROVE  DeployInv'
<1>1. script.step = "restore" /\ script.old = current /\ UNCHANGED current
    BY DEF DeployInv, Restore, At
<1>2. CASE Ends("badly")
    BY <1>1, <1>2 DEF DeployInv, Scripts, Steps, Live, At, Ends, GoOn
<1>3. CASE script.old = NoRelease /\ containers' = DownFirst /\ Ends("well")
    BY <1>1, <1>3 DEF DeployInv, Scripts, Steps, Live, At, Ends, GoOn, DownFirst
<1>4. CASE script.old # NoRelease /\ GoOn("old health") /\ containers' = {script.old} /\ UNCHANGED ended
    BY <1>1, <1>4 DEF DeployInv, Scripts, Steps, Live, At, Ends, GoOn
<1> QED BY <1>2, <1>3, <1>4 DEF Restore, ComposeUp

\* No step of a script, and no end of one, breaks the invariant.
LEMMA StepHolds ==
    ASSUME DeployInv, [DeployNext]_deployVars
    PROVE  DeployInv'
<1> USE DeployAssumption
<1>1. ASSUME NEW task \in {"activate", "rollback"}, NEW target \in Releases, Start(task, target)
      PROVE  DeployInv'
    BY <1>1 DEF DeployInv, Start, Scripts, Steps, Live, At
<1>2. CASE Build
    BY <1>2 DEF DeployInv, Build, Scripts, Steps, Live, At, GoOn
<1>3. CASE Up
    BY <1>3, UpHolds DEF Up
<1>4. CASE Health
    BY <1>4 DEF DeployInv, Health, Scripts, Steps, Live, At, GoOn
<1>5. CASE LinkPrevious
    BY <1>5 DEF DeployInv, LinkPrevious, Scripts, Steps, Live, At, GoOn
<1>6. CASE LinkCurrent
    BY <1>6 DEF DeployInv, LinkCurrent, AfterLinks, Scripts, Steps, Live, At, GoOn, Ends
<1>7. CASE CleanUp
    BY <1>7 DEF DeployInv, CleanUp, Scripts, Steps, Live, At, GoOn, Ends
<1>8. CASE Restore
    BY <1>8, RestoreHolds
<1>9. CASE OldHealth
    BY <1>9 DEF DeployInv, OldHealth, Scripts, Steps, Live, At, GoOn, Ends
<1>10. CASE Kill
    BY <1>10 DEF DeployInv, Kill, Scripts, Steps, Live, At, GoOn, Ends
<1>11. CASE UNCHANGED deployVars
    BY <1>11 DEF DeployInv, deployVars, Scripts, Steps, Live, At
<1> QED
    BY <1>1, <1>2, <1>3, <1>4, <1>5, <1>6, <1>7, <1>8, <1>9, <1>10, <1>11 DEF DeployNext

LEMMA DeployInvHolds == DeploySpec => []DeployInv
BY InitHolds, StepHolds, PTL DEF DeploySpec

\* Unless a script was killed or could not restore what it found, the containers are
\* those of the release that `current' names, however many scripts have failed before.
THEOREM LiveReleaseHolds == DeploySpec => []LiveReleaseRuns
<1>1. DeployInv => LiveReleaseRuns
    BY DEF DeployInv, LiveReleaseRuns, Live, At
<1> QED BY <1>1, DeployInvHolds, PTL

\* No step removes an image of the live release, of the previous one or of a container.
THEOREM ImagesAreRetained == DeploySpec => ImagesRetained
<1> DEFINE Kept2 == {current, previous, current', previous'} \cup containers
<1>1. ASSUME DeployInv, [DeployNext]_deployVars
      PROVE  (images \ images') \cap Kept2 = {}
  <2>1. CASE CleanUp
      BY <1>1, <2>1 DEF DeployInv, CleanUp, Kept, At
  <2>2. CASE images \subseteq images'
      BY <2>2
  <2>3. CASE ~CleanUp
      BY <1>1, <2>2, <2>3 DEF DeployNext, deployVars, Start, Build, Up, ComposeUp, Health, LinkPrevious,
         LinkCurrent, Restore, OldHealth, Kill
  <2> QED BY <2>1, <2>3
<1>2. DeployInv /\ [DeployNext]_deployVars =>
        [(images \ images') \cap ({current, previous, current', previous'} \cup containers) = {}]_deployVars
    BY <1>1
<1> QED BY <1>2, DeployInvHolds, PTL DEF DeploySpec, ImagesRetained
==============================================================================
