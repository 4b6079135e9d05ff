----------------------------- MODULE IsolatedRun -----------------------------
(* How a worker runs OCR and Office conversions in a process of their own      *)
(* (ocr.py, run_office_isolated and office_runner.py), and document conversion *)
(* in a thread (convert_documents), over the attempts at one job: a shutdown   *)
(* or a crash interrupts one, and the next starts on the same directory.       *)
EXTENDS Naturals, FiniteSets

CONSTANTS
    Kinds,         \* "ocr", "office" and "convert"
    MaxAttempts,
    MaxTools       \* bounds the pages or files that need Tesseract or LibreOffice

ASSUME RunAssumption ==
    /\ Kinds \subseteq {"ocr", "office", "convert"}
    /\ MaxAttempts \in Nat \ {0} /\ MaxTools \in Nat

VARIABLES
    kind,
    attempt,    \* the current attempt
    outcome,    \* per attempt: "none", "running", "succeeded", "failed", "timeout",
                \* "unexpected" or "exists" (INTERNAL_ERROR, the second because a
                \* profile was there), "stopped" or "crashed" (to be retried)
    alive,      \* the processes and threads: <<"runner", a>>, <<"tool", a>>
    left,       \* per attempt: the pages or files that still need a tool
    verdict,    \* per attempt: what the runner will report, "result", "refused" (the tool
                \* failed or took too long) or "error" (anything else)
    exit,       \* per attempt: "none", "zero", "error" or "killed" (by the kernel)
    response,   \* per attempt: "none", "partial" or what was reported
    disk        \* the temporary files and directories

runVars == <<kind, attempt, outcome, alive, left, verdict, exit, response, disk>>

Attempts == 1..MaxAttempts
Runner(a) == <<"runner", a>>
Tool(a) == <<"tool", a>>
Isolated == kind # "convert"

Request(a) == <<"request", a>>   \* .ocr-request-*, or .office-control-* and .office-result-*
Draft(a) == <<"draft", a>>       \* .office-result-*.tmp
Pages(a) == <<"pages", a>>       \* .ocr-pages-* or .office-convert-*
Profile(n) == <<"profile", n>>   \* lo-profile-<n>: of the job, whatever the attempt

RunInit ==
    /\ kind \in Kinds
    /\ attempt = 1
    /\ outcome = [a \in Attempts |-> "none"]
    /\ alive = {} /\ disk = {}
    /\ \E n \in 0..MaxTools : left = [a \in Attempts |-> n]
    /\ verdict = [a \in Attempts |-> "result"]
    /\ exit = [a \in Attempts |-> "none"]
    /\ response = [a \in Attempts |-> "none"]

-----------------------------------------------------------------------------
(* The runner, or the thread of a conversion                                   *)

CanRun(a) == Runner(a) \in alive /\ Tool(a) \notin alive

\* Nothing is reported yet, and nothing has failed.
AtWork(a) == verdict[a] = "result" /\ response[a] = "none" /\ Draft(a) \notin disk

\* A tool is started in a directory: of the page or file for Office, of all the
\* pages of a file for OCR, in lo-profile-<n> for a conversion.
StartTool(a) ==
    /\ CanRun(a) /\ left[a] > 0
    /\ Isolated => AtWork(a)
    /\ kind = "office" => Pages(a) \notin disk
    /\ Isolated \/ Profile(left[a]) \notin disk
    /\ alive' = alive \cup {Tool(a)}
    /\ disk' = disk \cup {IF Isolated THEN Pages(a) ELSE Profile(left[a])}
    /\ UNCHANGED <<kind, attempt, outcome, left, verdict, exit, response>>

\* What goes with the end of a tool: a conversion's profile always; OCR's directory
\* with every failure; Office's where LibreOffice refused or took too long, not when
\* subprocess.run raised anything else.  (Wrong: nothing after a failure.)
DirectoryKept(a, end) == IF ~Isolated /\ end = "ok" THEN {Profile(left[a])} ELSE {}
DirectoryUsed(a, end) ==
    IF ~Isolated THEN {Profile(left[a])} ELSE IF end = "refused" THEN {Pages(a)} ELSE {}

\* The end of a conversion's thread reaches the worker if that still waits.
ThreadEnds(a, result) ==
    /\ alive' = alive \ {Runner(a), Tool(a)}
    /\ outcome' = IF outcome[a] = "running" THEN [outcome EXCEPT ![a] = result] ELSE outcome

\* subprocess.run: the tool succeeds, fails or is killed at its own timeout, or the
\* call raises (for OCR: Raise).
EndTool(a, end) ==
    /\ Runner(a) \in alive /\ Tool(a) \in alive
    /\ end = "raised" => kind # "ocr"
    /\ disk' = disk \ DirectoryUsed(a, end)
    /\ left' = IF end = "ok" THEN [left EXCEPT ![a] = @ - 1] ELSE left
    /\ IF Isolated \/ end = "ok"
       THEN alive' = alive \ {Tool(a)} /\ UNCHANGED outcome
       ELSE ThreadEnds(a, IF end = "refused" THEN "failed" ELSE "unexpected")
    /\ verdict' = IF ~Isolated \/ end = "ok" THEN verdict
                  ELSE [verdict EXCEPT ![a] = IF end = "refused" THEN "refused" ELSE "error"]
    /\ UNCHANGED <<kind, attempt, exit, response>>

\* The converted file is parsed, or the last page of a file done: the directory goes.
CloseDirectory(a) ==
    /\ Isolated /\ CanRun(a) /\ AtWork(a)
    /\ Pages(a) \in disk
    /\ disk' = disk \ {Pages(a)}
    /\ UNCHANGED <<kind, attempt, outcome, alive, left, verdict, exit, response>>

ReadyToReport(a) ==
    CanRun(a) /\ (verdict[a] # "result" \/ (left[a] = 0 /\ Pages(a) \notin disk))

\* FileExistsError from profile.mkdir() is no JobFailure.
ProfileExists(a) ==
    /\ ~Isolated /\ CanRun(a) /\ left[a] > 0 /\ Profile(left[a]) \in disk
    /\ ThreadEnds(a, "exists")
    /\ UNCHANGED <<kind, attempt, left, verdict, exit, response, disk>>

\* The thread returns when every file is done, and may raise between two tools.
EndThread(a) ==
    /\ ~Isolated /\ CanRun(a)
    /\ \E result \in {"succeeded", "failed", "unexpected"} :
         ThreadEnds(a, result) /\ (result = "succeeded" => left[a] = 0)
    /\ UNCHANGED <<kind, attempt, left, verdict, exit, response, disk>>

\* office_runner writes beside the response and moves it there.
WritesInPlace == kind = "ocr"

BeginReport(a) ==
    /\ Isolated /\ ReadyToReport(a) /\ response[a] = "none" /\ Draft(a) \notin disk
    /\ IF WritesInPlace
       THEN response' = [response EXCEPT ![a] = "partial"] /\ UNCHANGED disk
       ELSE disk' = disk \cup {Draft(a)} /\ UNCHANGED response
    /\ UNCHANGED <<kind, attempt, outcome, alive, left, verdict, exit>>

EndReport(a) ==
    /\ Isolated /\ CanRun(a)
    /\ response[a] = "partial" \/ Draft(a) \in disk
    /\ response' = [response EXCEPT ![a] = verdict[a]]
    /\ disk' = disk \ {Draft(a)}
    /\ UNCHANGED <<kind, attempt, outcome, alive, left, verdict, exit>>

\* office_runner returns 2 or 3 with an error, ocr.py 0.
Exit(a) ==
    /\ Isolated /\ CanRun(a) /\ response[a] \in {"result", "refused", "error"}
    /\ alive' = alive \ {Runner(a)}
    /\ exit' = [exit EXCEPT ![a] =
                  IF kind = "office" /\ response[a] # "result" THEN "error" ELSE "zero"]
    /\ UNCHANGED <<kind, attempt, outcome, left, verdict, response, disk>>

\* An exception that ends the runner, with what it has not written.
Traceback(a) ==
    /\ alive' = alive \ {Runner(a)}
    /\ exit' = [exit EXCEPT ![a] = "error"]
    /\ UNCHANGED verdict

\* Where _libreoffice_convert raises but for its tool, before or after, the directory
\* it has made stays.
OfficeLeavings(a) == {disk} \cup (IF left[a] > 0 /\ Draft(a) \notin disk THEN {disk \cup {Pages(a)}} ELSE {})

\* Any other exception: office_runner reports it, unless the report's own write
\* raised; ocr.py reports a JobFailure and ends without a response on any other.
Raise(a) ==
    /\ Isolated /\ CanRun(a) /\ response[a] \in {"none", "partial"}
    /\ CASE kind = "office" /\ verdict[a] = "result" ->
              /\ verdict' = [verdict EXCEPT ![a] = "error"]
              /\ disk' \in OfficeLeavings(a)
              /\ UNCHANGED <<alive, exit>>
         [] kind = "office" /\ verdict[a] # "result" -> Traceback(a) /\ UNCHANGED disk
         [] kind = "ocr" ->
              /\ \/ Traceback(a)
                 \/ /\ response[a] = "none"
                    /\ verdict' = [verdict EXCEPT ![a] = "refused"]
                    /\ UNCHANGED <<alive, exit>>
              /\ disk' = disk \ {Pages(a)}
    /\ UNCHANGED <<kind, attempt, outcome, left, response>>

\* The kernel kills the runner alone: its tool, and its files, stay.
KillRunner(a) ==
    /\ Isolated /\ Runner(a) \in alive
    /\ alive' = alive \ {Runner(a)}
    /\ exit' = [exit EXCEPT ![a] = "killed"]
    /\ UNCHANGED <<kind, attempt, outcome, left, verdict, response, disk>>

EndOrphan(a) ==
    /\ Tool(a) \in alive /\ Runner(a) \notin alive
    /\ alive' = alive \ {Tool(a)}
    /\ UNCHANGED <<kind, attempt, outcome, left, verdict, exit, response, disk>>

-----------------------------------------------------------------------------
(* The worker                                                                  *)

Begin ==
    /\ outcome[attempt] = "none"
    /\ outcome' = [outcome EXCEPT ![attempt] = "running"]
    /\ alive' = alive \cup {Runner(attempt)}
    /\ disk' = IF Isolated THEN disk \cup {Request(attempt)} ELSE disk
    /\ UNCHANGED <<kind, attempt, left, verdict, exit, response>>

Finish(result) ==
    /\ outcome' = [outcome EXCEPT ![attempt] = result]
    /\ disk' = disk \ {Request(attempt)}

\* OCR's response counts after exit code 0 only.  (Wrong: like Office's, whenever
\* it is there.)
CountsWhenThere(a) == response[a] # "none"
Counts(a) == response[a] # "none" /\ (kind = "ocr" => exit[a] = "zero")

\* What run_ocr_isolated and run_office_isolated make of the end of the process.
\* A result may still be over the limit.  Only OCR's json.loads is unguarded.
Notice ==
    /\ outcome[attempt] = "running" /\ Isolated
    /\ exit[attempt] # "none"
    /\ \/ Finish(IF ~Counts(attempt) \/ response[attempt] \in {"refused", "error"} THEN "failed"
                 ELSE IF response[attempt] = "result" THEN "succeeded"
                 ELSE IF kind = "ocr" THEN "unexpected" ELSE "failed")
       \/ response[attempt] = "result" /\ Counts(attempt) /\ Finish("failed")
    /\ UNCHANGED <<kind, attempt, alive, left, verdict, exit, response>>

\* terminate_office_process, unless the process has ended.  (Wrong: the process and
\* not its group.)
KilledProcess(a) == {Runner(a)}
Killed(a) == IF Runner(a) \in alive THEN {Runner(a), Tool(a)} ELSE {}

\* The timeout of the run, for a conversion that of the job, which leaves the
\* thread.
Timeout ==
    /\ outcome[attempt] = "running"
    /\ Finish("timeout")
    /\ alive' = IF Isolated THEN alive \ Killed(attempt) ELSE alive
    /\ UNCHANGED <<kind, attempt, left, verdict, exit, response>>

\* CancelledError while the worker shuts down.
Stop ==
    /\ outcome[attempt] = "running" /\ attempt < MaxAttempts
    /\ Finish("stopped")
    /\ alive' = IF Isolated THEN alive \ Killed(attempt) ELSE alive
    /\ attempt' = attempt + 1
    /\ UNCHANGED <<kind, left, verdict, exit, response>>

\* The worker is the first process of its container: all the others die with it.
Crash ==
    /\ outcome[attempt] = "running" /\ attempt < MaxAttempts
    /\ outcome' = [outcome EXCEPT ![attempt] = "crashed"]
    /\ alive' = alive \ {Runner(attempt), Tool(attempt)}
    /\ attempt' = attempt + 1
    /\ UNCHANGED <<kind, left, verdict, exit, response, disk>>

\* The container of a worker that was shut down is gone at last.
ContainerEnds(a) ==
    /\ outcome[a] = "stopped" /\ {Runner(a), Tool(a)} \cap alive # {}
    /\ alive' = alive \ {Runner(a), Tool(a)}
    /\ UNCHANGED <<kind, attempt, outcome, left, verdict, exit, response, disk>>

RunStep(a) ==
    \/ StartTool(a) \/ (\E end \in {"ok", "refused", "raised"} : EndTool(a, end)) \/ CloseDirectory(a)
    \/ ProfileExists(a) \/ EndThread(a)
    \/ BeginReport(a) \/ EndReport(a) \/ Exit(a) \/ Raise(a) \/ KillRunner(a) \/ EndOrphan(a)
    \/ ContainerEnds(a)

RunNext == (\E a \in Attempts : RunStep(a)) \/ Begin \/ Notice \/ Timeout \/ Stop \/ Crash

-----------------------------------------------------------------------------
(* Properties                                                                  *)

Over(a) == outcome[a] \notin {"none", "running"}

\* When the worker has done with an isolated run, however that ended, nothing of it
\* still runs beside the next job, unless the kernel killed the runner alone.
NothingOutlivesRun ==
    \A a \in Attempts : Isolated /\ Over(a) /\ exit[a] # "killed" =>
        {Runner(a), Tool(a)} \cap alive = {}

\* A response is taken for a result only if the runner wrote the whole of it, after
\* its last tool; a runner that dies while it writes ends the job with an error of
\* its own, never with INTERNAL_ERROR.
ResponseReadWhole ==
    \A a \in Attempts : Isolated =>
        /\ outcome[a] \notin {"unexpected", "exists"}
        /\ outcome[a] = "succeeded" => verdict[a] = "result" /\ left[a] = 0

\* A run that came to an end by itself leaves no request, no draft of a response it
\* gave, no directory of OCR, and none of Office but after an exception that is
\* not the tool's; a conversion leaves no profile however it ends.
RunLeavesNoFiles ==
    \A a \in Attempts : exit[a] # "killed" =>
        /\ Isolated /\ outcome[a] \in {"succeeded", "failed"} =>
             /\ exit[a] # "none" /\ Request(a) \notin disk
             /\ response[a] # "none" => Draft(a) \notin disk
             /\ kind = "ocr" \/ response[a] \in {"result", "refused"} => Pages(a) \notin disk
        /\ ~Isolated /\ a = 1 /\ outcome[a] \in {"succeeded", "failed", "unexpected"} =>
             ~\E n \in 1..MaxTools : Profile(n) \in disk

\* A run leaves neither processes nor, where the code removes them, files behind.
RunLeavesNothing == NothingOutlivesRun /\ RunLeavesNoFiles

\* A job that a shutdown or a crash of its worker interrupted is tried again (the
\* test test_cancelled_error_relinquishes_claim_but_preserves_retry_input).  What
\* the first attempt left does not break the second.
RetryWorks == \A a \in Attempts : outcome[a] # "exists"
=============================================================================
