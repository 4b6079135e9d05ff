------------------------------ MODULE WebTracker ------------------------------
(* The page (frontend/src/App.tsx): one task per tool, followed by polls that *)
(* overlap, over renders, changes of the tool and reloads.  React applies a    *)
(* state update later: what polls and buttons use is the state last rendered.  *)
EXTENDS Naturals, Sequences, FiniteSets, FiniteSetsExt, SequencesExt

CONSTANTS
    Tools,        \* the tabs
    Tasks,        \* the jobs
    ImageTasks,   \* those whose result is one image
    NoTask,
    MaxCalls,     \* bound: requests in flight
    MaxFailures,  \* bound: requests that fail for no reason of the job's
    MaxMoves      \* bound: changes of the tool and reloads

ASSUME TrackerAssumption ==
    /\ IsFiniteSet(Tools) /\ ImageTasks \subseteq Tasks /\ NoTask \notin Tasks
    /\ {MaxCalls, MaxFailures, MaxMoves} \subseteq Nat

VARIABLES
    server,     \* the status of each job there: "none" before, "gone" in the end;
                \* "running" is queued too, "succeeded" is failed too
    shown,      \* trackedJobs with every update made so far
    view,       \* trackedJobs as rendered: trackedJobsRef
    tool,       \* tab
    toolRef,    \* tab as rendered: tabRef
    calls,      \* getJob and fetchResult in flight
    fetching,   \* previewFetchesRef
    urls,       \* the object URLs of results that are not revoked
    post,       \* submit: the tool it is for, or NoTask
    failures, moves

trackerVars ==
    <<server, shown, view, tool, toolRef, calls, fetching, urls, post, failures, moves>>

NoEntry == [id |-> NoTask]
Entry(j) ==
    [id |-> j, status |-> "pending", error |-> FALSE, url |-> 0, seen |-> FALSE]
Unrendered == shown # view \/ tool # toolRef

TrackerInit ==
    /\ server = [j \in Tasks |-> "none"]
    /\ shown = [t \in Tools |-> NoEntry]
    /\ view = shown
    /\ tool \in Tools /\ toolRef = tool
    /\ calls = <<>>
    /\ fetching = {} /\ urls = {}
    /\ post = NoTask
    /\ failures = 0 /\ moves = 0

-----------------------------------------------------------------------------
(* Polling                                                                     *)

Running(e) == e # NoEntry /\ e.status \in {"pending", "running"}
WantsPreview(t, e, open) ==
    /\ e # NoEntry /\ t = open
    /\ e.status = "succeeded" /\ e.id \in ImageTasks /\ e.url = 0

\* (Wrong: the task of another tool is not asked for.)
AsksStatusHere(t, e) == Running(e) /\ t = tool
AsksStatus(t, e) == Running(e)

PollableKey(entries, open) ==
    {<<entries[t].id, entries[t].status>> :
        t \in {t \in Tools : Running(entries[t]) \/ WantsPreview(t, entries[t], open)}}

\* The requests poll() sends for `entries', rendered with the tool `open'.
NewCalls(entries, open) ==
    LET Call(t, kind) == [kind |-> kind, tool |-> t, id |-> entries[t].id, stopped |-> FALSE,
                          answer |-> "none"]
        asks == {t \in Tools : AsksStatus(t, entries[t])}
        loads == {t \in Tools : WantsPreview(t, entries[t], open) /\ entries[t].id \notin fetching}
    IN  SetToSeq({Call(t, "status") : t \in asks} \cup {Call(t, "result") : t \in loads})

\* What poll() changes before its first answer, given the calls it sends.
Loading(now, new) ==
    [t \in Tools |->
        IF \E i \in DOMAIN new : new[i].kind = "result" /\ new[i].tool = t /\ new[i].id = now[t].id
        THEN [now[t] EXCEPT !.status = "succeeded", !.error = FALSE, !.seen = TRUE]
        ELSE now[t]]
Fetched(new) == {new[i].id : i \in {i \in DOMAIN new : new[i].kind = "result"}}

\* The interval of the effect.  A render does not wait for it.
Poll ==
    LET new == NewCalls(view, toolRef)
    IN  /\ ~Unrendered /\ new # <<>>
        /\ Len(calls) + Len(new) <= MaxCalls
        /\ calls' = calls \o new
        /\ fetching' = fetching \cup Fetched(new)
        /\ shown' = Loading(shown, new)
        /\ UNCHANGED <<server, view, tool, toolRef, urls, post, failures, moves>>

\* Effects after a render.  If the key has changed, the old effect is stopped
\* and a new one polls at once; if the tool has, its task is seen.
Render ==
    LET changed == PollableKey(shown, tool) # PollableKey(view, toolRef)
        new == IF changed THEN NewCalls(shown, tool) ELSE <<>>
        old == [i \in DOMAIN calls |-> [calls[i] EXCEPT !.stopped = @ \/ changed]]
        loading == Loading(shown, new)
        entry == loading[tool]
    IN  /\ Unrendered /\ Len(calls) + Len(new) <= MaxCalls
        /\ view' = shown /\ toolRef' = tool
        /\ calls' = old \o new
        /\ fetching' = fetching \cup Fetched(new)
        /\ shown' = IF tool # toolRef /\ entry # NoEntry /\ entry.status = "succeeded"
                    THEN [loading EXCEPT ![tool].seen = TRUE] ELSE loading
        /\ UNCHANGED <<server, tool, urls, post, failures, moves>>

\* The server, or the network, answers a request.
Serve(i) ==
    /\ calls[i].answer = "none"
    /\ \/ /\ calls' = [calls EXCEPT ![i].answer =
                         IF server[calls[i].id] = "gone" THEN "error" ELSE server[calls[i].id]]
          /\ UNCHANGED failures
       \/ /\ failures < MaxFailures /\ failures' = failures + 1
          /\ calls' = [calls EXCEPT ![i].answer = "error"]
    /\ UNCHANGED <<server, shown, view, tool, toolRef, fetching, urls, post, moves>>

\* `latest' is still the task the request was for.  (Wrong: whatever is there now.)
StillThereSomehow(e, call) == e # NoEntry
StillThere(e, call) == e.id = call.id

\* (Wrong: the tool that is open is not looked at.)
SeenLater(e, call, status) == e.seen
SeenNow(e, call, status) == e.seen \/ (status = "succeeded" /\ call.tool = toolRef)

StatusArrives(i) ==
    LET call == calls[i]
        e == shown[call.tool]
    IN  /\ call.kind = "status" /\ call.answer # "none"
        /\ calls' = RemoveAt(calls, i)
        /\ shown' =
             IF ~StillThere(e, call) THEN shown
             ELSE IF call.answer = "error" THEN [shown EXCEPT ![call.tool].error = TRUE]
             ELSE IF call.stopped THEN shown
             ELSE [shown EXCEPT ![call.tool] =
                     [@ EXCEPT !.status = call.answer, !.error = FALSE,
                               !.seen = SeenNow(e, call, call.answer)]]
        /\ UNCHANGED <<server, view, tool, toolRef, fetching, urls, post, failures, moves>>

\* The finally clause.  (Wrong: only where the image is used.)
FetchOverIfUsed(call) == IF call.stopped THEN fetching ELSE fetching \ {call.id}
FetchOver(call) == fetching \ {call.id}

FreshUrl == CHOOSE u \in 1..(Cardinality(urls) + 1) : u \notin urls

ResultArrives(i) ==
    LET call == calls[i]
        e == shown[call.tool]
    IN  /\ call.kind = "result" /\ call.answer # "none"
        /\ calls' = RemoveAt(calls, i)
        /\ fetching' = FetchOver(call)
        /\ IF ~StillThere(e, call) THEN UNCHANGED <<shown, urls>>
           ELSE IF call.answer = "error" \/ call.stopped THEN UNCHANGED <<shown, urls>>
           ELSE /\ urls' = urls \cup {FreshUrl}
                /\ shown' = [shown EXCEPT ![call.tool] =
                               [@ EXCEPT !.status = "succeeded", !.url = FreshUrl, !.seen = TRUE]]
        /\ UNCHANGED <<server, view, tool, toolRef, post, failures, moves>>

-----------------------------------------------------------------------------
(* The user                                                                    *)

\* The rendered page: the button is disabled while the visible task runs.
Submit ==
    /\ post = NoTask /\ ~Running(view[toolRef])
    /\ \E j \in Tasks : server[j] = "none"
    /\ post' = toolRef
    /\ UNCHANGED <<server, shown, view, tool, toolRef, calls, fetching, urls, failures, moves>>

\* (Wrong: the image of the task that is replaced stays.)
UrlsAfterKept(e) == urls
UrlsAfter(e) == IF e = NoEntry THEN urls ELSE urls \ {e.url}

Created ==
    /\ post # NoTask
    /\ \E j \in Tasks :
         /\ server[j] = "none"
         /\ server' = [server EXCEPT ![j] = "running"]
         /\ shown' = [shown EXCEPT ![post] = Entry(j)]
         /\ urls' = UrlsAfter(shown[post])
    /\ post' = NoTask
    /\ UNCHANGED <<view, tool, toolRef, calls, fetching, failures, moves>>

NotCreated ==
    /\ post # NoTask /\ post' = NoTask
    /\ UNCHANGED <<server, shown, view, tool, toolRef, calls, fetching, urls, failures, moves>>

\* DELETE is answered; the page may show another tool by now.
Cancelled(t) ==
    LET id == view[t].id
    IN  /\ id # NoTask /\ server[id] # "gone"
        /\ server' = [server EXCEPT ![id] = "gone"]
        /\ shown' = IF shown[t].id = id THEN [shown EXCEPT ![t] = NoEntry] ELSE shown
        /\ urls' = IF shown[t].id = id THEN UrlsAfter(shown[t]) ELSE urls
        /\ UNCHANGED <<view, tool, toolRef, calls, fetching, post, failures, moves>>

Navigate(t) ==
    /\ moves < MaxMoves /\ t # tool
    /\ tool' = t /\ moves' = moves + 1
    /\ UNCHANGED <<server, shown, view, toolRef, calls, fetching, urls, post, failures>>

\* localStorage has what was rendered last; a task that is no more may have expired.
Reload ==
    /\ moves < MaxMoves /\ moves' = moves + 1
    /\ \E dropped \in SUBSET {t \in Tools : view[t] # NoEntry /\ server[view[t].id] = "gone"} :
         shown' = [t \in Tools |->
                     IF view[t] = NoEntry \/ t \in dropped THEN NoEntry
                     ELSE [view[t] EXCEPT !.url = 0,
                             !.seen = @ \/ (t = tool /\ view[t].status = "succeeded")]]
    \* Mounting renders no tasks first: the first effects poll.
    /\ view' = [t \in Tools |-> NoEntry] /\ toolRef' = tool
    /\ calls' = <<>> /\ fetching' = {} /\ urls' = {}
    /\ post' = NoTask
    /\ UNCHANGED <<server, tool, failures>>

\* The job goes on; its record ends.
TaskEnds(j) ==
    /\ server[j] = "running"
    /\ server' = [server EXCEPT ![j] = "succeeded"]
    /\ UNCHANGED <<shown, view, tool, toolRef, calls, fetching, urls, post, failures, moves>>
RecordGoes(j) ==
    /\ server[j] \notin {"none", "gone"}
    /\ server' = [server EXCEPT ![j] = "gone"]
    /\ UNCHANGED <<shown, view, tool, toolRef, calls, fetching, urls, post, failures, moves>>

Arrives(i) == StatusArrives(i) \/ ResultArrives(i)

TrackerNext ==
    \/ Poll \/ Render \/ Submit \/ Created \/ NotCreated \/ Reload
    \/ \E i \in DOMAIN calls : Serve(i) \/ Arrives(i)
    \/ \E t \in Tools : Cancelled(t) \/ Navigate(t)
    \/ \E j \in Tasks : TaskEnds(j) \/ RecordGoes(j)

\* The oldest request is answered and handled.
OldestGoesOn == calls # <<>> /\ (Serve(1) \/ Arrives(1))

-----------------------------------------------------------------------------
(* Properties                                                                  *)

Rank(status) ==
    CASE status \in {"none", "pending"} -> 0
      [] status = "running" -> 1
      [] status = "succeeded" -> 2
      [] OTHER -> 3

\* README: one task per tool while switching tabs or reloading the page.  No tool
\* shows what another task of it got: an answer that comes after the task was
\* replaced or cancelled, or for which the page was rendered anew, changes nothing.
ShownWasTrue ==
    \A t \in Tools : shown[t] # NoEntry =>
        /\ Rank(shown[t].status) <= Rank(server[shown[t].id])
        /\ shown[t].url # 0 => shown[t].id \in ImageTasks

\* Every object URL that is not revoked is the preview of one task, and no task has a
\* preview that was revoked, whatever is replaced while an image is loaded.
PreviewUrlsInUse ==
    /\ urls = {shown[t].url : t \in {t \in Tools : shown[t] # NoEntry}} \ {0}
    /\ \A t, u \in Tools :
         t # u /\ shown[t] # NoEntry /\ shown[u] # NoEntry /\ shown[t].url # 0 =>
            shown[t].url # shown[u].url

\* A tool is not marked as ready while it is open: whether the task ends before or
\* after the user comes to it, and in the middle of a render.
OpenTaskIsSeen ==
    ~Unrendered /\ view[tool] # NoEntry /\ view[tool].status = "succeeded" => view[tool].seen

\* What a tool shows is of its own task, in whatever order answers, renders and the
\* user's steps come.
ToolsShowTheirTasks == ShownWasTrue /\ PreviewUrlsInUse /\ OpenTaskIsSeen

\* App.test.tsx: a task that succeeded is shown as ready (line 363).
SucceededLooksReady ==
    \A t \in Tools : view[t] # NoEntry /\ view[t].status = "succeeded" => ~view[t].error

\* A task that has ended is shown as ended, in whichever tool the user is, though
\* answers come late, get lost or are dropped, or it is replaced or its record goes.
Waits(j) == \E t \in Tools : view[t].id = j /\ Running(view[t])
EndIsShown ==
    \A j \in Tasks : Waits(j) /\ server[j] = "succeeded" ~> ~Waits(j) \/ server[j] = "gone"

\* The image of a task that succeeded is loaded in the end, if its tool stays open:
\* an answer that was dropped does not leave the page believing it is on its way.
LacksPreview == WantsPreview(toolRef, view[toolRef], toolRef)
PreviewIsShown == LacksPreview ~> ~LacksPreview \/ server[view[toolRef].id] = "gone"
===============================================================================
