------------------------------ MODULE PageProofs ------------------------------
(* The page, for every number of tools, tasks, requests and previews.          *)
EXTENDS WebTracker, PreviewExplorer, FiniteSetTheorems, SequenceTheorems, TLAPS

------------------------------------------------------------------------------
(* Previews, for every number of models, calls, files and crops.               *)

ExplorerSpec == ExplorerInit /\ [][ExplorerNext]_explorerVars

ExplorerTypeOK ==
    /\ generation \in Nat /\ mounted \in BOOLEAN
    /\ previews \in [Previews -> [at : {"new", "create", "ask", "load", "over"},
                                  model : Models \cup {NoPreview}, of : Nat]]
    /\ active \in Previews \cup {NoPreview} /\ runningRef \in BOOLEAN
    /\ running \subseteq Previews /\ deleteSent \subseteq Previews

\* Generations only rise; none is current before its click or after the part is gone.
OfThePast ==
    \A p \in Previews :
        /\ previews[p].of <= generation
        /\ previews[p].at = "new" \/ ~mounted => ~IsCurrent(p)

UnderWay(p) == IsCurrent(p) /\ previews[p].at \in {"create", "ask", "load"}

\* The call under way is the one that disabled the button, ...
OneUnderWay ==
    /\ \A p \in Previews : UnderWay(p) => runningRef
    /\ \A p, q \in Previews : UnderWay(p) /\ UnderWay(q) => p = q

\* ... and the job in active.current is its own, until the part is dropped.
ActiveIsUnderWay ==
    active # NoPreview =>
        \/ UnderWay(active) /\ previews[active].at # "create"
        \/ ~mounted /\ active \in deleteSent

ExplorerInv ==
    /\ ExplorerTypeOK /\ OfThePast /\ OneUnderWay /\ ActiveIsUnderWay
    /\ OnlyActiveJobStays /\ CacheIsOfTheCrop

LEMMA ExplorerInitHolds == ExplorerInit => ExplorerInv
<1> SUFFICES ASSUME ExplorerInit PROVE ExplorerInv
    OBVIOUS
<1> USE ExplorerAssumption DEF ExplorerInit
<1>1. ExplorerTypeOK
    BY DEF ExplorerTypeOK
<1>2. \A p \in Previews : ~IsCurrent(p) /\ previews[p].of <= generation
    BY DEF IsCurrent
<1>3. OfThePast /\ OneUnderWay
    BY <1>2 DEF OfThePast, OneUnderWay, UnderWay
<1>4. ActiveIsUnderWay /\ OnlyActiveJobStays /\ CacheIsOfTheCrop
    BY DEF ActiveIsUnderWay, OnlyActiveJobStays, CacheIsOfTheCrop
<1> QED BY <1>1, <1>3, <1>4 DEF ExplorerInv

\* The finally clause, at the end of any call that is on its way, which deletes the
\* job if there is one.
LEMMA TidyHolds ==
    ASSUME ExplorerInv, NEW p \in Previews, NEW jobs \in SUBSET {p}, Tidy(p, jobs),
           previews[p].at \in {"create", "ask", "load"}, running' \in SUBSET (running \cup jobs),
           \A c \in cache' : c.of = generation, UNCHANGED <<generation, mounted>>,
           previews[p].at = "create" \/ p \in jobs
    PROVE  ExplorerInv'
<1> USE ExplorerAssumption DEF ExplorerInv, ExplorerTypeOK, IsCurrent
<1>1. /\ previews' = [previews EXCEPT ![p].at = "over"]
      /\ deleteSent' = deleteSent \cup jobs
      /\ IsCurrent(p) => active' = NoPreview /\ runningRef' = FALSE
      /\ ~IsCurrent(p) => UNCHANGED <<active, runningRef>>
    BY DEF Tidy, Goes
<1>2. ExplorerTypeOK'
    BY <1>1, ZenonT(30)
<1>3. OfThePast'
    BY <1>1 DEF OfThePast
<1>4. \A q \in Previews : UnderWay(q)' => UnderWay(q) /\ q # p
    BY <1>1 DEF UnderWay
<1>5. OneUnderWay'
    BY <1>1, <1>4 DEF OneUnderWay, UnderWay
<1>6. ActiveIsUnderWay'
    BY <1>1 DEF ActiveIsUnderWay, UnderWay
<1>7. OnlyActiveJobStays'
    <2>1. CASE IsCurrent(p)
        <3>1. active \in {p, NoPreview}
            BY <2>1 DEF ActiveIsUnderWay, OneUnderWay, UnderWay, OfThePast
        <3>2. previews[p].at = "create" => active = NoPreview
            BY <2>1, <3>1 DEF ActiveIsUnderWay, OfThePast, UnderWay
        <3> QED BY <1>1, <2>1, <3>1, <3>2 DEF OnlyActiveJobStays
    <2>2. CASE ~IsCurrent(p)
        BY <1>1, <2>2 DEF OnlyActiveJobStays
    <2> QED BY <2>1, <2>2
<1> QED BY <1>2, <1>3, <1>5, <1>6, <1>7 DEF CacheIsOfTheCrop

\* No click, answer, new file or crop breaks the invariant.
LEMMA ExplorerStepHolds ==
    ASSUME ExplorerInv, [ExplorerNext]_explorerVars
    PROVE  ExplorerInv'
<1> USE ExplorerAssumption
    DEF ExplorerInv, ExplorerTypeOK, IsCurrent, OfThePast, OneUnderWay, UnderWay,
        ActiveIsUnderWay, OnlyActiveJobStays, CacheIsOfTheCrop
<1>1. ASSUME NEW p \in Previews, NEW m \in Models, Click(p, m)
      PROVE  ExplorerInv'
    BY <1>1 DEF Click
<1>2. ASSUME NEW p \in Previews, JobCreated(p)
      PROVE  ExplorerInv'
    <2>1. CASE IsCurrent(p)
        <3>1. active = NoPreview
            BY <1>2, <2>1 DEF JobCreated
        <3> QED BY <1>2, <2>1, <3>1 DEF JobCreated, KeepsJob, Goes
    <2>2. CASE ~IsCurrent(p)
        BY <1>2, <2>2, TidyHolds DEF JobCreated, KeepsJob
    <2> QED BY <2>1, <2>2
<1>3. ASSUME NEW p \in Previews, JobReady(p)
      PROVE  ExplorerInv'
    BY <1>3 DEF JobReady, Goes
<1>4. ASSUME NEW p \in Previews, JobGoes(p)
      PROVE  ExplorerInv'
    BY <1>4 DEF JobGoes
<1>5. ASSUME NEW p \in Previews, NoJob(p) \/ GiveUp(p) \/ ResultLoaded(p)
      PROVE  ExplorerInv'
    BY <1>5, TidyHolds DEF NoJob, GiveUp, ResultLoaded, KeepsResult
<1>6. CASE NewCrop \/ Unmount
    <2>1. /\ generation' = generation + 1 /\ cache' = {} /\ UNCHANGED <<previews, running>>
          /\ deleteSent' = deleteSent \cup ({active} \ {NoPreview})
          /\ mounted' \in BOOLEAN /\ runningRef' \in BOOLEAN
          /\ active' = NoPreview \/ (~mounted' /\ active' = active)
        BY <1>6 DEF NewCrop, Unmount
    <2>2. \A p \in Previews : ~IsCurrent(p)' /\ previews'[p].of <= generation'
        BY <2>1
    <2>3. ExplorerTypeOK' /\ OfThePast' /\ OneUnderWay'
        BY <2>1, <2>2
    <2>4. ActiveIsUnderWay' /\ OnlyActiveJobStays' /\ CacheIsOfTheCrop'
        BY <2>1, <2>2
    <2> QED BY <2>3, <2>4
<1>7. CASE UNCHANGED explorerVars
    BY <1>7 DEF explorerVars
<1> QED BY <1>1, <1>2, <1>3, <1>4, <1>5, <1>6, <1>7 DEF ExplorerNext

\* The invariant of the explorer.
THEOREM ExplorerInvHolds == ExplorerSpec => []ExplorerInv
BY ExplorerInitHolds, ExplorerStepHolds, PTL DEF ExplorerSpec

\* A preview that a new file, crop or page overtook changes nothing: not the button, not
\* the jobs that stay on the server, not what is shown.
THEOREM OvertakenPreviewsAreHarmless == ExplorerSpec => []OvertakenIsHarmless
<1>1. ASSUME ExplorerInv
      PROVE  OvertakenIsHarmless
    <2> DEFINE busy == {p \in Previews : UnderWay(p)}
    <2>1. busy = {} \/ \E p \in busy : busy = {p}
        BY <1>1 DEF ExplorerInv, OneUnderWay
    <2>2. Cardinality(busy) \in {0, 1}
        BY <2>1, FS_EmptySet, FS_Singleton
    <2>3. OnePreviewAtATime
        BY <2>2 DEF OnePreviewAtATime, UnderWay
    <2> QED BY <1>1, <2>3 DEF ExplorerInv, OvertakenIsHarmless
<1> QED BY <1>1, ExplorerInvHolds, PTL

------------------------------------------------------------------------------
(* Tasks, for every number of tools, jobs and requests.                        *)

TrackerSpec == TrackerInit /\ [][TrackerNext]_trackerVars

Records == [id : Tasks, status : {"pending", "running", "succeeded"}, error : BOOLEAN, url : Nat, seen : BOOLEAN]
Entries == Records \cup {NoEntry}
Calls == [kind : {"status", "result"}, tool : Tools, id : Tasks, stopped : BOOLEAN,
          answer : {"none", "running", "succeeded", "error"}]

TrackerTypeOK ==
    /\ server \in [Tasks -> {"none", "running", "succeeded", "gone"}]
    /\ shown \in [Tools -> Entries] /\ view \in [Tools -> Entries]
    /\ tool \in Tools /\ toolRef \in Tools
    /\ calls \in Seq(Calls)
    /\ urls \in SUBSET (Nat \ {0}) /\ IsFiniteSet(urls)
    /\ post \in Tools \cup {NoTask}

Ended(j) == server[j] \in {"succeeded", "gone"}
Reached(status, j) ==
    /\ status = "running" => server[j] # "none"
    /\ status = "succeeded" => Ended(j)

\* What was stored, rendered or sent is true, though the server may have gone on.
EntriesTrue(entries) ==
    \A t \in Tools : entries[t] # NoEntry =>
        /\ Reached(entries[t].status, entries[t].id)
        /\ entries[t].url # 0 => entries[t].id \in ImageTasks
CallTrue(call) ==
    /\ Reached(call.answer, call.id)
    /\ call.kind = "result" => call.id \in ImageTasks /\ Ended(call.id)
CallsTrue == \A i \in DOMAIN calls : CallTrue(calls[i])

\* An image is on its way once, for a task that has none, and is known to be.
OneFetchEach ==
    \A i \in DOMAIN calls : calls[i].kind = "result" =>
        /\ calls[i].id \in fetching
        /\ shown[calls[i].tool].id = calls[i].id => shown[calls[i].tool].url = 0
        /\ \A k \in DOMAIN calls : calls[k].kind = "result" /\ calls[k].id = calls[i].id => k = i

\* The tool whose tab is rendered is not marked, whatever is not rendered yet.
RenderedIsSeen ==
    shown[toolRef] # NoEntry /\ shown[toolRef].status = "succeeded" => shown[toolRef].seen

TrackerInv ==
    /\ TrackerTypeOK
    /\ EntriesTrue(shown) /\ EntriesTrue(view) /\ CallsTrue
    /\ OneFetchEach /\ PreviewUrlsInUse /\ RenderedIsSeen

LEMMA EntryKinds ==
    ASSUME NEW e \in Entries
    PROVE  /\ e # NoEntry <=> e \in Records
           /\ e # NoEntry <=> e.id \in Tasks
           /\ NoEntry.id = NoTask /\ NoTask \notin Tasks
  BY TrackerAssumption DEF Entries, Records, NoEntry

-----------------------------------------------------------------------------
(* The calls a poll sends.                                                     *)

NewRight(new, entries, open) ==
    /\ new \in Seq(Calls)
    /\ \A i \in DOMAIN new :
         /\ new[i].answer = "none" /\ new[i].id = entries[new[i].tool].id
         /\ new[i].kind = "result" =>
              /\ WantsPreview(new[i].tool, entries[new[i].tool], open)
              /\ new[i].id \notin fetching
              /\ \A k \in DOMAIN new : new[k].kind = "result" => k = i

LEMMA SequenceOfSet ==
    ASSUME NEW S, IsFiniteSet(S), NEW s, s = SetToSeq(S)
    PROVE  s \in Seq(S) /\ \A i, k \in DOMAIN s : s[i] = s[k] => i = k
  <1>1. PICK n \in Nat : n = Cardinality(S) /\ ExistsBijection(1..n, S)
    BY FS_CardinalityType
  <1>2. PICK f : f \in [1..n -> S] /\ IsInjective(f)
    BY <1>1 DEF ExistsBijection, Bijection, Injection, IsInjective
  <1>3. s \in [1..n -> S] /\ IsInjective(s)
    BY <1>1, <1>2 DEF SetToSeq
  <1>4. s \in Seq(S)
    BY <1>1, <1>3
  <1> QED BY <1>3, <1>4 DEF IsInjective

LEMMA NewCallsRight ==
    ASSUME NEW entries \in [Tools -> Entries], NEW open \in Tools
    PROVE  NewRight(NewCalls(entries, open), entries, open)
  <1> DEFINE Call(t, kind) == [kind |-> kind, tool |-> t, id |-> entries[t].id, stopped |-> FALSE, answer |-> "none"]
             asks == {t \in Tools : AsksStatus(t, entries[t])}
             loads == {t \in Tools : WantsPreview(t, entries[t], open) /\ entries[t].id \notin fetching}
             asked == {Call(t, "status") : t \in asks}
             loaded == {Call(t, "result") : t \in loads}
             sent == asked \cup loaded
  <1>1. IsFiniteSet(sent)
    <2>1. IsFiniteSet(Tools)
      BY TrackerAssumption
    <2>2. IsFiniteSet(asks) /\ IsFiniteSet(loads)
      BY <2>1, FS_Subset
    <2>3. IsFiniteSet(asked)
      <3>1. [t \in asks |-> Call(t, "status")] \in Surjection(asks, asked)
        BY DEF Surjection
      <3> QED BY <2>2, <3>1, FS_Surjection
    <2>4. IsFiniteSet(loaded)
      <3>1. [t \in loads |-> Call(t, "result")] \in Surjection(loads, loaded)
        BY DEF Surjection
      <3> QED BY <2>2, <3>1, FS_Surjection
    <2> QED BY <2>3, <2>4, FS_Union
  <1>2. PICK new : new = NewCalls(entries, open) /\ new = SetToSeq(sent)
    BY DEF NewCalls
  <1>3. \A c \in sent :
          /\ c \in Calls /\ c.answer = "none" /\ c.id = entries[c.tool].id
          /\ c.kind = "result" =>
               /\ WantsPreview(c.tool, entries[c.tool], open) /\ c.id \notin fetching
               /\ c = Call(open, "result")
    <2>1. ASSUME NEW t \in Tools, entries[t] # NoEntry
          PROVE  entries[t].id \in Tasks
      BY <2>1, EntryKinds
    <2>2. ASSUME NEW t \in asks
          PROVE  Call(t, "status") \in Calls
      BY <2>1 DEF Calls, AsksStatus, Running
    <2>3. ASSUME NEW t \in loads
          PROVE  Call(t, "result") \in Calls /\ t = open
      BY <2>1 DEF Calls, WantsPreview
    <2> QED BY <2>2, <2>3
  <1> HIDE DEF sent, Call
  <1>4. new \in Seq(sent) /\ \A i, k \in DOMAIN new : new[i] = new[k] => i = k
    BY <1>1, <1>2, SequenceOfSet
  <1>5. \A i \in DOMAIN new : new[i] \in sent
    BY <1>4
  <1>6. new \in Seq(Calls)
    BY <1>3, <1>4, <1>5
  <1>7. \A i, k \in DOMAIN new : new[i].kind = "result" /\ new[k].kind = "result" => k = i
    BY <1>3, <1>4, <1>5
  <1> QED BY <1>2, <1>3, <1>5, <1>6, <1>7 DEF NewRight
\* What the page shows of the tasks that images are loaded for is what it was.
SameTasks(before, after) ==
    \A t \in Tools :
        /\ after[t].id = before[t].id /\ (after[t] = NoEntry <=> before[t] = NoEntry)
        /\ before[t] # NoEntry =>
             /\ after[t].url = before[t].url /\ after[t].status = before[t].status
             /\ before[t].seen => after[t].seen

LEMMA LoadingRight ==
    ASSUME TrackerTypeOK, NEW open \in Tools, NEW new, NewRight(new, shown, open),
           NEW loading, loading = Loading(shown, new)
    PROVE  loading \in [Tools -> Entries] /\ SameTasks(shown, loading)
  <1> SUFFICES ASSUME NEW t \in Tools
               PROVE  /\ loading[t] \in Entries
                      /\ loading[t].id = shown[t].id /\ (loading[t] = NoEntry <=> shown[t] = NoEntry)
                      /\ shown[t] # NoEntry =>
                           /\ loading[t].url = shown[t].url /\ loading[t].status = shown[t].status
                           /\ shown[t].seen => loading[t].seen
    BY DEF Loading, SameTasks
  <1>1. shown[t] \in Entries
    BY DEF TrackerTypeOK
  <1>2. CASE \E i \in DOMAIN new : new[i].kind = "result" /\ new[i].tool = t /\ new[i].id = shown[t].id
    <2>1. shown[t] # NoEntry /\ shown[t].status = "succeeded"
      BY <1>2 DEF NewRight, WantsPreview
    <2>2. loading[t] = [shown[t] EXCEPT !.status = "succeeded", !.error = FALSE, !.seen = TRUE]
      BY <1>2 DEF Loading
    <2>3. shown[t] \in Records
      BY <1>1, <2>1, EntryKinds
    <2>4. /\ loading[t] \in Records /\ loading[t].id = shown[t].id /\ loading[t].url = shown[t].url
          /\ loading[t].status = "succeeded" /\ loading[t].seen
      BY <2>2, <2>3 DEF Records
    <2>5. loading[t] \in Entries /\ loading[t] # NoEntry
      BY <2>4, EntryKinds DEF Entries
    <2> QED BY <2>1, <2>4, <2>5
  <1>3. CASE ~\E i \in DOMAIN new : new[i].kind = "result" /\ new[i].tool = t /\ new[i].id = shown[t].id
    <2>1. loading[t] = shown[t]
      BY <1>3 DEF Loading
    <2> QED BY <1>1, <2>1
  <1> QED BY <1>2, <1>3

LEMMA ElementsAreOf ==
    ASSUME NEW C, NEW s \in Seq(C), NEW i \in DOMAIN s
    PROVE  s[i] \in C
  BY LenProperties, ElementOfSeq

Joins(C, c, a, b) ==
    /\ c \in Seq(C) /\ Len(c) = Len(a) + Len(b)
    /\ \A i \in 1..Len(a) + Len(b) : c[i] = IF i <= Len(a) THEN a[i] ELSE b[i - Len(a)]

LEMMA ConcatJoins ==
    ASSUME NEW C, NEW a \in Seq(C), NEW b \in Seq(C)
    PROVE  Joins(C, a \o b, a, b)
  <1>1. /\ a \o b \in Seq(C) /\ Len(a \o b) = Len(a) + Len(b)
        /\ \A i \in 1..Len(a) + Len(b) : (a \o b)[i] = IF i <= Len(a) THEN a[i] ELSE b[i - Len(a)]
    BY ConcatProperties
  <1> QED BY <1>1 DEF Joins

\* The calls in flight and those a poll adds.
LEMMA CallsJoined ==
    ASSUME TrackerInv, NEW open \in Tools, NEW new, NewRight(new, shown, open),
           NEW old \in Seq(Calls), Len(old) = Len(calls),
           \A i \in 1..Len(calls) :
              /\ old[i].kind = calls[i].kind /\ old[i].tool = calls[i].tool
              /\ old[i].id = calls[i].id /\ old[i].answer = calls[i].answer,
           calls' = old \o new, fetching' = fetching \cup Fetched(new), server' = server,
           SameTasks(shown, shown')
    PROVE  calls' \in Seq(Calls) /\ CallsTrue' /\ OneFetchEach'
  <1>1. new \in Seq(Calls) /\ calls \in Seq(Calls)
    BY DEF NewRight, TrackerInv, TrackerTypeOK
  <1>2. /\ calls' \in Seq(Calls) /\ Len(calls') = Len(calls) + Len(new)
        /\ \A i \in 1..Len(calls) + Len(new) :
              calls'[i] = IF i <= Len(calls) THEN old[i] ELSE new[i - Len(calls)]
    <2>1. Joins(Calls, old \o new, old, new)
      BY <1>1, ConcatJoins
    <2>2. Joins(Calls, calls', old, new)
      BY <2>1
    <2> QED BY <2>2 DEF Joins
  <1>3. /\ Len(calls) \in Nat /\ Len(new) \in Nat
        /\ DOMAIN calls = 1..Len(calls) /\ DOMAIN new = 1..Len(new) /\ DOMAIN calls' = 1..Len(calls) + Len(new)
    BY <1>1, <1>2, LenProperties
  <1>4. ASSUME NEW i \in DOMAIN calls', i <= Len(calls)
        PROVE  /\ i \in DOMAIN calls
               /\ calls'[i].kind = calls[i].kind /\ calls'[i].tool = calls[i].tool
               /\ calls'[i].id = calls[i].id /\ calls'[i].answer = calls[i].answer
    BY <1>2, <1>3, <1>4
  <1>5. ASSUME NEW i \in DOMAIN calls', ~(i <= Len(calls))
        PROVE  i - Len(calls) \in DOMAIN new /\ calls'[i] = new[i - Len(calls)]
    BY <1>2, <1>3, <1>5
  <1>6. \A i \in DOMAIN new : new[i].tool \in Tools /\ new[i] \in Calls
    <2>1. \A i \in DOMAIN new : new[i] \in Calls
      BY <1>1, ElementsAreOf, Zenon
    <2> QED BY <2>1 DEF Calls
  <1>7. CallsTrue'
    <2> SUFFICES ASSUME NEW i \in DOMAIN calls'
                 PROVE  CallTrue(calls[i])'
      BY DEF CallsTrue
    <2>1. CASE i <= Len(calls)
      <3>1. CallTrue(calls[i])
        BY <1>4, <2>1 DEF TrackerInv, CallsTrue
      <3> QED BY <1>4, <2>1, <3>1 DEF CallTrue, Reached, Ended
    <2>2. CASE ~(i <= Len(calls))
      <3>1. PICK k \in DOMAIN new : calls'[i] = new[k]
        BY <1>5, <2>2
      <3>2. CASE new[k].kind = "result"
        <4>1. WantsPreview(new[k].tool, shown[new[k].tool], open) /\ new[k].tool \in Tools
          BY <1>6, <3>2 DEF NewRight
        <4>2. Ended(new[k].id) /\ new[k].id \in ImageTasks /\ new[k].answer = "none"
          BY <4>1 DEF WantsPreview, NewRight, TrackerInv, EntriesTrue, Reached
        <4> QED BY <3>1, <4>2 DEF CallTrue, Reached, Ended
      <3>3. CASE new[k].kind # "result"
        <4>1. new[k].answer = "none"
          BY DEF NewRight
        <4> QED BY <3>1, <3>3, <4>1 DEF CallTrue, Reached
      <3> QED BY <3>2, <3>3
    <2> QED BY <2>1, <2>2
  <1>8. ASSUME NEW i \in DOMAIN calls', calls'[i].kind = "result"
        PROVE  /\ calls'[i].id \in fetching'
               /\ i <= Len(calls) <=> calls'[i].id \in fetching
               /\ shown'[calls'[i].tool].id = calls'[i].id => shown'[calls'[i].tool].url = 0
    <2>1. CASE i <= Len(calls)
      <3>1. /\ calls[i].id \in fetching
            /\ shown[calls[i].tool].id = calls[i].id => shown[calls[i].tool].url = 0
        BY <1>4, <1>8, <2>1 DEF TrackerInv, OneFetchEach
      <3>2. calls[i].id \in Tasks /\ calls[i].tool \in Tools
        <4>1. calls[i] \in Calls
          BY <1>1, <1>4, <2>1, ElementsAreOf
        <4> QED BY <4>1 DEF Calls
      <3>3. shown[calls[i].tool].id = calls[i].id => shown[calls[i].tool] # NoEntry
        BY <3>2, TrackerAssumption DEF NoEntry
      <3> QED BY <1>4, <2>1, <3>1, <3>2, <3>3 DEF SameTasks
    <2>2. CASE ~(i <= Len(calls))
      <3>1. PICK k \in DOMAIN new : calls'[i] = new[k]
        BY <1>5, <2>2
      <3>2. /\ WantsPreview(new[k].tool, shown[new[k].tool], open) /\ new[k].tool \in Tools
            /\ new[k].id \notin fetching
        BY <1>6, <1>8, <3>1 DEF NewRight
      <3>3. new[k].id \in Fetched(new)
        BY <1>8, <3>1 DEF Fetched
      <3>4. shown'[new[k].tool].url = 0
        BY <3>2 DEF WantsPreview, SameTasks
      <3> QED BY <2>2, <3>1, <3>2, <3>3, <3>4
    <2> QED BY <2>1, <2>2
  <1>9. ASSUME NEW i \in DOMAIN calls', calls'[i].kind = "result",
               NEW k \in DOMAIN calls', calls'[k].kind = "result", calls'[k].id = calls'[i].id
        PROVE  k = i
    <2>1. i <= Len(calls) <=> k <= Len(calls)
      BY <1>8, <1>9
    <2>2. CASE i <= Len(calls)
      BY <1>4, <1>9, <2>1, <2>2 DEF TrackerInv, OneFetchEach
    <2>3. CASE ~(i <= Len(calls))
      <3>1. /\ i - Len(calls) \in DOMAIN new /\ calls'[i] = new[i - Len(calls)]
            /\ k - Len(calls) \in DOMAIN new /\ calls'[k] = new[k - Len(calls)]
        BY <1>5, <2>1, <2>3
      <3>2. i - Len(calls) = k - Len(calls)
        BY <1>9, <3>1 DEF NewRight
      <3> QED BY <1>3, <3>2
    <2> QED BY <2>2, <2>3
  <1>10. OneFetchEach'
    BY <1>8, <1>9 DEF OneFetchEach
  <1> QED BY <1>2, <1>7, <1>10

\* The calls but one.
LEMMA OneCallLess ==
    ASSUME NEW C, NEW s \in Seq(C), NEW i \in 1..Len(s), NEW r, r = RemoveAt(s, i)
    PROVE  /\ r \in Seq(C)
           /\ \E f \in [DOMAIN r -> DOMAIN s] :
                /\ \A k \in DOMAIN r : f[k] # i /\ r[k] = s[f[k]]
                /\ \A k, m \in DOMAIN r : f[k] = f[m] => k = m
  <1>1. Len(s) \in Nat /\ DOMAIN s = 1..Len(s) /\ \A k \in 1..Len(s) : s[k] \in C
    BY LenProperties, ElementOfSeq
  <1> DEFINE a == SubSeq(s, 1, i - 1)
             b == SubSeq(s, i + 1, Len(s))
  <1>2. /\ a \in Seq(C) /\ Len(a) = i - 1 /\ \A k \in 1..i - 1 : a[k] = s[k]
    <2>1. i - 1 \in Int /\ \A k \in 1..i - 1 : s[k] \in C
      BY <1>1
    <2>2. /\ a \in Seq(C) /\ Len(a) = IF 1 <= i - 1 THEN i - 1 - 1 + 1 ELSE 0
          /\ \A k \in 1..i - 1 - 1 + 1 : a[k] = s[1 + k - 1]
      BY <2>1, SubSeqProperties
    <2> HIDE DEF a
    <2> QED BY <1>1, <2>2
  <1>3. /\ b \in Seq(C) /\ Len(b) = Len(s) - i /\ \A k \in 1..Len(s) - i : b[k] = s[k + i]
    <2>1. i + 1 \in Int /\ Len(s) \in Int /\ \A k \in i + 1..Len(s) : s[k] \in C
      BY <1>1
    <2>2. /\ b \in Seq(C) /\ Len(b) = IF i + 1 <= Len(s) THEN Len(s) - (i + 1) + 1 ELSE 0
          /\ \A k \in 1..Len(s) - (i + 1) + 1 : b[k] = s[i + 1 + k - 1]
      BY <2>1, SubSeqProperties
    <2> HIDE DEF b
    <2>3. Len(b) = Len(s) - i
      <3>1. PICK n \in Nat : n = Len(s)
        BY <1>1
      <3>2. i \in 1..n /\ Len(b) = IF i + 1 <= n THEN n - (i + 1) + 1 ELSE 0
        BY <2>2, <3>1
      <3> QED BY <3>1, <3>2
    <2>4. ASSUME NEW k \in 1..Len(s) - i PROVE b[k] = s[k + i]
      <3>1. k \in 1..Len(s) - (i + 1) + 1 /\ i + 1 + k - 1 = k + i
        BY <1>1
      <3> QED BY <2>2, <3>1
    <2> QED BY <2>2, <2>3, <2>4
  <1>4. r = a \o b
    BY DEF RemoveAt
  <1> HIDE DEF a, b
  <1>5. /\ r \in Seq(C) /\ Len(r) = Len(s) - 1
        /\ \A k \in 1..Len(s) - 1 : r[k] = IF k <= i - 1 THEN a[k] ELSE b[k - (i - 1)]
    <2>1. a \in Seq(C) /\ b \in Seq(C)
      BY <1>2, <1>3
    <2>2. Joins(C, r, a, b)
      BY <1>4, <2>1, ConcatJoins
    <2>3. Len(a) + Len(b) = Len(s) - 1
      BY <1>1, <1>2, <1>3
    <2> QED BY <1>2, <2>2, <2>3 DEF Joins
  <1>6. DOMAIN r = 1..Len(s) - 1
    BY <1>5, LenProperties
  <1> DEFINE f == [k \in 1..Len(s) - 1 |-> IF k < i THEN k ELSE k + 1]
  <1>7. f \in [DOMAIN r -> DOMAIN s]
    BY <1>1, <1>6
  <1>8. ASSUME NEW k \in DOMAIN r PROVE f[k] # i /\ r[k] = s[f[k]]
    <2>1. i \in Nat /\ k \in 1..Len(s) - 1 /\ f[k] = (IF k < i THEN k ELSE k + 1)
      BY <1>1, <1>6
    <2> HIDE DEF f
    <2>2. CASE k <= i - 1
      <3>1. r[k] = a[k] /\ f[k] = k /\ k \in 1..i - 1
        BY <1>5, <2>1, <2>2
      <3> QED BY <1>2, <2>1, <2>2, <3>1
    <2>3. CASE ~(k <= i - 1)
      <3>1. r[k] = b[k - (i - 1)] /\ f[k] = k + 1 /\ f[k] # i
        BY <1>5, <2>1, <2>3
      <3>2. k - (i - 1) \in 1..Len(s) - i /\ k - (i - 1) + i = k + 1
        BY <1>1, <2>1, <2>3
      <3> QED BY <1>3, <3>1, <3>2
    <2> QED BY <2>2, <2>3
  <1>9. \A k, m \in DOMAIN r : f[k] = f[m] => k = m
    BY <1>1, <1>6
  <1> HIDE DEF f
  <1> QED BY <1>5, <1>7, <1>8, <1>9
-----------------------------------------------------------------------------
(* The steps of the page.                                                      *)

LEMMA TasksStay ==
    ASSUME TrackerInv, SameTasks(shown, shown'), UNCHANGED <<server, urls>>
    PROVE  EntriesTrue(shown)' /\ PreviewUrlsInUse'
  <1>1. EntriesTrue(shown)'
    BY DEF TrackerInv, SameTasks, EntriesTrue, Reached, Ended
  <1>2. {shown[t].url : t \in {t \in Tools : shown[t] # NoEntry}}'
        = {shown[t].url : t \in {t \in Tools : shown[t] # NoEntry}}
    BY DEF SameTasks
  <1>3. PreviewUrlsInUse'
    BY <1>2 DEF TrackerInv, PreviewUrlsInUse, SameTasks
  <1> QED BY <1>1, <1>3

LEMMA PollHolds ==
    ASSUME TrackerInv, Poll
    PROVE  TrackerInv'
  <1>1. PICK new : new = NewCalls(view, toolRef)
    OBVIOUS
  <1>2. /\ shown = view /\ calls' = calls \o new /\ fetching' = fetching \cup Fetched(new)
        /\ shown' = Loading(shown, new)
        /\ UNCHANGED <<server, view, tool, toolRef, urls, post>>
    BY <1>1 DEF Poll, Unrendered
  <1>3. TrackerTypeOK
    BY DEF TrackerInv
  <1>4. NewRight(new, shown, toolRef)
    BY <1>1, <1>2, <1>3, NewCallsRight DEF TrackerTypeOK
  <1>5. shown' \in [Tools -> Entries] /\ SameTasks(shown, shown')
    BY <1>2, <1>3, <1>4, LoadingRight DEF TrackerTypeOK
  <1>6. calls' \in Seq(Calls) /\ CallsTrue' /\ OneFetchEach'
    <2>1. toolRef \in Tools /\ calls \in Seq(Calls)
      BY <1>3 DEF TrackerTypeOK
    <2> QED BY <1>2, <1>4, <1>5, <2>1, CallsJoined
  <1>7. EntriesTrue(shown)' /\ PreviewUrlsInUse'
    BY <1>2, <1>5, TasksStay
  <1>8. EntriesTrue(view)'
    BY <1>2 DEF TrackerInv, EntriesTrue, Reached, Ended
  <1>9. RenderedIsSeen'
    BY <1>2, <1>3, <1>5 DEF TrackerInv, RenderedIsSeen, SameTasks, TrackerTypeOK
  <1>10. TrackerTypeOK'
    BY <1>2, <1>3, <1>5, <1>6 DEF TrackerTypeOK
  <1> QED BY <1>6, <1>7, <1>8, <1>9, <1>10 DEF TrackerInv

LEMMA RenderHolds ==
    ASSUME TrackerInv, Render
    PROVE  TrackerInv'
  <1>1. TrackerTypeOK
    BY DEF TrackerInv
  <1>2. PICK changed \in BOOLEAN : changed <=> PollableKey(shown, tool) # PollableKey(view, toolRef)
    OBVIOUS
  <1>3. PICK new : new = IF changed THEN NewCalls(shown, tool) ELSE <<>>
    OBVIOUS
  <1>4. PICK old : old = [i \in DOMAIN calls |-> [calls[i] EXCEPT !.stopped = @ \/ changed]]
    OBVIOUS
  <1>5. PICK loading : loading = Loading(shown, new)
    OBVIOUS
  <1>6. /\ view' = shown /\ toolRef' = tool
        /\ calls' = old \o new /\ fetching' = fetching \cup Fetched(new)
        /\ shown' = IF tool # toolRef /\ loading[tool] # NoEntry /\ loading[tool].status = "succeeded"
                    THEN [loading EXCEPT ![tool].seen = TRUE] ELSE loading
        /\ UNCHANGED <<server, tool, urls, post>>
    BY <1>2, <1>3, <1>4, <1>5 DEF Render
  <1>7. NewRight(new, shown, tool)
    <2>1. CASE changed
      BY <1>1, <1>3, <2>1, NewCallsRight DEF TrackerTypeOK
    <2>2. CASE ~changed
      BY <1>3, <2>2 DEF NewRight
    <2> QED BY <2>1, <2>2
  <1>8. loading \in [Tools -> Entries] /\ SameTasks(shown, loading)
    BY <1>1, <1>5, <1>7, LoadingRight DEF TrackerTypeOK
  <1>9. /\ shown' \in [Tools -> Entries] /\ SameTasks(shown, shown')
        /\ tool # toolRef /\ shown'[tool] # NoEntry /\ shown'[tool].status = "succeeded" => shown'[tool].seen
    <2>1. CASE tool # toolRef /\ loading[tool] # NoEntry /\ loading[tool].status = "succeeded"
      <3>1. PICK e : e = [loading[tool] EXCEPT !.seen = TRUE]
        OBVIOUS
      <3>2. loading[tool] \in Records
        BY <1>1, <1>8, <2>1, EntryKinds DEF TrackerTypeOK
      <3>3. e \in Records /\ e.id = loading[tool].id /\ e.url = loading[tool].url
            /\ e.status = loading[tool].status /\ e.seen
        BY <3>1, <3>2 DEF Records
      <3>4. e \in Entries /\ e # NoEntry
        BY <3>3, EntryKinds DEF Entries
      <3>5. shown' = [loading EXCEPT ![tool] = e] /\ tool \in Tools
        BY <1>1, <1>6, <1>8, <2>1, <3>1 DEF TrackerTypeOK
      <3>6. \A t \in Tools : shown'[t] = IF t = tool THEN e ELSE loading[t]
        BY <1>8, <3>5
      <3>7. SameTasks(shown, shown')
        BY <1>8, <2>1, <3>3, <3>4, <3>6 DEF SameTasks
      <3> QED BY <1>8, <3>3, <3>4, <3>5, <3>6, <3>7
    <2>2. CASE ~(tool # toolRef /\ loading[tool] # NoEntry /\ loading[tool].status = "succeeded")
      BY <1>6, <1>8, <2>2
    <2> QED BY <2>1, <2>2
  <1>10. calls' \in Seq(Calls) /\ CallsTrue' /\ OneFetchEach'
    <2>1. calls \in Seq(Calls) /\ Len(calls) \in Nat /\ DOMAIN calls = 1..Len(calls) /\ tool \in Tools
      BY <1>1, LenProperties DEF TrackerTypeOK
    <2>2. \A i \in 1..Len(calls) :
            /\ old[i] \in Calls
            /\ old[i].kind = calls[i].kind /\ old[i].tool = calls[i].tool
            /\ old[i].id = calls[i].id /\ old[i].answer = calls[i].answer
      <3> SUFFICES ASSUME NEW i \in 1..Len(calls)
                   PROVE  /\ old[i] \in Calls
                          /\ old[i].kind = calls[i].kind /\ old[i].tool = calls[i].tool
                          /\ old[i].id = calls[i].id /\ old[i].answer = calls[i].answer
        OBVIOUS
      <3>1. calls[i] \in Calls
        BY <2>1, ElementsAreOf
      <3>2. old[i] = [calls[i] EXCEPT !.stopped = @ \/ changed]
        BY <1>4, <2>1
      <3>3. calls[i].stopped \/ changed \in BOOLEAN
        BY <3>1 DEF Calls
      <3> QED BY <3>1, <3>2, <3>3 DEF Calls
    <2>3. old \in Seq(Calls) /\ Len(old) = Len(calls)
      <3>1. old \in [1..Len(calls) -> Calls]
        BY <1>4, <2>1, <2>2
      <3> QED BY <2>1, <3>1
    <2> QED BY <1>6, <1>7, <1>9, <2>1, <2>2, <2>3, CallsJoined
  <1>11. EntriesTrue(shown)' /\ PreviewUrlsInUse'
    BY <1>6, <1>9, TasksStay
  <1>12. EntriesTrue(view)'
    BY <1>6 DEF TrackerInv, EntriesTrue, Reached, Ended
  <1>13. RenderedIsSeen'
    BY <1>1, <1>6, <1>9 DEF TrackerInv, RenderedIsSeen, SameTasks, TrackerTypeOK
  <1>14. TrackerTypeOK'
    BY <1>1, <1>6, <1>9, <1>10 DEF TrackerTypeOK
  <1> QED BY <1>10, <1>11, <1>12, <1>13, <1>14 DEF TrackerInv

LEMMA ServeHolds ==
    ASSUME TrackerInv, NEW i \in DOMAIN calls, Serve(i)
    PROVE  TrackerInv'
  <1>1. TrackerTypeOK /\ calls \in Seq(Calls)
    BY DEF TrackerInv, TrackerTypeOK
  <1>2. UNCHANGED <<server, shown, view, tool, toolRef, fetching, urls, post>>
    BY DEF Serve
  <1>3. PICK answer : /\ answer = "error" \/ (answer = server[calls[i].id] /\ answer # "gone")
                      /\ calls' = [calls EXCEPT ![i].answer = answer]
    BY DEF Serve
  <1>4. PICK c : c = [calls[i] EXCEPT !.answer = answer]
    OBVIOUS
  <1>5. calls[i] \in Calls
    BY <1>1, ElementsAreOf
  <1>6. answer \in {"none", "running", "succeeded", "error"} /\ Reached(answer, calls[i].id)
    BY <1>1, <1>3, <1>5 DEF TrackerTypeOK, Calls, Reached, Ended
  <1>7. /\ c \in Calls /\ c.answer = answer
        /\ c.kind = calls[i].kind /\ c.tool = calls[i].tool /\ c.id = calls[i].id
    BY <1>4, <1>5, <1>6 DEF Calls
  <1>8. calls' = [calls EXCEPT ![i] = c]
    BY <1>3, <1>4
  <1>9. calls' \in Seq(Calls) /\ DOMAIN calls' = DOMAIN calls
        /\ \A k \in DOMAIN calls : calls'[k] = IF k = i THEN c ELSE calls[k]
    BY <1>1, <1>7, <1>8, LenProperties, ExceptSeq
  <1>10. CallsTrue'
    BY <1>2, <1>6, <1>7, <1>9 DEF TrackerInv, CallsTrue, CallTrue, Reached, Ended
  <1>11. OneFetchEach'
    BY <1>2, <1>7, <1>9 DEF TrackerInv, OneFetchEach
  <1>12. EntriesTrue(shown)' /\ EntriesTrue(view)' /\ PreviewUrlsInUse' /\ RenderedIsSeen'
    BY <1>2 DEF TrackerInv, EntriesTrue, Reached, Ended, PreviewUrlsInUse, RenderedIsSeen
  <1>13. TrackerTypeOK'
    BY <1>1, <1>2, <1>9 DEF TrackerTypeOK
  <1> QED BY <1>10, <1>11, <1>12, <1>13 DEF TrackerInv
\* A request that is over, whatever its answer did to the task it was for.
LEMMA CallOver ==
    ASSUME TrackerInv, NEW i \in DOMAIN calls, calls' = RemoveAt(calls, i), server' = server,
           \/ fetching' = fetching
           \/ calls[i].kind = "result" /\ fetching' = fetching \ {calls[i].id},
           \A t \in Tools :
              /\ shown'[t].id = shown[t].id
              /\ \/ shown'[t].url = shown[t].url
                 \/ calls[i].kind = "result" /\ shown[t].id = calls[i].id
    PROVE  calls' \in Seq(Calls) /\ CallsTrue' /\ OneFetchEach'
  <1>1. calls \in Seq(Calls) /\ i \in 1..Len(calls)
    BY LenProperties DEF TrackerInv, TrackerTypeOK
  <1>2. calls' \in Seq(Calls)
    BY <1>1, OneCallLess
  <1>3. PICK f \in [DOMAIN calls' -> DOMAIN calls] :
          /\ \A k \in DOMAIN calls' : f[k] # i /\ calls'[k] = calls[f[k]]
          /\ \A k, m \in DOMAIN calls' : f[k] = f[m] => k = m
    BY <1>1, OneCallLess
  <1>4. CallsTrue'
    <2> SUFFICES ASSUME NEW k \in DOMAIN calls' PROVE CallTrue(calls[k])'
      BY DEF CallsTrue
    <2>1. CallTrue(calls[f[k]]) /\ calls'[k] = calls[f[k]]
      BY <1>3 DEF TrackerInv, CallsTrue
    <2> QED BY <2>1 DEF CallTrue, Reached, Ended
  <1>5. ASSUME NEW k \in DOMAIN calls', calls'[k].kind = "result"
        PROVE  /\ calls'[k].id \in fetching'
               /\ shown'[calls'[k].tool].id = calls'[k].id => shown'[calls'[k].tool].url = 0
               /\ \A m \in DOMAIN calls' : calls'[m].kind = "result" /\ calls'[m].id = calls'[k].id => m = k
    <2>1. f[k] \in DOMAIN calls /\ f[k] # i /\ calls'[k] = calls[f[k]] /\ calls[f[k]].kind = "result"
      BY <1>3, <1>5
    <2>2. /\ calls[f[k]].id \in fetching
          /\ shown[calls[f[k]].tool].id = calls[f[k]].id => shown[calls[f[k]].tool].url = 0
          /\ calls[i].kind = "result" => calls[i].id # calls[f[k]].id
      BY <2>1 DEF TrackerInv, OneFetchEach
    <2>3. calls[f[k]].tool \in Tools
      <3>1. calls[f[k]] \in Calls
        BY <1>1, <2>1, ElementsAreOf
      <3> QED BY <3>1 DEF Calls
    <2>4. ASSUME NEW m \in DOMAIN calls', calls'[m].kind = "result", calls'[m].id = calls'[k].id
          PROVE  m = k
      <3>1. f[m] \in DOMAIN calls /\ calls'[m] = calls[f[m]]
        BY <1>3
      <3>2. f[m] = f[k]
        BY <2>1, <2>4, <3>1 DEF TrackerInv, OneFetchEach
      <3> QED BY <1>3, <3>2
    <2> QED BY <2>1, <2>2, <2>3, <2>4
  <1>6. OneFetchEach'
    BY <1>5 DEF OneFetchEach
  <1> QED BY <1>2, <1>4, <1>6

LEMMA StatusArrivesHolds ==
    ASSUME TrackerInv, NEW i \in DOMAIN calls, StatusArrives(i)
    PROVE  TrackerInv'
  <1>1. TrackerTypeOK /\ calls \in Seq(Calls)
    BY DEF TrackerInv, TrackerTypeOK
  <1>2. PICK call : call = calls[i]
    OBVIOUS
  <1>3. call \in Calls /\ CallTrue(call)
    BY <1>1, <1>2, ElementsAreOf DEF TrackerInv, CallsTrue
  <1>4. PICK t \in Tools : t = call.tool
    BY <1>3 DEF Calls
  <1>5. PICK e : e = shown[t]
    OBVIOUS
  <1>6. /\ call.kind = "status" /\ call.answer # "none" /\ calls' = RemoveAt(calls, i)
        /\ shown' =
             IF e.id # call.id THEN shown
             ELSE IF call.answer = "error" THEN [shown EXCEPT ![t].error = TRUE]
             ELSE IF call.stopped THEN shown
             ELSE [shown EXCEPT ![t] = [@ EXCEPT !.status = call.answer, !.error = FALSE,
                                                 !.seen = e.seen \/ (call.answer = "succeeded" /\ t = toolRef)]]
        /\ UNCHANGED <<server, view, tool, toolRef, fetching, urls, post>>
    BY <1>2, <1>4, <1>5 DEF StatusArrives, StillThere, SeenNow
  <1>7. PICK e2 :
          /\ shown' = [shown EXCEPT ![t] = e2] /\ e2 \in Entries
          /\ e2.id = e.id /\ (e2 = NoEntry <=> e = NoEntry)
          /\ e # NoEntry => /\ e2.url = e.url /\ Reached(e2.status, e2.id)
                            /\ \/ e2.status = e.status /\ e2.seen = e.seen
                               \/ e2.status = "succeeded" /\ t = toolRef => e2.seen
    <2>1. e \in Entries /\ shown \in [Tools -> Entries] /\ shown = [shown EXCEPT ![t] = e]
      BY <1>1, <1>5 DEF TrackerTypeOK
    <2>2. e # NoEntry => Reached(e.status, e.id)
      BY <1>5 DEF TrackerInv, EntriesTrue
    <2>3. CASE shown' = shown
      BY <2>1, <2>2, <2>3
    <2>4. CASE e.id = call.id /\ call.answer = "error"
      <3>1. e \in Records
        BY <1>3, <2>1, <2>4, EntryKinds DEF Calls
      <3>2. PICK n : n = [e EXCEPT !.error = TRUE]
        OBVIOUS
      <3>3. n \in Records /\ n.id = e.id /\ n.url = e.url /\ n.status = e.status /\ n.seen = e.seen
        BY <3>1, <3>2 DEF Records
      <3>4. n \in Entries /\ n # NoEntry /\ e # NoEntry
        BY <3>1, <3>3, EntryKinds DEF Entries
      <3>5. shown' = [shown EXCEPT ![t] = n]
        BY <1>5, <1>6, <2>4, <3>2
      <3> QED BY <2>2, <3>3, <3>4, <3>5
    <2>5. CASE e.id = call.id /\ call.answer # "error" /\ ~call.stopped
      <3>1. e \in Records
        BY <1>3, <2>1, <2>5, EntryKinds DEF Calls
      <3>2. PICK seen \in BOOLEAN : seen = (e.seen \/ (call.answer = "succeeded" /\ t = toolRef))
        BY <3>1 DEF Records
      <3>3. PICK n : n = [e EXCEPT !.status = call.answer, !.error = FALSE, !.seen = seen]
        OBVIOUS
      <3>4. call.answer \in {"running", "succeeded"}
        BY <1>3, <1>6, <2>5 DEF Calls
      <3>5. n \in Records /\ n.id = e.id /\ n.url = e.url /\ n.status = call.answer /\ n.seen = seen
        BY <3>1, <3>3, <3>4 DEF Records
      <3>6. n \in Entries /\ n # NoEntry /\ e # NoEntry
        BY <3>1, <3>5, EntryKinds DEF Entries
      <3>7. shown' = [shown EXCEPT ![t] = n]
        BY <1>5, <1>6, <2>5, <3>2, <3>3
      <3>8. Reached(n.status, n.id)
        BY <1>3, <2>5, <3>5 DEF CallTrue
      <3> QED BY <3>2, <3>5, <3>6, <3>7, <3>8
    <2> QED BY <1>6, <2>3, <2>4, <2>5
  <1>8. /\ shown' \in [Tools -> Entries]
        /\ \A u \in Tools : shown'[u] = IF u = t THEN e2 ELSE shown[u]
    BY <1>1, <1>7 DEF TrackerTypeOK
  <1>9. e \in Entries /\ e2 \in Entries /\ NoEntry.id = NoTask
    BY <1>1, <1>5, <1>7, EntryKinds DEF TrackerTypeOK
  <1>10. \A u \in Tools : shown'[u].id = shown[u].id /\ shown'[u].url = shown[u].url
    BY <1>5, <1>7, <1>8
  <1>11. calls' \in Seq(Calls) /\ CallsTrue' /\ OneFetchEach'
    BY <1>6, <1>10, CallOver
  <1>12. EntriesTrue(shown)'
    <2>1. ASSUME NEW u \in Tools, shown'[u] # NoEntry
          PROVE  /\ Reached(shown'[u].status, shown'[u].id)
                 /\ shown'[u].url # 0 => shown'[u].id \in ImageTasks
      <3>1. /\ shown[u] # NoEntry => /\ Reached(shown[u].status, shown[u].id)
                                     /\ shown[u].url # 0 => shown[u].id \in ImageTasks
        BY DEF TrackerInv, EntriesTrue
      <3>2. CASE u = t
        BY <1>5, <1>7, <1>8, <2>1, <3>1, <3>2
      <3>3. CASE u # t
        BY <1>8, <2>1, <3>1, <3>3
      <3> QED BY <3>2, <3>3
    <2> QED BY <1>6, <2>1 DEF EntriesTrue, Reached, Ended
  <1>13. EntriesTrue(view)'
    BY <1>6 DEF TrackerInv, EntriesTrue, Reached, Ended
  <1>14. PreviewUrlsInUse'
    <2>1. \A u \in Tools : (shown'[u] = NoEntry <=> shown[u] = NoEntry) /\ shown'[u].url = shown[u].url
      BY <1>5, <1>7, <1>8, <1>10
    <2> QED BY <1>6, <2>1 DEF TrackerInv, PreviewUrlsInUse
  <1>15. RenderedIsSeen'
    BY <1>1, <1>5, <1>6, <1>7, <1>8 DEF TrackerInv, RenderedIsSeen, TrackerTypeOK
  <1>16. TrackerTypeOK'
    BY <1>1, <1>6, <1>8, <1>11 DEF TrackerTypeOK
  <1> QED BY <1>11, <1>12, <1>13, <1>14, <1>15, <1>16 DEF TrackerInv
LEMMA FreshUrlIsNew ==
    ASSUME TrackerTypeOK
    PROVE  FreshUrl \in Nat \ {0} /\ FreshUrl \notin urls
  <1>1. IsFiniteSet(urls)
    BY DEF TrackerTypeOK
  <1>2. PICK n \in Nat : n = Cardinality(urls)
    BY <1>1, FS_CardinalityType
  <1>3. \E u \in 1..(n + 1) : u \notin urls
    <2> SUFFICES ASSUME 1..(n + 1) \subseteq urls PROVE FALSE
      OBVIOUS
    <2>1. Cardinality(1..(n + 1)) <= Cardinality(urls)
      BY <1>1, FS_Subset
    <2>2. Cardinality(1..(n + 1)) = n + 1
      <3>1. 1 \in Int /\ n + 1 \in Int
        OBVIOUS
      <3>2. Cardinality(1..(n + 1)) = IF 1 > n + 1 THEN 0 ELSE n + 1 - 1 + 1
        BY <3>1, FS_Interval
      <3> QED BY <3>2
    <2> QED BY <1>2, <2>1, <2>2
  <1>4. FreshUrl \in 1..(n + 1) /\ FreshUrl \notin urls
    BY <1>2, <1>3 DEF FreshUrl
  <1> QED BY <1>4

LEMMA ResultArrivesHolds ==
    ASSUME TrackerInv, NEW i \in DOMAIN calls, ResultArrives(i)
    PROVE  TrackerInv'
  <1>1. TrackerTypeOK /\ calls \in Seq(Calls)
    BY DEF TrackerInv, TrackerTypeOK
  <1>2. PICK call : call = calls[i]
    OBVIOUS
  <1>3. call \in Calls /\ CallTrue(call)
    BY <1>1, <1>2, ElementsAreOf DEF TrackerInv, CallsTrue
  <1>4. PICK t \in Tools : t = call.tool
    BY <1>3 DEF Calls
  <1>5. PICK e : e = shown[t]
    OBVIOUS
  <1>6. PICK fresh \in Nat \ {0} : fresh = FreshUrl /\ fresh \notin urls
    BY <1>1, FreshUrlIsNew
  <1>7. /\ call.kind = "result" /\ calls' = RemoveAt(calls, i) /\ fetching' = fetching \ {call.id}
        /\ \/ shown' = shown /\ urls' = urls
           \/ /\ e.id = call.id /\ urls' = urls \cup {fresh}
              /\ shown' = [shown EXCEPT ![t] = [e EXCEPT !.status = "succeeded", !.url = fresh, !.seen = TRUE]]
        /\ UNCHANGED <<server, view, tool, toolRef, post>>
    BY <1>2, <1>4, <1>5, <1>6 DEF ResultArrives, StillThere, FetchOver
  <1>8. EntriesTrue(view)'
    BY <1>7 DEF TrackerInv, EntriesTrue, Reached, Ended
  <1>9. CASE shown' = shown /\ urls' = urls
    <2>1. calls' \in Seq(Calls) /\ CallsTrue' /\ OneFetchEach'
      BY <1>2, <1>7, <1>9, CallOver
    <2>2. EntriesTrue(shown)' /\ PreviewUrlsInUse' /\ RenderedIsSeen'
      BY <1>7, <1>9 DEF TrackerInv, EntriesTrue, Reached, Ended, PreviewUrlsInUse, RenderedIsSeen
    <2>3. TrackerTypeOK'
      BY <1>1, <1>7, <1>9, <2>1 DEF TrackerTypeOK
    <2> QED BY <1>8, <2>1, <2>2, <2>3 DEF TrackerInv
  <1>10. CASE /\ e.id = call.id /\ urls' = urls \cup {fresh}
              /\ shown' = [shown EXCEPT ![t] = [e EXCEPT !.status = "succeeded", !.url = fresh, !.seen = TRUE]]
    <2>1. PICK e2 : e2 = [e EXCEPT !.status = "succeeded", !.url = fresh, !.seen = TRUE]
      OBVIOUS
    <2>2. e \in Records /\ e # NoEntry
      BY <1>1, <1>3, <1>4, <1>5, <1>10, EntryKinds DEF TrackerTypeOK, Calls
    <2>3. e2 \in Records /\ e2.id = e.id /\ e2.status = "succeeded" /\ e2.url = fresh /\ e2.seen
      BY <1>6, <2>1, <2>2 DEF Records
    <2>4. e2 \in Entries /\ e2 # NoEntry
      BY <2>3, EntryKinds DEF Entries
    <2>5. /\ shown' \in [Tools -> Entries]
          /\ \A u \in Tools : shown'[u] = IF u = t THEN e2 ELSE shown[u]
      BY <1>1, <1>10, <2>1, <2>4 DEF TrackerTypeOK
    <2>6. e.url = 0
      BY <1>2, <1>4, <1>5, <1>7, <1>10 DEF TrackerInv, OneFetchEach
    <2>7. \A u \in Tools :
            /\ shown'[u].id = shown[u].id
            /\ shown'[u].url = shown[u].url \/ shown[u].id = call.id
      BY <1>5, <1>10, <2>3, <2>5
    <2>8. calls' \in Seq(Calls) /\ CallsTrue' /\ OneFetchEach'
      BY <1>2, <1>7, <2>7, CallOver
    <2>9. EntriesTrue(shown)'
      <3>1. Ended(call.id) /\ call.id \in ImageTasks
        BY <1>3, <1>7 DEF CallTrue
      <3>2. ASSUME NEW u \in Tools, shown'[u] # NoEntry
            PROVE  /\ Reached(shown'[u].status, shown'[u].id)
                   /\ shown'[u].url # 0 => shown'[u].id \in ImageTasks
        <4>1. CASE u = t
          BY <1>10, <2>3, <2>5, <3>1, <4>1 DEF Reached
        <4>2. CASE u # t
          BY <2>5, <3>2, <4>2 DEF TrackerInv, EntriesTrue
        <4> QED BY <4>1, <4>2
      <3> QED BY <1>7, <3>2 DEF EntriesTrue, Reached, Ended
    <2>10. PreviewUrlsInUse'
      <3>1. \A u \in Tools : shown[u] # NoEntry /\ shown[u].url # 0 => shown[u].url \in urls
        BY DEF TrackerInv, PreviewUrlsInUse
      <3>2. ASSUME NEW u \in Tools, NEW v \in Tools, u # v, shown'[u] # NoEntry, shown'[v] # NoEntry,
                   shown'[u].url # 0
            PROVE  shown'[u].url # shown'[v].url
        <4>1. CASE u = t
          BY <1>6, <2>3, <2>5, <3>1, <3>2, <4>1
        <4>2. CASE v = t
          BY <1>6, <2>3, <2>5, <3>1, <3>2, <4>2
        <4>3. CASE u # t /\ v # t
          BY <2>5, <3>2, <4>3 DEF TrackerInv, PreviewUrlsInUse
        <4> QED BY <4>1, <4>2, <4>3
      <3> DEFINE old == {shown[u].url : u \in {u \in Tools : shown[u] # NoEntry}}
                 now == {shown'[u].url : u \in {u \in Tools : shown'[u] # NoEntry}}
      <3>3. now \ {0} \subseteq (old \ {0}) \cup {fresh}
        BY <2>3, <2>5
      <3>4. old \ {0} \subseteq now
        <4> SUFFICES ASSUME NEW u \in Tools, shown[u] # NoEntry, shown[u].url # 0
                     PROVE  shown[u].url \in now
          OBVIOUS
        <4>1. u # t
          BY <1>5, <2>6
        <4> QED BY <2>5, <4>1
      <3>5. fresh \in now
        BY <2>3, <2>4, <2>5
      <3>6. urls = old \ {0}
        BY DEF TrackerInv, PreviewUrlsInUse
      <3> HIDE DEF old, now
      <3>7. urls' = now \ {0}
        BY <1>6, <1>10, <3>3, <3>4, <3>5, <3>6
      <3> QED BY <3>2, <3>7 DEF PreviewUrlsInUse, now
    <2>11. RenderedIsSeen'
      BY <1>1, <1>7, <2>3, <2>5 DEF TrackerInv, RenderedIsSeen, TrackerTypeOK
    <2>12. TrackerTypeOK'
      <3>1. urls' \in SUBSET (Nat \ {0}) /\ IsFiniteSet(urls')
        BY <1>1, <1>6, <1>10, FS_AddElement DEF TrackerTypeOK
      <3> QED BY <1>1, <1>7, <2>5, <2>8, <3>1 DEF TrackerTypeOK
    <2> QED BY <1>8, <2>8, <2>9, <2>10, <2>11, <2>12 DEF TrackerInv
  <1> QED BY <1>7, <1>9, <1>10

\* The server goes on: what was true of a task is.
Since(status, j) ==
    /\ status = "running" => server'[j] # "none"
    /\ status = "succeeded" => server'[j] \in {"succeeded", "gone"}

LEMMA ServerGoesOn ==
    ASSUME TrackerInv, \A j \in Tasks : (Ended(j) => Ended(j)') /\ (server[j] # "none" => server'[j] # "none")
    PROVE  /\ \A t \in Tools : shown[t] # NoEntry => Since(shown[t].status, shown[t].id)
           /\ view' = view => EntriesTrue(view)'
           /\ shown' = shown => EntriesTrue(shown)'
           /\ calls' = calls => CallsTrue'
  <1>1. \A j \in Tasks : \A status : Reached(status, j) => Since(status, j)
    BY DEF Reached, Since, Ended
  <1>2. shown \in [Tools -> Entries] /\ view \in [Tools -> Entries] /\ calls \in Seq(Calls)
    BY DEF TrackerInv, TrackerTypeOK
  <1>3. ASSUME NEW t \in Tools, shown[t] # NoEntry PROVE Since(shown[t].status, shown[t].id)
    <2>1. shown[t].id \in Tasks /\ Reached(shown[t].status, shown[t].id)
      BY <1>2, <1>3, EntryKinds DEF TrackerInv, EntriesTrue
    <2> QED BY <1>1, <2>1
  <1>4. ASSUME NEW t \in Tools, view[t] # NoEntry PROVE Since(view[t].status, view[t].id)
    <2>1. view[t].id \in Tasks /\ Reached(view[t].status, view[t].id)
      BY <1>2, <1>4, EntryKinds DEF TrackerInv, EntriesTrue
    <2> QED BY <1>1, <2>1
  <1>5. ASSUME NEW i \in DOMAIN calls
        PROVE  /\ Since(calls[i].answer, calls[i].id)
               /\ calls[i].kind = "result" => calls[i].id \in ImageTasks /\ Since("succeeded", calls[i].id)
    <2>1. calls[i].id \in Tasks
      <3>1. calls[i] \in Calls
        BY <1>2, ElementsAreOf
      <3> QED BY <3>1 DEF Calls
    <2>2. CallTrue(calls[i])
      BY DEF TrackerInv, CallsTrue
    <2>3. calls[i].kind = "result" => Reached("succeeded", calls[i].id)
      BY <2>2 DEF CallTrue, Reached
    <2> QED BY <1>1, <2>1, <2>2, <2>3 DEF CallTrue
  <1>6. view' = view => EntriesTrue(view)'
    BY <1>4 DEF TrackerInv, EntriesTrue, Reached, Ended, Since
  <1>7. shown' = shown => EntriesTrue(shown)'
    BY <1>3 DEF TrackerInv, EntriesTrue, Reached, Ended, Since
  <1>8. calls' = calls => CallsTrue'
    BY <1>5 DEF CallsTrue, CallTrue, Reached, Ended, Since
  <1> QED BY <1>3, <1>6, <1>7, <1>8

\* A task takes the place of another, or its place is empty.
LEMMA TaskReplaced ==
    ASSUME TrackerInv, NEW t \in Tools, NEW e \in Entries, e = NoEntry \/ (e.url = 0 /\ e.status = "pending"),
           shown' = [shown EXCEPT ![t] = e], urls' = UrlsAfter(shown[t]),
           UNCHANGED <<view, tool, toolRef, calls, fetching>>,
           \A j \in Tasks : (Ended(j) => Ended(j)') /\ (server[j] # "none" => server'[j] # "none"),
           server' \in [Tasks -> {"none", "running", "succeeded", "gone"}], post' \in Tools \cup {NoTask}
    PROVE  TrackerInv'
  <1>1. TrackerTypeOK
    BY DEF TrackerInv
  <1>2. /\ shown' \in [Tools -> Entries]
        /\ \A u \in Tools : shown'[u] = IF u = t THEN e ELSE shown[u]
    BY <1>1 DEF TrackerTypeOK
  <1>3. EntriesTrue(view)' /\ CallsTrue'
    BY ServerGoesOn
  <1>4. EntriesTrue(shown)'
    <2>1. ASSUME NEW u \in Tools, shown'[u] # NoEntry
          PROVE  /\ Since(shown'[u].status, shown'[u].id)
                 /\ shown'[u].url # 0 => shown'[u].id \in ImageTasks
      <3>1. CASE u = t
        BY <1>2, <2>1, <3>1 DEF Since
      <3>2. CASE u # t
        <4>1. shown'[u] = shown[u] /\ Since(shown[u].status, shown[u].id)
          BY <1>2, <2>1, <3>2, ServerGoesOn
        <4> QED BY <2>1, <4>1 DEF TrackerInv, EntriesTrue
      <3> QED BY <3>1, <3>2
    <2> QED BY <2>1 DEF EntriesTrue, Reached, Ended, Since
  <1>5. OneFetchEach'
    <2>1. ASSUME NEW i \in DOMAIN calls, calls[i].kind = "result", shown'[calls[i].tool].id = calls[i].id
          PROVE  shown'[calls[i].tool].url = 0
      <3>1. calls[i] \in Calls
        BY <1>1, ElementsAreOf DEF TrackerTypeOK
      <3>2. calls[i].id \in Tasks /\ calls[i].tool \in Tools
        BY <3>1 DEF Calls
      <3>3. CASE calls[i].tool = t
        BY <1>2, <2>1, <3>2, <3>3, TrackerAssumption DEF NoEntry
      <3>4. CASE calls[i].tool # t
        BY <1>2, <2>1, <3>2, <3>4 DEF TrackerInv, OneFetchEach
      <3> QED BY <3>3, <3>4
    <2> QED BY <2>1 DEF TrackerInv, OneFetchEach
  <1>6. PreviewUrlsInUse'
    <2> DEFINE Urls(entries) == {entries[u].url : u \in {u \in Tools : entries[u] # NoEntry}}
    <2>1. urls = Urls(shown) \ {0}
      BY DEF TrackerInv, PreviewUrlsInUse
    <2>2. \A u, v \in Tools :
            u # v /\ shown[u] # NoEntry /\ shown[v] # NoEntry /\ shown[u].url # 0 => shown[u].url # shown[v].url
      BY DEF TrackerInv, PreviewUrlsInUse
    <2>3. \A u, v \in Tools :
            u # v /\ shown'[u] # NoEntry /\ shown'[v] # NoEntry /\ shown'[u].url # 0 => shown'[u].url # shown'[v].url
      BY <1>2, <2>2
    <2>4. ASSUME NEW n PROVE n \in urls' <=> n \in Urls(shown') \ {0}
      <3>1. CASE shown[t] = NoEntry
        BY <1>2, <2>1, <3>1 DEF UrlsAfter
      <3>2. CASE shown[t] # NoEntry
        <4>1. n \in urls' <=> n \in Urls(shown) \ {0} /\ n # shown[t].url
          BY <2>1, <3>2 DEF UrlsAfter
        <4>2. ASSUME n \in Urls(shown) \ {0}, n # shown[t].url
              PROVE  n \in Urls(shown') \ {0}
          BY <1>2, <4>2
        <4>3. ASSUME n \in Urls(shown') \ {0}
              PROVE  n \in Urls(shown) \ {0} /\ n # shown[t].url
          <5>1. PICK u \in Tools : shown'[u] # NoEntry /\ n = shown'[u].url /\ n # 0
            BY <4>3
          <5>2. u # t
            BY <1>2, <5>1
          <5> QED BY <1>2, <2>2, <3>2, <5>1, <5>2
        <4> QED BY <4>1, <4>2, <4>3
      <3> QED BY <3>1, <3>2
    <2> QED BY <2>3, <2>4 DEF PreviewUrlsInUse
  <1>7. RenderedIsSeen'
    BY <1>1, <1>2 DEF TrackerInv, RenderedIsSeen, TrackerTypeOK
  <1>8. TrackerTypeOK'
    <2>1. urls' \in SUBSET (Nat \ {0}) /\ IsFiniteSet(urls')
      BY <1>1, FS_RemoveElement DEF TrackerTypeOK, UrlsAfter
    <2> QED BY <1>1, <1>2, <2>1 DEF TrackerTypeOK
  <1> QED BY <1>3, <1>4, <1>5, <1>6, <1>7, <1>8 DEF TrackerInv

LEMMA CreatedHolds ==
    ASSUME TrackerInv, Created
    PROVE  TrackerInv'
  <1>1. PICK j \in Tasks :
          /\ server[j] = "none" /\ server' = [server EXCEPT ![j] = "running"]
          /\ shown' = [shown EXCEPT ![post] = Entry(j)] /\ urls' = UrlsAfter(shown[post])
    BY DEF Created
  <1>2. post \in Tools /\ post' = NoTask /\ UNCHANGED <<view, tool, toolRef, calls, fetching>>
    BY DEF Created, TrackerInv, TrackerTypeOK
  <1>3. server \in [Tasks -> {"none", "running", "succeeded", "gone"}]
    BY DEF TrackerInv, TrackerTypeOK
  <1>4. Entry(j) \in Entries /\ Entry(j).url = 0 /\ Entry(j).status = "pending"
    BY DEF Entry, Entries, Records
  <1>5. /\ server' \in [Tasks -> {"none", "running", "succeeded", "gone"}]
        /\ \A k \in Tasks : (Ended(k) => Ended(k)') /\ (server[k] # "none" => server'[k] # "none")
    BY <1>1, <1>3 DEF Ended
  <1> QED BY <1>1, <1>2, <1>4, <1>5, TaskReplaced

\* The server's steps, and those of the page that change nothing it shows.
LEMMA NothingShown ==
    ASSUME TrackerInv, UNCHANGED <<shown, view, toolRef, calls, fetching, urls>>,
           \A j \in Tasks : (Ended(j) => Ended(j)') /\ (server[j] # "none" => server'[j] # "none"),
           server' \in [Tasks -> {"none", "running", "succeeded", "gone"}],
           tool' \in Tools, post' \in Tools \cup {NoTask}
    PROVE  TrackerInv'
  <1>1. EntriesTrue(view)' /\ EntriesTrue(shown)' /\ CallsTrue'
    BY ServerGoesOn
  <1>2. OneFetchEach' /\ PreviewUrlsInUse' /\ RenderedIsSeen'
    BY DEF TrackerInv, OneFetchEach, PreviewUrlsInUse, RenderedIsSeen
  <1>3. TrackerTypeOK'
    BY DEF TrackerInv, TrackerTypeOK
  <1> QED BY <1>1, <1>2, <1>3 DEF TrackerInv

LEMMA CancelledHolds ==
    ASSUME TrackerInv, NEW t \in Tools, Cancelled(t)
    PROVE  TrackerInv'
  <1>1. PICK id : id = view[t].id
    OBVIOUS
  <1>2. /\ id # NoTask /\ server' = [server EXCEPT ![id] = "gone"]
        /\ shown' = IF shown[t].id = id THEN [shown EXCEPT ![t] = NoEntry] ELSE shown
        /\ urls' = IF shown[t].id = id THEN UrlsAfter(shown[t]) ELSE urls
        /\ UNCHANGED <<view, tool, toolRef, calls, fetching, post>>
    BY <1>1 DEF Cancelled
  <1>3. /\ server \in [Tasks -> {"none", "running", "succeeded", "gone"}]
        /\ post \in Tools \cup {NoTask} /\ tool \in Tools
    BY DEF TrackerInv, TrackerTypeOK
  <1>4. /\ server' \in [Tasks -> {"none", "running", "succeeded", "gone"}]
        /\ \A j \in Tasks : (Ended(j) => Ended(j)') /\ (server[j] # "none" => server'[j] # "none")
    BY <1>2, <1>3 DEF Ended
  <1>5. CASE shown[t].id = id
    <2>1. NoEntry \in Entries
      BY DEF Entries
    <2> QED BY <1>2, <1>3, <1>4, <1>5, <2>1, TaskReplaced
  <1>6. CASE shown[t].id # id
    BY <1>2, <1>3, <1>4, <1>6, NothingShown
  <1> QED BY <1>5, <1>6

LEMMA ReloadHolds ==
    ASSUME TrackerInv, Reload
    PROVE  TrackerInv'
  <1>1. TrackerTypeOK
    BY DEF TrackerInv
  <1>2. PICK dropped :
          shown' = [t \in Tools |->
                      IF view[t] = NoEntry \/ t \in dropped THEN NoEntry
                      ELSE [view[t] EXCEPT !.url = 0, !.seen = @ \/ (t = tool /\ view[t].status = "succeeded")]]
    BY DEF Reload
  <1>3. /\ view' = [t \in Tools |-> NoEntry] /\ toolRef' = tool /\ calls' = <<>>
        /\ fetching' = {} /\ urls' = {} /\ post' = NoTask /\ UNCHANGED <<server, tool>>
    BY DEF Reload
  <1>4. ASSUME NEW t \in Tools, shown'[t] # NoEntry
        PROVE  /\ shown'[t] \in Records /\ view[t] # NoEntry
               /\ shown'[t].id = view[t].id /\ shown'[t].status = view[t].status /\ shown'[t].url = 0
               /\ t = tool /\ shown'[t].status = "succeeded" => shown'[t].seen
    <2>1. view[t] # NoEntry /\ view[t] \in Records
      BY <1>1, <1>2, <1>4, EntryKinds DEF TrackerTypeOK
    <2>2. PICK seen \in BOOLEAN : seen = (view[t].seen \/ (t = tool /\ view[t].status = "succeeded"))
      BY <2>1 DEF Records
    <2>3. shown'[t] = [view[t] EXCEPT !.url = 0, !.seen = seen]
      BY <1>2, <1>4, <2>1, <2>2
    <2>4. PICK old \in Records : old = view[t]
      BY <2>1
    <2>5. PICK e : e = [old EXCEPT !.url = 0, !.seen = seen]
      OBVIOUS
    <2>6. e \in Records /\ e.id = old.id /\ e.status = old.status /\ e.url = 0 /\ e.seen = seen
      BY <2>5 DEF Records
    <2>7. shown'[t] = e
      BY <2>3, <2>4, <2>5
    <2> QED BY <2>1, <2>2, <2>4, <2>6, <2>7
  <1>5. shown' \in [Tools -> Entries]
    <2>1. \A t \in Tools : shown'[t] \in Entries
      BY <1>4 DEF Entries
    <2> QED BY <1>2, <2>1
  <1>6. EntriesTrue(shown)'
    BY <1>3, <1>4 DEF TrackerInv, EntriesTrue, Reached, Ended
  <1>7. EntriesTrue(view)' /\ CallsTrue' /\ OneFetchEach'
    BY <1>3 DEF EntriesTrue, CallsTrue, OneFetchEach
  <1>8. PreviewUrlsInUse'
    BY <1>3, <1>4 DEF PreviewUrlsInUse
  <1>9. RenderedIsSeen'
    BY <1>1, <1>3, <1>4 DEF RenderedIsSeen, TrackerTypeOK
  <1>10. TrackerTypeOK'
    <2>1. view' \in [Tools -> Entries] /\ calls' \in Seq(Calls)
      BY <1>3 DEF Entries
    <2> QED BY <1>1, <1>3, <1>5, <2>1, FS_EmptySet DEF TrackerTypeOK
  <1> QED BY <1>6, <1>7, <1>8, <1>9, <1>10 DEF TrackerInv

LEMMA TrackerBegins ==
    ASSUME TrackerInit
    PROVE  TrackerInv
  <1> USE DEF TrackerInit
  <1>1. \A t \in Tools : shown[t] = NoEntry /\ view[t] = NoEntry
    OBVIOUS
  <1>2. TrackerTypeOK
    BY FS_EmptySet DEF TrackerTypeOK, Entries
  <1>3. EntriesTrue(shown) /\ EntriesTrue(view) /\ CallsTrue /\ OneFetchEach
    BY <1>1 DEF EntriesTrue, CallsTrue, OneFetchEach
  <1>4. PreviewUrlsInUse /\ RenderedIsSeen
    BY <1>1 DEF PreviewUrlsInUse, RenderedIsSeen
  <1> QED BY <1>2, <1>3, <1>4 DEF TrackerInv

LEMMA TrackerStepHolds ==
    ASSUME TrackerInv, [TrackerNext]_trackerVars
    PROVE  TrackerInv'
  <1>1. server \in [Tasks -> {"none", "running", "succeeded", "gone"}] /\ post \in Tools \cup {NoTask}
        /\ tool \in Tools /\ toolRef \in Tools
    BY DEF TrackerInv, TrackerTypeOK
  <1>2. CASE Submit \/ NotCreated \/ \E t \in Tools : Navigate(t)
    <2>1. UNCHANGED <<server, shown, view, toolRef, calls, fetching, urls>>
          /\ tool' \in Tools /\ post' \in Tools \cup {NoTask}
      BY <1>1, <1>2 DEF Submit, NotCreated, Navigate
    <2> QED BY <1>1, <2>1, NothingShown DEF Ended
  <1>3. CASE \E j \in Tasks : TaskEnds(j) \/ RecordGoes(j)
    <2>1. PICK j \in Tasks, status \in {"succeeded", "gone"} :
            /\ server' = [server EXCEPT ![j] = status]
            /\ status = "succeeded" => server[j] = "running"
            /\ UNCHANGED <<shown, view, tool, toolRef, calls, fetching, urls, post>>
      BY <1>3 DEF TaskEnds, RecordGoes
    <2>2. /\ server' \in [Tasks -> {"none", "running", "succeeded", "gone"}]
          /\ \A k \in Tasks : (Ended(k) => Ended(k)') /\ (server[k] # "none" => server'[k] # "none")
      BY <1>1, <2>1 DEF Ended
    <2> QED BY <1>1, <2>1, <2>2, NothingShown
  <1>4. CASE UNCHANGED trackerVars
    BY <1>1, <1>4, NothingShown DEF trackerVars, Ended
  <1>5. CASE \E i \in DOMAIN calls : Serve(i) \/ Arrives(i)
    BY <1>5, ServeHolds, StatusArrivesHolds, ResultArrivesHolds DEF Arrives
  <1> QED BY <1>2, <1>3, <1>4, <1>5, PollHolds, RenderHolds, CreatedHolds, CancelledHolds, ReloadHolds
          DEF TrackerNext

\* What is known of the page, in whatever order answers, renders and the user's
\* steps come.
THEOREM TrackerInvHolds == TrackerSpec => []TrackerInv
BY TrackerBegins, TrackerStepHolds, PTL DEF TrackerSpec

\* Whatever the number of tools, jobs and requests in flight: no tool shows what
\* another task of it got, every object URL that is not revoked is the preview of
\* one task, and a tool that is open is never marked as ready.
THEOREM ToolsShowTheirTasksHolds == TrackerSpec => []ToolsShowTheirTasks
  <1>1. ASSUME TrackerInv PROVE ToolsShowTheirTasks
    <2>1. ShownWasTrue
      <3> SUFFICES ASSUME NEW t \in Tools, shown[t] # NoEntry
                   PROVE  /\ Rank(shown[t].status) <= Rank(server[shown[t].id])
                          /\ shown[t].url # 0 => shown[t].id \in ImageTasks
        BY DEF ShownWasTrue
      <3>1. shown[t] \in Records
        BY <1>1, EntryKinds DEF TrackerInv, TrackerTypeOK
      <3>2. /\ shown[t].status \in {"pending", "running", "succeeded"}
            /\ server[shown[t].id] \in {"none", "running", "succeeded", "gone"}
        BY <1>1, <3>1 DEF TrackerInv, TrackerTypeOK, Records
      <3>3. Reached(shown[t].status, shown[t].id) /\ (shown[t].url # 0 => shown[t].id \in ImageTasks)
        BY <1>1 DEF TrackerInv, EntriesTrue
      <3>4. \A status \in {"pending", "running", "succeeded"}, s \in {"none", "running", "succeeded", "gone"} :
              /\ status = "running" => s # "none"
              /\ status = "succeeded" => s \in {"succeeded", "gone"}
              => Rank(status) <= Rank(s)
        BY DEF Rank
      <3> QED BY <3>2, <3>3, <3>4 DEF Reached, Ended
    <2>2. OpenTaskIsSeen
      BY <1>1 DEF TrackerInv, RenderedIsSeen, OpenTaskIsSeen, Unrendered
    <2> QED BY <1>1, <2>1, <2>2 DEF TrackerInv, ToolsShowTheirTasks
  <1> QED BY <1>1, TrackerInvHolds, PTL
===============================================================================
