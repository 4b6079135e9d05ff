---------------------------- MODULE MetricsReport ----------------------------
(* The metrics database (metrics.py) over time, and the reports made of it     *)
(* (_report, and metrics_period in main.py).  The clock counts hours from 1, a *)
(* day has HoursPerDay of them, and days count from 0.                         *)
EXTENDS Integers, FiniteSets, FiniteSetsExt, Functions

CONSTANTS
    Metered,       \* the jobs
    Refused,       \* the requests that are refused
    OperationOf,   \* the operation of each
    HoursPerDay,
    Retention,     \* settings.metrics_retention_days
    MaxHourly,     \* the longest period in hours: 31 days
    LastHour       \* bound of the clock

ASSUME MetricsAssumption ==
    /\ {HoursPerDay, Retention, MaxHourly, LastHour} \subseteq Nat \ {0}
    /\ IsFiniteSet(Metered) /\ IsFiniteSet(Refused) /\ Metered \cap Refused = {}
    /\ DOMAIN OperationOf = Metered \cup Refused

VARIABLES
    hour,
    rows,       \* job_metrics: [accepted, started, finished, status]
    refusals    \* metric_rejections: the hour of each, Null if it is not there

metricsVars == <<hour, rows, refusals>>

Null == 0
NoRow == [accepted |-> Null, started |-> Null, finished |-> Null, status |-> "none"]
Endings == {"succeeded", "failed", "cancelled"}

MetricsInit ==
    /\ hour = 1
    /\ rows = [j \in Metered |-> NoRow]
    /\ refusals = [r \in Refused |-> Null]

-----------------------------------------------------------------------------
(* Writing                                                                     *)

\* A process reads its clock, then waits for a thread and for the database.
Stamps == {h \in {hour - 1, hour} : h > 0}

Accept(j) ==
    /\ rows[j] = NoRow
    /\ \E stamp \in Stamps :
         rows' = [rows EXCEPT ![j] = [NoRow EXCEPT !.accepted = stamp, !.status = "queued"]]
    /\ UNCHANGED <<hour, refusals>>

\* The rows the UPDATE of a start finds.
Startable(row) == row.status = "queued"

Start(j) ==
    /\ Startable(rows[j])
    /\ \E stamp \in Stamps :
         rows' = [rows EXCEPT ![j].status = "running",
                              ![j].started = IF @ = Null THEN stamp ELSE @]
    /\ UNCHANGED <<hour, refusals>>

\* A job is over within a day, whatever happens to it: its keys end before.
Conclude(j, status) ==
    /\ rows[j].status \in {"queued", "running"}
    /\ hour - rows[j].accepted < HoursPerDay
    /\ \E stamp \in Stamps :
         rows' = [rows EXCEPT ![j].status = status, ![j].finished = stamp]
    /\ UNCHANGED <<hour, refusals>>

Reject(r) ==
    /\ refusals[r] = Null
    /\ \E stamp \in Stamps : refusals' = [refusals EXCEPT ![r] = stamp]
    /\ UNCHANGED <<hour, rows>>

\* What the cleanup service prunes.  (Wrong: a day more.)
OldestKeptDayLess == hour - (Retention - 1) * HoursPerDay
OldestKept == hour - Retention * HoursPerDay

Prune ==
    /\ rows' = [j \in Metered |-> IF rows[j].accepted < OldestKept THEN NoRow ELSE rows[j]]
    /\ refusals' = [r \in Refused |-> IF refusals[r] < OldestKept THEN Null ELSE refusals[r]]
    /\ UNCHANGED hour

PassHour == hour < LastHour /\ hour' = hour + 1 /\ UNCHANGED <<rows, refusals>>

MetricsNext ==
    \/ \E j \in Metered : Accept(j) \/ Start(j) \/ (\E s \in Endings : Conclude(j, s))
    \/ \E r \in Refused : Reject(r)
    \/ Prune \/ PassHour

-----------------------------------------------------------------------------
(* Reading                                                                     *)

Day(h) == (h - 1) \div HoursPerDay
FirstHour(day) == day * HoursPerDay + 1

\* metrics_period: days from and to, both included.
ValidPeriod(from, to, bucket) ==
    /\ to - from + 1 \in 1..Retention
    /\ bucket = "hour" => to - from + 1 <= MaxHourly

\* [from_timestamp, to_timestamp)
InPeriod(h, from, to) == FirstHour(from) <= h /\ h < FirstHour(to + 1)

BucketStart(h, bucket) == IF bucket = "hour" THEN h ELSE FirstHour(Day(h))

\* _empty_series.  (Wrong: the last day is left out.)
SeriesStartsShort(from, to, bucket) ==
    {h \in FirstHour(from)..(FirstHour(to) - 1) : BucketStart(h, bucket) = h}
SeriesStarts(from, to, bucket) ==
    {h \in FirstHour(from)..(FirstHour(to + 1) - 1) : BucketStart(h, bucket) = h}

Counted == {"accepted", "rejected"} \cup Endings

\* Jobs count as accepted when they were, and as what they ended as when they did.
Counts(hours, ids) ==
    [k \in Counted |->
        CASE k = "accepted" -> Cardinality({j \in Metered \cap ids : rows[j].accepted \in hours})
          [] k = "rejected" -> Cardinality({r \in Refused \cap ids : refusals[r] \in hours})
          [] OTHER -> Cardinality({j \in Metered \cap ids : rows[j].status = k /\ rows[j].finished \in hours})]

AllIds == Metered \cup Refused

Report(from, to, bucket) ==
    LET period == {h \in 1..hour : InPeriod(h, from, to)}
    IN  [summary |-> Counts(period, AllIds),
         operations |-> [o \in Range(OperationOf) |-> Counts(period, {i \in AllIds : OperationOf[i] = o})],
         series |-> [start \in SeriesStarts(from, to, bucket) |->
            Counts({h \in period : BucketStart(h, bucket) = start}, AllIds)]]

-----------------------------------------------------------------------------
(* Properties                                                                  *)

\* So far: a day to come has no events.
Days == 0..Day(hour)

\* METRICS.md: summary describes the period, operations and series have the same
\* aggregates.  Each adds up to the summary, in every period that may be asked for:
\* no event falls out of the series, none counts twice.
ReportAddsUp ==
    \A from, to \in Days, bucket \in {"hour", "day"} :
        ValidPeriod(from, to, bucket) =>
            LET report == Report(from, to, bucket)
            IN  \A k \in Counted :
                    /\ report.summary[k] =
                         SumFunction([s \in DOMAIN report.series |-> report.series[s][k]])
                    /\ report.summary[k] =
                         SumFunction([o \in DOMAIN report.operations |-> report.operations[o][k]])

\* METRICS.md: the API stores the last 365 days.  However late and in whatever order
\* the processes write and whenever old rows are pruned, no count of a day that the
\* longest report of today reaches ever falls.  Only its first day may lose the end
\* of a job that was accepted the day before.
CountsNeverFall ==
    [][\A day \in Days : day > Day(hour) - Retention =>
         LET before == Report(day, day, "day").summary
             after == Report(day, day, "day").summary'
         IN  \A k \in Counted \ (IF day = Day(hour) - Retention + 1 THEN Endings ELSE {}) :
                after[k] >= before[k]]_metricsVars
=============================================================================
