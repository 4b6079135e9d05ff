------------------------------ MODULE RateLimit ------------------------------
(* consume_rate in backend/app/main.py: the hourly limit of one address and   *)
(* one kind of operation.  It counts in one round trip and adds in another;   *)
(* only the concurrency slot, taken before, keeps the requests between the    *)
(* two few.                                                                   *)
EXTENDS Naturals, FiniteSets, FiniteSetsExt

CONSTANTS
    Requests,
    UnitsOf,    \* len(files) of each request
    MaxUnits,   \* settings.max_files
    Limit,      \* 20, 60 or 80 units
    Window,     \* 3600 s
    Slack,      \* the 60 s the key outlives the window
    MaxRequests, \* settings.max_active_jobs_per_ip
    LastTick     \* bound of the clock

ASSUME RateConstants ==
    /\ UnitsOf \in [Requests -> 1..MaxUnits]
    /\ {MaxUnits, Limit, Window, MaxRequests} \subseteq Nat \ {0}
    /\ Slack \in Nat /\ LastTick \in Nat
    /\ IsFiniteSet(Requests)

VARIABLES
    clock,
    pc,        \* per request: its next step
    stamp,     \* per request: the `now' of its consume_rate
    stored,    \* the requests whose members the sorted set holds
    windowEnd   \* when the key's TTL ends, 0 if it has none

rateVars == <<clock, pc, stamp, stored, windowEnd>>

RateInit ==
    /\ clock = 0
    /\ pc = [q \in Requests |-> "new"]
    /\ stamp = [q \in Requests |-> 0]
    /\ stored = {}
    /\ windowEnd = 0

\* ZCARD: a request adds one member per file.
Units(set) == MapThenSumSet(LAMBDA q : UnitsOf[q], set)

HoldsSlot(q) == pc[q] \in {"count", "add", "expire", "job"}

-----------------------------------------------------------------------------
\* reserve_active_job comes first; then the request reads the clock.
EnterRequest(q) ==
    /\ pc[q] = "new"
    /\ Cardinality({p \in Requests : HoldsSlot(p)}) < MaxRequests
    /\ pc' = [pc EXCEPT ![q] = "count"]
    /\ stamp' = [stamp EXCEPT ![q] = clock]
    /\ UNCHANGED <<clock, stored, windowEnd>>

\* (Wrong: the units of the request itself are not counted.)
WithinBefore(current, units) == current <= Limit
Within(current, units) == current + units <= Limit

\* The transaction: ZREMRANGEBYSCORE 0 stamp-Window, ZCARD; then the check.
Count(q) ==
    LET left == {p \in stored : stamp[p] + Window > stamp[q]}
    IN  /\ pc[q] = "count"
        /\ stored' = left
        /\ windowEnd' = IF left = {} THEN 0 ELSE windowEnd
        /\ pc' = [pc EXCEPT ![q] = IF Within(Units(left), UnitsOf[q]) THEN "add" ELSE "over"]
        /\ UNCHANGED <<clock, stamp>>

Add(q) ==
    /\ pc[q] = "add"
    /\ stored' = stored \cup {q}
    /\ pc' = [pc EXCEPT ![q] = "expire"]
    /\ UNCHANGED <<clock, stamp, windowEnd>>

Expire(q) ==
    /\ pc[q] = "expire"
    /\ windowEnd' = IF stored = {} THEN 0 ELSE clock + Window + Slack
    /\ pc' = [pc EXCEPT ![q] = "job"]
    /\ UNCHANGED <<clock, stamp, stored>>

\* The job is over, or its request failed or died on the way.
Leave(q) ==
    /\ HoldsSlot(q)
    /\ pc' = [pc EXCEPT ![q] = IF @ = "job" THEN "done" ELSE "over"]
    /\ UNCHANGED <<clock, stamp, stored, windowEnd>>

\* The key's TTL drops every member.  It does not end in the moment between a
\* ZADD and its EXPIRE.
ClockTicks ==
    LET gone == windowEnd # 0 /\ windowEnd <= clock + 1
    IN  /\ clock < LastTick
        /\ gone => \A q \in Requests : pc[q] # "expire"
        /\ clock' = clock + 1
        /\ stored' = IF gone THEN {} ELSE stored
        /\ windowEnd' = IF gone THEN 0 ELSE windowEnd
        /\ UNCHANGED <<pc, stamp>>

RateNext ==
    \/ \E q \in Requests : EnterRequest(q) \/ Count(q) \/ Add(q) \/ Expire(q) \/ Leave(q)
    \/ ClockTicks

-----------------------------------------------------------------------------
(* Properties                                                                 *)

\* The requests that passed and whose `now' lies in the last hour.
Recent == {q \in Requests : pc[q] \in {"job", "done"} /\ stamp[q] + Window > clock}

\* "The hourly processing limit has been reached", says the refusal; but the
\* count and the ZADD are two round trips.  Every other request that may stand
\* between the two holds a concurrency slot, so what an address gets within an
\* hour passes the limit by the units of MaxRequests - 1 requests at most, whatever
\* fails on the way and though the key has a TTL and a prune of its own.
OvershootBounded == Units(Recent) <= Limit + (MaxRequests - 1) * MaxUnits
=============================================================================
