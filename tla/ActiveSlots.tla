----------------------------- MODULE ActiveSlots -----------------------------
(* The concurrency slots of one client address, with a clock: the key         *)
(* active:<ip> as reserve_active_job, mark_job_running and release_active_job *)
(* keep it, and how long a job may take in each of its phases.  JobSystem     *)
(* leaves the clock out; here is why a slot may or may not lapse there.       *)
(* An earlier version kept one job in a string with a TTL; all three scripts  *)
(* still read it.                                                             *)
EXTENDS Naturals, FiniteSets

CONSTANTS
    Jobs,
    MaxActive,   \* settings.max_active_jobs_per_ip
    JobTTL,      \* settings.job_ttl_seconds
    Lease,       \* settings.job_timeout_seconds + 300
    Timeout,     \* the longest run: arq's job_timeout, the finally clause included
    MaxUpload,   \* the longest upload
    MaxWait,     \* the longest wait in the queue
    MaxGap,      \* the longest time from a crash to the next claim
    MaxTime      \* bound of the clock

ASSUME SlotConstants ==
    /\ MaxActive \in Nat \ {0} /\ JobTTL \in Nat \ {0} /\ Lease \in Nat
    /\ Timeout \in Nat /\ MaxUpload \in Nat /\ MaxWait \in Nat /\ MaxGap \in Nat /\ MaxTime \in Nat
    /\ IsFiniteSet(Jobs)
    /\ Lease <= JobTTL  \* 2100 and 7200; nothing in the code enforces it

VARIABLES
    now,       \* time.time(), the same for everybody
    kind,      \* TYPE of the key: "none", "string" or "zset"
    lease,     \* per job: its score, 0 if it has none; the holder of the string has keyEnd
    keyEnd,    \* when the key's own TTL ends, 0 if it has none
    phase,     \* per job: what it is doing
    deadline   \* per job: when it must have left its phase

slotsVars == <<now, kind, lease, keyEnd, phase, deadline>>

Active == {"upload", "queued", "run", "crashed"}
ActiveJobs == {j \in Jobs : phase[j] \in Active}

SlotsTypeOK ==
    /\ now \in Nat
    /\ kind \in {"none", "string", "zset"}
    /\ lease \in [Jobs -> Nat]
    /\ keyEnd \in Nat
    /\ phase \in [Jobs -> {"new", "over"} \cup Active]
    /\ deadline \in [Jobs -> Nat]

Nothing ==
    /\ kind = "none"
    /\ lease = [j \in Jobs |-> 0]
    /\ keyEnd = 0
    /\ phase = [j \in Jobs |-> "new"]
    /\ deadline = [j \in Jobs |-> 0]

\* The string of an earlier version holds one job, queued, for the job's TTL.
HeldByString(old) ==
    /\ kind = "string"
    /\ lease = [j \in Jobs |-> IF j = old THEN JobTTL ELSE 0]
    /\ keyEnd = JobTTL
    /\ phase = [j \in Jobs |-> IF j = old THEN "queued" ELSE "new"]
    /\ deadline = [j \in Jobs |-> IF j = old THEN MaxWait ELSE 0]

SlotsInit == now = 0 /\ (Nothing \/ \E old \in Jobs : HeldByString(old))

Larger(a, b) == IF a >= b THEN a ELSE b

-----------------------------------------------------------------------------
(* The three scripts                                                          *)

\* ZREMRANGEBYSCORE -inf now: what is left of the leases.  A string becomes a
\* lease that ends when it would have; its TTL is at least a second.  (Wrong:
\* the string's job is forgotten.)
UnexpiredNew == [j \in Jobs |-> IF kind # "string" /\ lease[j] > now THEN lease[j] ELSE 0]
Unexpired == [j \in Jobs |-> IF lease[j] > now THEN lease[j] ELSE 0]

\* (Wrong: a slot too many.)
FreeSlotLoose == Cardinality({j \in Jobs : Unexpired[j] # 0}) <= MaxActive
FreeSlot == Cardinality({j \in Jobs : Unexpired[j] # 0}) < MaxActive

Enter(j, step, limit) ==
    /\ phase' = [phase EXCEPT ![j] = step]
    /\ deadline' = [deadline EXCEPT ![j] = limit]

ReserveActiveJob(j) ==
    /\ phase[j] = "new"
    /\ FreeSlot
    /\ kind' = "zset"
    /\ lease' = [Unexpired EXCEPT ![j] = now + JobTTL]
    /\ keyEnd' = now + JobTTL
    /\ Enter(j, "upload", now + MaxUpload)
    /\ UNCHANGED now

\* A full set refuses, but the string is converted and the lapsed are gone.  A
\* set made from the string has no TTL: DEL took it along.
RefuseActiveJob(j) ==
    /\ phase[j] = "new"
    /\ ~FreeSlot
    /\ kind' = "zset"
    /\ lease' = Unexpired
    /\ keyEnd' = IF kind = "string" THEN 0 ELSE keyEnd
    /\ Enter(j, "over", 0)
    /\ UNCHANGED now

\* renew_leases: never shorter than the lease the job has, except the string's,
\* which starts anew.  (Wrong: the lease goes on from its old end.)
RenewedAdded(j) == [lease EXCEPT ![j] = @ + Lease]
Renewed(j) ==
    IF kind = "string"
    THEN [i \in Jobs |-> IF i = j \/ lease[i] # 0 THEN now + Lease ELSE 0]
    ELSE [lease EXCEPT ![j] = Larger(@, now + Lease)]

\* (Wrong: the key keeps the TTL it has.)
RenewedKeyEndKept == IF kind = "string" THEN 0 ELSE keyEnd
RenewedKeyEnd == now + JobTTL

MarkJobRunning(j) ==
    /\ phase[j] \in {"queued", "crashed"}
    /\ kind' = "zset"
    /\ lease' = Renewed(j)
    /\ keyEnd' = RenewedKeyEnd
    /\ Enter(j, "run", now + Timeout)
    /\ UNCHANGED now

\* The string is deleted if it is the job's own; a set that is empty goes.
ReleaseActiveJob(j) ==
    LET left == [lease EXCEPT ![j] = 0]
        empty == \A i \in Jobs : left[i] = 0
    IN  /\ phase[j] = "over"
        /\ lease[j] # 0
        /\ lease' = left
        /\ kind' = IF empty THEN "none" ELSE kind
        /\ keyEnd' = IF empty THEN 0 ELSE keyEnd
        /\ UNCHANGED <<now, phase, deadline>>

-----------------------------------------------------------------------------
(* The job's phases, seen from the slots                                      *)

Enqueue(j) ==
    /\ phase[j] = "upload"
    /\ Enter(j, "queued", now + MaxWait)
    /\ UNCHANGED <<now, kind, lease, keyEnd>>

\* The run's process dies: until another run claims the job it is still running
\* for its client.
Crash(j) ==
    /\ phase[j] = "run"
    /\ Enter(j, "crashed", now + MaxGap)
    /\ UNCHANGED <<now, kind, lease, keyEnd>>

\* Ended, refused, cancelled or given up; whether its slot is released then is
\* another step, which may never come.
EndJob(j) ==
    /\ phase[j] \in Active
    /\ Enter(j, "over", 0)
    /\ UNCHANGED <<now, kind, lease, keyEnd>>

\* Redis drops a key whose TTL has ended, with every lease in it.
Tick ==
    LET gone == keyEnd # 0 /\ keyEnd <= now + 1
    IN  /\ now < MaxTime
        /\ \A j \in ActiveJobs : now < deadline[j]
        /\ now' = now + 1
        /\ kind' = IF gone THEN "none" ELSE kind
        /\ lease' = IF gone THEN [j \in Jobs |-> 0] ELSE lease
        /\ keyEnd' = IF gone THEN 0 ELSE keyEnd
        /\ UNCHANGED <<phase, deadline>>

SlotsNext ==
    \/ \E j \in Jobs : ReserveActiveJob(j) \/ RefuseActiveJob(j) \/ MarkJobRunning(j) \/ ReleaseActiveJob(j)
    \/ \E j \in Jobs : Enqueue(j) \/ Crash(j) \/ EndJob(j)
    \/ Tick

SlotsSpec == SlotsInit /\ [][SlotsNext]_slotsVars

-----------------------------------------------------------------------------
(* Properties                                                                 *)

\* README: "a maximum of three concurrent jobs per IP", from the upload to the
\* end of the last run, waits and takeovers after a crash included.
LimitKept == Cardinality(ActiveJobs) <= MaxActive

\* The key's own TTL never takes a lease along that has not run out.
KeyOutlivesLeases == kind = "zset" /\ keyEnd # 0 => \A j \in Jobs : lease[j] <= keyEnd

\* Whatever is never released is lost for at most a job's TTL.
LeasesEnd == \A j \in Jobs : lease[j] <= now + JobTTL

\* Under these bounds no lease runs out under a job that is at work.
ShortWaits ==
    /\ MaxUpload + MaxWait < JobTTL
    /\ Timeout + MaxGap < Lease

\* Every active job holds a lease that outlives the phase it is in and the
\* next one that does not renew it.  A string has one holder and no company.
Covered(j) ==
    /\ now <= deadline[j]
    /\ phase[j] = "upload" => deadline[j] + MaxWait < lease[j]
    /\ phase[j] = "run" => deadline[j] + MaxGap < lease[j]
    /\ phase[j] \in {"queued", "crashed"} => deadline[j] < lease[j]

SlotInv ==
    /\ LimitKept
    /\ KeyOutlivesLeases
    /\ LeasesEnd
    /\ \A j \in ActiveJobs : Covered(j)
    /\ kind = "none" => \A j \in Jobs : lease[j] = 0
    /\ kind = "string" => /\ keyEnd # 0
                          /\ \A j \in Jobs : lease[j] \in {0, keyEnd}
                          /\ \A i, j \in Jobs : lease[i] # 0 /\ lease[j] # 0 => i = j
    /\ keyEnd # 0 => now < keyEnd
=============================================================================
