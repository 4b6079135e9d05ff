----------------------------- MODULE CountProofs -----------------------------
(* What the program counts.  The slots of one address, proved for every limit, *)
(* every number of jobs and every length of the leases and phases that         *)
(* satisfies ShortWaits; its hourly limit, for every number of requests of any *)
(* size; and the reports, for every number of jobs and every day's length.     *)
EXTENDS ActiveSlots, RateLimit, MetricsReport, Sums

LEMMA InitSlotTypes == SlotsInit => SlotsTypeOK
  BY SlotConstants DEF SlotsInit, Nothing, HeldByString, SlotsTypeOK, Active

LEMMA StepSlotTypes == SlotsTypeOK /\ [SlotsNext]_slotsVars => SlotsTypeOK'
  <1> SUFFICES ASSUME SlotsTypeOK, [SlotsNext]_slotsVars PROVE SlotsTypeOK'
    OBVIOUS
  <1> USE SlotConstants DEF SlotsTypeOK, Active, Enter
  <1>1. ASSUME NEW j \in Jobs, ReserveActiveJob(j) \/ RefuseActiveJob(j)
        PROVE  SlotsTypeOK'
    <2>1. Unexpired \in [Jobs -> Nat]
      BY DEF Unexpired
    <2> QED BY <1>1, <2>1 DEF ReserveActiveJob, RefuseActiveJob
  <1>2. ASSUME NEW j \in Jobs, MarkJobRunning(j)
        PROVE  SlotsTypeOK'
    BY <1>2 DEF MarkJobRunning, Renewed, RenewedKeyEnd, Larger
  <1>3. ASSUME NEW j \in Jobs, ReleaseActiveJob(j) \/ Enqueue(j) \/ Crash(j) \/ EndJob(j)
        PROVE  SlotsTypeOK'
    BY <1>3 DEF ReleaseActiveJob, Enqueue, Crash, EndJob
  <1>4. ASSUME Tick
        PROVE  SlotsTypeOK'
    BY <1>4 DEF Tick
  <1>5. ASSUME UNCHANGED slotsVars
        PROVE  SlotsTypeOK'
    BY <1>5 DEF slotsVars
  <1> QED BY <1>1, <1>2, <1>3, <1>4, <1>5 DEF SlotsNext

-----------------------------------------------------------------------------
(* Counting.                                                                  *)

LEMMA ActiveJobsAreFinite ==
    IsFiniteSet(ActiveJobs) /\ Cardinality(ActiveJobs) \in Nat
  BY SlotConstants, FS_Subset, FS_CardinalityType DEF ActiveJobs

\* No more jobs are active after a step that starts none.
LEMMA FewerActive ==
    ASSUME LimitKept, ActiveJobs' \subseteq ActiveJobs
    PROVE  LimitKept'
  <1>1. Cardinality(ActiveJobs') <= Cardinality(ActiveJobs) /\ Cardinality(ActiveJobs') \in Nat
    BY ActiveJobsAreFinite, FS_Subset, FS_CardinalityType
  <1> QED BY <1>1, ActiveJobsAreFinite, SlotConstants DEF LimitKept

\* Every active job holds an unexpired lease, so a free slot is a free slot.
LEMMA FreeSlotIsFree ==
    ASSUME SlotsTypeOK, SlotInv, FreeSlot, NEW j \in Jobs, phase[j] = "new"
    PROVE  Cardinality(ActiveJobs \cup {j}) <= MaxActive
  <1> DEFINE Held == {i \in Jobs : Unexpired[i] # 0}
  <1>1. ActiveJobs \subseteq Held
    BY SlotConstants DEF SlotInv, Covered, Unexpired, ActiveJobs, Active, SlotsTypeOK
  <1>2. IsFiniteSet(Held) /\ Cardinality(Held) \in Nat
    BY SlotConstants, FS_Subset, FS_CardinalityType
  <1>3. Cardinality(ActiveJobs) <= Cardinality(Held)
    BY <1>1, <1>2, FS_Subset
  <1>4. j \notin ActiveJobs
    BY DEF ActiveJobs, Active
  <1>5. Cardinality(ActiveJobs \cup {j}) = Cardinality(ActiveJobs) + 1
    BY <1>4, ActiveJobsAreFinite, FS_AddElement
  <1>6. Cardinality(Held) < MaxActive
    BY DEF FreeSlot
  <1> QED BY <1>2, <1>3, <1>5, <1>6, ActiveJobsAreFinite, SlotConstants

-----------------------------------------------------------------------------
(* SlotInv is inductive when waits are short.                                 *)

LEMMA InitSlots ==
    ASSUME ShortWaits, SlotsInit
    PROVE  SlotInv
  <1>1. CASE Nothing
    <2>1. ActiveJobs = {}
      BY <1>1 DEF Nothing, ActiveJobs, Active
    <2>2. LimitKept
      BY <2>1, FS_EmptySet, SlotConstants DEF LimitKept
    <2> QED BY <1>1, <2>1, <2>2, SlotConstants DEF Nothing, SlotsInit, SlotInv, KeyOutlivesLeases, LeasesEnd
  <1>2. ASSUME NEW old \in Jobs, HeldByString(old)
        PROVE  SlotInv
    <2>1. ActiveJobs = {old}
      BY <1>2 DEF HeldByString, ActiveJobs, Active
    <2>2. Cardinality(ActiveJobs) = 1
      BY <2>1, FS_Singleton
    <2>3. LimitKept
      BY <2>2, SlotConstants DEF LimitKept
    <2>4. \A j \in ActiveJobs : Covered(j)
      BY <1>2, <2>1, SlotConstants DEF SlotsInit, HeldByString, Covered, ShortWaits
    <2> QED BY <1>2, <2>3, <2>4, SlotConstants DEF SlotsInit, HeldByString, SlotInv, KeyOutlivesLeases, LeasesEnd
  <1> QED BY <1>1, <1>2 DEF SlotsInit

LEMMA ReserveSlots ==
    ASSUME ShortWaits, SlotsTypeOK, SlotInv, NEW j \in Jobs, ReserveActiveJob(j)
    PROVE  SlotInv'
  <1> USE SlotConstants DEF ReserveActiveJob, Enter, SlotsTypeOK
  <1>1. LimitKept'
    <2>1. ActiveJobs' = ActiveJobs \cup {j}
      BY DEF ActiveJobs, Active
    <2> QED BY <2>1, FreeSlotIsFree DEF LimitKept
  <1>2. \A i \in ActiveJobs' : Covered(i)'
    BY DEF SlotInv, Covered, ActiveJobs, Active, Unexpired, ShortWaits
  <1>3. KeyOutlivesLeases' /\ LeasesEnd'
    BY DEF SlotInv, KeyOutlivesLeases, LeasesEnd, Unexpired
  <1> QED BY <1>1, <1>2, <1>3 DEF SlotInv

LEMMA RefuseSlots ==
    ASSUME ShortWaits, SlotsTypeOK, SlotInv, NEW j \in Jobs, RefuseActiveJob(j)
    PROVE  SlotInv'
  <1> USE SlotConstants DEF RefuseActiveJob, Enter, SlotsTypeOK
  <1>1. LimitKept'
    BY FewerActive DEF SlotInv, ActiveJobs, Active
  <1>2. \A i \in ActiveJobs' : Covered(i)'
    BY DEF SlotInv, Covered, ActiveJobs, Active, Unexpired
  <1>3. KeyOutlivesLeases' /\ LeasesEnd'
    BY DEF SlotInv, KeyOutlivesLeases, LeasesEnd, Unexpired
  <1> QED BY <1>1, <1>2, <1>3 DEF SlotInv

LEMMA ClaimSlots ==
    ASSUME ShortWaits, SlotsTypeOK, SlotInv, NEW j \in Jobs, MarkJobRunning(j)
    PROVE  SlotInv'
  <1> USE SlotConstants DEF MarkJobRunning, Enter, SlotsTypeOK
  <1>1. LimitKept'
    BY FewerActive DEF SlotInv, ActiveJobs, Active
  <1>2. Covered(j) /\ lease[j] # 0
    BY DEF SlotInv, Covered, ActiveJobs, Active
  <1>3. \A i \in ActiveJobs' : Covered(i)'
    <2>1. CASE kind = "string"
      BY <1>2, <2>1 DEF SlotInv, Covered, ActiveJobs, Active, Renewed, ShortWaits
    <2>2. CASE kind # "string"
      BY <1>2, <2>2 DEF SlotInv, Covered, ActiveJobs, Active, Renewed, Larger, ShortWaits
    <2> QED BY <2>1, <2>2
  <1>4. KeyOutlivesLeases' /\ LeasesEnd'
    BY DEF SlotInv, KeyOutlivesLeases, LeasesEnd, Renewed, RenewedKeyEnd, Larger
  <1> QED BY <1>1, <1>3, <1>4 DEF SlotInv, RenewedKeyEnd

LEMMA TickSlots ==
    ASSUME ShortWaits, SlotsTypeOK, SlotInv, Tick
    PROVE  SlotInv'
  <1> USE SlotConstants DEF Tick, SlotsTypeOK
  <1>1. LimitKept'
    BY FewerActive DEF SlotInv, ActiveJobs
  <1>2. \A i \in ActiveJobs' : Covered(i)'
    BY DEF SlotInv, Covered, ActiveJobs, Active, KeyOutlivesLeases
  <1>3. KeyOutlivesLeases' /\ LeasesEnd'
    BY DEF SlotInv, KeyOutlivesLeases, LeasesEnd
  <1> QED BY <1>1, <1>2, <1>3 DEF SlotInv

LEMMA OtherSlots ==
    ASSUME ShortWaits, SlotsTypeOK, SlotInv, NEW j \in Jobs,
           ReleaseActiveJob(j) \/ Enqueue(j) \/ Crash(j) \/ EndJob(j)
    PROVE  SlotInv'
  <1> USE SlotConstants DEF ReleaseActiveJob, Enqueue, Crash, EndJob, Enter, SlotsTypeOK
  <1>1. LimitKept'
    BY FewerActive DEF SlotInv, ActiveJobs, Active
  <1>2. \A i \in ActiveJobs' : Covered(i)'
    BY DEF SlotInv, Covered, ActiveJobs, Active
  <1>3. KeyOutlivesLeases' /\ LeasesEnd'
    BY DEF SlotInv, KeyOutlivesLeases, LeasesEnd
  <1> QED BY <1>1, <1>2, <1>3 DEF SlotInv

LEMMA StepSlots ==
    ASSUME ShortWaits, SlotsTypeOK, SlotInv, [SlotsNext]_slotsVars
    PROVE  SlotInv'
  <1>1. CASE UNCHANGED slotsVars
    BY <1>1 DEF slotsVars, SlotInv, LimitKept, KeyOutlivesLeases, LeasesEnd, Covered, ActiveJobs
  <1>2. CASE SlotsNext
    BY <1>2, ReserveSlots, RefuseSlots, ClaimSlots, TickSlots, OtherSlots DEF SlotsNext
  <1> QED BY <1>1, <1>2

\* When an upload and its wait are shorter than a job's TTL, and a run and the
\* gap to its takeover shorter than a claim's lease, no lease runs out under an
\* active job, a string of an earlier version included.
THEOREM SlotInvHolds ==
    ASSUME ShortWaits
    PROVE  SlotsSpec => [](SlotsTypeOK /\ SlotInv)
  <1>1. SlotsInit => SlotsTypeOK /\ SlotInv
    BY ShortWaits, InitSlotTypes, InitSlots
  <1>2. SlotsTypeOK /\ SlotInv /\ [SlotsNext]_slotsVars => (SlotsTypeOK /\ SlotInv)'
    BY ShortWaits, StepSlotTypes, StepSlots
  <1> QED BY <1>1, <1>2, PTL DEF SlotsSpec

\* ... so that no more than MaxActive jobs of one address are ever active.
THEOREM LimitIsKept ==
    ASSUME ShortWaits
    PROVE  SlotsSpec => []LimitKept
  <1>1. SlotInv => LimitKept
    BY DEF SlotInv
  <1> QED BY ShortWaits, <1>1, SlotInvHolds, PTL

-----------------------------------------------------------------------------
(* The hourly limit.                                                          *)

RateSpec == RateInit /\ [][RateNext]_rateVars

RateTypeOK ==
    /\ clock \in Nat
    /\ pc \in [Requests -> {"new", "count", "add", "expire", "job", "done", "over"}]
    /\ stamp \in [Requests -> Nat]
    /\ stored \in SUBSET Requests
    /\ windowEnd \in Nat

InWindow(q) == stamp[q] + Window > clock
Holding == {q \in Requests : HoldsSlot(q)}

\* The requests the check has let through, or will not hold back any more.
Passed == {q \in Requests : pc[q] \in {"add", "expire", "job", "done"} /\ InWindow(q)}

\* Every request that passed is in the sorted set from its ZADD until it has
\* left the window, for the key's TTL, set after the ZADD, outlives it.  So what
\* the next check does not see is in the hands of those that stand between
\* their own check and their ZADD: requests that hold a slot.
RateInv ==
    /\ \A q \in Requests : stamp[q] <= clock
    /\ Cardinality(Holding) <= MaxRequests
    /\ \A q \in Requests : pc[q] \in {"expire", "job", "done"} /\ InWindow(q) => q \in stored
    /\ \A q \in Requests : pc[q] \in {"job", "done"} /\ InWindow(q) => windowEnd >= stamp[q] + Window + Slack
    /\ Units(Passed) <= Limit + (MaxRequests - 1) * MaxUnits

LEMMA InitRateTypes == RateInit => RateTypeOK
  BY DEF RateInit, RateTypeOK

LEMMA StepRateTypes ==
    ASSUME RateTypeOK, [RateNext]_rateVars
    PROVE  RateTypeOK'
  <1> USE RateConstants DEF RateTypeOK
  <1>1. ASSUME NEW q \in Requests, EnterRequest(q) \/ Count(q) \/ Add(q) \/ Expire(q) \/ Leave(q)
        PROVE  RateTypeOK'
    BY <1>1 DEF EnterRequest, Count, Add, Expire, Leave
  <1>2. CASE ClockTicks
    BY <1>2 DEF ClockTicks
  <1>3. CASE UNCHANGED rateVars
    BY <1>3 DEF rateVars
  <1> QED BY <1>1, <1>2, <1>3 DEF RateNext

-----------------------------------------------------------------------------
(* Counting units.                                                            *)

LEMMA UnitsAreSums == \A s : Units(s) = SumOn(UnitsOf, s)
  BY DEF Units, SumOn, MapThenSumSet, FoldFunctionOnSet

LEMMA RequestsAreFinite ==
    ASSUME NEW s \in SUBSET Requests
    PROVE  IsFiniteSet(s) /\ Cardinality(s) \in Nat /\ Units(s) \in Nat
  <1>1. IsFiniteSet(s)
    BY RateConstants, FS_Subset
  <1>2. UnitsOf \in [Requests -> Nat]
    BY RateConstants
  <1> QED BY <1>1, <1>2, FS_CardinalityType, SumIsNumber, UnitsAreSums

\* The bound takes part in no arithmetic but its own.
Most == Limit + (MaxRequests - 1) * MaxUnits

LEMMA MostIsNumber == Most \in Nat /\ (MaxRequests - 1) * MaxUnits \in Nat /\ Most = Limit + (MaxRequests - 1) * MaxUnits
  BY RateConstants DEF Most

\* Fewer requests have fewer units.
LEMMA FewerUnits ==
    ASSUME NEW s \in SUBSET Requests, NEW t \in SUBSET s, Units(s) <= Most
    PROVE  Units(t) <= Most
  <1>1. UnitsOf \in [Requests -> Nat]
    BY RateConstants
  <1>2. Units(t) <= Units(s)
    BY <1>1, RequestsAreFinite, SumOfPart, UnitsAreSums
  <1> QED BY <1>2, RequestsAreFinite, MostIsNumber

LEMMA FewerHolding ==
    ASSUME Cardinality(Holding) <= MaxRequests, Holding' \in SUBSET Holding
    PROVE  Cardinality(Holding') <= MaxRequests
  <1>1. Holding \in SUBSET Requests
    BY DEF Holding
  <1>2. IsFiniteSet(Holding) /\ Cardinality(Holding) \in Nat
    BY <1>1, RequestsAreFinite
  <1>3. Cardinality(Holding') <= Cardinality(Holding) /\ Cardinality(Holding') \in Nat
    BY <1>2, FS_Subset, FS_CardinalityType
  <1> QED BY <1>2, <1>3, RateConstants

-----------------------------------------------------------------------------
(* RateInv is inductive.                                                      *)

LEMMA InitRate ==
    ASSUME RateInit
    PROVE  RateInv
  <1>1. Holding = {} /\ Passed = {}
    BY DEF RateInit, Holding, HoldsSlot, Passed
  <1>2. Units({}) = 0
    BY RateConstants, SumOfNothing, UnitsAreSums
  <1>3. Cardinality({}) = 0
    BY FS_EmptySet
  <1> QED BY <1>1, <1>2, <1>3, MostIsNumber, RateConstants DEF RateInit, RateInv

LEMMA EnterRate ==
    ASSUME RateTypeOK, RateInv, NEW q \in Requests, EnterRequest(q)
    PROVE  RateInv'
  <1> USE RateConstants DEF RateTypeOK, EnterRequest
  <1>1. Cardinality(Holding') <= MaxRequests
    <2>1. Holding' = Holding \cup {q} /\ q \notin Holding /\ Holding \in SUBSET Requests
      BY DEF Holding, HoldsSlot
    <2>2. Cardinality(Holding) < MaxRequests
      BY DEF Holding
    <2>3. Cardinality(Holding') = Cardinality(Holding) + 1
      BY <2>1, RequestsAreFinite, FS_AddElement
    <2> QED BY <2>1, <2>2, <2>3, RequestsAreFinite
  <1>2. Passed' = Passed
    BY DEF Passed, InWindow
  <1>3. Units(Passed') <= Limit + (MaxRequests - 1) * MaxUnits
    BY <1>2 DEF RateInv
  <1>4. \A p \in Requests : stamp'[p] <= clock'
    BY DEF RateInv
  <1>5. \A p \in Requests : pc'[p] \in {"expire", "job", "done"} => pc'[p] = pc[p] /\ InWindow(p)' = InWindow(p)
    BY DEF InWindow
  <1> QED BY <1>1, <1>3, <1>4, <1>5 DEF RateInv

\* What the check sees and what it does not: the requests that are recent and
\* not in the sorted set are about to be added, and hold a slot beside q's.
LEMMA CheckedUnits ==
    ASSUME RateTypeOK, RateInv, NEW q \in Requests, pc[q] = "count",
           NEW left, left = {p \in stored : stamp[p] + Window > stamp[q]},
           Within(Units(left), UnitsOf[q])
    PROVE  Units(Passed \cup {q}) <= Most
  <1> USE RateConstants DEF RateTypeOK
  <1> DEFINE Adding == Passed \ left
             Seen == left \cup {q}
  <1>1. Adding \cup {q} \in SUBSET Holding /\ q \notin Adding
    <2>1. \A p \in Passed : pc[p] # "add" => p \in left
      BY DEF Passed, InWindow, RateInv
    <2>2. \A p \in Adding : pc[p] = "add"
      BY <2>1 DEF Passed
    <2> QED BY <2>2 DEF Holding, HoldsSlot, Passed
  <1>2. Holding \in SUBSET Requests /\ left \in SUBSET Requests /\ Adding \in SUBSET Requests
    BY DEF Holding, Passed
  <1>3. UnitsOf \in [Requests -> Nat] /\ UnitsOf[q] \in Nat
    OBVIOUS
  <1> HIDE DEF Adding
  <1>4. Cardinality(Adding) <= MaxRequests - 1
    <2>1. Cardinality(Adding \cup {q}) = Cardinality(Adding) + 1
      BY <1>1, <1>2, RequestsAreFinite, FS_AddElement
    <2>2. Cardinality(Adding \cup {q}) <= Cardinality(Holding)
      BY <1>1, <1>2, RequestsAreFinite, FS_Subset
    <2>3. Cardinality(Holding) <= MaxRequests
      BY DEF RateInv
    <2> QED BY <2>1, <2>2, <2>3, <1>2, RequestsAreFinite
  <1>5. Units(Adding) <= (MaxRequests - 1) * MaxUnits
    <2>1. \A p \in Adding : UnitsOf[p] <= MaxUnits
      BY <1>2
    <2>2. Units(Adding) <= Cardinality(Adding) * MaxUnits
      BY <1>2, <1>3, <2>1, RequestsAreFinite, SumOfSmall, UnitsAreSums
    <2>3. \A n, m, k \in Nat : n <= m => n * k <= m * k
      OBVIOUS
    <2>4. Cardinality(Adding) * MaxUnits <= (MaxRequests - 1) * MaxUnits
      BY <1>2, <1>4, <2>3, RequestsAreFinite
    <2>5. Cardinality(Adding) * MaxUnits \in Nat
      BY <1>2, RequestsAreFinite
    <2> QED BY <2>2, <2>4, <2>5, <1>2, RequestsAreFinite, MostIsNumber
  <1>6. Seen \in SUBSET Requests
    BY <1>2
  <1>7. Units(Seen) <= Limit
    <2>1. Units(left) + UnitsOf[q] <= Limit
      BY DEF Within
    <2>2. Units({q}) = UnitsOf[q]
      <3>1. Units({}) = 0
        BY <1>3, SumOfNothing, UnitsAreSums
      <3>2. {} \in SUBSET Requests /\ {} \cup {q} = {q} /\ q \in Requests \ {}
        OBVIOUS
      <3>3. Units({} \cup {q}) = Units({}) + UnitsOf[q]
        BY <1>3, <3>2, FS_EmptySet, SumWithOneMore, UnitsAreSums
      <3> QED BY <3>1, <3>2, <3>3, <1>3
    <2>3. Units(left \cup {q}) <= Units(left) + Units({q})
      <3>1. {q} \in SUBSET Requests /\ IsFiniteSet({q}) /\ IsFiniteSet(left)
        BY <1>2, RequestsAreFinite
      <3> QED BY <1>2, <1>3, <3>1, SumOfTwo, UnitsAreSums
    <2> QED BY <2>1, <2>2, <2>3, <1>2, <1>3, <1>6, RequestsAreFinite
  <1> HIDE DEF Seen
  <1>8. Units(Seen \cup Adding) <= Units(Seen) + Units(Adding)
    BY <1>2, <1>3, <1>6, RequestsAreFinite, SumOfTwo, UnitsAreSums
  <1>9. Seen \cup Adding \in SUBSET Requests
    BY <1>2, <1>6
  <1>10. Units(Seen \cup Adding) <= Most
    BY <1>2, <1>5, <1>6, <1>7, <1>8, <1>9, RequestsAreFinite, MostIsNumber
  <1>11. Passed \cup {q} \in SUBSET (Seen \cup Adding)
    BY DEF Seen, Adding
  <1> QED BY <1>9, <1>10, <1>11, FewerUnits

LEMMA CountRate ==
    ASSUME RateTypeOK, RateInv, NEW q \in Requests, Count(q)
    PROVE  RateInv'
  <1> USE RateConstants DEF RateTypeOK
  <1> DEFINE left == {p \in stored : stamp[p] + Window > stamp[q]}
             next == IF Within(Units(left), UnitsOf[q]) THEN "add" ELSE "over"
  <1>1. /\ pc[q] = "count" /\ pc' = [pc EXCEPT ![q] = next]
        /\ stored' = left /\ windowEnd' = IF left = {} THEN 0 ELSE windowEnd
        /\ clock' = clock /\ stamp' = stamp
    BY DEF Count
  <1>2. next \in {"add", "over"} /\ \A p \in Requests : p # q => pc'[p] = pc[p]
    BY <1>1
  <1>3. \A p \in Requests : InWindow(p)' = InWindow(p) /\ stamp'[p] <= clock'
    BY <1>1 DEF InWindow, RateInv
  <1>4. \A p \in Requests : pc'[p] \in {"expire", "job", "done"} /\ InWindow(p)' => p \in left
    BY <1>1, <1>2, <1>3 DEF RateInv, InWindow
  <1>5. \A p \in Requests : pc'[p] \in {"job", "done"} /\ InWindow(p)' => windowEnd' >= stamp'[p] + Window + Slack
    BY <1>1, <1>2, <1>3, <1>4 DEF RateInv
  <1>6. Cardinality(Holding') <= MaxRequests
    <2>1. Holding' \in SUBSET Holding
      BY <1>1, <1>2 DEF Holding, HoldsSlot
    <2> QED BY <2>1, FewerHolding DEF RateInv
  <1>7. Units(Passed') <= Most
    <2>1. CASE next = "add"
      <3>1. Units(Passed \cup {q}) <= Most
        BY <1>1, <2>1, CheckedUnits
      <3>2. Passed' \in SUBSET (Passed \cup {q}) /\ Passed \cup {q} \in SUBSET Requests
        BY <1>1, <1>2, <1>3 DEF Passed
      <3> QED BY <3>1, <3>2, FewerUnits
    <2>2. CASE next = "over"
      <3>1. Passed' \in SUBSET Passed /\ Passed \in SUBSET Requests
        BY <1>1, <1>2, <1>3, <2>2 DEF Passed
      <3> QED BY <3>1, FewerUnits, MostIsNumber DEF RateInv
    <2> QED BY <1>2, <2>1, <2>2
  <1> QED BY <1>1, <1>3, <1>4, <1>5, <1>6, <1>7, MostIsNumber DEF RateInv

LEMMA AddRate ==
    ASSUME RateTypeOK, RateInv, NEW q \in Requests, Add(q) \/ Expire(q) \/ Leave(q)
    PROVE  RateInv'
  <1> USE RateConstants DEF RateTypeOK, HoldsSlot
  <1>1. \A p \in Requests : InWindow(p)' = InWindow(p) /\ stamp'[p] <= clock'
    BY DEF InWindow, RateInv, Add, Expire, Leave
  <1>2. \A p \in Requests : pc'[p] \in {"expire", "job", "done"} /\ InWindow(p)' => p \in stored'
    BY <1>1 DEF RateInv, Add, Expire, Leave
  <1>3. \A p \in Requests : pc'[p] \in {"job", "done"} /\ InWindow(p)' => windowEnd' >= stamp'[p] + Window + Slack
    BY <1>1 DEF RateInv, InWindow, Add, Expire, Leave
  <1>4. Cardinality(Holding') <= MaxRequests
    <2>1. Holding' \in SUBSET Holding
      BY DEF Holding, Add, Expire, Leave
    <2> QED BY <2>1, FewerHolding DEF RateInv
  <1>5. Units(Passed') <= Most
    <2>1. Passed' \in SUBSET Passed /\ Passed \in SUBSET Requests
      BY <1>1 DEF Passed, Add, Expire, Leave
    <2> QED BY <2>1, FewerUnits, MostIsNumber DEF RateInv
  <1> QED BY <1>1, <1>2, <1>3, <1>4, <1>5, MostIsNumber DEF RateInv

\* A key that goes takes along no request that is still in the window.
LEMMA TickRate ==
    ASSUME RateTypeOK, RateInv, ClockTicks
    PROVE  RateInv'
  <1> USE RateConstants DEF RateTypeOK, ClockTicks
  <1>1. \A p \in Requests : (InWindow(p)' => InWindow(p)) /\ stamp'[p] <= clock' /\ pc'[p] = pc[p]
    BY DEF InWindow, RateInv
  <1>2. \A p \in Requests : pc[p] \in {"expire", "job", "done"} /\ InWindow(p)' => ~(windowEnd # 0 /\ windowEnd <= clock + 1)
    BY DEF RateInv, InWindow
  <1>3. Cardinality(Holding') <= MaxRequests
    <2>1. Holding' \in SUBSET Holding
      BY DEF Holding, HoldsSlot
    <2> QED BY <2>1, FewerHolding DEF RateInv
  <1>4. Units(Passed') <= Most
    <2>1. Passed' \in SUBSET Passed /\ Passed \in SUBSET Requests
      BY <1>1 DEF Passed
    <2> QED BY <2>1, FewerUnits, MostIsNumber DEF RateInv
  <1>5. \A p \in Requests : pc'[p] \in {"expire", "job", "done"} /\ InWindow(p)' => p \in stored'
    BY <1>1, <1>2 DEF RateInv
  <1>6. \A p \in Requests : pc'[p] \in {"job", "done"} /\ InWindow(p)' => windowEnd' >= stamp'[p] + Window + Slack
    BY <1>1, <1>2 DEF RateInv
  <1> QED BY <1>1, <1>3, <1>4, <1>5, <1>6, MostIsNumber DEF RateInv

LEMMA StepRate ==
    ASSUME RateTypeOK, RateInv, [RateNext]_rateVars
    PROVE  RateInv'
  <1>1. CASE UNCHANGED rateVars
    BY <1>1 DEF rateVars, RateInv, Holding, HoldsSlot, Passed, InWindow
  <1>2. CASE RateNext
    BY <1>2, EnterRate, CountRate, AddRate, TickRate DEF RateNext
  <1> QED BY <1>1, <1>2

\* However requests interleave between their count and their ZADD, and whatever
\* leaves on the way, an address passes its hourly limit by the units of
\* MaxRequests - 1 requests at most.
THEOREM OvershootIsBounded == RateSpec => []OvershootBounded
  <1>1. RateInit => RateTypeOK /\ RateInv
    BY InitRateTypes, InitRate
  <1>2. RateTypeOK /\ RateInv /\ [RateNext]_rateVars => (RateTypeOK /\ RateInv)'
    BY StepRateTypes, StepRate
  <1>3. RateInv => OvershootBounded
    <2>1. Recent \in SUBSET Passed /\ Passed \in SUBSET Requests
      BY DEF Recent, Passed, InWindow
    <2> QED BY <2>1, FewerUnits, MostIsNumber DEF RateInv, OvershootBounded
  <1> QED BY <1>1, <1>2, <1>3, PTL DEF RateSpec
-----------------------------------------------------------------------------
(* The reports.                                                               *)

MetricsSpec == MetricsInit /\ [][MetricsNext]_metricsVars

Rows ==
    [accepted : Nat, started : Nat, finished : Nat,
     status : {"none", "queued", "running"} \cup Endings]

MetricsTypeOK ==
    /\ hour \in Nat \ {0}
    /\ rows \in [Metered -> Rows]
    /\ refusals \in [Refused -> Nat]

\* A job that is over was so within a day: what is pruned by the day a job was
\* accepted takes no end with it that is a day younger.
EndsWithinADay ==
    \A j \in Metered : rows[j].status \in Endings => rows[j].finished < rows[j].accepted + HoursPerDay

LEMMA MetricsConstants ==
    /\ HoursPerDay \in Nat \ {0} /\ Retention \in Nat \ {0} /\ MaxHourly \in Nat \ {0}
    /\ IsFiniteSet(AllIds) /\ Metered \subseteq AllIds /\ Refused \subseteq AllIds
  BY MetricsAssumption, FS_Union DEF AllIds

LEMMA InitMetrics == MetricsInit => MetricsTypeOK /\ EndsWithinADay
  BY DEF MetricsInit, NoRow, Null, MetricsTypeOK, Rows, EndsWithinADay, Endings

LEMMA StampsAreHours ==
    ASSUME MetricsTypeOK, NEW when \in Stamps
    PROVE  when \in Nat /\ 0 < when /\ when <= hour
  BY DEF Stamps, MetricsTypeOK

\* A step leaves a row as it is, forgets it, makes one, starts its job or ends it.
LEMMA RowSteps ==
    ASSUME MetricsTypeOK, EndsWithinADay, MetricsNext, NEW j \in Metered
    PROVE  /\ rows[j] \in Rows /\ rows'[j] \in Rows
           /\ \/ rows'[j] = rows[j]
              \/ rows[j].accepted < OldestKept /\ rows'[j] = NoRow /\ hour' = hour
              \/ rows[j] = NoRow /\ rows'[j].status = "queued"
              \/ /\ rows[j].status = "queued" /\ rows'[j].status = "running"
                 /\ rows'[j].accepted = rows[j].accepted
              \/ /\ rows[j].status \in {"queued", "running"} /\ rows'[j].status \in Endings
                 /\ rows'[j].accepted = rows[j].accepted
                 /\ rows'[j].finished < rows[j].accepted + HoursPerDay
  <1> USE DEF MetricsTypeOK
  <1>1. rows[j] \in Rows /\ NoRow \in Rows
    BY DEF NoRow, Null, Rows
  <1>2. ASSUME NEW i \in Metered, Accept(i)
        PROVE  \/ rows'[j] = rows[j]
               \/ rows[j] = NoRow /\ rows'[j].status = "queued" /\ rows'[j] \in Rows
    <2>1. PICK when \in Stamps :
            rows' = [rows EXCEPT ![i] = [NoRow EXCEPT !.accepted = when, !.status = "queued"]]
      BY <1>2 DEF Accept
    <2>2. PICK n : n = [NoRow EXCEPT !.accepted = when, !.status = "queued"]
      OBVIOUS
    <2>3. n \in Rows /\ n.status = "queued"
      BY <2>2, StampsAreHours DEF NoRow, Null, Rows
    <2>4. rows' = [rows EXCEPT ![i] = n]
      BY <2>1, <2>2
    <2> QED BY <1>2, <2>3, <2>4 DEF Accept
  <1>3. ASSUME NEW i \in Metered, Start(i)
        PROVE  \/ rows'[j] = rows[j]
               \/ /\ rows[j].status = "queued" /\ rows'[j].status = "running"
                  /\ rows'[j].accepted = rows[j].accepted /\ rows'[j] \in Rows
    <2>1. PICK when \in Stamps :
            rows' = [rows EXCEPT ![i].status = "running",
                                 ![i].started = IF @ = Null THEN when ELSE @]
      BY <1>3 DEF Start
    <2>2. PICK n : n = [rows[i] EXCEPT !.status = "running",
                                       !.started = IF @ = Null THEN when ELSE @]
      OBVIOUS
    <2>3. n \in Rows /\ n.status = "running" /\ n.accepted = rows[i].accepted
      BY <2>2, StampsAreHours DEF Rows
    <2>4. rows' = [rows EXCEPT ![i] = n]
      BY <2>1, <2>2
    <2> QED BY <1>3, <2>3, <2>4 DEF Start, Startable
  <1>4. ASSUME NEW i \in Metered, NEW s \in Endings, Conclude(i, s)
        PROVE  \/ rows'[j] = rows[j]
               \/ /\ rows[j].status \in {"queued", "running"} /\ rows'[j].status \in Endings
                  /\ rows'[j].accepted = rows[j].accepted /\ rows'[j] \in Rows
                  /\ rows'[j].finished < rows[j].accepted + HoursPerDay
    <2>1. PICK when \in Stamps :
            rows' = [rows EXCEPT ![i].status = s, ![i].finished = when]
      BY <1>4 DEF Conclude
    <2>2. PICK n : n = [rows[i] EXCEPT !.status = s, !.finished = when]
      OBVIOUS
    <2>3. n \in Rows /\ n.status = s /\ n.accepted = rows[i].accepted /\ n.finished = when
      BY <2>2, StampsAreHours DEF Rows
    <2>4. rows' = [rows EXCEPT ![i] = n]
      BY <2>1, <2>2
    <2>5. when < rows[i].accepted + HoursPerDay
      <3>1. rows[i].accepted \in Nat
        BY DEF Rows
      <3>2. hour - rows[i].accepted < HoursPerDay
        BY <1>4 DEF Conclude
      <3> QED BY <3>1, <3>2, StampsAreHours, MetricsConstants
    <2> QED BY <1>4, <2>3, <2>4, <2>5 DEF Conclude
  <1>5. CASE Prune
    BY <1>1, <1>5 DEF Prune
  <1>6. CASE PassHour \/ \E r \in Refused : Reject(r)
    BY <1>1, <1>6 DEF PassHour, Reject
  <1> QED BY <1>1, <1>2, <1>3, <1>4, <1>5, <1>6 DEF MetricsNext

LEMMA RefusalSteps ==
    ASSUME MetricsTypeOK, MetricsNext, NEW r \in Refused
    PROVE  /\ refusals[r] \in Nat /\ refusals'[r] \in Nat
           /\ \/ refusals'[r] = refusals[r] \/ refusals[r] = Null
              \/ refusals[r] < OldestKept /\ hour' = hour
  <1>1. CASE Prune
    BY <1>1 DEF Prune, MetricsTypeOK, Null
  <1>2. ASSUME NEW i \in Refused, Reject(i)
        PROVE  refusals'[r] \in Nat /\ (refusals'[r] = refusals[r] \/ refusals[r] = Null)
    BY <1>2, StampsAreHours DEF Reject, MetricsTypeOK
  <1>3. CASE UNCHANGED refusals
    BY <1>3 DEF MetricsTypeOK
  <1> QED BY <1>1, <1>2, <1>3 DEF MetricsNext, Accept, Start, Conclude, PassHour, MetricsTypeOK

LEMMA StepMetrics ==
    ASSUME MetricsTypeOK, EndsWithinADay, [MetricsNext]_metricsVars
    PROVE  MetricsTypeOK' /\ EndsWithinADay'
  <1>1. CASE UNCHANGED metricsVars
    BY <1>1 DEF metricsVars, MetricsTypeOK, EndsWithinADay
  <1>2. CASE MetricsNext
    <2>1. hour' \in Nat \ {0}
      <3>1. hour' = hour \/ hour' = hour + 1
        BY <1>2, Zenon DEF MetricsNext, Accept, Start, Conclude, Reject, Prune, PassHour
      <3> QED BY <3>1 DEF MetricsTypeOK
    <2>2. \A j \in Metered : rows'[j] \in Rows
      BY <1>2, RowSteps
    <2>3. rows' = [j \in Metered |-> rows'[j]]
      BY <1>2 DEF MetricsNext, Accept, Start, Conclude, Reject, Prune, PassHour, MetricsTypeOK
    <2>4. \A r \in Refused : refusals'[r] \in Nat
      BY <1>2, RefusalSteps
    <2>5. refusals' = [r \in Refused |-> refusals'[r]]
      BY <1>2 DEF MetricsNext, Accept, Start, Conclude, Reject, Prune, PassHour, MetricsTypeOK
    <2>6. ASSUME NEW j \in Metered, rows'[j].status \in Endings
          PROVE  rows'[j].finished < rows'[j].accepted + HoursPerDay
      <3>1. rows'[j].status \notin {"none", "queued", "running"}
        BY <2>6 DEF Endings
      <3>2. NoRow.status = "none"
        BY DEF NoRow
      <3> QED BY <1>2, <2>6, <3>1, <3>2, RowSteps DEF EndsWithinADay
    <2> QED BY <2>1, <2>2, <2>3, <2>4, <2>5, <2>6 DEF MetricsTypeOK, EndsWithinADay
  <1> QED BY <1>1, <1>2

-----------------------------------------------------------------------------
(* Days and hours.                                                            *)

LEMMA Multiples ==
    ASSUME NEW d \in Int
    PROVE  /\ d * HoursPerDay \in Int
           /\ (d + 1) * HoursPerDay = d * HoursPerDay + HoursPerDay
           /\ (d - 1) * HoursPerDay = d * HoursPerDay - HoursPerDay
           /\ \A e \in Int : d <= e => d * HoursPerDay <= e * HoursPerDay
           /\ \A e \in Int : d * HoursPerDay < e * HoursPerDay + HoursPerDay => d <= e
  BY MetricsConstants

\* An hour is in its day, and the first hour of that day is in it too.
LEMMA HoursOfADay ==
    ASSUME NEW h \in Nat \ {0}
    PROVE  /\ Day(h) \in Nat
           /\ Day(h) * HoursPerDay < h /\ h <= Day(h) * HoursPerDay + HoursPerDay
           /\ FirstHour(Day(h)) \in Nat \ {0} /\ FirstHour(Day(h)) <= h
           /\ Day(FirstHour(Day(h))) = Day(h)
  <1>1. PICK n \in Nat : n = h - 1
    OBVIOUS
  <1>2. PICK d : d = n \div HoursPerDay
    OBVIOUS
  <1>3. d \in Nat /\ d * HoursPerDay <= n /\ n < d * HoursPerDay + HoursPerDay
    BY <1>2, MetricsConstants
  <1>4. PICK m : m = d * HoursPerDay
    OBVIOUS
  <1>5. m \in Nat /\ m \div HoursPerDay = d
    BY <1>3, <1>4, MetricsConstants
  <1>6. Day(h) = d
    BY <1>1, <1>2 DEF Day
  <1>7. FirstHour(d) = m + 1 /\ FirstHour(d) - 1 = m
    BY <1>4, <1>5 DEF FirstHour
  <1>8. Day(FirstHour(d)) = d
    BY <1>5, <1>7 DEF Day
  <1>9. m < h /\ h <= m + HoursPerDay /\ m + 1 <= h /\ m + 1 \in Nat \ {0}
    BY <1>1, <1>3, <1>4, <1>5, MetricsConstants
  <1> QED BY <1>3, <1>4, <1>6, <1>7, <1>8, <1>9

\* Every hour of a period is in a bucket of its series.
LEMMA HoursHaveBuckets ==
    ASSUME NEW from \in Nat, NEW to \in Nat, NEW bucket, NEW h \in Nat \ {0}, InPeriod(h, from, to)
    PROVE  BucketStart(h, bucket) \in SeriesStarts(from, to, bucket)
  <1>1. from * HoursPerDay \in Int /\ (to + 1) * HoursPerDay \in Int
    BY Multiples
  <1>2. from * HoursPerDay + 1 <= h /\ h < (to + 1) * HoursPerDay + 1
    BY DEF InPeriod, FirstHour
  <1>3. CASE bucket = "hour"
    <2>1. h \in FirstHour(from)..(FirstHour(to + 1) - 1)
      BY <1>1, <1>2 DEF FirstHour
    <2> QED BY <1>3, <2>1 DEF BucketStart, SeriesStarts
  <1>4. CASE bucket # "hour"
    <2>1. PICK f : f = FirstHour(Day(h))
      OBVIOUS
    <2>2. /\ BucketStart(h, bucket) = f /\ f \in Nat \ {0} /\ f <= h
          /\ BucketStart(f, bucket) = f
      BY <1>4, <2>1, HoursOfADay DEF BucketStart
    <2>3. Day(h) * HoursPerDay \in Int /\ f = Day(h) * HoursPerDay + 1
      BY <2>1, HoursOfADay, Multiples DEF FirstHour
    <2>4. from <= Day(h)
      <3>1. from * HoursPerDay < Day(h) * HoursPerDay + HoursPerDay
        BY <1>1, <1>2, <2>3, HoursOfADay, MetricsConstants
      <3> QED BY <3>1, HoursOfADay, Multiples
    <2>5. from * HoursPerDay <= Day(h) * HoursPerDay
      BY <2>4, HoursOfADay, Multiples
    <2>6. f \in FirstHour(from)..(FirstHour(to + 1) - 1)
      BY <1>1, <1>2, <2>2, <2>3, <2>5 DEF FirstHour
    <2> QED BY <2>2, <2>6 DEF SeriesStarts
  <1> QED BY <1>3, <1>4

LEMMA SeriesAreFinite ==
    ASSUME NEW from \in Nat, NEW to \in Nat, NEW bucket
    PROVE  IsFiniteSet(SeriesStarts(from, to, bucket))
  <1>1. FirstHour(from) \in Int /\ FirstHour(to + 1) - 1 \in Int
    BY Multiples DEF FirstHour
  <1>2. IsFiniteSet(FirstHour(from)..(FirstHour(to + 1) - 1))
    BY <1>1, FS_Interval
  <1> QED BY <1>2, FS_Subset DEF SeriesStarts

-----------------------------------------------------------------------------
(* What a count counts.                                                       *)

\* The hour that has i counted as k, Null if none has.
When(k, i) ==
    CASE k = "rejected" -> IF i \in Refused THEN refusals[i] ELSE Null
      [] k = "accepted" -> IF i \in Metered THEN rows[i].accepted ELSE Null
      [] OTHER -> IF i \in Metered /\ rows[i].status = k THEN rows[i].finished ELSE Null

CountedIn(k, hours, ids) == {i \in AllIds \cap ids : When(k, i) \in hours}

LEMMA CountsAre ==
    ASSUME NEW k \in Counted, NEW hours \in SUBSET (Nat \ {0}), NEW ids
    PROVE  Counts(hours, ids)[k] = Cardinality(CountedIn(k, hours, ids))
  <1>1. Null \notin hours
    BY DEF Null
  <1>2. CASE k = "rejected"
    <2>1. CountedIn(k, hours, ids) = {r \in Refused \cap ids : refusals[r] \in hours}
      BY <1>1, <1>2, MetricsConstants DEF CountedIn, When
    <2> QED BY <1>2, <2>1 DEF Counts
  <1>3. CASE k = "accepted"
    <2>1. CountedIn(k, hours, ids) = {j \in Metered \cap ids : rows[j].accepted \in hours}
      BY <1>1, <1>3, MetricsConstants DEF CountedIn, When
    <2> QED BY <1>3, <2>1 DEF Counts
  <1>4. CASE k \notin {"accepted", "rejected"}
    <2>1. CountedIn(k, hours, ids) = {j \in Metered \cap ids : rows[j].status = k /\ rows[j].finished \in hours}
      BY <1>1, <1>4, MetricsConstants DEF CountedIn, When
    <2> QED BY <1>4, <2>1 DEF Counts
  <1> QED BY <1>2, <1>3, <1>4

LEMMA CountedAreFinite ==
    ASSUME NEW k, NEW hours, NEW ids
    PROVE  IsFiniteSet(CountedIn(k, hours, ids)) /\ Cardinality(CountedIn(k, hours, ids)) \in Nat
  BY MetricsConstants, FS_Subset, FS_CardinalityType DEF CountedIn

Period(from, to) == {h \in 1..hour : InPeriod(h, from, to)}

LEMMA PeriodIsHours ==
    ASSUME MetricsTypeOK, NEW from, NEW to
    PROVE  Period(from, to) \in SUBSET (Nat \ {0})
  BY DEF Period, MetricsTypeOK

-----------------------------------------------------------------------------
(* A report adds up.                                                          *)

LEMMA SeriesAddUp ==
    ASSUME MetricsTypeOK, NEW from \in Nat, NEW to \in Nat, NEW bucket, NEW k \in Counted,
           NEW report, report = Report(from, to, bucket)
    PROVE  report.summary[k] = SumFunction([s \in DOMAIN report.series |-> report.series[s][k]])
  <1> DEFINE S == CountedIn(k, Period(from, to), AllIds)
             K == SeriesStarts(from, to, bucket)
             c == [i \in S |-> BucketStart(When(k, i), bucket)]
             hours(s) == {h \in Period(from, to) : BucketStart(h, bucket) = s}
             u == [s \in K |-> Cardinality({i \in S : c[i] = s})]
  <1>1. report.summary[k] = Cardinality(S)
    BY PeriodIsHours, CountsAre DEF Report, Period
  <1>2. DOMAIN report.series = K /\ \A s \in K : report.series[s] = Counts(hours(s), AllIds)
    BY DEF Report, Period
  <1>3. ASSUME NEW s \in K
        PROVE  report.series[s][k] = Cardinality({i \in S : c[i] = s})
    <2>1. hours(s) \in SUBSET (Nat \ {0})
      BY PeriodIsHours
    <2>2. report.series[s][k] = Cardinality(CountedIn(k, hours(s), AllIds))
      <3> HIDE DEF hours, K
      <3> QED BY <1>2, <2>1, CountsAre
    <2>3. CountedIn(k, hours(s), AllIds) = {i \in S : c[i] = s}
      BY DEF CountedIn
    <2> QED BY <2>2, <2>3
  <1>4. [s \in DOMAIN report.series |-> report.series[s][k]] = u
    <2> HIDE DEF S, K, c
    <2> QED BY <1>2, <1>3
  <1>5. \A i \in S : c[i] \in K
    BY PeriodIsHours, HoursHaveBuckets DEF CountedIn, Period
  <1>6. IsFiniteSet(S) /\ IsFiniteSet(K)
    BY CountedAreFinite, SeriesAreFinite
  <1>7. SumFunction(u) = Cardinality(S)
    <2> HIDE DEF S, K, c
    <2> QED BY <1>5, <1>6, SumOfClasses
  <1> QED BY <1>1, <1>4, <1>7

LEMMA OperationsAddUp ==
    ASSUME MetricsTypeOK, NEW from \in Nat, NEW to \in Nat, NEW bucket, NEW k \in Counted,
           NEW report, report = Report(from, to, bucket)
    PROVE  report.summary[k] = SumFunction([o \in DOMAIN report.operations |-> report.operations[o][k]])
  <1> DEFINE S == CountedIn(k, Period(from, to), AllIds)
             K == Range(OperationOf)
             of(o) == {i \in AllIds : OperationOf[i] = o}
             u == [o \in K |-> Cardinality({i \in S : OperationOf[i] = o})]
  <1>1. report.summary[k] = Cardinality(S)
    BY PeriodIsHours, CountsAre DEF Report, Period
  <1>2. DOMAIN report.operations = K /\ \A o \in K : report.operations[o] = Counts(Period(from, to), of(o))
    BY DEF Report, Period
  <1>3. ASSUME NEW o \in K
        PROVE  report.operations[o][k] = Cardinality({i \in S : OperationOf[i] = o})
    <2>1. report.operations[o][k] = Cardinality(CountedIn(k, Period(from, to), of(o)))
      <3> HIDE DEF of, K
      <3> QED BY <1>2, PeriodIsHours, CountsAre
    <2>2. CountedIn(k, Period(from, to), of(o)) = {i \in S : OperationOf[i] = o}
      BY DEF CountedIn
    <2> QED BY <2>1, <2>2
  <1>4. [o \in DOMAIN report.operations |-> report.operations[o][k]] = u
    <2> HIDE DEF S, K
    <2> QED BY <1>2, <1>3
  <1>5. \A i \in AllIds : OperationOf[i] \in K
    BY MetricsAssumption DEF AllIds, Range
  <1>6. IsFiniteSet(K)
    <2> DEFINE f == [i \in AllIds |-> OperationOf[i]]
    <2>1. f \in Surjection(AllIds, K)
      BY <1>5, MetricsAssumption DEF AllIds, Range, Surjection
    <2> HIDE DEF f, K
    <2> QED BY <2>1, MetricsConstants, FS_Surjection
  <1>7. IsFiniteSet(S) /\ S \subseteq AllIds
    <2>1. S \subseteq AllIds
      BY DEF CountedIn
    <2> QED BY <2>1, CountedAreFinite
  <1>8. SumFunction(u) = Cardinality(S)
    <2> HIDE DEF S, K
    <2> QED BY <1>5, <1>6, <1>7, SumOfClasses
  <1> QED BY <1>1, <1>4, <1>8

\* The report of every period that may be asked for adds up, by its series and by
\* its operations, whatever is in the database.
THEOREM ReportsAddUp == MetricsSpec => []ReportAddsUp
  <1>1. MetricsInit => MetricsTypeOK /\ EndsWithinADay
    BY InitMetrics
  <1>2. MetricsTypeOK /\ EndsWithinADay /\ [MetricsNext]_metricsVars => (MetricsTypeOK /\ EndsWithinADay)'
    BY StepMetrics
  <1>3. MetricsTypeOK => ReportAddsUp
    <2>1. MetricsTypeOK => Days \subseteq Nat
      BY HoursOfADay DEF Days, MetricsTypeOK
    <2> QED BY <2>1, SeriesAddUp, OperationsAddUp DEF ReportAddsUp
  <1> QED BY <1>1, <1>2, <1>3, PTL DEF MetricsSpec

-----------------------------------------------------------------------------
(* No count of a kept day falls.                                              *)

\* What is pruned is older than the days the longest report reaches.
LEMMA KeptDays ==
    ASSUME MetricsTypeOK, NEW day \in Int, day > Day(hour) - Retention
    PROVE  OldestKept < day * HoursPerDay + 1 /\ OldestKept \in Int
  <1>1. PICK d : d = Day(hour)
    OBVIOUS
  <1>2. d \in Nat /\ hour \in Nat /\ hour <= d * HoursPerDay + HoursPerDay
    BY <1>1, HoursOfADay DEF MetricsTypeOK
  <1>3. d + 1 \in Int /\ day + Retention \in Int /\ d + 1 <= day + Retention
    BY <1>1, <1>2, MetricsConstants
  <1>4. (d + 1) * HoursPerDay <= (day + Retention) * HoursPerDay
    BY <1>3, Multiples
  <1>5. (day + Retention) * HoursPerDay = day * HoursPerDay + Retention * HoursPerDay
    BY MetricsConstants
  <1>6. /\ (d + 1) * HoursPerDay = d * HoursPerDay + HoursPerDay
        /\ day * HoursPerDay \in Int /\ Retention * HoursPerDay \in Int /\ d * HoursPerDay \in Int
    BY <1>2, Multiples, MetricsConstants
  <1>7. PICK a, b, c : a = d * HoursPerDay /\ b = day * HoursPerDay /\ c = Retention * HoursPerDay
    OBVIOUS
  <1>8. a \in Int /\ b \in Int /\ c \in Int /\ a + HoursPerDay <= b + c /\ hour <= a + HoursPerDay
    BY <1>2, <1>4, <1>5, <1>6, <1>7
  <1>9. hour - c < b + 1 /\ hour - c \in Int
    BY <1>2, <1>8, MetricsConstants
  <1> QED BY <1>7, <1>9 DEF OldestKept

CountsRight ==
    \A k \in Counted, hours \in SUBSET (Nat \ {0}) :
        Counts(hours, AllIds)[k] = Cardinality(CountedIn(k, hours, AllIds))

LEMMA CountsAreRight == CountsRight
  BY CountsAre DEF CountsRight

\* What has been counted in a kept day stays counted in the same hour.
LEMMA KeptCounts ==
    ASSUME MetricsTypeOK, EndsWithinADay, MetricsNext, NEW day \in Nat, day > Day(hour) - Retention,
           NEW k \in Counted, k \in Endings => day # Day(hour) - Retention + 1,
           NEW i \in AllIds, When(k, i) \in Period(day, day)
    PROVE  When(k, i)' = When(k, i)
  <1>1. /\ When(k, i) \in Nat \ {0} /\ day * HoursPerDay \in Int
        /\ day * HoursPerDay + 1 <= When(k, i)
    <2>1. When(k, i) \in Nat \ {0} /\ FirstHour(day) <= When(k, i)
      BY PeriodIsHours DEF Period, InPeriod
    <2> QED BY <2>1, Multiples DEF FirstHour
  <1>2. OldestKept < day * HoursPerDay + 1 /\ OldestKept \in Int
    BY KeptDays
  <1>3. CASE k = "rejected"
    <2>1. i \in Refused /\ When(k, i) = refusals[i] /\ When(k, i)' = refusals'[i]
      BY <1>1, <1>3 DEF When, Null
    <2> QED BY <1>1, <1>2, <2>1, RefusalSteps DEF Null
  <1>4. CASE k = "accepted"
    <2>1. i \in Metered /\ When(k, i) = rows[i].accepted /\ When(k, i)' = rows'[i].accepted
      BY <1>1, <1>4 DEF When, Null
    <2>2. rows[i] # NoRow /\ ~(rows[i].accepted < OldestKept)
      BY <1>1, <1>2, <2>1 DEF NoRow, Null
    <2> QED BY <2>1, <2>2, RowSteps
  <1>5. CASE k \notin {"rejected", "accepted"}
    <2>1. /\ i \in Metered /\ rows[i].status = k /\ When(k, i) = rows[i].finished
          /\ When(k, i)' = IF rows'[i].status = k THEN rows'[i].finished ELSE Null
      BY <1>1, <1>5 DEF When, Null
    <2>2. k \in Endings /\ k \notin {"none", "queued", "running"}
      BY <1>5 DEF Counted, Endings
    <2>3. OldestKept < (day - 1) * HoursPerDay + 1
      <3>1. day - 1 \in Int /\ day - 1 > Day(hour) - Retention
        <4>1. Day(hour) \in Nat
          BY HoursOfADay DEF MetricsTypeOK
        <4> QED BY <2>2, <4>1, MetricsConstants
      <3> QED BY <3>1, KeptDays
    <2>4. rows[i].finished < rows[i].accepted + HoursPerDay
      BY <2>1, <2>2 DEF EndsWithinADay
    <2>5. rows[i].accepted \in Nat
      BY <2>1 DEF MetricsTypeOK, Rows
    <2>6. (day - 1) * HoursPerDay = day * HoursPerDay - HoursPerDay
      BY Multiples
    <2>7. ~(rows[i].accepted < OldestKept)
      BY <1>1, <1>2, <2>1, <2>3, <2>4, <2>5, <2>6, MetricsConstants
    <2>8. rows[i] # NoRow /\ rows[i].status \notin {"queued", "running"}
      BY <2>1, <2>2 DEF NoRow
    <2> QED BY <2>1, <2>7, <2>8, RowSteps
  <1> QED BY <1>3, <1>4, <1>5

\* However late processes write, and whenever rows are pruned, what a report tells
\* of a day the longest report of today reaches is never less than it was.
THEOREM CountsDoNotFall == MetricsSpec => CountsNeverFall
  <1> DEFINE Kept == \A day \in Days : day > Day(hour) - Retention =>
                LET before == Report(day, day, "day").summary
                    after == Report(day, day, "day").summary'
                IN  \A k \in Counted \ (IF day = Day(hour) - Retention + 1 THEN Endings ELSE {}) :
                       after[k] >= before[k]
  <1>1. MetricsInit => MetricsTypeOK /\ EndsWithinADay
    BY InitMetrics
  <1>2. MetricsTypeOK /\ EndsWithinADay /\ [MetricsNext]_metricsVars => (MetricsTypeOK /\ EndsWithinADay)'
    BY StepMetrics
  <1>3. MetricsTypeOK /\ EndsWithinADay /\ [MetricsNext]_metricsVars => [Kept]_metricsVars
    <2> SUFFICES ASSUME MetricsTypeOK, EndsWithinADay, MetricsNext, NEW day \in Days,
                        day > Day(hour) - Retention, NEW k \in Counted,
                        k \in Endings => day # Day(hour) - Retention + 1
                 PROVE  Report(day, day, "day").summary[k]' >= Report(day, day, "day").summary[k]
      OBVIOUS
    <2>1. day \in Nat
      BY HoursOfADay DEF Days, MetricsTypeOK
    <2>2. CountsRight'
      BY CountsAreRight, PTL
    <2>3. MetricsTypeOK'
      BY StepMetrics
    <2>4. /\ Report(day, day, "day").summary[k] = Cardinality(CountedIn(k, Period(day, day), AllIds))
          /\ Report(day, day, "day").summary[k]' = Cardinality(CountedIn(k, Period(day, day), AllIds)')
      <3>1. Period(day, day) \in SUBSET (Nat \ {0}) /\ Period(day, day)' \in SUBSET (Nat \ {0})
        BY <2>3 DEF Period, MetricsTypeOK
      <3> QED BY <2>2, <3>1, CountsAreRight DEF CountsRight, Report, Period, CountedIn
    <2>5. Period(day, day) \subseteq Period(day, day)'
      <3>1. hour' = hour \/ hour' = hour + 1
        BY Zenon DEF MetricsNext, Accept, Start, Conclude, Reject, Prune, PassHour
      <3> QED BY <3>1 DEF Period, MetricsTypeOK, InPeriod, FirstHour
    <2>6. CountedIn(k, Period(day, day), AllIds) \subseteq CountedIn(k, Period(day, day), AllIds)'
      BY <2>1, <2>5, KeptCounts DEF CountedIn
    <2>7. IsFiniteSet(CountedIn(k, Period(day, day), AllIds)')
      BY MetricsConstants, FS_Subset DEF CountedIn
    <2>8. PICK A, B : A = CountedIn(k, Period(day, day), AllIds) /\ B = CountedIn(k, Period(day, day), AllIds)'
      OBVIOUS
    <2>9. A \in SUBSET B /\ IsFiniteSet(B)
      BY <2>6, <2>7, <2>8
    <2>10. IsFiniteSet(A) /\ Cardinality(A) <= Cardinality(B) /\ Cardinality(A) \in Nat /\ Cardinality(B) \in Nat
      BY <2>9, FS_Subset, FS_CardinalityType
    <2> QED BY <2>4, <2>8, <2>10
  <1>4. [][Kept]_metricsVars <=> CountsNeverFall
    BY DEF CountsNeverFall
  <1> QED BY <1>1, <1>2, <1>3, <1>4, PTL DEF MetricsSpec
=============================================================================
