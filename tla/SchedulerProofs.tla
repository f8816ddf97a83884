-------------------------- MODULE SchedulerProofs ---------------------------
(***************************************************************************)
(* SchedulerInv holds in every reachable state of Scheduler, for every     *)
(* configuration, calendar and queue length: the lock makes a scan see one *)
(* configuration and an update complete, and the key of the last minute    *)
(* makes the starts of a minute unique.                                    *)
(***************************************************************************)
EXTENDS Scheduler, TLAPS

\* The initial states satisfy the invariant.
LEMMA SchedulerInitInv == SchedulerInit => SchedulerInv
<1> SUFFICES ASSUME SchedulerInit
             PROVE  SchedulerInv
  OBVIOUS
<1>1. queue \in Seq(Events) /\ Len(queue) <= QueueSize
  BY SchedulerAssumption DEF SchedulerInit
<1>2. SchedulerTypeOK
  <2>1. clock \in Nat /\ lastKey \in Keys /\ index \in Nat \ {0}
    BY DEF SchedulerInit, Keys
  <2>2. valid \in BOOLEAN /\ setBack \in BOOLEAN
    BY DEF SchedulerInit
  <2> QED
    BY <1>1, <2>1, <2>2, Zenon DEF SchedulerInit, SchedulerTypeOK
<1>3. LockInv /\ ScanSeesOnePlan /\ PlanInv
  BY DEF SchedulerInit, LockInv, ScanSeesOnePlan, PlanInv, PlanFollowsSaved
<1>4. OfferedInv
  BY DEF SchedulerInit, OfferedInv
<1> QED
  BY <1>2, <1>3, <1>4 DEF SchedulerInv

\* A plan is a sequence of entries.
LEMMA PlanType ==
    ASSUME SchedulerTypeOK
    PROVE  plan \in Seq(Entry) /\ Len(plan) \in Nat
BY SchedulerAssumption DEF SchedulerTypeOK

\* An entry's start is one of the events.
LEMMA StartIsEvent ==
    ASSUME NEW e \in Entry
    PROVE  Start(e) \in Events
BY DEF Start, Events, Entry

\* An offer leaves a queue of events within its length.
LEMMA OfferQueue ==
    ASSUME SchedulerTypeOK, NEW e \in Entry, Offer(e)
    PROVE  queue' \in Seq(Events) /\ Len(queue') <= QueueSize
<1>1. Start(e) \in Events
  BY StartIsEvent
<1>2. CASE Len(queue) < QueueSize /\ queue' = Append(queue, Start(e))
  BY <1>1, <1>2, SchedulerAssumption DEF SchedulerTypeOK
<1>3. CASE Len(queue) >= QueueSize /\ UNCHANGED queue
  BY <1>3 DEF SchedulerTypeOK
<1> QED
  BY <1>2, <1>3 DEF Offer

\* What the scan has found due, with the entry it visits next.
LEMMA ScanStep ==
    ASSUME SchedulerTypeOK, ScanSeesOnePlan, Visit
    PROVE  ScanSeesOnePlan'
<1> DEFINE D(i) == Due(plan[i], lastKey)
<1>1. /\ plan' = plan /\ lastKey' = lastKey /\ spc = "scan"
      /\ index' = index + 1 /\ index \in Nat \ {0} /\ index <= Len(plan)
      /\ Len(plan) \in Nat
  BY PlanType DEF Visit, SchedulerTypeOK
<1>2. scanned = {i \in 1 .. Len(plan) : i < index /\ D(i)}
  BY <1>1 DEF ScanSeesOnePlan
<1>3. scanned' = IF D(index) THEN scanned \cup {index} ELSE scanned
  BY DEF Visit
<1>4. \A i \in 1 .. Len(plan) : D(i)' <=> D(i)
  BY <1>1 DEF Due
<1> HIDE DEF D
<1>5. {i \in 1 .. Len(plan) : i < index + 1 /\ D(i)}
        = IF D(index) THEN scanned \cup {index} ELSE scanned
  <2>1. CASE D(index)
    BY <1>1, <1>2, <2>1
  <2>2. CASE ~D(index)
    <3>1. \A i \in 1 .. Len(plan) : i < index + 1 <=> i < index \/ i = index
      BY <1>1
    <3> QED
      BY <1>1, <1>2, <2>2, <3>1
  <2> QED
    BY <2>1, <2>2
<1>6. scanned' = {i \in 1 .. Len(plan) : i < index + 1 /\ D(i)}
  BY <1>3, <1>5
<1> QED
  BY <1>1, <1>6 DEF ScanSeesOnePlan, D

\* What has been offered, with the entry the scan visits.
LEMMA OfferedStep ==
    ASSUME SchedulerTypeOK, OfferedInv, Visit
    PROVE  OfferedInv'
<1>1. /\ lastKey' = lastKey /\ spc = "scan" /\ spc' = "scan"
      /\ index' = index + 1 /\ index \in Nat
      /\ clock' = clock /\ setBack' = setBack
  BY DEF Visit, SchedulerTypeOK, clockVars
<1>2. offered' \subseteq offered \cup {x \in {<<lastKey, index>>} : ~setBack}
  BY DEF Visit
<1>3. CASE setBack
  BY <1>1, <1>2, <1>3 DEF OfferedInv
<1>4. CASE ~setBack
  <2>1. \A x \in offered : x[1] < lastKey \/ (x[1] = lastKey /\ x[2] < index)
    BY <1>1, <1>4 DEF OfferedInv
  <2>2. \A x \in offered : x[2] \in Nat
    BY DEF SchedulerTypeOK
  <2>3. SUFFICES ASSUME NEW x \in offered'
                 PROVE  x[1] < lastKey \/ (x[1] = lastKey /\ x[2] < index + 1)
    BY <1>1, <1>4 DEF OfferedInv
  <2>4. CASE x \in offered
    BY <1>1, <2>1, <2>2, <2>4
  <2>5. CASE x = <<lastKey, index>>
    BY <1>1, <2>5
  <2> QED
    BY <1>2, <2>4, <2>5
<1> QED
  BY <1>3, <1>4

\* Visiting an entry keeps the types.
LEMMA VisitTypes ==
    ASSUME SchedulerTypeOK, Visit
    PROVE  SchedulerTypeOK'
<1>1. /\ index \in Nat \ {0} /\ index' \in Nat \ {0}
      /\ plan[index] \in Entry
  BY PlanType DEF Visit, SchedulerTypeOK
<1>2. /\ lastKey \in Keys
      /\ <<lastKey, index>> \in Keys \X (Nat \ {0})
  BY <1>1 DEF SchedulerTypeOK
<1>3. queue' \in Seq(Events) /\ Len(queue') <= QueueSize
  BY <1>1, OfferQueue DEF Visit, SchedulerTypeOK
<1> QED
  BY <1>1, <1>2, <1>3 DEF Visit, SchedulerTypeOK, clockVars, controllerVars

\* Every step keeps the invariant.
LEMMA SchedulerNextInv ==
    SchedulerInv /\ [SchedulerNext]_schedulerVars => SchedulerInv'
<1> SUFFICES ASSUME SchedulerInv, [SchedulerNext]_schedulerVars
             PROVE  SchedulerInv'
  OBVIOUS
<1>0. /\ SchedulerTypeOK /\ LockInv /\ ScanSeesOnePlan
      /\ PlanInv /\ OfferedInv
  BY DEF SchedulerInv
<1>1. CASE Poll
  <2>1. clock \in Nat /\ lastKey \in Keys /\ lastKey' = clock /\ clock # lastKey
    BY <1>0, <1>1 DEF Poll, SchedulerTypeOK
  <2>2. SchedulerTypeOK'
    BY <1>0, <1>1, <2>1 DEF Poll, SchedulerTypeOK, Keys, clockVars, controllerVars
  <2>3. LockInv' /\ ScanSeesOnePlan' /\ PlanInv'
    BY <1>0, <1>1 DEF Poll, LockInv, ScanSeesOnePlan, PlanInv, PlanFollowsSaved,
                      clockVars, controllerVars
  <2>4. OfferedInv'
    <3>1. CASE setBack
      BY <1>0, <1>1, <3>1 DEF Poll, OfferedInv, clockVars
    <3>2. CASE ~setBack
      <4>1. \A x \in offered : x[1] \in Keys /\ x[1] <= lastKey
        BY <1>0, <2>1, <3>2 DEF OfferedInv, SchedulerTypeOK, Keys
      <4>2. lastKey < clock
        BY <1>0, <2>1, <3>2 DEF OfferedInv, Keys
      <4>3. \A x \in offered : x[1] < clock
        BY <2>1, <4>1, <4>2 DEF Keys
      <4> QED
        BY <1>1, <2>1, <3>2, <4>3 DEF Poll, OfferedInv, clockVars
    <3> QED
      BY <3>1, <3>2
  <2> QED
    BY <2>2, <2>3, <2>4 DEF SchedulerInv
<1>2. CASE BeginScan
  <2>1. SchedulerTypeOK' /\ LockInv' /\ PlanInv'
    BY <1>0, <1>2 DEF BeginScan, SchedulerTypeOK, LockInv, PlanInv, PlanFollowsSaved,
                      clockVars, controllerVars
  <2>2. ScanSeesOnePlan'
    BY <1>0, <1>2, PlanType DEF BeginScan, ScanSeesOnePlan
  <2>3. OfferedInv'
    BY <1>0, <1>2 DEF BeginScan, OfferedInv, clockVars
  <2> QED
    BY <2>1, <2>2, <2>3 DEF SchedulerInv
<1>3. CASE Visit
  <2>1. LockInv' /\ PlanInv'
    BY <1>0, <1>3 DEF Visit, LockInv, PlanInv, PlanFollowsSaved, controllerVars
  <2> QED
    BY <1>0, <1>3, <2>1, VisitTypes, ScanStep, OfferedStep DEF SchedulerInv
<1>4. CASE EndScan
  <2>1. SchedulerTypeOK' /\ LockInv' /\ ScanSeesOnePlan' /\ PlanInv'
    BY <1>0, <1>4 DEF EndScan, SchedulerTypeOK, LockInv, ScanSeesOnePlan,
                      PlanInv, PlanFollowsSaved, clockVars, controllerVars
  <2>2. OfferedInv'
    BY <1>0, <1>4 DEF EndScan, OfferedInv, clockVars
  <2> QED
    BY <2>1, <2>2 DEF SchedulerInv
<1>5. CASE Receive
  <2>1. /\ queue' \in Seq(Events) /\ Len(queue') <= QueueSize
        /\ Head(queue) \in Events
    BY <1>0, <1>5, SchedulerAssumption DEF Receive, SchedulerTypeOK
  <2>2. Head(queue).kind = "SET" => Head(queue).plan \in Plans
    BY <2>1 DEF Events
  <2>3. /\ live' \in Plans /\ saved' \in Plans /\ cpc' \in {"receive", "update"}
        /\ cpc' = "receive" => saved' = saved
        /\ cpc' # "receive" => live' = saved'
        /\ cpc = "receive"
    BY <1>0, <1>5, <2>2 DEF Receive, Save, SchedulerTypeOK, controllerVars
  <2>4. SchedulerTypeOK' /\ LockInv' /\ ScanSeesOnePlan' /\ PlanInv'
    <3>1. UNCHANGED <<clockVars, taskVars, plan, lock>>
      BY <1>5 DEF Receive
    <3>2. SchedulerTypeOK'
      BY <1>0, <2>1, <2>3, <3>1 DEF SchedulerTypeOK, clockVars, taskVars
    <3> QED
      BY <1>0, <2>3, <3>1, <3>2
      DEF LockInv, ScanSeesOnePlan, PlanInv, PlanFollowsSaved, taskVars
  <2>5. OfferedInv'
    BY <1>0, <1>5 DEF Receive, OfferedInv, clockVars, taskVars
  <2> QED
    BY <2>4, <2>5 DEF SchedulerInv
<1>6. CASE TakeLock
  <2>1. SchedulerTypeOK' /\ LockInv' /\ ScanSeesOnePlan' /\ PlanInv'
    BY <1>0, <1>6 DEF TakeLock, SchedulerTypeOK, LockInv, ScanSeesOnePlan,
                      PlanInv, PlanFollowsSaved, clockVars, taskVars
  <2>2. OfferedInv'
    BY <1>0, <1>6 DEF TakeLock, OfferedInv, clockVars, taskVars
  <2> QED
    BY <2>1, <2>2 DEF SchedulerInv
<1>7. CASE Copy
  <2>1. SchedulerTypeOK' /\ LockInv' /\ ScanSeesOnePlan' /\ PlanInv'
    BY <1>0, <1>7 DEF Copy, SchedulerTypeOK, LockInv, ScanSeesOnePlan,
                      PlanInv, PlanFollowsSaved, clockVars, taskVars
  <2>2. OfferedInv'
    BY <1>0, <1>7 DEF Copy, OfferedInv, clockVars, taskVars
  <2> QED
    BY <2>1, <2>2 DEF SchedulerInv
<1>8. CASE Request
  <2>1. PICK e \in [kind : {"SET"}, plan : Plans] \cup [kind : {"OTHER"}] :
           Len(queue) < QueueSize /\ queue' = Append(queue, e)
    BY <1>8 DEF Request
  <2>2. queue' \in Seq(Events) /\ Len(queue') <= QueueSize
    <3>1. e \in Events
      BY <2>1 DEF Events
    <3> QED
      BY <1>0, <2>1, <3>1, SchedulerAssumption DEF SchedulerTypeOK
  <2>3. SchedulerTypeOK' /\ LockInv' /\ ScanSeesOnePlan' /\ PlanInv'
    BY <1>0, <1>8, <2>2 DEF Request, SchedulerTypeOK, LockInv, ScanSeesOnePlan,
                            PlanInv, PlanFollowsSaved, clockVars, taskVars, controllerVars
  <2>4. OfferedInv'
    BY <1>0, <1>8 DEF Request, OfferedInv, clockVars, taskVars
  <2> QED
    BY <2>3, <2>4 DEF SchedulerInv
<1>9. CASE Minute
  <2>1. clock \in Nat /\ clock' \in Nat /\ clock < clock' /\ lastKey \in Keys
    BY <1>0, <1>9 DEF Minute, SchedulerTypeOK
  <2>2. SchedulerTypeOK' /\ LockInv' /\ ScanSeesOnePlan' /\ PlanInv'
    BY <1>0, <1>9, <2>1 DEF Minute, SchedulerTypeOK, LockInv, ScanSeesOnePlan,
                            PlanInv, PlanFollowsSaved, taskVars, controllerVars
  <2>3. OfferedInv'
    BY <1>0, <1>9, <2>1 DEF Minute, OfferedInv, taskVars, Keys
  <2> QED
    BY <2>2, <2>3 DEF SchedulerInv
<1>10. CASE Sync
  <2>1. clock \in Nat /\ clock' \in Nat /\ clock <= clock' /\ lastKey \in Keys
    BY <1>0, <1>10, SchedulerAssumption DEF Sync, SchedulerTypeOK
  <2>2. SchedulerTypeOK'
    BY <1>0, <1>10, <2>1 DEF Sync, SchedulerTypeOK, taskVars, controllerVars
  <2>3. LockInv' /\ ScanSeesOnePlan' /\ PlanInv'
    BY <1>0, <1>10 DEF Sync, LockInv, ScanSeesOnePlan, PlanInv, PlanFollowsSaved,
                       taskVars, controllerVars
  <2>4. OfferedInv'
    BY <1>0, <1>10, <2>1 DEF Sync, OfferedInv, taskVars, Keys
  <2> QED
    BY <2>2, <2>3, <2>4 DEF SchedulerInv
<1>11. CASE SyncBack
  <2>1. clock' \in Nat
    BY <1>0, <1>11 DEF SyncBack, SchedulerTypeOK
  <2>2. SchedulerTypeOK' /\ LockInv' /\ ScanSeesOnePlan' /\ PlanInv'
    BY <1>0, <1>11, <2>1 DEF SyncBack, SchedulerTypeOK, LockInv, ScanSeesOnePlan,
                             PlanInv, PlanFollowsSaved, controllerVars
  <2>3. OfferedInv'
    BY <1>11 DEF SyncBack, OfferedInv
  <2> QED
    BY <2>2, <2>3 DEF SchedulerInv
<1>12. CASE UNCHANGED schedulerVars
  BY <1>0, <1>12
  DEF SchedulerInv, SchedulerTypeOK, LockInv, ScanSeesOnePlan, PlanInv, PlanFollowsSaved,
      OfferedInv, schedulerVars, clockVars, taskVars, controllerVars
<1> QED
  BY <1>1, <1>2, <1>3, <1>4, <1>5, <1>6, <1>7, <1>8, <1>9, <1>10, <1>11, <1>12
  DEF SchedulerNext, SchedulerStep, ControllerStep

\* The invariant of scheduler_task and scheduler_update_config in every
\* reachable state.
THEOREM SchedulerSafety == SchedulerSpec => []SchedulerInv
BY SchedulerInitInv, SchedulerNextInv, PTL DEF SchedulerSpec

\* The variables of scheduler_task keep their types, the queue its bound.
THEOREM SchedulerTypes == SchedulerSpec => []SchedulerTypeOK
<1>1. SchedulerInv => SchedulerTypeOK
  BY DEF SchedulerInv
<1> QED
  BY <1>1, SchedulerSafety, PTL

\* scheduler_task offers what is due in one configuration, although
\* scheduler_update_config may come at any point of its scan.
THEOREM SchedulerConsistent == SchedulerSpec => []ScanSeesOnePlan
<1>1. SchedulerInv => ScanSeesOnePlan
  BY DEF SchedulerInv
<1> QED
  BY <1>1, SchedulerSafety, PTL

\* No update of scheduler_update_config is lost, and after a failed save the
\* scheduler keeps to what was saved before.
THEOREM SchedulerFollows == SchedulerSpec => []PlanFollowsSaved
<1>1. SchedulerInv => PlanFollowsSaved
  BY DEF SchedulerInv, PlanInv
<1> QED
  BY <1>1, SchedulerSafety, PTL

\* last_minute_key makes the starts of a minute unique while the clock is not
\* set back.
THEOREM SchedulerOnce == SchedulerSpec => OncePerMinute
<1>1. ASSUME SchedulerInv, [SchedulerNext]_schedulerVars,
             NEW i \in 1 .. Len(plan), i \in scanned' \ scanned
      PROVE  <<lastKey, i>> \notin offered
  <2>1. Visit /\ i = index
    BY <1>1 DEF SchedulerNext, SchedulerStep, ControllerStep, Poll, BeginScan,
                Visit, EndScan, Receive, TakeLock, Copy, Request, Minute, Sync,
                SyncBack, schedulerVars, taskVars
  <2>2. /\ spc = "scan" /\ index \in Nat \ {0} /\ lastKey \in Keys
    BY <1>1, <2>1 DEF Visit, SchedulerInv, SchedulerTypeOK
  <2>3. CASE setBack
    BY <1>1, <2>3 DEF SchedulerInv, OfferedInv
  <2>4. CASE ~setBack
    <3>1. \A x \in offered : x[1] < lastKey \/ x[2] < index
      BY <1>1, <2>2, <2>4 DEF SchedulerInv, OfferedInv
    <3> QED
      BY <2>1, <2>2, <3>1 DEF Keys
  <2> QED
    BY <2>3, <2>4
<1>2. SchedulerInv /\ [SchedulerNext]_schedulerVars
        => [\A i \in 1 .. Len(plan) :
              i \in scanned' \ scanned => <<lastKey, i>> \notin offered]_schedulerVars
  BY <1>1
<1> QED
  BY <1>2, SchedulerSafety, PTL DEF SchedulerSpec, OncePerMinute

-----------------------------------------------------------------------------
\* The safety half of UpdateIsTaken: a scan keeps the lock, its minute and its
\* configuration until it gives the lock back, whatever the clock and the
\* controller do meanwhile; in between it only moves on, an entry at a time
\* and never beyond the last, so that who waits for the lock waits for at most
\* as many steps as there are entries, and one; and when it ends it has
\* offered everything that is due, and nothing else.
ScanRunsThrough ==
    spc = "scan" =>
        \/ /\ spc' = "sleep" /\ lock' = "free"
           /\ scanned = {i \in 1 .. Len(plan) : Due(plan[i], lastKey)}
        \/ /\ spc' = "scan" /\ lock' = "scheduler"
           /\ UNCHANGED <<plan, lastKey>>
           /\ index' = index \/ (index <= Len(plan) /\ index' = index + 1)

\* Every step during a scan is one of these.
LEMMA StepRunsThrough ==
    ASSUME SchedulerInv, [SchedulerNext]_schedulerVars PROVE ScanRunsThrough
<1> SUFFICES ASSUME spc = "scan" PROVE ScanRunsThrough
  BY DEF ScanRunsThrough
<1>1. lock = "scheduler" /\ cpc # "copy"
  BY DEF SchedulerInv, LockInv
<1>2. CASE Visit
  BY <1>1, <1>2 DEF Visit, ScanRunsThrough
<1>3. CASE EndScan
  <2>1. /\ index > Len(plan) /\ Len(plan) \in Nat /\ index \in Nat
        /\ scanned = {i \in 1 .. Len(plan) : i < index /\ Due(plan[i], lastKey)}
    BY <1>3, PlanType DEF EndScan, SchedulerInv, SchedulerTypeOK, ScanSeesOnePlan
  <2>2. \A i \in 1 .. Len(plan) : i < index
    BY <2>1
  <2>3. scanned = {i \in 1 .. Len(plan) : Due(plan[i], lastKey)}
    BY <2>1, <2>2
  <2> QED
    BY <1>3, <2>3 DEF EndScan, ScanRunsThrough
<1>4. CASE \/ Receive \/ Request \/ Minute \/ Sync \/ SyncBack
           \/ UNCHANGED schedulerVars
  <2>1. UNCHANGED <<spc, lock, plan, lastKey, index>>
    BY <1>4
    DEF Receive, Request, Minute, Sync, SyncBack, schedulerVars, taskVars
  <2> QED
    BY <1>1, <2>1 DEF ScanRunsThrough
<1>5. CASE Poll \/ BeginScan \/ TakeLock \/ Copy
  BY <1>1, <1>5 DEF Poll, BeginScan, TakeLock, Copy
<1> QED
  BY <1>2, <1>3, <1>4, <1>5 DEF SchedulerNext, SchedulerStep, ControllerStep

\* The scan of scheduler_task holds its lock for one pass over one
\* configuration in one minute and then gives it back, having missed no entry
\* that is due, even when SNTP sets the clock under it.
THEOREM SchedulerRunsThrough == SchedulerSpec => [][ScanRunsThrough]_schedulerVars
<1>1. SchedulerInv /\ [SchedulerNext]_schedulerVars => [ScanRunsThrough]_schedulerVars
  BY StepRunsThrough
<1> QED
  BY <1>1, SchedulerSafety, PTL DEF SchedulerSpec
=============================================================================
