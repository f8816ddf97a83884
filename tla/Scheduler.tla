----------------------------- MODULE Scheduler ------------------------------
(***************************************************************************)
(* The scheduler task (components/scheduler) next to the controller: the   *)
(* poll of the wall clock, the scan of the scheduler's own copy of the     *)
(* configuration under its lock, the SCHEDULE_START events it posts        *)
(* without waiting, and scheduler_update_config, in which the controller   *)
(* waits for that lock.  Controller takes the hand-over as one step; here  *)
(* its parts interleave with the scan.                                     *)
(*                                                                         *)
(* A configuration is the sequence of its schedule entries in the order    *)
(* the scan visits them, line by line.  The clock counts minutes, and      *)
(* minute_key is its value: it would repeat only after a year without a    *)
(* poll.  The task polls every second, so it has seen each minute and is   *)
(* asleep again when the clock moves to the next one by itself.            *)
(***************************************************************************)
EXTENDS Integers, Sequences

CONSTANTS
    Plans,          \* the configurations, as sequences of entries
    MinutesPerDay,  \* minutes of a day
    DaysPerWeek,    \* days of a week
    MaxClock,       \* bound: the clock stops here
    QueueSize       \* the length of the controller's queue

\* irrigation_schedule_entry_t and the line it belongs to.
Entry == [line : Nat, enabled : BOOLEAN, minute : 0 .. MinutesPerDay - 1,
          days : SUBSET (0 .. DaysPerWeek - 1), duration : Nat]

ASSUME SchedulerAssumption ==
    /\ MinutesPerDay \in Nat \ {0}
    /\ DaysPerWeek \in Nat \ {0}
    /\ MaxClock \in Nat
    /\ QueueSize \in Nat \ {0}
    /\ Plans \subseteq Seq(Entry)

VARIABLES
    clock,     \* time(NULL), in minutes
    valid,     \* time_is_valid(time(NULL))
    lastKey,   \* last_minute_key
    spc,       \* where scheduler_task is: "sleep", "lock" or "scan"
    index,     \* the entry the scan visits next
    plan,      \* s_scheduler.config
    lock,      \* who holds s_scheduler.lock: "free", "scheduler", "controller"
    cpc,       \* where controller_task is: "receive", "update" or "copy"
    live,      \* s_core.config
    saved,     \* history: the configuration last saved, or booted with
    queue,     \* s_controller_queue
    setBack,   \* history: the clock has been set back
    offered,   \* history: <<minute, index>> of the starts until then
    scanned    \* history: the indices offered by the scan at hand

clockVars == <<clock, valid, setBack>>
taskVars == <<lastKey, spc, index, offered, scanned>>
controllerVars == <<cpc, live, saved>>
schedulerVars == <<clockVars, taskVars, plan, lock, controllerVars, queue>>

Events ==
    [kind : {"SET"}, plan : Plans]
    \cup [kind : {"START"}, line : Nat, duration : Nat]
    \cup [kind : {"OTHER"}]

\* The entry is due in this minute.
Due(e, minute) ==
    /\ e.enabled
    /\ e.minute = minute % MinutesPerDay
    /\ (minute \div MinutesPerDay) % DaysPerWeek \in e.days

SchedulerInit ==
    /\ clock = 0
    /\ valid \in BOOLEAN
    /\ lastKey = -1
    /\ spc = "sleep"
    /\ index = 1
    /\ plan \in Plans
    /\ lock = "free"
    /\ cpc = "receive"
    /\ live = plan
    /\ saved = plan
    /\ queue = <<>>
    /\ setBack = FALSE
    /\ offered = {}
    /\ scanned = {}

-----------------------------------------------------------------------------
\* Mutant: every poll scans, not only the first one of a minute.
PollAlways ==
    /\ spc = "sleep"
    /\ valid
    /\ lastKey' = clock
    /\ spc' = "lock"
    /\ UNCHANGED <<clockVars, index, plan, lock, controllerVars, queue,
                   offered, scanned>>

\* The task wakes up and finds a minute it has not seen.
Poll ==
    /\ spc = "sleep"
    /\ valid
    /\ clock # lastKey
    /\ lastKey' = clock
    /\ spc' = "lock"
    /\ UNCHANGED <<clockVars, index, plan, lock, controllerVars, queue,
                   offered, scanned>>

\* Mutant: the scan does not take the lock.
BeginScanUnlocked ==
    /\ spc = "lock"
    /\ spc' = "scan"
    /\ index' = 1
    /\ scanned' = {}
    /\ UNCHANGED <<clockVars, lastKey, plan, lock, controllerVars, queue,
                   offered>>

\* xSemaphoreTake by the scheduler.
BeginScan ==
    /\ spc = "lock"
    /\ lock = "free"
    /\ lock' = "scheduler"
    /\ spc' = "scan"
    /\ index' = 1
    /\ scanned' = {}
    /\ UNCHANGED <<clockVars, lastKey, plan, controllerVars, queue, offered>>

Start(e) == [kind |-> "START", line |-> e.line, duration |-> e.duration]

\* Mutant: the send does not look whether there is room.
OfferUnchecked(e) == queue' = Append(queue, Start(e))

\* Mutant: the send waits for room.
OfferWaiting(e) ==
    /\ Len(queue) < QueueSize
    /\ queue' = Append(queue, Start(e))

\* xQueueSend with no time to wait: a full queue loses the start.
Offer(e) ==
    \/ Len(queue) < QueueSize /\ queue' = Append(queue, Start(e))
    \/ Len(queue) >= QueueSize /\ UNCHANGED queue

\* The scan visits an entry.
Visit ==
    /\ spc = "scan"
    /\ index <= Len(plan)
    /\ index' = index + 1
    /\ IF Due(plan[index], lastKey)
       THEN /\ Offer(plan[index])
            /\ offered' = offered \cup {x \in {<<lastKey, index>>} : ~setBack}
            /\ scanned' = scanned \cup {index}
       ELSE UNCHANGED <<queue, offered, scanned>>
    /\ UNCHANGED <<clockVars, lastKey, spc, plan, lock, controllerVars>>

\* xSemaphoreGive by the scheduler; it sleeps for a second.
EndScan ==
    /\ spc = "scan"
    /\ index > Len(plan)
    /\ lock' = "free"
    /\ spc' = "sleep"
    /\ UNCHANGED <<clockVars, lastKey, index, plan, controllerVars, queue,
                   offered, scanned>>

SchedulerStep == Poll \/ BeginScan \/ Visit \/ EndScan

\* save_live_config, for the live configuration p after an event: the
\* scheduler is to be told of what has been saved; when the save fails the
\* live configuration stays changed and the scheduler is not told.
Save(p) ==
    \/ saved' = p /\ cpc' = "update"
    \/ UNCHANGED <<saved, cpc>>

\* The controller takes an event off the queue.  A SET_* event changes the
\* live configuration and saves it.
Receive ==
    /\ cpc = "receive"
    /\ queue # <<>>
    /\ queue' = Tail(queue)
    /\ \/ /\ Head(queue).kind = "SET"
          /\ live' = Head(queue).plan
          /\ Save(Head(queue).plan)
       \/ /\ Head(queue).kind # "SET"
          /\ UNCHANGED controllerVars
    /\ UNCHANGED <<clockVars, taskVars, plan, lock>>

\* Mutant: the controller does not wait for the lock.
TakeLockOrGiveUp ==
    /\ cpc = "update"
    /\ IF lock = "free"
       THEN lock' = "controller" /\ cpc' = "copy"
       ELSE cpc' = "receive" /\ UNCHANGED lock
    /\ UNCHANGED <<clockVars, taskVars, plan, live, saved, queue>>

\* scheduler_update_config: xSemaphoreTake by the controller.
TakeLock ==
    /\ cpc = "update"
    /\ lock = "free"
    /\ lock' = "controller"
    /\ cpc' = "copy"
    /\ UNCHANGED <<clockVars, taskVars, plan, live, saved, queue>>

\* The configuration is copied and the lock given back.
Copy ==
    /\ cpc = "copy"
    /\ plan' = live
    /\ lock' = "free"
    /\ cpc' = "receive"
    /\ UNCHANGED <<clockVars, taskVars, live, saved, queue>>

ControllerStep == Receive \/ TakeLock \/ Copy

-----------------------------------------------------------------------------
\* Another command source posts an event.
Request ==
    /\ Len(queue) < QueueSize
    /\ \E e \in [kind : {"SET"}, plan : Plans] \cup [kind : {"OTHER"}] :
          queue' = Append(queue, e)
    /\ UNCHANGED <<clockVars, taskVars, plan, lock, controllerVars>>

\* The next minute begins.
Minute ==
    /\ clock < MaxClock
    /\ spc = "sleep"
    /\ valid => lastKey = clock
    /\ clock' = clock + 1
    /\ UNCHANGED <<valid, setBack, taskVars, plan, lock, controllerVars, queue>>

\* SNTP sets the clock: at any time, to the time it has or a later one.
Sync ==
    /\ valid' = TRUE
    /\ clock' \in clock .. MaxClock
    /\ UNCHANGED <<setBack, taskVars, plan, lock, controllerVars, queue>>

\* SNTP sets the clock back.  What was offered for these minutes may be
\* offered again, so the history ends here.
SyncBack ==
    /\ valid
    /\ clock' \in 0 .. clock - 1
    /\ setBack' = TRUE
    /\ offered' = {}
    /\ UNCHANGED <<valid, lastKey, spc, index, scanned, plan, lock,
                   controllerVars, queue>>

SchedulerNext ==
    \/ SchedulerStep \/ ControllerStep
    \/ Request \/ Minute \/ Sync \/ SyncBack

\* Both tasks are watched by the task watchdog and go on when they can.  A
\* mutex that is given back goes to the waiting task of highest priority,
\* which is the controller: it cannot find the lock taken for ever.
SchedulerSpec ==
    /\ SchedulerInit /\ [][SchedulerNext]_schedulerVars
    /\ WF_schedulerVars(SchedulerStep)
    /\ WF_schedulerVars(ControllerStep)
    /\ SF_schedulerVars(TakeLock)

-----------------------------------------------------------------------------
Keys == Nat \cup {-1}

\* Every variable of the scheduler has its type.
SchedulerTypeOK ==
    /\ clock \in Nat /\ valid \in BOOLEAN /\ setBack \in BOOLEAN
    /\ lastKey \in Keys
    /\ spc \in {"sleep", "lock", "scan"}
    /\ index \in Nat \ {0}
    /\ plan \in Plans /\ live \in Plans /\ saved \in Plans
    /\ lock \in {"free", "scheduler", "controller"}
    /\ cpc \in {"receive", "update", "copy"}
    /\ queue \in Seq(Events) /\ Len(queue) <= QueueSize
    /\ offered \subseteq (Keys \X (Nat \ {0}))
    /\ scanned \subseteq Nat \ {0}

\* A scan offers exactly the entries that are due in one configuration: none
\* is visited in an old version and its neighbour in a new one, although the
\* controller may want to replace the configuration at any point of the scan.
ScanSeesOnePlan ==
    spc = "scan" => scanned = {i \in 1 .. Len(plan) :
                                  i < index /\ Due(plan[i], lastKey)}

\* Between events the scheduler runs the configuration that was last saved: an
\* update that meets a scan waits for it and is not dropped, and a change that
\* could not be saved, although the controller goes by it, never gets there.
PlanFollowsSaved == cpc = "receive" => plan = saved

\* And what is being handed over is what has been saved.
PlanInv == PlanFollowsSaved /\ (cpc # "receive" => live = saved)

\* No entry is started twice for one minute unless the clock is set back,
\* however often the task polls in that minute and however late it gets the
\* lock.
OncePerMinute ==
    [][\A i \in 1 .. Len(plan) :
          i \in scanned' \ scanned => <<lastKey, i>> \notin offered]_schedulerVars

\* The lock tells where its holder is.
LockInv ==
    /\ spc = "scan" <=> lock = "scheduler"
    /\ cpc = "copy" <=> lock = "controller"

\* While the clock only goes forward, what has been offered belongs to earlier
\* minutes or to the entries the scan at hand has passed.
OfferedInv ==
    IF setBack THEN offered = {}
    ELSE /\ lastKey <= clock
         /\ \A x \in offered :
               \/ x[1] < lastKey
               \/ x[1] = lastKey /\ spc = "sleep"
               \/ x[1] = lastKey /\ spc = "scan" /\ x[2] < index

\* The inductive invariant of the scheduler.
SchedulerInv ==
    /\ SchedulerTypeOK
    /\ LockInv
    /\ ScanSeesOnePlan
    /\ PlanInv
    /\ OfferedInv

\* An update that waits for the lock gets through: the scan never waits for
\* the controller in its turn, however full the queue is.
UpdateIsTaken == cpc = "update" ~> cpc = "receive"
=============================================================================
