----------------------------- MODULE AlarmWorker -----------------------------
(***************************************************************************)
(* The alarms of the kernel (Sync.cpp: SetAlarm, CancelAlarm, the worker   *)
(* thread that fires them) and the part of the runtime's stop sequence     *)
(* that concerns them (Lifecycle.cpp, scheduler_shutdown).                 *)
(*                                                                         *)
(* Guest code runs in one slot, on a fiber or in the worker's callback.    *)
(* g_alarm_mutex is held between two steps only while the worker scans, so *)
(* a step of another thread that takes it waits until worker # "scan".     *)
(***************************************************************************)
EXTENDS Naturals, FiniteSets

CONSTANTS
    MaxAlarms,   \* bound: alarms set in a run, their identifiers 1..MaxAlarms
    MaxTime,     \* bound: the last tick of the clock
    MaxStarts,   \* bound: worker threads started
    Stoppers     \* who calls requestStop first: {"guest"} or {"host"}, or {}

ASSUME AlarmAssumption ==
    /\ MaxAlarms \in Nat /\ MaxTime \in Nat /\ MaxStarts \in Nat
    /\ Stoppers \subseteq {"guest", "host"}

Ids == 1..MaxAlarms

VARIABLES
    alarms,     \* the keys of g_alarms
    dueAt,      \* AlarmInfo::dueAt by identifier
    nextId,     \* g_nextAlarmId
    now,        \* steady_clock
    worker,     \* where alarmWorkerMain is
    deadline,   \* its copy of the earliest due time
    readyAlarm, \* the alarm it has taken, 0 for none
    slot,       \* who runs guest code: the fiber, the worker, nobody
    sys,        \* where the guest's SetAlarm is
    running,    \* g_alarm_worker_running
    joinable,   \* g_alarm_thread.joinable()
    stopFlag,   \* g_alarm_stop_flag
    starts,     \* worker threads started so far
    stopper,    \* where each caller of the stop sequence is
    outcome     \* what became of each alarm

clockVars  == <<now>>
alarmVars  == <<alarms, dueAt, nextId, outcome>>
workerVars == <<deadline, readyAlarm>>
threadVars == <<running, joinable, starts>>
vars == <<clockVars, alarmVars, worker, workerVars, slot, sys, threadVars, stopFlag, stopper>>

WorkerPlaces == {"none", "lock", "scan", "wait", "timed", "recheck", "token", "callback", "exited"}
StopPlaces == {"idle", "check", "flag", "notify", "join", "joined", "clear", "last",
               "check2", "flag2", "notify2", "join2", "joined2", "done"}

TypeOK ==
    /\ alarms \in SUBSET Ids
    /\ dueAt \in [Ids -> 0..MaxTime]
    /\ nextId \in 1..MaxAlarms + 1
    /\ now \in 0..MaxTime
    /\ worker \in WorkerPlaces
    /\ deadline \in 0..MaxTime
    /\ readyAlarm \in Ids \cup {0}
    /\ slot \in {"fiber", "worker", "free"}
    /\ sys \in {"idle", "insert", "ensure", "notify"}
    /\ running \in BOOLEAN /\ joinable \in BOOLEAN /\ stopFlag \in BOOLEAN
    /\ starts \in 0..MaxStarts
    /\ stopper \in [{"guest", "host"} -> StopPlaces]
    /\ outcome \in [Ids -> {"unset", "pending", "cancelled", "fired", "dropped"}]

-----------------------------------------------------------------------------
(* Shared steps *)

MutexFree == worker # "scan"

\* g_alarm_cv.notify_all()
notify_all == worker' = IF worker \in {"wait", "timed"} THEN "lock" ELSE worker

\* Guest code may enter a system call: on the fiber or in the callback, with no
\* other in progress.
GuestRuns ==
    /\ slot = "fiber" \/ worker = "callback"
    /\ sys = "idle" /\ stopper["guest"] \in {"idle", "done"}

-----------------------------------------------------------------------------
(* alarmWorkerMain *)

\* Lock, and read the stop flag.
WorkerLock ==
    /\ worker = "lock"
    /\ worker' = IF stopFlag THEN "exited" ELSE "scan"
    /\ UNCHANGED <<clockVars, alarmVars, workerVars, slot, sys, threadVars, stopFlag, stopper>>

WorkerWaitUntil(a) ==
    /\ dueAt[a] > now
    /\ deadline' = dueAt[a] /\ worker' = "timed"
    /\ UNCHANGED <<readyAlarm, alarms>>

\* Mutant of WorkerTake: the alarm is taken but stays in the table.
WorkerTakeKeeps(a) ==
    /\ dueAt[a] <= now
    /\ readyAlarm' = a /\ worker' = "recheck"
    /\ UNCHANGED <<deadline, alarms>>

WorkerTake(a) ==
    /\ dueAt[a] <= now
    /\ readyAlarm' = a /\ alarms' = alarms \ {a} /\ worker' = "recheck"
    /\ UNCHANGED deadline

\* Wait if there is no alarm, wait until the earliest is due, or take it.
WorkerScan ==
    /\ worker = "scan"
    /\ \/ alarms = {} /\ worker' = "wait" /\ UNCHANGED <<deadline, readyAlarm, alarms>>
       \/ \E a \in alarms :
             /\ \A b \in alarms : dueAt[a] <= dueAt[b]
             /\ WorkerWaitUntil(a) \/ WorkerTake(a)
    /\ UNCHANGED <<clockVars, dueAt, nextId, outcome, slot, sys, threadVars, stopFlag, stopper>>

\* wait_until returns at its deadline; either wait may return for no reason.
WorkerTimeout ==
    /\ worker = "timed" /\ now >= deadline
    /\ worker' = "lock"
    /\ UNCHANGED <<clockVars, alarmVars, workerVars, slot, sys, threadVars, stopFlag, stopper>>

WorkerSpurious ==
    /\ worker \in {"wait", "timed"}
    /\ worker' = "lock"
    /\ UNCHANGED <<clockVars, alarmVars, workerVars, slot, sys, threadVars, stopFlag, stopper>>

\* The stop flag again, outside the lock; a stopping worker drops the alarm.
WorkerRecheck ==
    /\ worker = "recheck"
    /\ \/ /\ stopFlag
          /\ worker' = "exited"
          /\ outcome' = [outcome EXCEPT ![readyAlarm] = "dropped"]
       \/ /\ ~stopFlag
          /\ worker' = "token"
          /\ UNCHANGED outcome
    /\ UNCHANGED <<clockVars, alarms, dueAt, nextId, workerVars, slot, sys, threadVars,
                   stopFlag, stopper>>

\* AsyncGuestScope: the callback runs once the worker has the guest token.
WorkerBegin ==
    /\ worker = "token" /\ slot = "free"
    /\ slot' = "worker" /\ worker' = "callback"
    /\ outcome' = [outcome EXCEPT ![readyAlarm] = "fired"]
    /\ UNCHANGED <<clockVars, alarms, dueAt, nextId, workerVars, sys, threadVars, stopFlag, stopper>>

\* The callback returns or throws; both release the token.
WorkerEnd ==
    /\ worker = "callback" /\ sys = "idle"
    /\ slot' = "free" /\ worker' = "lock"
    /\ readyAlarm' = 0
    /\ UNCHANGED <<clockVars, alarmVars, deadline, sys, threadVars, stopFlag, stopper>>

-----------------------------------------------------------------------------
(* SetAlarm, CancelAlarm *)

\* No alarm is due at once: zero ticks count as one.
alarmTicksToDuration(ticks) == IF ticks = 0 THEN 1 ELSE ticks

\* The due time is computed before the lock is taken ...
SetAlarm(ticks) ==
    /\ GuestRuns
    /\ nextId <= MaxAlarms /\ now + alarmTicksToDuration(ticks) <= MaxTime
    /\ dueAt' = [dueAt EXCEPT ![nextId] = now + alarmTicksToDuration(ticks)]
    /\ sys' = "insert"
    /\ UNCHANGED <<clockVars, alarms, nextId, outcome, worker, workerVars, slot, threadVars,
                   stopFlag, stopper>>

\* ... and the alarm inserted under it.
SetAlarmInsert ==
    /\ sys = "insert" /\ MutexFree
    /\ alarms' = alarms \cup {nextId}
    /\ outcome' = [outcome EXCEPT ![nextId] = "pending"]
    /\ nextId' = nextId + 1
    /\ sys' = "ensure"
    /\ UNCHANGED <<clockVars, dueAt, worker, workerVars, slot, threadVars, stopFlag, stopper>>

ensureAlarmWorkerRunning ==
    /\ sys = "ensure" /\ MutexFree
    /\ \/ running /\ UNCHANGED <<worker, threadVars, stopFlag>>
       \/ /\ ~running /\ starts < MaxStarts
          /\ stopFlag' = FALSE
          /\ worker' = "lock" /\ joinable' = TRUE /\ running' = TRUE
          /\ starts' = starts + 1
    /\ sys' = "notify"
    /\ UNCHANGED <<clockVars, alarmVars, workerVars, slot, stopper>>

\* Mutant of SetAlarmNotify: the worker is not told of the new alarm.
SetAlarmNotifyNobody ==
    /\ sys = "notify"
    /\ sys' = "idle"
    /\ UNCHANGED <<clockVars, alarmVars, worker, workerVars, slot, threadVars, stopFlag, stopper>>

SetAlarmNotify ==
    /\ sys = "notify"
    /\ notify_all
    /\ sys' = "idle"
    /\ UNCHANGED <<clockVars, alarmVars, workerVars, slot, threadVars, stopFlag, stopper>>

\* CancelAlarm returning KE_OK: the alarm was in the table.
CancelAlarm(a) ==
    /\ GuestRuns /\ MutexFree
    /\ a \in alarms
    /\ alarms' = alarms \ {a}
    /\ outcome' = [outcome EXCEPT ![a] = "cancelled"]
    /\ notify_all
    /\ UNCHANGED <<clockVars, dueAt, nextId, workerVars, slot, sys, threadVars, stopFlag, stopper>>

-----------------------------------------------------------------------------
(* The guest slot, as far as the worker depends on it (Scheduler.tla) *)

FiberResumes ==
    /\ slot = "free" /\ slot' = "fiber"
    /\ UNCHANGED <<clockVars, alarmVars, worker, workerVars, sys, threadVars, stopFlag, stopper>>

FiberYields ==
    /\ slot = "fiber" /\ sys = "idle" /\ stopper["guest"] \in {"idle", "done"}
    /\ slot' = "free"
    /\ UNCHANGED <<clockVars, alarmVars, worker, workerVars, sys, threadVars, stopFlag, stopper>>

-----------------------------------------------------------------------------
(* notifyRuntimeStop from a fiber (signalAlarmWorkerStop, no join) or from  *)
(* the main thread (stopAlarmWorker, which joins); then, on the main thread,*)
(* scheduler_shutdown's own stopAlarmWorker.                                *)

Move(c, place) == stopper' = [stopper EXCEPT ![c] = place]

\* requestStop is called.  The main thread calls it too once it sees the flag a
\* fiber's call has set.
RequestStop(c) ==
    /\ c \in Stoppers \/ (c = "host" /\ stopper["guest"] # "idle")
    /\ stopper[c] = "idle"
    /\ c = "guest" => slot = "fiber" /\ sys = "idle"
    /\ Move(c, "check")
    /\ UNCHANGED <<clockVars, alarmVars, worker, workerVars, slot, sys, threadVars, stopFlag>>

\* The running check, under the lock.
StopCheck(c) ==
    /\ stopper[c] \in {"check", "check2"} /\ MutexFree
    /\ Move(c, CASE stopper[c] = "check" /\ running  -> "flag"
                 [] stopper[c] = "check" /\ ~running -> "clear"
                 [] stopper[c] = "check2" /\ running -> "flag2"
                 [] OTHER                            -> "done")
    /\ UNCHANGED <<clockVars, alarmVars, worker, workerVars, slot, sys, threadVars, stopFlag>>

\* The flag, outside the lock.
StopFlag(c) ==
    /\ stopper[c] \in {"flag", "flag2"}
    /\ stopFlag' = TRUE
    /\ Move(c, IF stopper[c] = "flag" THEN "notify" ELSE "notify2")
    /\ UNCHANGED <<clockVars, alarmVars, worker, workerVars, slot, sys, threadVars>>

\* Mutant of StopNotify: without a join, the worker counts as stopped at once.
StopNotifyForgets(c) ==
    /\ stopper[c] \in {"notify", "notify2"}
    /\ notify_all
    /\ Move(c, IF stopper[c] = "notify2" THEN "join2" ELSE IF c = "host" THEN "join" ELSE "clear")
    /\ running' = (running /\ c = "host")
    /\ UNCHANGED <<clockVars, alarmVars, workerVars, slot, sys, joinable, starts, stopFlag>>

\* The notification, outside the lock; a fiber does not join.
StopNotify(c) ==
    /\ stopper[c] \in {"notify", "notify2"}
    /\ notify_all
    /\ Move(c, IF stopper[c] = "notify2" THEN "join2" ELSE IF c = "host" THEN "join" ELSE "clear")
    /\ UNCHANGED <<clockVars, alarmVars, workerVars, slot, sys, threadVars, stopFlag>>

\* g_alarm_thread.join() returns.
StopJoin(c) ==
    /\ stopper[c] \in {"join", "join2"}
    /\ worker = "exited"
    /\ joinable' = FALSE
    /\ Move(c, IF stopper[c] = "join" THEN "joined" ELSE "joined2")
    /\ UNCHANGED <<clockVars, alarmVars, worker, workerVars, slot, sys, running, starts, stopFlag>>

StopJoined(c) ==
    /\ stopper[c] \in {"joined", "joined2"} /\ MutexFree
    /\ running' = FALSE
    /\ Move(c, IF stopper[c] = "joined" THEN "clear" ELSE "done")
    /\ UNCHANGED <<clockVars, alarmVars, worker, workerVars, slot, sys, joinable, starts, stopFlag>>

\* g_alarms.clear()
StopClear(c) ==
    /\ stopper[c] = "clear" /\ MutexFree
    /\ alarms' = {}
    /\ outcome' = [a \in Ids |-> IF a \in alarms THEN "dropped" ELSE outcome[a]]
    /\ Move(c, "last")
    /\ UNCHANGED <<clockVars, dueAt, nextId, worker, workerVars, slot, sys, threadVars, stopFlag>>

\* Mutant of StopLast: the notification after the clear is dropped.
StopLastSilent(c) ==
    /\ stopper[c] = "last"
    /\ Move(c, IF c = "host" THEN "check2" ELSE "done")
    /\ UNCHANGED <<clockVars, alarmVars, worker, workerVars, slot, sys, threadVars, stopFlag>>

\* The last notification; the main thread goes on to scheduler_shutdown.
StopLast(c) ==
    /\ stopper[c] = "last"
    /\ notify_all
    /\ Move(c, IF c = "host" THEN "check2" ELSE "done")
    /\ UNCHANGED <<clockVars, alarmVars, workerVars, slot, sys, threadVars, stopFlag>>

-----------------------------------------------------------------------------
Tick ==
    /\ now < MaxTime
    /\ now' = now + 1
    /\ UNCHANGED <<alarmVars, worker, workerVars, slot, sys, threadVars, stopFlag, stopper>>

Init ==
    /\ alarms = {} /\ dueAt = [a \in Ids |-> 0] /\ nextId = 1 /\ now = 0
    /\ worker = "none" /\ deadline = 0 /\ readyAlarm = 0
    /\ slot = "free" /\ sys = "idle"
    /\ running = FALSE /\ joinable = FALSE /\ stopFlag = FALSE /\ starts = 0
    /\ stopper = [c \in {"guest", "host"} |-> "idle"]
    /\ outcome = [a \in Ids |-> "unset"]

Worker == WorkerLock \/ WorkerScan \/ WorkerTimeout \/ WorkerRecheck \/ WorkerEnd

Stop(c) ==
    \/ StopCheck(c) \/ StopFlag(c) \/ StopNotify(c) \/ StopJoin(c) \/ StopJoined(c)
    \/ StopClear(c) \/ StopLast(c)

Next ==
    \/ Worker \/ WorkerSpurious \/ WorkerBegin
    \/ \E ticks \in 0..MaxTime : SetAlarm(ticks)
    \/ SetAlarmInsert \/ ensureAlarmWorkerRunning \/ SetAlarmNotify
    \/ \E a \in Ids : CancelAlarm(a)
    \/ FiberResumes \/ FiberYields \/ Tick
    \/ \E c \in {"guest", "host"} : RequestStop(c) \/ Stop(c)

Spec == Init /\ [][Next]_vars

\* Every thread runs and none is starved of g_alarm_mutex; a system call that has
\* begun goes on; the scheduler serves a parked worker (Scheduler.tla,
\* WorkerServed); callbacks return; time passes.
Fairness ==
    /\ WF_vars(Worker) /\ SF_vars(WorkerBegin)
    /\ SF_vars(SetAlarmInsert) /\ SF_vars(ensureAlarmWorkerRunning) /\ WF_vars(SetAlarmNotify)
    /\ WF_vars(FiberYields) /\ WF_vars(Tick)
    /\ \A c \in {"guest", "host"} : SF_vars(Stop(c))

FairSpec == Spec /\ Fairness

-----------------------------------------------------------------------------
(* Properties *)

\* An alarm that CancelAlarm removed (KE_OK) never fires, although the worker
\* drops the lock between taking an alarm and running it (alarmWorkerMain,
\* CancelAlarm).
CancelledNeverFires == [][\A a \in Ids : outcome[a] = "cancelled" => outcome'[a] = "cancelled"]_vars

\* ensureAlarmWorkerRunning never assigns to a thread that was not joined, which
\* would end the process (signalAlarmWorkerStop, stopAlarmWorker).
NoThreadOverwritten == ~running => ~joinable

\* Every alarm fires or is cancelled, unless the runtime is stopped (SetAlarm's
\* notification, the worker's waits).
AlarmSettled ==
    \A a \in Ids : outcome[a] = "pending" ~>
        outcome[a] # "pending" \/ \E c \in DOMAIN stopper : stopper[c] # "idle"

\* Such a stop also reaches the worker: its flag is set and notified outside the
\* lock, and the notification after the clear makes up for one that came between
\* the worker's test and its wait (notifyRuntimeStop, alarmWorkerMain).
GuestStopReachesWorker == stopper["guest"] = "flag" ~> worker = "exited"

-----------------------------------------------------------------------------
(* What comments say and the code does not keep *)

\* stopAlarmWorker waits for the worker to exit, and it does.
HostStopCompletes == stopper["host"] = "check" ~> stopper["host"] = "done"
=============================================================================
