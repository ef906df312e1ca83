----------------------------- MODULE AlarmProofs -----------------------------
(***************************************************************************)
(* The alarm worker's safety properties, for any number of alarms, clock   *)
(* ticks and worker threads, whoever stops the runtime.                    *)
(***************************************************************************)
EXTENDS AlarmWorker, TLAPS

-----------------------------------------------------------------------------
(* The inductive invariant *)

\* Where the main thread holds the worker thread between the test of
\* g_alarm_worker_running and its reset.
Joining == {"flag", "notify", "join", "joined", "flag2", "notify2", "join2", "joined2"}

\* A fiber's stop signals the worker and never joins it.
GuestPlaces == {"idle", "check", "flag", "notify", "clear", "last", "done"}

\* The thread object: only the main thread resets the running flag, and between
\* its join and the reset the worker has exited and nobody may start another.
ThreadInv ==
    /\ stopper["guest"] \in GuestPlaces
    /\ stopper["host"] \in Joining => running
    /\ stopper["host"] \in {"joined", "joined2"} => ~joinable /\ worker = "exited"
    /\ ~running => ~joinable /\ worker \in {"none", "exited"}

\* The table: identifiers are handed out in order, an alarm in the table is
\* pending, and so is the one the worker took out and has not yet fired.
TableInv ==
    /\ \A a \in alarms : outcome[a] = "pending"
    /\ \A a \in Ids : a >= nextId => outcome[a] = "unset"
    /\ sys = "insert" => nextId \in Ids
    /\ worker \in {"recheck", "token"} =>
          /\ readyAlarm \in Ids \ alarms
          /\ outcome[readyAlarm] = "pending"

AlarmInv == TypeOK /\ ThreadInv /\ TableInv

\* The sets of places, expanded once.
LEMMA Places ==
    /\ WorkerPlaces = {"none", "lock", "scan", "wait", "timed", "recheck", "token",
                       "callback", "exited"}
    /\ StopPlaces = {"idle", "check", "flag", "notify", "join", "joined", "clear", "last",
                     "check2", "flag2", "notify2", "join2", "joined2", "done"}
  BY DEF WorkerPlaces, StopPlaces

\* The bounds are natural numbers, and identifiers start at 1.
LEMMA Bounds == MaxAlarms \in Nat /\ MaxTime \in Nat /\ MaxStarts \in Nat /\ 0 \notin Ids
<1>1. MaxAlarms \in Nat /\ MaxTime \in Nat /\ MaxStarts \in Nat
  BY AlarmAssumption
<1>2. 0 \notin 1..MaxAlarms
  BY <1>1
<1>. QED  BY <1>1, <1>2 DEF Ids

\* No worker, no alarm and no stop: the initial state satisfies the invariant.
LEMMA InitKeeps == Init => AlarmInv
<1>. SUFFICES ASSUME Init PROVE AlarmInv
  OBVIOUS
<1>1. /\ alarms \in SUBSET Ids /\ dueAt \in [Ids -> 0..MaxTime] /\ nextId \in 1..MaxAlarms + 1
      /\ now \in 0..MaxTime /\ deadline \in 0..MaxTime /\ readyAlarm \in Ids \cup {0}
      /\ starts \in 0..MaxStarts
  BY Bounds DEF Init
<1>2. TypeOK
  BY <1>1, Places, Zenon DEF Init, TypeOK
<1>3. ThreadInv
  BY DEF Init, ThreadInv, Joining, GuestPlaces
<1>4. TableInv
  BY DEF Init, TableInv
<1>. QED  BY <1>2, <1>3, <1>4 DEF AlarmInv

\* The groups of variables that UNCHANGED names.
USE DEF clockVars, alarmVars, workerVars, threadVars

-----------------------------------------------------------------------------
(* The worker *)

\* The worker takes g_alarm_mutex.
LEMMA WorkerLockKeeps == ASSUME AlarmInv, WorkerLock PROVE AlarmInv'
<1>1. TypeOK'
  BY Bounds, Places DEF AlarmInv, TypeOK, TableInv, WorkerLock
<1>2. ThreadInv'
  BY DEF AlarmInv, ThreadInv, WorkerLock
<1>3. TableInv'
  BY Bounds DEF AlarmInv, TypeOK, TableInv, WorkerLock
<1>. QED  BY <1>1, <1>2, <1>3 DEF AlarmInv

\* The worker looks for the earliest alarm, and exits, waits or takes it.
LEMMA WorkerScanKeeps == ASSUME AlarmInv, WorkerScan PROVE AlarmInv'
<1>1. TypeOK'
  BY Bounds, Places DEF AlarmInv, TypeOK, TableInv, WorkerScan, WorkerWaitUntil, WorkerTake
<1>2. ThreadInv'
  BY DEF AlarmInv, ThreadInv, WorkerScan, WorkerWaitUntil, WorkerTake
<1>3. TableInv'
  BY Bounds DEF AlarmInv, TypeOK, TableInv, WorkerScan, WorkerWaitUntil, WorkerTake
<1>. QED  BY <1>1, <1>2, <1>3 DEF AlarmInv

\* wait_until reaches the deadline.
LEMMA WorkerTimeoutKeeps == ASSUME AlarmInv, WorkerTimeout PROVE AlarmInv'
<1>1. TypeOK'
  BY Bounds, Places DEF AlarmInv, TypeOK, TableInv, WorkerTimeout
<1>2. ThreadInv'
  BY DEF AlarmInv, ThreadInv, WorkerTimeout
<1>3. TableInv'
  BY Bounds DEF AlarmInv, TypeOK, TableInv, WorkerTimeout
<1>. QED  BY <1>1, <1>2, <1>3 DEF AlarmInv

\* A wait returns although nobody notified.
LEMMA WorkerSpuriousKeeps == ASSUME AlarmInv, WorkerSpurious PROVE AlarmInv'
<1>1. TypeOK'
  BY Bounds, Places DEF AlarmInv, TypeOK, TableInv, WorkerSpurious
<1>2. ThreadInv'
  BY DEF AlarmInv, ThreadInv, WorkerSpurious
<1>3. TableInv'
  BY Bounds DEF AlarmInv, TypeOK, TableInv, WorkerSpurious
<1>. QED  BY <1>1, <1>2, <1>3 DEF AlarmInv

\* The worker wakes from its timed wait with the mutex.
LEMMA WorkerRecheckKeeps == ASSUME AlarmInv, WorkerRecheck PROVE AlarmInv'
<1>1. TypeOK'
  BY Bounds, Places DEF AlarmInv, TypeOK, TableInv, WorkerRecheck
<1>2. ThreadInv'
  BY DEF AlarmInv, ThreadInv, WorkerRecheck
<1>3. TableInv'
  BY Bounds DEF AlarmInv, TypeOK, TableInv, WorkerRecheck
<1>. QED  BY <1>1, <1>2, <1>3 DEF AlarmInv

\* The worker gets the guest token for the callback.
LEMMA WorkerBeginKeeps == ASSUME AlarmInv, WorkerBegin PROVE AlarmInv'
<1>1. TypeOK'
  BY Bounds, Places DEF AlarmInv, TypeOK, TableInv, WorkerBegin
<1>2. ThreadInv'
  BY DEF AlarmInv, ThreadInv, WorkerBegin
<1>3. TableInv'
  BY Bounds DEF AlarmInv, TypeOK, TableInv, WorkerBegin
<1>. QED  BY <1>1, <1>2, <1>3 DEF AlarmInv

\* The callback ends and the token is given back.
LEMMA WorkerEndKeeps == ASSUME AlarmInv, WorkerEnd PROVE AlarmInv'
<1>1. TypeOK'
  BY Bounds, Places DEF AlarmInv, TypeOK, TableInv, WorkerEnd
<1>2. ThreadInv'
  BY DEF AlarmInv, ThreadInv, WorkerEnd
<1>3. TableInv'
  BY Bounds DEF AlarmInv, TypeOK, TableInv, WorkerEnd
<1>. QED  BY <1>1, <1>2, <1>3 DEF AlarmInv

-----------------------------------------------------------------------------
(* The guest's calls and its slot *)

\* SetAlarm chooses an identifier and the due time.
LEMMA SetAlarmKeeps == ASSUME AlarmInv, NEW ticks \in 0..MaxTime, SetAlarm(ticks) PROVE AlarmInv'
<1>1. TypeOK'
  BY Bounds, Places DEF AlarmInv, TypeOK, TableInv, SetAlarm, alarmTicksToDuration, Ids
<1>2. ThreadInv'
  BY DEF AlarmInv, TypeOK, ThreadInv, SetAlarm, alarmTicksToDuration, Ids
<1>3. TableInv'
  BY Bounds DEF AlarmInv, TypeOK, TableInv, SetAlarm, alarmTicksToDuration, Ids
<1>. QED  BY <1>1, <1>2, <1>3 DEF AlarmInv

\* SetAlarm puts the alarm in the table.
LEMMA SetAlarmInsertKeeps == ASSUME AlarmInv, SetAlarmInsert PROVE AlarmInv'
<1>1. TypeOK'
  BY Bounds, Places DEF AlarmInv, TypeOK, TableInv, SetAlarmInsert, MutexFree, Ids
<1>2. ThreadInv'
  BY DEF AlarmInv, TypeOK, ThreadInv, SetAlarmInsert, MutexFree, Ids
<1>3. TableInv'
  BY Bounds DEF AlarmInv, TypeOK, TableInv, SetAlarmInsert, MutexFree, Ids
<1>. QED  BY <1>1, <1>2, <1>3 DEF AlarmInv

\* The first alarm, or one after a stop, starts the worker.
LEMMA ensureAlarmWorkerRunningKeeps == ASSUME AlarmInv, ensureAlarmWorkerRunning PROVE AlarmInv'
<1>1. TypeOK'
  <2>1. CASE running /\ UNCHANGED <<worker, threadVars, stopFlag>>
    BY <2>1 DEF AlarmInv, TypeOK, ensureAlarmWorkerRunning
  <2>2. CASE ~running
    <3>1. starts' \in 0..MaxStarts
      BY <2>2, Bounds DEF AlarmInv, TypeOK, ensureAlarmWorkerRunning
    <3>2. /\ worker' = "lock" /\ joinable' = TRUE /\ running' = TRUE /\ stopFlag' = FALSE
          /\ sys' = "notify"
      BY <2>2 DEF ensureAlarmWorkerRunning
    <3>. QED  BY <3>1, <3>2, Places DEF AlarmInv, TypeOK, ensureAlarmWorkerRunning
  <2>. QED  BY <2>1, <2>2 DEF ensureAlarmWorkerRunning
<1>2. ThreadInv'
  BY DEF AlarmInv, TypeOK, ThreadInv, ensureAlarmWorkerRunning, MutexFree, Joining
<1>3. TableInv'
  BY Bounds DEF AlarmInv, TypeOK, TableInv, ensureAlarmWorkerRunning, MutexFree, Joining
<1>. QED  BY <1>1, <1>2, <1>3 DEF AlarmInv

\* SetAlarm notifies the worker.
LEMMA SetAlarmNotifyKeeps == ASSUME AlarmInv, SetAlarmNotify PROVE AlarmInv'
<1>1. TypeOK'
  BY Bounds, Places DEF AlarmInv, TypeOK, TableInv, SetAlarmNotify, notify_all
<1>2. ThreadInv'
  BY DEF AlarmInv, TypeOK, ThreadInv, SetAlarmNotify, notify_all
<1>3. TableInv'
  BY Bounds DEF AlarmInv, TypeOK, TableInv, SetAlarmNotify, notify_all
<1>. QED  BY <1>1, <1>2, <1>3 DEF AlarmInv

\* CancelAlarm takes an alarm out of the table.
LEMMA CancelAlarmKeeps == ASSUME AlarmInv, NEW a \in Ids, CancelAlarm(a) PROVE AlarmInv'
<1>1. TypeOK'
  BY Bounds, Places DEF AlarmInv, TypeOK, TableInv, CancelAlarm, notify_all, MutexFree
<1>2. ThreadInv'
  BY DEF AlarmInv, TypeOK, ThreadInv, CancelAlarm, notify_all, MutexFree
<1>3. TableInv'
  BY Bounds DEF AlarmInv, TypeOK, TableInv, CancelAlarm, notify_all, MutexFree
<1>. QED  BY <1>1, <1>2, <1>3 DEF AlarmInv

\* The fiber gets the slot back.
LEMMA FiberResumesKeeps == ASSUME AlarmInv, FiberResumes PROVE AlarmInv'
<1>1. TypeOK'
  BY Bounds, Places DEF AlarmInv, TypeOK, TableInv, FiberResumes
<1>2. ThreadInv'
  BY DEF AlarmInv, TypeOK, ThreadInv, FiberResumes
<1>3. TableInv'
  BY Bounds DEF AlarmInv, TypeOK, TableInv, FiberResumes
<1>. QED  BY <1>1, <1>2, <1>3 DEF AlarmInv

\* The fiber gives the slot away.
LEMMA FiberYieldsKeeps == ASSUME AlarmInv, FiberYields PROVE AlarmInv'
<1>1. TypeOK'
  BY Bounds, Places DEF AlarmInv, TypeOK, TableInv, FiberYields
<1>2. ThreadInv'
  BY DEF AlarmInv, TypeOK, ThreadInv, FiberYields
<1>3. TableInv'
  BY Bounds DEF AlarmInv, TypeOK, TableInv, FiberYields
<1>. QED  BY <1>1, <1>2, <1>3 DEF AlarmInv

\* The clock advances.
LEMMA TickKeeps == ASSUME AlarmInv, Tick PROVE AlarmInv'
<1>1. TypeOK'
  BY Bounds, Places DEF AlarmInv, TypeOK, TableInv, Tick
<1>2. ThreadInv'
  BY DEF AlarmInv, TypeOK, ThreadInv, Tick
<1>3. TableInv'
  BY Bounds DEF AlarmInv, TypeOK, TableInv, Tick
<1>. QED  BY <1>1, <1>2, <1>3 DEF AlarmInv

-----------------------------------------------------------------------------
(* The stop sequence *)

\* A stop is requested, by a fiber or by the main thread.
LEMMA RequestStopKeeps ==
    ASSUME AlarmInv, NEW c \in {"guest", "host"}, RequestStop(c)
    PROVE  AlarmInv'
<1>1. TypeOK'
  BY Bounds, Places DEF AlarmInv, TypeOK, TableInv, RequestStop, Move, Joining, GuestPlaces
<1>2. ThreadInv'
  BY DEF AlarmInv, TypeOK, ThreadInv, RequestStop, Move, Joining, GuestPlaces
<1>3. TableInv'
  BY Bounds DEF AlarmInv, TypeOK, TableInv, RequestStop, Move, Joining, GuestPlaces
<1>. QED  BY <1>1, <1>2, <1>3 DEF AlarmInv

\* The stop reads g_alarm_worker_running.
LEMMA StopCheckKeeps == ASSUME AlarmInv, NEW c \in {"guest", "host"}, StopCheck(c) PROVE AlarmInv'
<1>1. TypeOK'
  BY Bounds, Places DEF AlarmInv, TypeOK, TableInv, StopCheck, MutexFree, Move, Joining,
     GuestPlaces
<1>2. ThreadInv'
  BY DEF AlarmInv, TypeOK, ThreadInv, StopCheck, MutexFree, Move, Joining, GuestPlaces
<1>3. TableInv'
  BY Bounds DEF AlarmInv, TypeOK, TableInv, StopCheck, MutexFree, Move, Joining, GuestPlaces
<1>. QED  BY <1>1, <1>2, <1>3 DEF AlarmInv

\* The stop raises the flag the worker reads.
LEMMA StopFlagKeeps == ASSUME AlarmInv, NEW c \in {"guest", "host"}, StopFlag(c) PROVE AlarmInv'
<1>1. TypeOK'
  BY Bounds, Places DEF AlarmInv, TypeOK, TableInv, StopFlag, Move, Joining, GuestPlaces
<1>2. ThreadInv'
  BY DEF AlarmInv, TypeOK, ThreadInv, StopFlag, Move, Joining, GuestPlaces
<1>3. TableInv'
  BY Bounds DEF AlarmInv, TypeOK, TableInv, StopFlag, Move, Joining, GuestPlaces
<1>. QED  BY <1>1, <1>2, <1>3 DEF AlarmInv

\* The stop wakes the worker.
LEMMA StopNotifyKeeps ==
    ASSUME AlarmInv, NEW c \in {"guest", "host"}, StopNotify(c)
    PROVE  AlarmInv'
<1>1. TypeOK'
  BY Bounds, Places DEF AlarmInv, TypeOK, TableInv, StopNotify, notify_all, Move, Joining,
     GuestPlaces
<1>2. ThreadInv'
  BY DEF AlarmInv, TypeOK, ThreadInv, StopNotify, notify_all, Move, Joining, GuestPlaces
<1>3. TableInv'
  BY Bounds DEF AlarmInv, TypeOK, TableInv, StopNotify, notify_all, Move, Joining, GuestPlaces
<1>. QED  BY <1>1, <1>2, <1>3 DEF AlarmInv

\* The stop finds out whether it may join.
LEMMA StopJoinKeeps == ASSUME AlarmInv, NEW c \in {"guest", "host"}, StopJoin(c) PROVE AlarmInv'
<1>1. TypeOK'
  BY Bounds, Places DEF AlarmInv, TypeOK, TableInv, StopJoin, Move, Joining, GuestPlaces
<1>2. ThreadInv'
  BY DEF AlarmInv, TypeOK, ThreadInv, StopJoin, Move, Joining, GuestPlaces
<1>3. TableInv'
  BY Bounds DEF AlarmInv, TypeOK, TableInv, StopJoin, Move, Joining, GuestPlaces
<1>. QED  BY <1>1, <1>2, <1>3 DEF AlarmInv

\* The join returns.
LEMMA StopJoinedKeeps ==
    ASSUME AlarmInv, NEW c \in {"guest", "host"}, StopJoined(c)
    PROVE  AlarmInv'
<1>1. TypeOK'
  BY Bounds, Places DEF AlarmInv, TypeOK, TableInv, StopJoined, MutexFree, Move, Joining,
     GuestPlaces
<1>2. ThreadInv'
  BY DEF AlarmInv, TypeOK, ThreadInv, StopJoined, MutexFree, Move, Joining, GuestPlaces
<1>3. TableInv'
  BY Bounds DEF AlarmInv, TypeOK, TableInv, StopJoined, MutexFree, Move, Joining, GuestPlaces
<1>. QED  BY <1>1, <1>2, <1>3 DEF AlarmInv

\* After the join the running flag is reset.
LEMMA StopClearKeeps == ASSUME AlarmInv, NEW c \in {"guest", "host"}, StopClear(c) PROVE AlarmInv'
<1>1. TypeOK'
  BY Bounds, Places DEF AlarmInv, TypeOK, TableInv, StopClear, MutexFree, Move, Joining,
     GuestPlaces
<1>2. ThreadInv'
  BY DEF AlarmInv, TypeOK, ThreadInv, StopClear, MutexFree, Move, Joining, GuestPlaces
<1>3. TableInv'
  BY Bounds DEF AlarmInv, TypeOK, TableInv, StopClear, MutexFree, Move, Joining, GuestPlaces
<1>. QED  BY <1>1, <1>2, <1>3 DEF AlarmInv

\* The end of a stop.
LEMMA StopLastKeeps == ASSUME AlarmInv, NEW c \in {"guest", "host"}, StopLast(c) PROVE AlarmInv'
<1>1. TypeOK'
  BY Bounds, Places DEF AlarmInv, TypeOK, TableInv, StopLast, notify_all, Move, Joining,
     GuestPlaces
<1>2. ThreadInv'
  BY DEF AlarmInv, TypeOK, ThreadInv, StopLast, notify_all, Move, Joining, GuestPlaces
<1>3. TableInv'
  BY Bounds DEF AlarmInv, TypeOK, TableInv, StopLast, notify_all, Move, Joining, GuestPlaces
<1>. QED  BY <1>1, <1>2, <1>3 DEF AlarmInv

-----------------------------------------------------------------------------
(* The next-state relation, and the theorems *)

\* Every step of a stop.
LEMMA StopKeeps == ASSUME AlarmInv, NEW c \in {"guest", "host"}, Stop(c) PROVE AlarmInv'
  BY StopCheckKeeps, StopFlagKeeps, StopNotifyKeeps, StopJoinKeeps, StopJoinedKeeps,
     StopClearKeeps, StopLastKeeps DEF Stop

\* A step that changes nothing.
LEMMA StutterKeeps == ASSUME AlarmInv, UNCHANGED vars PROVE AlarmInv'
  BY DEF AlarmInv, TypeOK, ThreadInv, TableInv, vars

\* Every step keeps the invariant.
LEMMA NextKeeps == AlarmInv /\ [Next]_vars => AlarmInv'
<1>. SUFFICES ASSUME AlarmInv, [Next]_vars PROVE AlarmInv'
  OBVIOUS
<1>1. CASE Worker \/ WorkerSpurious \/ WorkerBegin
  BY <1>1, WorkerLockKeeps, WorkerScanKeeps, WorkerTimeoutKeeps, WorkerRecheckKeeps,
     WorkerEndKeeps, WorkerSpuriousKeeps, WorkerBeginKeeps DEF Worker
<1>2. CASE \E ticks \in 0..MaxTime : SetAlarm(ticks)
  BY <1>2, SetAlarmKeeps
<1>3. CASE SetAlarmInsert \/ ensureAlarmWorkerRunning \/ SetAlarmNotify
  BY <1>3, SetAlarmInsertKeeps, ensureAlarmWorkerRunningKeeps, SetAlarmNotifyKeeps
<1>4. CASE \E a \in Ids : CancelAlarm(a)
  BY <1>4, CancelAlarmKeeps
<1>5. CASE FiberResumes \/ FiberYields \/ Tick
  BY <1>5, FiberResumesKeeps, FiberYieldsKeeps, TickKeeps
<1>6. CASE \E c \in {"guest", "host"} : RequestStop(c) \/ Stop(c)
  BY <1>6, RequestStopKeeps, StopKeeps
<1>7. CASE UNCHANGED vars
  BY <1>7, StutterKeeps
<1>. QED  BY <1>1, <1>2, <1>3, <1>4, <1>5, <1>6, <1>7 DEF Next

\* An alarm that was cancelled has left the table and is not the one the worker
\* took, and its identifier is not handed out again.
LEMMA CancelledStays ==
    ASSUME AlarmInv, [Next]_vars, NEW a \in Ids, outcome[a] = "cancelled"
    PROVE  outcome'[a] = "cancelled"
<1>1. CASE WorkerRecheck
  BY <1>1 DEF AlarmInv, TypeOK, TableInv, WorkerRecheck
<1>2. CASE WorkerBegin
  BY <1>2 DEF AlarmInv, TypeOK, TableInv, WorkerBegin
<1>3. CASE SetAlarmInsert
  <2>1. a # nextId
    BY <1>3 DEF AlarmInv, TypeOK, TableInv, SetAlarmInsert, Ids
  <2>. QED  BY <1>3, <2>1 DEF AlarmInv, TypeOK, SetAlarmInsert
<1>4. CASE \E b \in Ids : CancelAlarm(b)
  BY <1>4 DEF AlarmInv, TypeOK, CancelAlarm
<1>5. CASE \E c \in {"guest", "host"} : StopClear(c)
  BY <1>5 DEF AlarmInv, TypeOK, TableInv, StopClear
<1>6. CASE UNCHANGED outcome
  BY <1>6
<1>. QED
  <2>1. \/ WorkerRecheck \/ WorkerBegin \/ SetAlarmInsert
        \/ (\E b \in Ids : CancelAlarm(b))
        \/ (\E c \in {"guest", "host"} : StopClear(c))
        \/ UNCHANGED outcome
    BY DEF Next, Worker, Stop, WorkerLock, WorkerScan, WorkerTimeout, WorkerEnd, WorkerSpurious,
           SetAlarm, ensureAlarmWorkerRunning, SetAlarmNotify, FiberResumes, FiberYields, Tick,
           RequestStop, StopCheck, StopFlag, StopNotify, StopJoin, StopJoined, StopLast, vars
  <2>. QED  BY <2>1, <1>1, <1>2, <1>3, <1>4, <1>5, <1>6

\* The alarm state keeps its types, in every interleaving of the worker, the
\* guest's SetAlarm and CancelAlarm and the stop sequence (Sync.cpp).
THEOREM AlarmTypeCorrect == Spec => []TypeOK
<1>1. AlarmInv => TypeOK
  BY DEF AlarmInv
<1>. QED  BY InitKeeps, NextKeeps, <1>1, PTL DEF Spec

\* ensureAlarmWorkerRunning never assigns a new thread to a joinable one, even
\* when it races with a stop from a fiber or from the main thread, because only
\* the stop that joined the worker resets g_alarm_worker_running.
THEOREM ThreadNeverOverwritten == Spec => []NoThreadOverwritten
<1>1. AlarmInv => NoThreadOverwritten
  BY DEF AlarmInv, ThreadInv, NoThreadOverwritten
<1>. QED  BY InitKeeps, NextKeeps, <1>1, PTL DEF Spec

\* An alarm that CancelAlarm took out of the table stays cancelled, although the
\* worker fires the alarm it took after dropping g_alarm_mutex.
THEOREM CancelledIsFinal == Spec => CancelledNeverFires
<1>1. AlarmInv /\ [Next]_vars =>
        [\A a \in Ids : outcome[a] = "cancelled" => outcome'[a] = "cancelled"]_vars
  BY CancelledStays
<1>. QED  BY InitKeeps, NextKeeps, <1>1, PTL DEF Spec, CancelledNeverFires
=============================================================================
