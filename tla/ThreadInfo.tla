----------------------------- MODULE ThreadInfo -----------------------------
(***************************************************************************)
(* The kernel's view of a guest thread (ThreadInfo of Helpers/State.h),    *)
(* the helpers of Helpers/Runtime.h that every blocking call shares, and   *)
(* the calls of Thread.cpp that put threads to sleep, wake, release,       *)
(* suspend, resume, terminate and restart them.                            *)
(*                                                                         *)
(* Guest code runs in one slot, so a call is one step from its entry, or   *)
(* from the wake that ends a park, to its return or its next park; between *)
(* two steps any other thread that is not parked, or an interrupt handler, *)
(* may run.  What the scheduler does below is its contract, established by *)
(* Scheduler: a wake ends the park of a fiber that is not suspended, and a *)
(* fiber that is suspended or not parked ignores it.                       *)
(***************************************************************************)
EXTENDS Integers, Sequences, FiniteSets, FiniteSetsExt, SequencesExt

CONSTANTS
    Threads,      \* guest threads
    Terminators,  \* the threads that call TerminateThread
    Nothing,      \* no object
    Programs,     \* sets of calls; a behaviour's threads and handlers use one
    MaxWakeups,   \* bound: wakeupCount of a thread
    MaxSuspends   \* bound: nesting of SuspendThread

ASSUME ThreadInfoAssumption ==
    /\ MaxWakeups \in Nat /\ MaxSuspends \in Nat /\ IsFiniteSet(Threads)
    /\ Nothing \notin Threads /\ Terminators \subseteq Threads

VARIABLES
    info,     \* ThreadInfo of each thread
    pc,       \* the call a thread is in
    on,       \* the object or thread its last blocking call was about
    parked,   \* fibers that are Blocked in the scheduler
    ret,      \* what its last wait returned
    ops       \* the calls of this behaviour's program; never changes

threadVars == <<info, pc, on, parked, ret, ops>>

Infos == [status : {"THS_RUN", "THS_READY", "THS_WAIT", "THS_SUSPEND", "THS_WAITSUSPEND",
                    "THS_DORMANT"},
          waitType : {"TSW_NONE", "TSW_SLEEP", "TSW_SEMA", "TSW_EVENT"},
          wakeupCount : 0..MaxWakeups, suspendCount : 0..MaxSuspends,
          forceRelease : BOOLEAN, terminated : BOOLEAN]

Results == {"none", "KE_OK", "KE_WAIT_DELETE", "KE_RELEASE_WAIT"}

ThreadTypeOK ==
    /\ info \in [Threads -> Infos]
    /\ pc \in [Threads -> {"run", "sleep", "sema", "event", "suspended", "join", "gone"}]
    /\ parked \subseteq Threads
    /\ ret \in [Threads -> Results]
    /\ ops \in Programs

-----------------------------------------------------------------------------
(* Helpers/Runtime.h *)

Dormant == [status |-> "THS_DORMANT", waitType |-> "TSW_NONE", wakeupCount |-> 0,
            suspendCount |-> 0, forceRelease |-> FALSE, terminated |-> FALSE]

setThreadWaiting(i, type) ==
    [i EXCEPT !.status = IF i.suspendCount > 0 THEN "THS_WAITSUSPEND" ELSE "THS_WAIT",
              !.waitType = type, !.forceRelease = FALSE]

clearThreadWaiting(i) ==
    [i EXCEPT !.status = IF i.suspendCount > 0 THEN "THS_SUSPEND" ELSE "THS_RUN",
              !.waitType = "TSW_NONE"]

consumeForceRelease(i) == [i EXCEPT !.forceRelease = FALSE]

applySuspendStatusLocked(i) ==
    [i EXCEPT !.status = IF i.waitType # "TSW_NONE" THEN "THS_WAITSUSPEND" ELSE "THS_SUSPEND"]

\* A thread's entry on an object's wait list.
publishWaiter(list, t) == Append(list, t)

\* The first entry of the thread leaves the list, if a signal, a set or a delete
\* has not popped it.
unpublishWaiter(list, t) ==
    IF Contains(list, t) THEN RemoveAt(list, Min({k \in 1..Len(list) : list[k] = t})) ELSE list

\* The scheduler's answer to make_ready, enqueue_external_wakeup_validated.
Woken(ts) == {t \in ts : info[t].suspendCount = 0}

\* The thread is in the slot and about to make a call.
Running(t) == pc[t] = "run" /\ t \notin parked

\* A call some other thread, or an interrupt handler's i-variant, may make.
Called(op) == op \in ops

\* The same without an i-variant: a thread other than u makes it.
CalledByThread(op, u) == op \in ops /\ \E t \in Threads \ {u} : Running(t)

\* ThreadExitException: the trampoline runs on_fiber_exit, the thread can be
\* started again, and join_fiber's loop is over for those who joined it.
Exits(t) ==
    /\ info' = [info EXCEPT ![t] = Dormant]
    /\ pc' = [u \in Threads |-> IF u = t THEN "gone"
                                ELSE IF pc[u] = "join" /\ on[u] = t THEN "run" ELSE pc[u]]
    /\ ret' = [ret EXCEPT ![t] = "none"]
    /\ UNCHANGED on

\* A blocking call returns r; waitWhileSuspended leaves the thread running.
Returns(t, i, r) ==
    /\ info' = [info EXCEPT ![t] = [i EXCEPT !.status = "THS_RUN"]]
    /\ pc' = [pc EXCEPT ![t] = "run"]
    /\ ret' = [ret EXCEPT ![t] = r]

\* publishWaiter has run: arm_park and block_current.
Parks(t, place) ==
    /\ pc' = [pc EXCEPT ![t] = place]
    /\ parked' = parked \cup {t}
    /\ ret' = [ret EXCEPT ![t] = "none"]

-----------------------------------------------------------------------------
(* Thread.cpp *)

\* A thread the scheduler was asked to terminate throws at its next yield
\* point; ExitThread throws by itself.
YieldPoint(t) ==
    /\ Running(t)
    /\ info[t].terminated \/ Called("exit")
    /\ Exits(t)
    /\ UNCHANGED <<parked, ops>>

\* Mutant of SleepThread: it parks without looking at wakeupCount.
SleepThreadNoCheck(t) ==
    /\ Called("sleep") /\ Running(t) /\ ~info[t].terminated
    /\ on' = [on EXCEPT ![t] = Nothing]
    /\ info' = [info EXCEPT ![t] = [@ EXCEPT !.status = "THS_WAIT", !.waitType = "TSW_SLEEP",
                                             !.forceRelease = FALSE]]
    /\ Parks(t, "sleep")
    /\ UNCHANGED ops

SleepThread(t) ==
    /\ Called("sleep") /\ Running(t) /\ ~info[t].terminated
    /\ on' = [on EXCEPT ![t] = Nothing]
    /\ \/ /\ info[t].wakeupCount > 0
          /\ Returns(t, [info[t] EXCEPT !.wakeupCount = @ - 1, !.waitType = "TSW_NONE"], "KE_OK")
          /\ UNCHANGED parked
       \/ /\ info[t].wakeupCount = 0
          /\ info' = [info EXCEPT ![t] = [@ EXCEPT !.status = "THS_WAIT", !.waitType = "TSW_SLEEP",
                                                   !.forceRelease = FALSE]]
          /\ Parks(t, "sleep")
    /\ UNCHANGED ops

\* Mutant of SleepWoken: a spurious wake does not re-affirm the wait state.
SleepWokenNoReaffirm(t) ==
    /\ pc[t] = "sleep" /\ t \notin parked
    /\ \/ info[t].terminated /\ Exits(t) /\ UNCHANGED parked
       \/ /\ ~info[t].terminated /\ info[t].forceRelease
          /\ Returns(t, [consumeForceRelease(info[t]) EXCEPT !.waitType = "TSW_NONE"],
                     "KE_RELEASE_WAIT")
          /\ UNCHANGED <<on, parked>>
       \/ /\ ~info[t].terminated /\ ~info[t].forceRelease /\ info[t].wakeupCount > 0
          /\ Returns(t, [info[t] EXCEPT !.wakeupCount = @ - 1, !.waitType = "TSW_NONE"], "KE_OK")
          /\ UNCHANGED <<on, parked>>
       \/ /\ ~info[t].terminated /\ ~info[t].forceRelease /\ info[t].wakeupCount = 0
          /\ Parks(t, "sleep")
          /\ UNCHANGED <<info, on>>
    /\ UNCHANGED ops

\* After the wake: terminated, released, woken, or asleep again.
SleepWoken(t) ==
    /\ pc[t] = "sleep" /\ t \notin parked
    /\ \/ info[t].terminated /\ Exits(t) /\ UNCHANGED parked
       \/ /\ ~info[t].terminated /\ info[t].forceRelease
          /\ Returns(t, [consumeForceRelease(info[t]) EXCEPT !.waitType = "TSW_NONE"],
                     "KE_RELEASE_WAIT")
          /\ UNCHANGED <<on, parked>>
       \/ /\ ~info[t].terminated /\ ~info[t].forceRelease /\ info[t].wakeupCount > 0
          /\ Returns(t, [info[t] EXCEPT !.wakeupCount = @ - 1, !.waitType = "TSW_NONE"], "KE_OK")
          /\ UNCHANGED <<on, parked>>
       \/ /\ ~info[t].terminated /\ ~info[t].forceRelease /\ info[t].wakeupCount = 0
          /\ info' = [info EXCEPT ![t] = [@ EXCEPT !.status = "THS_WAIT", !.waitType = "TSW_SLEEP"]]
          /\ Parks(t, "sleep")
          /\ UNCHANGED on
    /\ UNCHANGED ops

\* Only a thread seen asleep is handed to the scheduler.
WakeupThread(u) ==
    /\ Called("wakeup") /\ info[u].status # "THS_DORMANT" /\ info[u].wakeupCount < MaxWakeups
    /\ LET asleep == info[u].status = "THS_WAIT" /\ info[u].waitType = "TSW_SLEEP"
       IN  /\ info' = [info EXCEPT ![u] =
                 IF asleep
                 THEN [info[u] EXCEPT !.wakeupCount = @ + 1, !.waitType = "TSW_NONE",
                                      !.status = IF info[u].suspendCount > 0 THEN "THS_SUSPEND"
                                                 ELSE "THS_READY"]
                 ELSE [info[u] EXCEPT !.wakeupCount = @ + 1]]
           /\ parked' = IF asleep THEN parked \ Woken({u}) ELSE parked
    /\ UNCHANGED <<pc, on, ret, ops>>

CancelWakeupThread(u) ==
    /\ Called("cancel") /\ info[u].status # "THS_DORMANT"
    /\ info' = [info EXCEPT ![u].wakeupCount = 0]
    /\ UNCHANGED <<pc, on, parked, ret, ops>>

\* Mutant of ReleaseWaitThread: the scheduler is not told.
ReleaseWaitThreadSilent(u) ==
    /\ Called("release") /\ info[u].status \in {"THS_WAIT", "THS_WAITSUSPEND"}
    /\ info' = [info EXCEPT ![u] =
          [@ EXCEPT !.forceRelease = TRUE, !.waitType = "TSW_NONE",
                    !.status = IF info[u].suspendCount > 0 THEN "THS_SUSPEND" ELSE "THS_READY"]]
    /\ UNCHANGED <<pc, on, parked, ret, ops>>

ReleaseWaitThread(u) ==
    /\ Called("release") /\ info[u].status \in {"THS_WAIT", "THS_WAITSUSPEND"}
    /\ info' = [info EXCEPT ![u] =
          [@ EXCEPT !.forceRelease = TRUE, !.waitType = "TSW_NONE",
                    !.status = IF info[u].suspendCount > 0 THEN "THS_SUSPEND" ELSE "THS_READY"]]
    /\ parked' = parked \ Woken({u})
    /\ UNCHANGED <<pc, on, ret, ops>>

SuspendThreadSelf(t) ==
    /\ Called("suspend") /\ Running(t) /\ ~info[t].terminated /\ MaxSuspends > 0
    /\ info' = [info EXCEPT ![t] =
          applySuspendStatusLocked([info[t] EXCEPT !.suspendCount = @ + 1])]
    /\ pc' = [pc EXCEPT ![t] = "suspended"]
    /\ parked' = parked \cup {t}
    /\ UNCHANGED <<on, ret, ops>>

SuspendSelfReturns(t) ==
    /\ pc[t] = "suspended" /\ t \notin parked
    /\ \/ info[t].terminated /\ Exits(t)
       \/ /\ ~info[t].terminated
          /\ Returns(t, info[t], ret[t])
          /\ UNCHANGED on
    /\ UNCHANGED <<parked, ops>>

\* suspend_other parks a Ready fiber too.
SuspendThreadOther(u) ==
    /\ CalledByThread("suspend", u)
    /\ info[u].status # "THS_DORMANT" /\ info[u].suspendCount < MaxSuspends
    /\ info' = [info EXCEPT ![u] =
          applySuspendStatusLocked([info[u] EXCEPT !.suspendCount = @ + 1])]
    /\ parked' = parked \cup {u}
    /\ UNCHANGED <<pc, on, ret, ops>>

\* clear_suspend re-enqueues the fiber when the last nested suspend ends.
ResumeThread(u) ==
    /\ CalledByThread("suspend", u)
    /\ info[u].status # "THS_DORMANT" /\ info[u].suspendCount > 0
    /\ LET i == [info[u] EXCEPT !.suspendCount = @ - 1]
       IN  /\ info' = [info EXCEPT ![u] =
                 IF i.suspendCount > 0 THEN i
                 ELSE [i EXCEPT !.status = IF i.waitType # "TSW_NONE" THEN "THS_WAIT"
                                           ELSE "THS_READY"]]
           /\ parked' = IF i.suspendCount = 0 THEN parked \ {u} ELSE parked
    /\ UNCHANGED <<pc, on, ret, ops>>

\* request_terminate opens the suspend gate and wakes; join_fiber waits.
TerminateThread(t, u) ==
    /\ Called("terminate") /\ t \in Terminators /\ Running(t) /\ t # u
    /\ info[u].status # "THS_DORMANT"
    /\ info' = [info EXCEPT ![u] = [@ EXCEPT !.terminated = TRUE, !.forceRelease = TRUE]]
    /\ parked' = parked \ {u}
    /\ pc' = [pc EXCEPT ![t] = "join"]
    /\ on' = [on EXCEPT ![t] = u]
    /\ UNCHANGED <<ret, ops>>

StartThread(u) ==
    /\ CalledByThread("start", u)
    /\ pc[u] = "gone" /\ info[u].status = "THS_DORMANT"
    /\ info' = [info EXCEPT ![u] = [Dormant EXCEPT !.status = "THS_READY"]]
    /\ pc' = [pc EXCEPT ![u] = "run"]
    /\ on' = [on EXCEPT ![u] = Nothing]
    /\ ret' = [ret EXCEPT ![u] = "none"]
    /\ UNCHANGED <<parked, ops>>

ThreadInit ==
    /\ info = [t \in Threads |-> [Dormant EXCEPT !.status = "THS_RUN"]]
    /\ pc = [t \in Threads |-> "run"]
    /\ on = [t \in Threads |-> Nothing]
    /\ parked = {}
    /\ ret = [t \in Threads |-> "none"]
    /\ ops \in Programs
=============================================================================
