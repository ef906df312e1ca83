------------------------------- MODULE Kernel -------------------------------
(***************************************************************************)
(* Threads, semaphores and event flags together: they share ThreadInfo,    *)
(* so a release, a suspend or a termination reaches a thread in whichever  *)
(* wait it is.                                                             *)
(***************************************************************************)
EXTENDS Semaphore, EventFlag

\* The two kinds of identifier are told apart by value.
ASSUME KernelAssumption == Semas \cap Flags = {}

vars == <<threadVars, semaVars, flagVars>>

TypeOK == ThreadTypeOK /\ SemaTypeOK /\ FlagTypeOK

ThreadNext ==
    \/ \E t \in Threads :
          \/ YieldPoint(t)
          \/ SleepThread(t)
          \/ SleepWoken(t)
          \/ SuspendThreadSelf(t)
          \/ SuspendSelfReturns(t)
          \/ \E u \in Threads : TerminateThread(t, u)
    \/ \E u \in Threads :
          \/ WakeupThread(u)
          \/ CancelWakeupThread(u)
          \/ ReleaseWaitThread(u)
          \/ SuspendThreadOther(u)
          \/ ResumeThread(u)
          \/ StartThread(u)

Init == ThreadInit /\ SemaInit /\ FlagInit

Next ==
    \/ ThreadNext /\ UNCHANGED <<semaVars, flagVars>>
    \/ SemaNext /\ UNCHANGED flagVars
    \/ FlagNext /\ UNCHANGED semaVars

Spec == Init /\ [][Next]_vars

-----------------------------------------------------------------------------
(* Properties *)

\* A wakeup is never left beside a sleeping thread: it ends the sleep, or the
\* thread is suspended and finds it when resumed (Thread.cpp 1010-1042).
WakeupNotLost ==
    \A t \in Threads : (pc[t] = "sleep" /\ t \in parked /\ info[t].suspendCount = 0)
        => info[t].wakeupCount = 0

\* A thread parked in a wait can be released: ReleaseWaitThread finds it by its
\* status, which every wake, re-block, suspend, resume and cancelled wakeup must
\* keep true to where the thread is (Thread.cpp 1240-1262, 969-974).
ParkedIsReleasable ==
    \A t \in Threads :
        (pc[t] \in {"sleep", "sema", "event"} /\ t \in parked /\ ~info[t].terminated)
            => IF info[t].suspendCount = 0 THEN info[t].status = "THS_WAIT"
               ELSE \/ info[t].status = "THS_WAITSUSPEND"
                    \/ info[t].status = "THS_SUSPEND"
                       /\ (info[t].forceRelease \/ info[t].waitType = "TSW_NONE")

InAWait(t) == pc[t] \in {"sleep", "sema", "event"}

\* A thread that must leave the wait it is in.
Condemned(t) == InAWait(t) /\ (info[t].terminated \/ info[t].forceRelease)

\* A thread that is terminated or released in a wait is not asleep in it, and
\* nothing else that happens to it, a wake, a re-block, a suspend, a deletion,
\* takes the order back before the wait has ended: it leaves the wait when it
\* next gets the slot, or is suspended and leaves it when resumed (Thread.cpp
\* 695-723, 950-975, 1223-1266; Sync.cpp 366-381, 432-458).
ForcedOut ==
    /\ [](\A t \in Threads : Condemned(t) /\ t \in parked => info[t].suspendCount > 0)
    /\ [][\A t \in Threads : Condemned(t) => Condemned(t)' \/ ~InAWait(t)']_vars
=============================================================================
