------------------------------ MODULE Scheduler ------------------------------
(***************************************************************************)
(* The cooperative fiber scheduler of the runtime (ps2_scheduler.cpp):     *)
(* one executor thread resumes one guest fiber at a time, host workers     *)
(* borrow the guest token between resumes, and every thread of the process *)
(* may wake, suspend, terminate or reprioritise a fiber.  A fiber's wait   *)
(* loop is the publish / arm_park / block_current / re-check protocol that *)
(* every blocking system call of Kernel/Syscalls follows; cond[f] is the   *)
(* condition its loop re-checks (a permit, the event bits, a wakeup).      *)
(*                                                                         *)
(* One step is one critical section of g_sched_mutex, or one access to an  *)
(* atomic or to a ThreadInfo made outside it.                              *)
(***************************************************************************)
EXTENDS RunQueue

CONSTANTS
    Fibers,         \* thread identifiers a fiber can carry
    Workers,        \* host workers that borrow the guest token (IRQ, alarm)
    Prios,          \* priorities, a lower number running first
    Boot,           \* the fiber create_fiber makes for the program's entry
    NoOne,          \* no fiber, no worker
    Terminators,    \* the fibers that call TerminateThread
    Ops,            \* the operations the modelled guest program uses
    HostOps,        \* the operations host threads perform without the token
    MaxGeneration,  \* bound: fibers created per thread identifier
    MaxSuspend,     \* bound: nesting of SuspendThread
    MaxCalls,       \* bound: host calls in flight at once
    EscapeLimit     \* kIntrDisableYieldEscape

ASSUME SchedulerAssumption ==
    /\ Boot \in Fibers /\ Terminators \subseteq Fibers /\ NoOne \notin Fibers /\ NoOne \notin Workers
    /\ Prios \subseteq 1..127 /\ Prios # {}
    /\ MaxGeneration \in Nat \ {0} /\ MaxSuspend \in Nat /\ MaxCalls \in Nat
    /\ EscapeLimit \in Nat \ {0}

VARIABLES
    \* under g_sched_mutex
    run_queue,           \* g_run_queue
    running,             \* g_running_fiber
    exec,                \* where guest_executor_main is
    deferring,           \* deferringToWaiters, and whether a grant came since
    asleep,              \* workers asleep on g_sched_cv
    holder,              \* the worker with tls_holds_guest_token
    waiters,             \* workers counted by g_host_token_waiters
    stop,                \* g_stop
    sweep,               \* fibers scheduler_shutdown has still to visit
    \* FiberContext
    state, wake_pending, suspendCount, terminateRequested,
    priority, joinSaved, generation,
    \* control of each fiber
    pc, hook, target, targetGen,
    \* ThreadInfo and the awaited object, as far as the wait loops read them
    cond, terminated, infoSuspend, currentPriority,
    \* the rest
    intr,                \* tls_intr_disabled and its sample count
    calls                \* host calls between their two critical sections

queueVars == <<run_queue, state, wake_pending>>
execVars  == <<running, exec, deferring, asleep>>
tokenVars == <<holder, waiters>>
stopVars  == <<stop, sweep>>
gateVars  == <<suspendCount, terminateRequested>>
prioVars  == <<priority, joinSaved, currentPriority>>
ctlVars   == <<pc, hook, target, targetGen>>
infoVars  == <<cond, terminated, infoSuspend>>
vars == <<queueVars, execVars, tokenVars, stopVars, gateVars, prioVars,
          ctlVars, infoVars, generation, intr, calls>>

States == {"Absent", "Ready", "Running", "Blocked", "Exiting", "Finished"}
Places == {"run", "hook", "published", "armed", "woken", "wws", "wwsArmed",
           "suspending", "suspended", "selfArmed", "resumed", "once", "yp4", "yp5", "maybe_yield",
           "force_reschedule", "join", "create", "none"}
CallOps == {"wake", "ready", "clear", "terminate", "suspend"}
Calls == [op : CallOps, tid : Fibers, gen : 0..MaxGeneration]

\* A fiber is joinFloorActive while joinSaved holds a priority, 0 otherwise.
TypeOK ==
    /\ run_queue \in Seq(Fibers)
    /\ running \in Fibers \cup {NoOne}
    /\ exec \in {"check", "asleep", "guest", "post", "reap", "locked", "quit"}
    /\ deferring \in {"no", "armed", "granted"}
    /\ asleep \in SUBSET Workers
    /\ holder \in Workers \cup {NoOne}
    /\ waiters \in SUBSET Workers
    /\ stop \in BOOLEAN
    /\ sweep \in SUBSET Fibers
    /\ state \in [Fibers -> States]
    /\ wake_pending \in [Fibers -> BOOLEAN]
    /\ suspendCount \in [Fibers -> Nat]
    /\ terminateRequested \in [Fibers -> BOOLEAN]
    /\ priority \in [Fibers -> Prios]
    /\ joinSaved \in [Fibers -> Prios \cup {0}]
    /\ currentPriority \in [Fibers -> Prios]
    /\ generation \in [Fibers -> 0..MaxGeneration]
    /\ pc \in [Fibers -> Places]
    /\ hook \in [Fibers -> BOOLEAN]
    /\ target \in [Fibers -> Fibers \cup {NoOne}]
    /\ targetGen \in [Fibers -> 0..MaxGeneration]
    /\ cond \in [Fibers -> BOOLEAN]
    /\ terminated \in [Fibers -> BOOLEAN]
    /\ infoSuspend \in [Fibers -> Nat]
    /\ intr \in 0..EscapeLimit
    /\ calls \in SUBSET Calls

-----------------------------------------------------------------------------
(* Shared steps *)

Queued(f) == InRunQueue(run_queue, f)

Live(f) == state[f] # "Absent"

\* Where a fiber is when no system call of its own is in progress: in the
\* dispatch loop, or in an exit handler run by the trampoline.
Home(f) == IF hook[f] THEN "hook" ELSE "run"

Executing(f) == running = f /\ exec = "guest"

AtHome(f) == Executing(f) /\ pc[f] = Home(f)

\* The executor keeps g_sched_mutex from its post-resume code to the next wait
\* of its condition variable, so nobody else takes it in between.
LockFree == exec # "locked"

\* The executor is about to evaluate its wait predicate: it kept the lock after
\* a resume, or it has been woken and takes the lock again.
AtPredicate == exec \in {"check", "locked"}

\* g_sched_cv.notify_all(): the executor and the parked workers re-check.
notify_all ==
    /\ exec' = IF exec = "asleep" THEN "check" ELSE exec
    /\ asleep' = {}

enqueue_locked(f) ==
    /\ run_queue' = Enqueue(run_queue, priority, f)
    /\ state' = IF Queued(f) THEN state ELSE [state EXCEPT ![f] = "Ready"]

\* Wake f: nothing if queued, a note for the running fiber, else the queue.
wake_locked(f) ==
    \/ /\ Queued(f)
       /\ UNCHANGED queueVars
    \/ /\ ~Queued(f) /\ running = f
       /\ wake_pending' = [wake_pending EXCEPT ![f] = TRUE]
       /\ UNCHANGED <<run_queue, state>>
    \/ /\ ~Queued(f) /\ running # f
       /\ enqueue_locked(f)
       /\ UNCHANGED wake_pending

\* make_ready: a suspended fiber is left alone, and nobody is notified.
make_ready(f) ==
    IF Live(f) /\ suspendCount[f] = 0
    THEN wake_locked(f) /\ notify_all
    ELSE UNCHANGED <<queueVars, exec, asleep>>

\* The same with a token: a fiber of another generation is left alone too.
enqueue_external_wakeup_validated(f, gen) ==
    /\ IF Live(f) /\ generation[f] = gen /\ suspendCount[f] = 0
       THEN wake_locked(f) ELSE UNCHANGED queueVars
    /\ notify_all

\* ps2fiber_yield: control goes back to the executor, which re-takes the lock.
ps2fiber_yield == exec' = "post"

\* ThreadExitException reaches fiber_trampoline, which marks the fiber Exiting
\* and runs the exit hook; one thrown inside the hook is swallowed there.
Unwind(f) ==
    /\ pc' = [pc EXCEPT ![f] = "hook"]
    /\ hook' = [hook EXCEPT ![f] = TRUE]
    /\ state' = IF hook[f] THEN state ELSE [state EXCEPT ![f] = "Exiting"]

\* The two suspend counts may drift apart, so the bound is on both.
BelowMaxSuspend(f) == infoSuspend[f] < MaxSuspend /\ suspendCount[f] < MaxSuspend

Goto(f, place) == pc' = [pc EXCEPT ![f] = place]

-----------------------------------------------------------------------------
(* guest_executor_main *)

canQuit == stop /\ run_queue = <<>>
\* Mutant of canPick: the worker's token is not looked at.
canPickIgnoringToken == run_queue # <<>> /\ running = NoOne

canPick == run_queue # <<>> /\ running = NoOne /\ holder = NoOne

ExecutorQuit ==
    /\ AtPredicate /\ canQuit
    /\ exec' = "quit"
    /\ UNCHANGED <<running, deferring, asleep, queueVars, tokenVars, stopVars,
                   gateVars, prioVars, ctlVars, infoVars, generation, intr, calls>>

\* Mutants of ExecutorResume: no turn after one grant, the bare waiters = 0 gate;
\* no deferral to the parked workers at all.
ExecutorResumeBareGate ==
    /\ AtPredicate /\ run_queue # <<>> /\ running = NoOne /\ holder = NoOne
    /\ waiters = {}
    /\ deferring' = "no"
    /\ running' = Head(run_queue)
    /\ run_queue' = Tail(run_queue)
    /\ state' = [state EXCEPT ![Head(run_queue)] = "Running"]
    /\ exec' = "guest"
    /\ UNCHANGED <<asleep, wake_pending, tokenVars, stopVars, gateVars, prioVars,
                   ctlVars, infoVars, generation, intr, calls>>

ExecutorResumeAtOnce ==
    /\ AtPredicate /\ run_queue # <<>> /\ running = NoOne /\ holder = NoOne
    /\ deferring' = "no"
    /\ running' = Head(run_queue)
    /\ run_queue' = Tail(run_queue)
    /\ state' = [state EXCEPT ![Head(run_queue)] = "Running"]
    /\ exec' = "guest"
    /\ UNCHANGED <<asleep, wake_pending, tokenVars, stopVars, gateVars, prioVars,
                   ctlVars, infoVars, generation, intr, calls>>

\* canRun holds: pop the head and resume it.
ExecutorResume ==
    /\ AtPredicate /\ canPick
    /\ waiters = {} \/ deferring = "granted"
    /\ deferring' = "no"
    /\ running' = Head(run_queue)
    /\ run_queue' = Tail(run_queue)
    /\ state' = [state EXCEPT ![Head(run_queue)] = "Running"]
    /\ exec' = "guest"
    /\ UNCHANGED <<asleep, wake_pending, tokenVars, stopVars, gateVars, prioVars,
                   ctlVars, infoVars, generation, intr, calls>>

\* canRun is false: sleep, deferring to the parked workers if there are any.
ExecutorSleep ==
    /\ AtPredicate /\ ~canQuit
    /\ \/ ~canPick /\ UNCHANGED deferring
       \/ canPick /\ waiters # {} /\ deferring # "granted" /\ deferring' = "armed"
    /\ exec' = "asleep"
    /\ UNCHANGED <<running, asleep, queueVars, tokenVars, stopVars, gateVars,
                   prioVars, ctlVars, infoVars, generation, intr, calls>>

\* The code after ps2fiber_resume, by the state the fiber left behind.  It ends
\* with the lock held and everyone notified, except that a finished fiber is
\* freed outside the lock first.
PostResume ==
    /\ exec = "post"
    /\ running' = NoOne
    /\ exec' = IF state[running] = "Finished" THEN "reap" ELSE "locked"
    /\ asleep' = IF state[running] = "Finished" THEN asleep ELSE {}
    /\ LET f == running IN
       \/ /\ state[f] \in {"Running", "Exiting"}
          /\ enqueue_locked(f)
          /\ UNCHANGED <<wake_pending, pc>>
       \/ /\ state[f] = "Blocked" /\ wake_pending[f] /\ suspendCount[f] = 0
          /\ wake_pending' = [wake_pending EXCEPT ![f] = FALSE]
          /\ enqueue_locked(f)
          /\ UNCHANGED pc
       \/ /\ state[f] = "Blocked" /\ ~(wake_pending[f] /\ suspendCount[f] = 0)
          /\ UNCHANGED <<queueVars, pc>>
       \/ /\ state[f] = "Ready"          \* it enqueued itself before yielding
          /\ UNCHANGED <<queueVars, pc>>
       \/ /\ state[f] = "Finished"       \* the map entry goes, the tid is free
          /\ state' = [state EXCEPT ![f] = "Absent"]
          /\ pc' = [pc EXCEPT ![f] = "none"]
          /\ UNCHANGED <<run_queue, wake_pending>>
    /\ UNCHANGED <<deferring, tokenVars, stopVars, gateVars, prioVars, hook,
                   target, targetGen, infoVars, generation, intr, calls>>

\* ps2fiber_free has returned: the lock is taken again, everyone is notified.
Reap ==
    /\ exec = "reap"
    /\ exec' = "locked" /\ asleep' = {}
    /\ UNCHANGED <<running, deferring, queueVars, tokenVars, stopVars, gateVars,
                   prioVars, ctlVars, infoVars, generation, intr, calls>>

\* A condition variable may wake a sleeper for no reason.
SpuriousWakeup ==
    /\ \/ exec = "asleep" /\ exec' = "check" /\ UNCHANGED asleep
       \/ \E w \in asleep : asleep' = asleep \ {w} /\ UNCHANGED exec
    /\ UNCHANGED <<running, deferring, queueVars, tokenVars, stopVars, gateVars,
                   prioVars, ctlVars, infoVars, generation, intr, calls>>

-----------------------------------------------------------------------------
(* Host workers: async_guest_begin, async_guest_end *)

\* The waiter is published before the lock is taken.  Workers are stopped
\* before the scheduler is.
PublishWaiter(w) ==
    /\ "worker" \in Ops
    /\ w \notin waiters /\ holder # w /\ ~stop
    /\ waiters' = waiters \cup {w}
    /\ UNCHANGED <<holder, queueVars, execVars, stopVars, gateVars, prioVars,
                   ctlVars, infoVars, generation, intr, calls>>

async_guest_begin(w) ==
    /\ LockFree /\ w \in waiters \ asleep
    /\ \/ /\ running = NoOne /\ holder = NoOne
          /\ holder' = w
          /\ waiters' = waiters \ {w}
          /\ deferring' = IF deferring = "armed" THEN "granted" ELSE deferring
          /\ UNCHANGED asleep
       \/ /\ ~(running = NoOne /\ holder = NoOne)
          /\ asleep' = asleep \cup {w}
          /\ UNCHANGED <<tokenVars, deferring>>
    /\ UNCHANGED <<running, exec, queueVars, stopVars, gateVars, prioVars,
                   ctlVars, infoVars, generation, intr, calls>>

async_guest_end(w) ==
    /\ LockFree /\ holder = w
    /\ holder' = NoOne
    /\ notify_all
    /\ UNCHANGED <<running, deferring, waiters, queueVars, stopVars, gateVars,
                   prioVars, ctlVars, infoVars, generation, intr, calls>>

-----------------------------------------------------------------------------
(* The running fiber: the wait protocol *)

\* What a wait loop decides on: throw if terminated, take the condition if it
\* holds, or publish the fiber on the object's wait list (again).
CheckCondition(f) ==
    /\ \/ /\ terminated[f]
          /\ Unwind(f)
          /\ UNCHANGED cond
       \/ /\ ~terminated[f] /\ cond[f]
          /\ cond' = [cond EXCEPT ![f] = FALSE]
          /\ Goto(f, "wws")
          /\ UNCHANGED <<hook, state>>
       \/ /\ ~terminated[f] /\ ~cond[f]
          /\ Goto(f, "published")
          /\ UNCHANGED <<hook, state, cond>>
    /\ UNCHANGED <<run_queue, wake_pending, execVars, tokenVars, stopVars, gateVars,
                   prioVars, target, targetGen, terminated, infoSuspend, generation,
                   intr, calls>>

\* A blocking system call is entered.
Wait(f) ==
    /\ "wait" \in Ops /\ AtHome(f)
    /\ CheckCondition(f)

\* Mutant of arm_park: it forgets a wakeup noted since the fiber was published.
arm_parkClearing(f) ==
    /\ Executing(f)
    /\ \/ pc[f] = "published" /\ Goto(f, "armed")
       \/ pc[f] = "wws" /\ infoSuspend[f] > 0 /\ ~terminated[f] /\ Goto(f, "wwsArmed")
       \/ pc[f] = "suspended" /\ Goto(f, "selfArmed")
    /\ state' = [state EXCEPT ![f] = "Blocked"]
    /\ wake_pending' = [wake_pending EXCEPT ![f] = FALSE]
    /\ UNCHANGED <<run_queue, execVars, tokenVars, stopVars, gateVars,
                   prioVars, hook, target, targetGen, infoVars, generation, intr, calls>>

arm_park(f) ==
    /\ Executing(f)
    /\ \/ pc[f] = "published" /\ Goto(f, "armed")
       \/ pc[f] = "wws" /\ infoSuspend[f] > 0 /\ ~terminated[f] /\ Goto(f, "wwsArmed")
       \/ pc[f] = "suspended" /\ Goto(f, "selfArmed")
    /\ state' = [state EXCEPT ![f] = "Blocked"]
    /\ UNCHANGED <<run_queue, wake_pending, execVars, tokenVars, stopVars, gateVars,
                   prioVars, hook, target, targetGen, infoVars, generation, intr, calls>>

\* Where block_current returns to.
AfterBlock(f) ==
    CASE pc[f] = "armed"     -> "woken"
      [] pc[f] = "wwsArmed"  -> "wws"
      [] pc[f] = "selfArmed" -> "resumed"
      [] OTHER               -> Home(f)

\* Mutant of block_current: no throw for a terminated fiber during shutdown.
block_currentNoThrow(f) ==
    /\ Executing(f) /\ pc[f] \in {"armed", "wwsArmed", "selfArmed", "once"}
    /\ state' = [state EXCEPT ![f] = IF wake_pending[f] THEN "Running" ELSE "Blocked"]
    /\ exec' = IF wake_pending[f] THEN exec ELSE "post"
    /\ wake_pending' = [wake_pending EXCEPT ![f] = FALSE]
    /\ Goto(f, AfterBlock(f))
    /\ UNCHANGED <<run_queue, running, deferring, asleep, tokenVars, stopVars, gateVars,
                   prioVars, hook, target, targetGen, infoVars, generation, intr, calls>>

block_current(f) ==
    /\ Executing(f) /\ pc[f] \in {"armed", "wwsArmed", "selfArmed", "once"}
    /\ \/ /\ stop /\ terminateRequested[f]
          /\ wake_pending' = [wake_pending EXCEPT ![f] = FALSE]
          /\ Goto(f, "hook")
          /\ hook' = [hook EXCEPT ![f] = TRUE]
          /\ state' = [state EXCEPT ![f] = IF hook[f] THEN "Running" ELSE "Exiting"]
          /\ UNCHANGED exec
       \/ /\ ~(stop /\ terminateRequested[f]) /\ wake_pending[f]
          /\ wake_pending' = [wake_pending EXCEPT ![f] = FALSE]
          /\ state' = [state EXCEPT ![f] = "Running"]
          /\ Goto(f, AfterBlock(f))
          /\ UNCHANGED <<hook, exec>>
       \/ /\ ~(stop /\ terminateRequested[f]) /\ ~wake_pending[f]
          /\ state' = [state EXCEPT ![f] = "Blocked"]
          /\ Goto(f, AfterBlock(f))
          /\ ps2fiber_yield
          /\ UNCHANGED <<hook, wake_pending>>
    /\ UNCHANGED <<run_queue, running, deferring, asleep, tokenVars, stopVars, gateVars,
                   prioVars, target, targetGen, infoVars, generation, intr, calls>>

\* The wait loop re-checks after a wake.
Recheck(f) ==
    /\ Executing(f) /\ pc[f] = "woken"
    /\ CheckCondition(f)

\* waitWhileSuspended's exits (its loop body is arm_park and block_current).
waitWhileSuspended(f) ==
    /\ Executing(f) /\ pc[f] = "wws"
    /\ \/ terminated[f] /\ Unwind(f)
       \/ ~terminated[f] /\ infoSuspend[f] = 0 /\ Goto(f, Home(f)) /\ UNCHANGED <<hook, state>>
    /\ UNCHANGED <<run_queue, wake_pending, execVars, tokenVars, stopVars, gateVars,
                   prioVars, target, targetGen, infoVars, generation, intr, calls>>

\* SuspendThread on the calling thread counts in the ThreadInfo first ...
SuspendThreadSelf(f) ==
    /\ "suspend" \in Ops /\ AtHome(f) /\ BelowMaxSuspend(f)
    /\ infoSuspend' = [infoSuspend EXCEPT ![f] = @ + 1]
    /\ IF terminated[f] THEN Unwind(f) ELSE Goto(f, "suspending") /\ UNCHANGED <<hook, state>>
    /\ UNCHANGED <<run_queue, wake_pending, execVars, tokenVars, stopVars, gateVars,
                   prioVars, target, targetGen, cond, terminated, generation, intr, calls>>

\* ... and suspend_self counts in the FiberContext, then parks once.
suspend_self(f) ==
    /\ Executing(f) /\ pc[f] = "suspending"
    /\ suspendCount' = [suspendCount EXCEPT ![f] = @ + 1]
    /\ Goto(f, "suspended")
    /\ UNCHANGED <<terminateRequested, queueVars, execVars, tokenVars, stopVars,
                   prioVars, hook, target, targetGen, infoVars, generation, intr, calls>>

\* SuspendThread after suspend_self returned.
SuspendReturn(f) ==
    /\ Executing(f) /\ pc[f] = "resumed"
    /\ IF terminated[f] THEN Unwind(f) ELSE Goto(f, Home(f)) /\ UNCHANGED <<hook, state>>
    /\ UNCHANGED <<run_queue, wake_pending, execVars, tokenVars, stopVars, gateVars,
                   prioVars, target, targetGen, infoVars, generation, intr, calls>>

-----------------------------------------------------------------------------
(* The running fiber: giving up the slot *)

StrictlyOutranked(f) == run_queue # <<>> /\ priority[Head(run_queue)] < priority[f]
Outranked(f)         == run_queue # <<>> /\ priority[Head(run_queue)] <= priority[f]

\* The trailing maybe_yield or force_reschedule of a system call.
Reschedule(f) ==
    /\ Executing(f)
    /\ LET yields == \/ pc[f] = "maybe_yield" /\ StrictlyOutranked(f)
                     \/ pc[f] = "force_reschedule" /\ Outranked(f)
       IN  /\ pc[f] \in {"maybe_yield", "force_reschedule"}
           /\ \/ yields /\ enqueue_locked(f) /\ ps2fiber_yield
              \/ ~yields /\ UNCHANGED <<run_queue, state, exec>>
    /\ Goto(f, Home(f))
    /\ UNCHANGED <<wake_pending, running, deferring, asleep, tokenVars, stopVars,
                   gateVars, prioVars, hook, target, targetGen, infoVars,
                   generation, intr, calls>>

\* Mutant of YieldPointGates: the escape of the interrupt gate is missing.
YieldPointGatesNoEscape(f) ==
    /\ AtHome(f) /\ ~terminateRequested[f] /\ suspendCount[f] = 0 /\ intr > 0
    /\ intr' = intr + 1
    /\ UNCHANGED <<queueVars, execVars, tokenVars, stopVars, gateVars,
                   prioVars, ctlVars, infoVars, generation, calls>>

\* yield_point's unlocked checks that leave it at once: terminate throws,
\* a suspend parks, disabled interrupts keep the slot until the escape.
YieldPointGates(f) ==
    /\ AtHome(f)
    /\ \/ terminateRequested[f] /\ Unwind(f) /\ UNCHANGED intr
       \/ /\ ~terminateRequested[f] /\ suspendCount[f] > 0
          /\ Goto(f, "once")
          /\ UNCHANGED <<hook, state, intr>>
       \/ /\ ~terminateRequested[f] /\ suspendCount[f] = 0
          /\ intr > 0 /\ intr < EscapeLimit
          /\ intr' = intr + 1
          /\ UNCHANGED <<pc, hook, state>>
    /\ UNCHANGED <<run_queue, wake_pending, execVars, tokenVars, stopVars, gateVars,
                   prioVars, target, targetGen, infoVars, generation, calls>>

\* Mutant of YieldPoint: no maybe_yield.
YieldPointNoPreemption(f) ==
    /\ AtHome(f) /\ ~terminateRequested[f] /\ suspendCount[f] = 0
    /\ intr \in {0, EscapeLimit} /\ waiters # {}
    /\ intr' = IF intr = 0 THEN 0 ELSE 1
    /\ ps2fiber_yield
    /\ Goto(f, "yp5")
    /\ UNCHANGED <<queueVars, running, deferring, asleep, tokenVars, stopVars,
                   gateVars, prioVars, hook, target, targetGen, infoVars,
                   generation, calls>>

\* yield_point past its gates: maybe_yield, then the handoff to a parked
\* worker.  intr = EscapeLimit is the sample on which the gate opens.
YieldPoint(f) ==
    /\ AtHome(f) /\ ~terminateRequested[f] /\ suspendCount[f] = 0
    /\ intr \in {0, EscapeLimit}
    /\ intr' = IF intr = 0 THEN 0 ELSE 1
    /\ \/ /\ StrictlyOutranked(f)
          /\ enqueue_locked(f) /\ ps2fiber_yield
          /\ Goto(f, "yp4")
       \/ /\ ~StrictlyOutranked(f) /\ waiters # {}
          /\ ps2fiber_yield
          /\ Goto(f, "yp5")
          /\ UNCHANGED <<run_queue, state>>
       \/ /\ ~StrictlyOutranked(f) /\ waiters = {} /\ intr # 0
          /\ UNCHANGED <<run_queue, state, exec, pc>>
    /\ UNCHANGED <<wake_pending, running, deferring, asleep, tokenVars, stopVars,
                   gateVars, prioVars, hook, target, targetGen, infoVars,
                   generation, calls>>

\* yield_point resumed: step 4 after maybe_yield, the terminate re-check after
\* the handoff.
YieldPointReturn(f) ==
    /\ Executing(f)
    /\ \/ /\ pc[f] = "yp4" /\ waiters # {}
          /\ ps2fiber_yield
          /\ Goto(f, "yp5")
          /\ UNCHANGED <<hook, state>>
       \/ /\ pc[f] = "yp5" /\ terminateRequested[f]
          /\ Unwind(f)
          /\ UNCHANGED exec
       \/ /\ \/ pc[f] = "yp4" /\ waiters = {}
             \/ pc[f] = "yp5" /\ ~terminateRequested[f]
          /\ Goto(f, Home(f))
          /\ UNCHANGED <<hook, state, exec>>
    /\ UNCHANGED <<run_queue, wake_pending, running, deferring, asleep, tokenVars,
                   stopVars, gateVars, prioVars, target, targetGen, infoVars,
                   generation, intr, calls>>

\* di and ei of the guest (ps2x_guest_intr_disable_enter and _leave): intr is 0
\* while enabled, 1 plus the samples taken while disabled.
SetInterrupts(f) ==
    /\ "di" \in Ops /\ AtHome(f)
    /\ intr' = IF intr = 0 THEN 1 ELSE 0
    /\ UNCHANGED <<queueVars, execVars, tokenVars, stopVars, gateVars, prioVars,
                   ctlVars, infoVars, generation, calls>>

\* The dispatch loop ends: the entry function returned, ExitThread threw, or
\* the runtime's stop flag is set.
DispatchLoopEnds(f) ==
    /\ Executing(f) /\ pc[f] = "run"
    /\ Unwind(f)
    /\ UNCHANGED <<run_queue, wake_pending, execVars, tokenVars, stopVars, gateVars,
                   prioVars, target, targetGen, infoVars, generation, intr, calls>>

\* The exit hook returns: on_fiber_exit resets the ThreadInfo, the trampoline
\* marks the fiber Finished and leaves it for good.
FiberFinished(f) ==
    /\ Executing(f) /\ pc[f] = "hook"
    /\ cond' = [cond EXCEPT ![f] = FALSE]
    /\ terminated' = [terminated EXCEPT ![f] = FALSE]
    /\ infoSuspend' = [infoSuspend EXCEPT ![f] = 0]
    /\ state' = [state EXCEPT ![f] = "Finished"]
    /\ ps2fiber_yield
    /\ asleep' = {}
    /\ UNCHANGED <<run_queue, wake_pending, running, deferring, tokenVars, stopVars,
                   gateVars, prioVars, ctlVars, generation, intr, calls>>

-----------------------------------------------------------------------------
(* Operations on another fiber.  The caller owns the guest slot: it is the *)
(* running fiber, or the worker that holds the token while none runs, so   *)
(* the target is never the running fiber and no guest code interleaves.    *)

\* The caller of an operation and what it does next; maybe_yield and
\* force_reschedule do nothing on a worker.
Caller(next) ==
    \/ holder # NoOne /\ UNCHANGED pc
    \/ /\ exec = "guest" /\ pc[running] = Home(running)
       /\ pc' = [pc EXCEPT ![running] = IF next = "return" THEN Home(running) ELSE next]

\* Every system call on a thread returns KE_DORMANT before it has started and
\* after its exit hook returned.
Started(t) == state[t] \notin {"Absent", "Finished"}

Targets == {t \in Fibers : Started(t) /\ t # running}

Published(t) == pc[t] \in {"published", "armed", "woken"}

\* SignalSema, SetEventFlag, WakeupThread...: the condition becomes true and
\* the published waiter, popped from the wait list, is woken.
Signal(t) ==
    /\ "wait" \in Ops /\ ~cond[t]
    /\ Caller("maybe_yield")
    /\ cond' = [cond EXCEPT ![t] = TRUE]
    /\ IF Published(t) THEN make_ready(t) ELSE UNCHANGED <<queueVars, exec, asleep>>
    /\ UNCHANGED <<running, deferring, tokenVars, stopVars, gateVars, prioVars, hook,
                   target, targetGen, terminated, infoSuspend, generation, intr, calls>>

\* Mutant of suspend_other: a Ready fiber stays on the queue.
suspend_otherQueued(t) ==
    /\ suspendCount' = [suspendCount EXCEPT ![t] = @ + 1]
    /\ UNCHANGED <<run_queue, state>>

\* suspend_other: a Ready fiber leaves the queue at once.
suspend_other(t) ==
    /\ suspendCount' = [suspendCount EXCEPT ![t] = @ + 1]
    /\ IF state[t] = "Ready"
       THEN /\ run_queue' = Unlink(run_queue, t)
            /\ state' = [state EXCEPT ![t] = "Blocked"]
       ELSE UNCHANGED <<run_queue, state>>

SuspendThread(t) ==
    /\ "suspend" \in Ops /\ BelowMaxSuspend(t)
    /\ Caller("return")
    /\ infoSuspend' = [infoSuspend EXCEPT ![t] = @ + 1]
    /\ suspend_other(t)
    /\ UNCHANGED <<wake_pending, execVars, tokenVars, stopVars, terminateRequested, prioVars,
                   hook, target, targetGen, cond, terminated, generation, intr, calls>>

clear_suspend(t) ==
    /\ suspendCount' = [suspendCount EXCEPT ![t] = 0]
    /\ wake_locked(t)
    /\ notify_all

\* ResumeThread opens the scheduler's gate when the nesting count reaches 0.
ResumeThread(t) ==
    /\ infoSuspend[t] > 0
    /\ infoSuspend' = [infoSuspend EXCEPT ![t] = @ - 1]
    /\ IF infoSuspend[t] = 1
       THEN clear_suspend(t) /\ Caller("maybe_yield")
       ELSE UNCHANGED <<queueVars, suspendCount, exec, asleep>> /\ Caller("return")
    /\ UNCHANGED <<running, deferring, tokenVars, stopVars, terminateRequested, prioVars,
                   hook, target, targetGen, cond, terminated, generation, intr, calls>>

\* Mutant of request_terminate: only a fiber seen Blocked is woken.
request_terminateBlocked(t) ==
    /\ terminateRequested' = [terminateRequested EXCEPT ![t] = TRUE]
    /\ suspendCount' = [suspendCount EXCEPT ![t] = 0]
    /\ IF state[t] = "Blocked" THEN wake_locked(t) ELSE UNCHANGED queueVars
    /\ notify_all

request_terminate(t) ==
    /\ terminateRequested' = [terminateRequested EXCEPT ![t] = TRUE]
    /\ suspendCount' = [suspendCount EXCEPT ![t] = 0]
    /\ wake_locked(t)
    /\ notify_all

\* TerminateThread by a fiber: the request, then join_fiber on that fiber.
TerminateThread(f, t) ==
    /\ f \in Terminators /\ AtHome(f)
    /\ terminated' = [terminated EXCEPT ![t] = TRUE]
    /\ request_terminate(t)
    /\ Goto(f, "join")
    /\ target' = [target EXCEPT ![f] = t]
    /\ targetGen' = [targetGen EXCEPT ![f] = generation[t]]
    /\ UNCHANGED <<running, deferring, tokenVars, stopVars, prioVars, hook,
                   cond, infoSuspend, generation, intr, calls>>

targetDone(f) ==
    LET t == target[f]
    IN  state[t] \in {"Absent", "Finished"} \/ generation[t] # targetGen[f]

\* Mutant of join_fiber: no priority floor.
join_fiberNoFloor(f) ==
    /\ Executing(f) /\ pc[f] = "join"
    /\ \/ ~targetDone(f) /\ ps2fiber_yield /\ UNCHANGED <<pc, target, targetGen>>
       \/ /\ targetDone(f)
          /\ Goto(f, Home(f))
          /\ target' = [target EXCEPT ![f] = NoOne]
          /\ targetGen' = [targetGen EXCEPT ![f] = 0]
          /\ UNCHANGED exec
    /\ UNCHANGED <<queueVars, running, deferring, asleep, tokenVars, stopVars, gateVars,
                   prioVars, hook, infoVars, generation, intr, calls>>

\* One turn of join_fiber's loop: give way to the target at its priority, or
\* restore the joiner's own priority and return.
join_fiber(f) ==
    /\ Executing(f) /\ pc[f] = "join"
    /\ \/ /\ ~targetDone(f)
          /\ LET floor == priority[target[f]] IN
             IF priority[f] < floor
             THEN /\ priority' = [priority EXCEPT ![f] = floor]
                  /\ joinSaved' = [joinSaved EXCEPT ![f] = IF @ = 0 THEN priority[f] ELSE @]
             ELSE UNCHANGED <<priority, joinSaved>>
          /\ ps2fiber_yield
          /\ UNCHANGED <<pc, target, targetGen>>
       \/ /\ targetDone(f)
          /\ priority' = [priority EXCEPT ![f] = IF joinSaved[f] = 0 THEN @ ELSE joinSaved[f]]
          /\ joinSaved' = [joinSaved EXCEPT ![f] = 0]
          /\ Goto(f, Home(f))
          /\ target' = [target EXCEPT ![f] = NoOne]
          /\ targetGen' = [targetGen EXCEPT ![f] = 0]
          /\ UNCHANGED exec
    /\ UNCHANGED <<queueVars, running, deferring, asleep, tokenVars, stopVars, gateVars,
                   currentPriority, hook, infoVars, generation, intr, calls>>

\* update_priority: a joiner's request waits in joinSaved, a queued fiber is
\* re-inserted at its new place.
update_priority(t, p) ==
    /\ currentPriority' = [currentPriority EXCEPT ![t] = p]
    /\ \/ /\ joinSaved[t] # 0
          /\ joinSaved' = [joinSaved EXCEPT ![t] = p]
          /\ UNCHANGED <<priority, run_queue>>
       \/ /\ joinSaved[t] = 0
          /\ priority' = [priority EXCEPT ![t] = p]
          /\ run_queue' = IF Queued(t) /\ priority[t] # p
                          THEN Enqueue(Unlink(run_queue, t), priority', t)
                          ELSE run_queue
          /\ UNCHANGED joinSaved

\* ChangeThreadPriority on any started thread, the caller included.
ChangeThreadPriority(t, p) ==
    /\ "priority" \in Ops /\ Started(t)
    /\ Caller("force_reschedule")
    /\ update_priority(t, p)
    /\ UNCHANGED <<state, wake_pending, execVars, tokenVars, stopVars, gateVars,
                   hook, target, targetGen, infoVars, generation, intr, calls>>

RotateThreadReadyQueue(p) ==
    /\ "rotate" \in Ops
    /\ Caller("maybe_yield")
    /\ run_queue' = Rotate(run_queue, priority, p)
    /\ UNCHANGED <<state, wake_pending, execVars, tokenVars, stopVars, gateVars, prioVars,
                   hook, target, targetGen, infoVars, generation, intr, calls>>

\* StartThread: create_fiber checks g_stop in one critical section ...
StartThread(f, t) ==
    /\ "create" \in Ops /\ AtHome(f)
    /\ state[t] = "Absent" /\ generation[t] < MaxGeneration
    /\ ~stop
    /\ Goto(f, "create")
    /\ target' = [target EXCEPT ![f] = t]
    /\ UNCHANGED <<queueVars, execVars, tokenVars, stopVars, gateVars, prioVars, hook,
                   targetGen, infoVars, generation, intr, calls>>

\* ... and inserts the fiber in another.
create_fiber(f, p) ==
    /\ Executing(f) /\ pc[f] = "create"
    /\ LET t == target[f] IN
       /\ generation' = [generation EXCEPT ![t] = @ + 1]
       /\ priority' = [priority EXCEPT ![t] = p]
       /\ currentPriority' = [currentPriority EXCEPT ![t] = p]
       /\ wake_pending' = [wake_pending EXCEPT ![t] = FALSE]
       /\ suspendCount' = [suspendCount EXCEPT ![t] = 0]
       /\ terminateRequested' = [terminateRequested EXCEPT ![t] = FALSE]
       /\ hook' = [hook EXCEPT ![t] = FALSE]
       /\ run_queue' = Enqueue(run_queue, priority', t)
       /\ state' = [state EXCEPT ![t] = "Ready"]
       /\ pc' = [pc EXCEPT ![f] = "maybe_yield", ![t] = "run"]
       /\ target' = [target EXCEPT ![f] = NoOne]
    /\ notify_all
    /\ UNCHANGED <<running, deferring, tokenVars, stopVars, joinSaved, targetGen,
                   infoVars, intr, calls>>

-----------------------------------------------------------------------------
(* Host threads without the token: the interrupt worker's wakeups, a test  *)
(* or tool thread calling a system call.  They run beside the running      *)
(* fiber, and between their ThreadInfo or object step and their scheduler  *)
(* step anything may happen.                                               *)

HostBegin(op, t) ==
    /\ op \in HostOps /\ Started(t)
    /\ Cardinality(calls) < MaxCalls
    /\ \/ /\ op \in {"wake", "ready"} /\ ~cond[t]
          /\ cond' = [cond EXCEPT ![t] = TRUE]
          /\ UNCHANGED <<terminated, infoSuspend>>
       \/ /\ op = "suspend" /\ BelowMaxSuspend(t)
          /\ infoSuspend' = [infoSuspend EXCEPT ![t] = @ + 1]
          /\ UNCHANGED <<cond, terminated>>
       \/ /\ op = "clear" /\ infoSuspend[t] > 0
          /\ infoSuspend' = [infoSuspend EXCEPT ![t] = @ - 1]
          /\ UNCHANGED <<cond, terminated>>
       \/ /\ op = "terminate" /\ ~terminated[t]
          /\ terminated' = [terminated EXCEPT ![t] = TRUE]
          /\ UNCHANGED <<cond, infoSuspend>>
    /\ calls' = IF \/ op \in {"wake", "ready"} /\ ~Published(t)
                   \/ op = "clear" /\ infoSuspend'[t] > 0
                THEN calls
                ELSE calls \cup {[op |-> op, tid |-> t, gen |-> generation[t]]}
    /\ UNCHANGED <<queueVars, execVars, tokenVars, stopVars, gateVars, prioVars,
                   ctlVars, generation, intr>>

\* The scheduler step of a host call acts on whatever fiber the identifier now
\* names; only a validated wakeup compares the generation.
HostEnd(c) ==
    /\ LockFree
    /\ calls' = calls \ {c}
    /\ \/ /\ c.op = "wake"
          /\ enqueue_external_wakeup_validated(c.tid, c.gen)
          /\ UNCHANGED gateVars
       \/ /\ c.op = "ready"
          /\ make_ready(c.tid)
          /\ UNCHANGED gateVars
       \/ /\ c.op = "suspend" /\ Live(c.tid)
          /\ suspend_other(c.tid)
          /\ UNCHANGED <<wake_pending, terminateRequested, exec, asleep>>
       \/ /\ c.op = "clear" /\ Live(c.tid)
          /\ clear_suspend(c.tid)
          /\ UNCHANGED terminateRequested
       \/ /\ c.op = "terminate" /\ Live(c.tid)
          /\ request_terminate(c.tid)
       \/ /\ c.op \in {"suspend", "clear", "terminate"} /\ ~Live(c.tid)
          /\ UNCHANGED <<queueVars, gateVars, exec, asleep>>
    /\ UNCHANGED <<running, deferring, tokenVars, stopVars, prioVars, ctlVars,
                   infoVars, generation, intr>>

-----------------------------------------------------------------------------
(* scheduler_shutdown, after it has joined the host workers: g_stop and one *)
(* visit of every fiber in a single critical section.                       *)

\* Mutant of ShutdownBegin: the sleeping executor is not notified.
ShutdownBeginSilent ==
    /\ "stop" \in Ops /\ ~stop /\ LockFree
    /\ waiters = {} /\ holder = NoOne
    /\ stop' = TRUE
    /\ sweep' = {f \in Fibers : Live(f)}
    /\ UNCHANGED <<queueVars, execVars, tokenVars, gateVars, prioVars, ctlVars,
                   infoVars, generation, intr, calls>>

ShutdownBegin ==
    /\ "stop" \in Ops /\ ~stop /\ LockFree
    /\ waiters = {} /\ holder = NoOne
    /\ stop' = TRUE
    /\ sweep' = {f \in Fibers : Live(f)}
    /\ notify_all
    /\ UNCHANGED <<queueVars, running, deferring, tokenVars, gateVars, prioVars, ctlVars,
                   infoVars, generation, intr, calls>>

ShutdownVisit(f) ==
    /\ sweep' = sweep \ {f}
    /\ \/ /\ state[f] \in {"Blocked", "Exiting"}
          /\ suspendCount' = [suspendCount EXCEPT ![f] = 0]
          /\ wake_locked(f)
       \/ /\ state[f] \notin {"Blocked", "Exiting"}
          /\ UNCHANGED <<queueVars, suspendCount>>
    /\ terminateRequested' = [terminateRequested EXCEPT ![f] = @ \/ state[f] # "Exiting"]
    /\ UNCHANGED <<execVars, tokenVars, stop, prioVars, ctlVars, infoVars,
                   generation, intr, calls>>

-----------------------------------------------------------------------------
\* scheduler_init, then create_fiber for the program's entry point.
Init ==
    /\ \E p \in Prios :
          /\ priority = [f \in Fibers |-> p]
          /\ currentPriority = priority
    /\ run_queue = <<Boot>>
    /\ running = NoOne /\ exec = "check" /\ deferring = "no" /\ asleep = {}
    /\ holder = NoOne /\ waiters = {} /\ stop = FALSE /\ sweep = {}
    /\ state = [f \in Fibers |-> IF f = Boot THEN "Ready" ELSE "Absent"]
    /\ generation = [f \in Fibers |-> IF f = Boot THEN 1 ELSE 0]
    /\ pc = [f \in Fibers |-> IF f = Boot THEN "run" ELSE "none"]
    /\ wake_pending = [f \in Fibers |-> FALSE]
    /\ suspendCount = [f \in Fibers |-> 0]
    /\ terminateRequested = [f \in Fibers |-> FALSE]
    /\ joinSaved = [f \in Fibers |-> 0]
    /\ hook = [f \in Fibers |-> FALSE]
    /\ target = [f \in Fibers |-> NoOne]
    /\ targetGen = [f \in Fibers |-> 0]
    /\ cond = [f \in Fibers |-> FALSE]
    /\ terminated = [f \in Fibers |-> FALSE]
    /\ infoSuspend = [f \in Fibers |-> 0]
    /\ intr = 0 /\ calls = {}

Executor == ExecutorQuit \/ ExecutorResume \/ ExecutorSleep \/ PostResume \/ Reap

\* What a fiber does once a system call has begun, with no choice left.
Continue(f) ==
    \/ arm_park(f) \/ block_current(f) \/ Recheck(f) \/ waitWhileSuspended(f)
    \/ suspend_self(f) \/ SuspendReturn(f) \/ Reschedule(f)
    \/ YieldPointReturn(f) \/ join_fiber(f)
    \/ \E p \in Prios : create_fiber(f, p)

FiberStep(f) ==
    \/ Continue(f)
    \/ Wait(f) \/ SuspendThreadSelf(f) \/ YieldPointGates(f) \/ YieldPoint(f)
    \/ SetInterrupts(f) \/ DispatchLoopEnds(f) \/ FiberFinished(f)
    \/ \E t \in Fibers : StartThread(f, t)
    \/ \E t \in Targets : TerminateThread(f, t)

SlotOwner ==
    \/ \E t \in Targets : Signal(t) \/ SuspendThread(t) \/ ResumeThread(t)
    \/ \E t \in Fibers, p \in Prios : ChangeThreadPriority(t, p)
    \/ \E p \in Prios : RotateThreadReadyQueue(p)

Worker(w) == PublishWaiter(w) \/ async_guest_begin(w) \/ async_guest_end(w)

Host ==
    \/ \E op \in HostOps, t \in Fibers : HostBegin(op, t)
    \/ \E c \in calls : HostEnd(c)
    \/ ShutdownBegin

Next ==
    \/ \E f \in sweep : ShutdownVisit(f)
    \/ /\ sweep = {}
       /\ \/ Executor \/ SpuriousWakeup \/ SlotOwner \/ Host
          \/ \E f \in Fibers : FiberStep(f)
          \/ \E w \in Workers : Worker(w)

Spec == Init /\ [][Next]_vars

\* Every thread of the process runs, and none is starved of g_sched_mutex.  The
\* guest, whichever fiber runs, reaches yield_point again and again (every 128th
\* back-edge), and not only inside interrupt-disabled sections; exit handlers
\* return; dispatchLoop tests the stop flag between functions.
Fairness ==
    /\ WF_vars(\E f \in sweep : ShutdownVisit(f))
    /\ WF_vars(sweep = {} /\ Executor)
    /\ SF_vars(sweep = {} /\ canPick /\ Executor)
    /\ WF_vars(sweep = {} /\ \E c \in calls : HostEnd(c))
    /\ WF_vars(sweep = {} /\ \E f \in Fibers : Continue(f))
    /\ SF_vars(sweep = {} /\ \E f \in Fibers : FiberFinished(f))
    /\ SF_vars(sweep = {} /\ stop /\ \E f \in Fibers : DispatchLoopEnds(f))
    /\ SF_vars(sweep = {} /\ \E f \in Fibers : YieldPointGates(f))
    /\ SF_vars(sweep = {} /\ \E f \in Fibers : YieldPoint(f))
    /\ \A w \in Workers :
          /\ SF_vars(sweep = {} /\ async_guest_begin(w) /\ holder' = w)
          /\ WF_vars(sweep = {} /\ async_guest_begin(w))
          /\ WF_vars(sweep = {} /\ async_guest_end(w))

FairSpec == Spec /\ Fairness

-----------------------------------------------------------------------------
(* Properties *)

Parked(f) == state[f] = "Blocked" /\ running # f

CallPending(op, f) == \E c \in calls : c.op = op /\ c.tid = f

\* The run queue is in priority order, holds no fiber twice, and holds exactly
\* the Ready fibers, whatever mix of wakes, suspends, rotations and priority
\* changes produced it (ps2_scheduler_internal.h: enqueue_locked).
QueueWellFormed ==
    /\ Sorted(run_queue, priority)
    /\ NoDuplicates(run_queue)
    /\ \A f \in Fibers : Queued(f) <=> state[f] = "Ready"

\* Guest code has one execution slot: no fiber runs while a host worker holds
\* the guest token (async_guest_begin, guest_executor_main).
SlotExclusive == running # NoOne => holder = NoOne

\* A fiber whose wait condition has become true is not left parked, unless it
\* is suspended or the waker has yet to make its scheduler call: no wakeup is
\* lost between publish, arm_park, block_current and the executor's post-resume
\* code (wake_locked, block_current).
NoLostWakeup ==
    \A f \in Fibers :
        Parked(f) /\ pc[f] = "woken" /\ cond[f]
            => suspendCount[f] > 0 \/ CallPending("wake", f) \/ CallPending("ready", f)

\* A fiber asked to terminate is not left parked, unless a suspend came after
\* the request (request_terminate, scheduler_shutdown).
TerminateReachesParked ==
    \A f \in Fibers : Parked(f) /\ terminateRequested[f] => suspendCount[f] > 0

\* A suspended fiber is never on the run queue, unless it is unwinding
\* (suspend_other, make_ready, the executor's post-resume code).
SuspendedOffQueue ==
    \A f \in Fibers : Queued(f) => suspendCount[f] = 0 \/ terminateRequested[f]

\* The scheduler's suspend gate is closed only while the thread's own nesting
\* count is not zero: otherwise no ResumeThread could ever open it again
\* (SuspendThread, ResumeThread, suspend_self, clear_suspend).
NoOrphanSuspend ==
    \A f \in Fibers :
        Started(f) /\ suspendCount[f] > 0 => infoSuspend[f] > 0 \/ CallPending("clear", f)

\* When the executor has quit, every fiber that was asked to terminate has run
\* its exit path to the end: none went back to sleep in its wait loop
\* (scheduler_shutdown, block_current).
ShutdownReapsTerminated ==
    exec = "quit" => \A f \in Fibers : terminateRequested[f] => state[f] = "Absent"

\* A parked worker is granted the token, whatever the fibers do: yield_point hands
\* the slot back for it, and the executor, which holds the lock whenever nobody
\* runs, defers to it instead of resuming the next fiber at once (yield_point
\* step 4, canRun).
WorkerServed == \A w \in Workers : w \in waiters ~> holder = w

\* When a fiber is ready and none runs, one is resumed, however often the
\* workers take the token (canRun's deferral ends after one grant).
ReadyNotStarved == run_queue # <<>> /\ running = NoOne ~> running # NoOne

\* A ready fiber that outranks the running one gets to run (yield_point step 3).
HigherPriorityRuns ==
    \A f \in Fibers :
        Queued(f) /\ running # NoOne /\ priority[f] < priority[running]
            ~> running = f \/ ~Queued(f)

\* TerminateThread returns: the joiner does not keep the slot from its target
\* (join_fiber's priority floor).
JoinCompletes == \A f \in Fibers : pc[f] = "join" ~> pc[f] # "join"

\* After scheduler_shutdown the executor quits (its loop, block_current).
ShutdownCompletes == stop ~> exec = "quit"
=============================================================================
