# A TLA+ model of the PS2 runtime

The repository turns a PlayStation 2 program into C++ (`ps2xRecomp`, helped by
`ps2xAnalyzer`) and links the result with a runtime (`ps2xRuntime`) that plays
the console's kernel, memory and devices. The translator is a batch program. The
runtime is a concurrent one: guest threads are fibers on one executor thread,
and interrupt, alarm and RPC workers, the main thread and a debugger act on them
at the same time. That is where a test hardly reaches and a model checker does,
so this project is about the runtime: its scheduler and kernel, and the device
protocols around them.

Paths below are relative to `src/ps2xRuntime/src/lib/` unless they begin with `src/`.

## Inventory

| Part | State | Operations | What is hard |
|---|---|---|---|
| Fiber scheduler (`ps2_scheduler.cpp`, `ps2_scheduler_internal.h`) | run queue, running fiber, guest token, parked workers, `FiberContext` | resume, park, wake, suspend, resume, terminate, join, priority, rotate, yield points, shutdown | lost wakeups, slot exclusivity, starvation, priority inversion, shutdown |
| Threads (`Kernel/Syscalls/Thread.cpp`, `Helpers/Runtime.h`) | `ThreadInfo`: status, suspend and wakeup counts, wait object; `g_threads`, tokens, stacks | create, start, exit, delete, sleep, wake, suspend, terminate, release | two copies of one fact updated in two steps; identifiers and stacks used again |
| Semaphores, event flags (`Kernel/Syscalls/Sync.cpp`) | counts, bits, wait lists | create, delete, signal, set, clear, wait, poll | a permit handed to a waiter that is leaving |
| Alarms (`Sync.cpp`) | table, worker thread, stop flag | set, cancel, fire, start, stop | timed waits, cancel against a fire in progress, stop |
| Interrupts, vsync (`Kernel/Syscalls/Interrupt.cpp`) | handler tables, pending causes, vsync flag, pacing, worker | add, remove, enable, dispatch, drain, wait for vsync | snapshots of tables, one-shot registration, ageing, pacing by guest progress |
| Runtime stop (`Kernel/Syscalls/Lifecycle.cpp`, `ps2_runtime.cpp`) | stop flag, all of the above | request, stop workers, clear, shut down | joins while holding what the joined thread needs |
| Guest heap (`ps2_runtime.cpp`) | block list, stack pool | malloc, realloc, free, carve | alignment, splitting, growing in place |
| SIF RPC (`RPC.cpp`) | queues, servers, clients, linked in guest memory | bind, call, register, remove | lists relinked under bound clients, calls that park |
| DTX streams (`RPC.cpp`) | rings, links, players, handles | create, get, unget, put, append, consume | positions that wrap, handles that come round |
| DMA, VIF1, GIF (`ps2_memory.cpp`, `ps2_vif1_interpreter.cpp`) | channel registers, masked FIFO, causes | kick, walk, mask, submit, drain | a chain stopped inside a call, the order of one path fed by three ways |
| Debugger (`recomp_debug_writer.cpp`, `src/ps2xRuntime/src/recomp_backend.cpp`) | shared memory | update, break, step, read, write | two processes and no lock |
| Fibers (`ps2_fiber.cpp`) | stacks | create, resume, yield | host-specific context switch |
| GS, VU1, MPEG, pad, audio, card, CD, IOP interpreter | device state | device operations | data rather than control |
| Recompiler, analyzer, GUI, scripts | - | batch or user interface | algorithms over programs |

The parts meet in one place, the guest execution slot. A fiber has it while the
executor has resumed it; a host worker has it while it holds the guest token
(`async_guest_begin` / `async_guest_end`). A system call runs in the slot, changes
its object or `ThreadInfo` under that object's mutex, and then calls the
scheduler, which takes `g_sched_mutex`. Host threads make the same scheduler
calls without the slot. A waiting fiber publishes itself on the object's list,
calls `arm_park`, drops the object's lock, calls `block_current` and re-checks.
At the end the main thread (or a fiber) calls `requestStop`, which runs
`notifyRuntimeStop`, and the main thread calls `scheduler_shutdown`.

What makes each part correct: the scheduler loses no wakeup, runs one thing at a
time, starves neither fibers nor workers and ends when told to; nobody sleeps on
something that has already happened, and who is told to leave a wait leaves it;
every permit is used once; a thread is counted, and its stack kept, exactly while
it lives; alarms fire once and not after a cancel; a cause that was raised
reaches its handler or ages out, and ticks keep coming; memory is handed out
once; a stopped DMA chain resumes where it was; what the debugger reads and
writes is what it was told; stop reaches everyone and waits for nobody who waits
for it.

## Modules

| Module | Models |
|---|---|
| `RunQueue` | The intrusive priority list: insertion behind equals, unlinking, rotation |
| `Scheduler` | The scheduler and the system calls that drive it; extends `RunQueue` |
| `AlarmWorker` | Alarms, their worker, and the alarm part of the stop sequence |
| `ThreadInfo` | The kernel's view of a thread: sleep, wakeup, release, suspend, terminate |
| `Semaphore`, `EventFlag` | Their calls and wait lists; both extend `ThreadInfo` |
| `AbstractSemaphore` | What a semaphore promises its callers |
| `Kernel` | `Semaphore` and `EventFlag` together over one `ThreadInfo` |
| `Lifecycle` | A thread from `CreateThread` to its last fiber's end, and the stop |
| `Interrupts` | Handler tables, masks, dispatch, pending causes |
| `VSync` | The one-shot vsync flag and `WaitForNextVSyncTick` |
| `VBlankPacing` | When a poll of the interrupt worker delivers ticks |
| `GuestHeap` | The guest's allocator and the pool of callback stacks |
| `SifRpc` | The RPC registry, and a call from request to completion |
| `DtxStream` | Rings, links and players of the DTX service |
| `DmaGif` | The GIF's and VIF1's DMA channels, PATH2 and PATH3 |
| `DebugIpc` | The shared memory of runner and debugger |
| `MCKernel`, `MCServices`, `MCDevices` | Instances for TLC |
| `RunQueueProofs` | Proofs about the run queue's operators, and induction: least elements, `Upwards`, `Recursion` |
| `SchedulerProofs`, `TerminationProofs` | Proofs about `Scheduler` |
| `AlarmProofs`, `LifecycleProofs` | Proofs about `AlarmWorker` and `Lifecycle` |
| `KernelProofs` | Proofs about `Kernel`, the refinement of `AbstractSemaphore` among them |
| `ServiceProofs`, `DeviceProofs` | Proofs about `MCServices` and `MCDevices`, so about what the runs check |

`Scheduler` and the kernel modules are two levels of one system. `Scheduler` has
the wait protocol step by step, with one abstract condition per fiber.
`ThreadInfo` and what extends it take the contract that `Scheduler` establishes
(`Woken`: a wake ends the park of a fiber that is not suspended; anyone else
ignores it) and have the objects in full.

### Scheduler

A step is one critical section of `g_sched_mutex`, or one access made outside it.

* Executor: `exec` is where `guest_executor_main` is (`check` the predicate,
  `asleep` on the condition variable, `guest` code, `post` resume, `reap` a
  finished fiber, `locked`, `quit`), and `deferring` is its local turn-taking state
  towards workers. From its post-resume code to its next sleep or resume the
  executor keeps `g_sched_mutex`, but for the moment in which it reaps: while
  `exec` is `locked` nobody else's critical section comes in between, so a worker
  gets the token only when `canRun` defers to it.
* Token: `holder`, `waiters` and `asleep` for the workers.
* `FiberContext`: `state`, `wake_pending`, `suspendCount`, `terminateRequested`,
  `priority`, `joinSaved` (the priority `join_fiber` gives back), `generation`.
* `ThreadInfo` and the awaited object: `terminated`, `infoSuspend`,
  `currentPriority`, and `cond[f]`, the condition the wait loop re-checks.
* `pc` and `hook` say where a fiber is in a system call and whether it is in its
  exit path.
* `calls` holds host calls that have made their object step and not yet their
  scheduler step. `Ops` and `HostOps` choose the operations a run uses;
  `HostOps` is performed beside the running fiber, everything else in the slot.

Abstractions. A notification made just after the mutex is dropped is part of the
critical section (a sleeper re-checks its predicate under the mutex, so nothing
can be observed in between). A `ResumeThread` by a host thread decrements and
re-reads the nesting count in one step, and only its call into the scheduler
comes later. `scheduler_shutdown`'s sweep of the fiber map is one critical
section: no other step happens while `sweep` is not empty. Generations are
counted per identifier, since two fibers are compared only when they share one.
The determinism clock, duty-cycle counters, dispatch history and logs are
diagnostics and are left out.

### AlarmWorker

`worker` is where `alarmWorkerMain` is; `g_alarm_mutex` is held between two steps
only in `scan`, so every other user of the mutex waits for that to pass. `sys` is
the progress of a `SetAlarm` (due time, insertion, worker start, notification)
and `stopper` that of the fiber's and the main thread's stop. The guest slot is
reduced to who has it. `outcome` is a history of what became of each alarm. The
flag is stored and the condition variable notified outside the mutex, as in the
code, so they can fall between the worker's test and its wait.

### ThreadInfo, Semaphore, EventFlag, Kernel

Guest code has one slot, so a call is one step from its entry, or from the wake
that ends a park, to its return or its next park; between two steps any other
thread that is not parked, or an interrupt handler's i-variant, may run. `info`
is `ThreadInfo`, `pc` the call a thread is in, `on` what it is about, `parked`
the fibers that are `Blocked`, `ret` what the last wait returned. A semaphore is
its `SemaInfo` with the wait list in order; an event flag's pattern is the set of
its bits. A borrowed host worker has no identity and polls with backoff: it is
counted in `waiters` and not listed. `ops` is the set of calls a behaviour's
threads make, so that a property can be stated of the programs for which the
code promises it.

`AbstractSemaphore` knows permits, a limit, who waits and how the last wait
ended; there is no list, park or status. `Semaphore` implements it with
`INSTANCE ... WITH`: `value` is the count, `waiting` the threads in `WaitSema`,
`outcome` what they returned.

### Lifecycle

`registry` is `g_threads`, `obj` the `ThreadInfo` objects, which outlive their
place in it, `active` is `g_activeThreads` and `heap` the stacks `StartThread`
allocated. A call is a sequence of critical sections wherever it drops a lock,
since the main thread's `notifyRuntimeStop` may come in between; exit handlers
are guest code, in which the slot may change hands.

### Interrupts, VSync, VBlankPacing

A dispatch reads the mask, takes the handlers under the lock and runs them, each
in a step of its own; the worker makes one every vblank and for every pending
cause, a fiber makes one in line when a DMA transfer ends. The worker's count of
handlers and the ageing of a cause for which it counted none are steps too. A
handler may be an address the runtime has no function for (`known`): it is counted
like any other and passed over when its turn comes. In `VSync` the
worker's stores to guest memory come between any two steps of guest code, as it
makes them without the token. A fiber that waits for a tick reads the counter,
enters the list and parks in three steps, with a wake that comes before the park
noted as the scheduler notes it; of the counter the model keeps whether it has
moved since a waiter read it (`ticked`). `GsSyncV`, whose frame holds the flag, is
guest code outside the repository and is modelled from the comment and the calls in
`Interrupt.cpp`. `VBlankPacing` keeps progress and deadlines as differences.

### GuestHeap, SifRpc, DtxStream, DmaGif, DebugIpc

* `GuestHeap`: a word of memory holds the name of the client that wrote it, so a
  block handed out twice, or one whose contents a move loses, shows. Sizes reach
  the largest word, so that sums of the code that wrap do wrap. `SetupHeap` may
  come at any time and with any base and limit; the block list is then new, as in
  the code, and whoever held a block is taken to stop using it and not to free it.
* `SifRpc`: descriptors and queues are linked as in guest memory, and a walk gives
  up after `MaxLinks` links (1024 in the code). A descriptor may be registered for
  another service than before. The slots of the server pool are taken by binds and
  by created streams, each from the index that comes round; `taken` and `since` are
  histories of how far. A call runs on its fiber and may be interrupted by other
  fibers' calls in the server's function and in the end callback
  (`g_sif_call_rpc_mutex` is recursive and all fibers are one host thread), or be
  cut short there by the fiber's termination; what it leaves behind is a packet of
  the pool, stamped with the client it completes. `SifInitRpc` may be called again.
  The semaphore that stands in for an end callback is not modelled: signalling it
  may fail and the code goes on all the same.
* `DtxStream`: bytes are counted and not kept; positions are taken modulo the
  capacity as in the code. The commands of one transfer are applied together and
  drained once. The search for a handle always ends at a free one: its 4096 tries
  go round the 1016 handles of the game's layout, and the fallback behind them is
  for more objects than handles.
* `DmaGif`: memory is counted in quadwords and a word is its address. A write of
  `CHCR.STR` is one step with everything behind it, the drain of the completed
  causes included, because the arbiter is installed and the kick is processed
  before the write returns. A native packet is submitted directly, or goes the way of
  an ordinary kick: always when the path is masked, and also when it is not eligible.
  The image of a `DIRECT` ends within it; one that would continue in the next
  transfer (`m_vif1PendingPath2ImageQwc`) is not modelled.
* `DebugIpc`: each store to the shared state is a step; runner and debugger are
  processes with no lock between them. A poll may give up at any moment, as the
  code's do after 50 ms; the runner's look at a step request and the store that
  clears it are two steps; `Resume`, `Pause` and `Step` may come whatever is
  reported. Stores are seen in the order they are made: the increments of
  `update_seq` are plain ones, and that they are not reordered is assumed.

## Runs

All bounds are in the `.cfg` files.

| Run | Shows |
|---|---|
| `sched_wakeup` | Waits, wakes, priority changes and rotations by two fibers, a worker and a host thread: the queue is well formed, the slot exclusive, no wakeup lost |
| `sched_host` | Host threads wake, suspend, resume and terminate beside the running fiber: a terminate reaches a fiber on its way to sleep |
| `sched_suspend` | Nested suspends, resumes, mutual terminates and priority changes in the slot: suspended fibers stay off the queue |
| `sched_handoff` | Two workers against two fibers, one of which may disable interrupts or terminate the other: workers are served, ready fibers not starved, the join ends |
| `sched_shutdown` | Waits, terminates and host wakes, before and during a shutdown: a woken fiber of higher priority preempts the running one, the executor quits, and nobody who was asked to terminate is left parked |
| `alarm` | Alarms set and cancelled by fibers and callbacks, a fiber's stop at any moment and alarms set after it: none after a cancel, all settled, the stop reaches the worker, no live thread object is overwritten |
| `kernel` | Three threads in sleeps and waits against wakeups, signals, deletes, releases, suspends and terminations: nobody sleeps on what has happened, every parked thread can be released, an order to leave a wait stands until the wait has ended, and the semaphore implements `AbstractSemaphore` |
| `lifecycle` | Three thread objects through identifiers that come round, with exit handlers that block and a stop anywhere: tokens, fibers and stacks are accounted for |
| `services` | Interrupts, vsync and pacing, each by itself, some handlers without a function: a cause is delivered at most once for a raise, kept until what was counted for it has run or it aged out, and settled in the end; a flag goes to the frame that registered it; a fiber parked for a tick is where the next one finds it; ticks keep coming |
| `devices` | Heap, debugger, RPC, streams and DMA, each by itself: memory is handed out once and kept, a step halts after one turn and an answer is the request's own, lists are as registered, clients follow their service's server and point at their own completion, rings keep their bytes, chains resume and PATH3 keeps its order |
| `alarm_v_host_stop`, `services_v_frame` | End in counterexamples, see Findings |

Three properties of `devices` are conjunctions of named parts: `HeapSound` is
`ContentsKept` (whoever holds a block finds in it what it wrote), `HeapTiled` and
`StacksDisjoint`; `RegistrySound` is `ListsAsRegistered` and `ClientFollowsServer`;
`DtxSound` is `RingConserved` and `HandlesApart`. `ChainResumes` compares what the kicks of a
chain gathered with `WholeChain`, an interpreter of the chain that has a call
stack and no registers.

`MCServices` and `MCDevices` put together services that share no state. A
behaviour takes the steps of one of them, named by `focus`, so the state spaces
add up and do not multiply; a service's state stays at its first value in the
behaviours that are about another. `Foci` says which of them a run is about.

### Bounds

Two fibers suffice in `Scheduler` for one to act on the other while host threads
and a worker act on both; no operation involves three. `MaxGeneration` 2 lets an
identifier be reused once, which is what stale wakeups need (1 where a host
thread terminates, see Findings); `MaxSuspend` 2 is the least nesting at which
one resume is not enough; `MaxCalls` 1 is one host call in flight against
everything else; `EscapeLimit` stands for `kIntrDisableYieldEscape`, tried below,
at and after it.

`kernel` has three threads: two that wait and one that acts, or one that waits
behind another that does not match. `KernelPrograms` lists the sets of calls that
meet. `lifecycle` has identifiers up to 3 and three objects, so that an
identifier is used again while the first object is still referred to. `alarm` has
two alarms, one before the other, and three starts, which two alarms cannot
exhaust. In `services`, `MaxAge` 1 lets a cause be found without handler once and
dropped the second time, and two handlers are enough for one that runs and one that
does not; `Quantum` 3, `StallPolls` 3 and `MaxBurst` 8 let progress
fall short of a tick, meet it and exceed the catch-up. Two
frames are one to leave and one to come, and two fibers one that is woken and one
that still waits. In `devices` the heap has
ten words at first, with sizes that fit, that leave a remainder and that wrap, and
is set up again with bases before, at and beyond its limit; two packets and two
slots let both pools come round; the chain
has every kind of tag and two nested calls, its interrupt tags in three places;
three kicks stop and restart it twice; three servers are as many as a
walk of `MaxLinks` 3 can follow; the handles are one more than the objects, so
that the counter comes round.

Deadlock is checked in the runs of `Scheduler` but `sched_shutdown`, in `alarm`
and in `services`. In `sched_shutdown` the system really ends; in `kernel` all
threads may be asleep with nobody left to call; `lifecycle` ends with its stop;
in `devices` the kicks are bounded.

### Fairness

Every host thread runs, and none is starved of a mutex (strong fairness where
the mutex or the slot is taken and released by others). The guest reaches
`yield_point` again and again (the recompiled code calls it at back-edges) and
not always with interrupts disabled; exit handlers and callbacks return; after a
stop `dispatchLoop` tests its flag between functions. In `AlarmWorker` strong
fairness of `WorkerBegin` is what `WorkerServed` shows of the scheduler. `Kernel`
assumes none: the scheduler runs by strict priority without ageing, so a thread that
is ready may never run, and what the code promises of it (`ForcedOut`) is stated of
its steps. In `MCServices` only the interrupt worker is fair: a host thread that
ticks on whatever the guest does. Where it runs handlers it needs the guest token,
which is what `WorkerServed` gives it; that a handler returns is assumed of the
guest. Of fibers nothing is assumed: `TicksKeepComing` is about a guest that may do
nothing.

## Findings

Each is a run that ends in a counterexample; `PROJECT.json` quotes the lines.

* `alarm_v_host_stop`: `stopAlarmWorker` stores its flag and notifies outside
  `g_alarm_mutex`. If that falls between the worker's test and its wait on an
  empty table, the worker sleeps and the join never returns. A stop from a fiber
  does not suffer from this: it does not join, and the notification after the
  clear, which takes the mutex in between, makes up for the lost one
  (`GuestStopReachesWorker`, and its mutant).
* `services_v_frame`: `signalVSyncFlag` stores the flag and then the tick. A
  guest that sees the flag may leave the frame that holds both before the tick
  is stored, which is the store into an abandoned frame the one-shot
  registration is there to prevent. The flag itself always finds its frame
  (`FlagStoreInFrame`).

Other disagreements between code and comments are reachable in the models. They are
kept here and as hazards, with the properties limited to what the code does promise:

* a host thread's `SuspendThread` whose scheduler step comes after a terminate
  request closes the gate again, and the fiber stays parked
  (`ps2_scheduler.cpp:1276` against 831-834);
* `suspend_self` parks once, not in a loop, so a `wake_pending` left from an
  earlier wake ends the suspension at once (1267 against 1123-1124);
* two fibers that terminate each other join each other for ever (945);
* a host thread's terminate, which compares no generation, can reach a new fiber
  under a reused identifier;
* a host thread's `ResumeThread` between the two steps of `SuspendThread` leaves
  `suspendCount` at 1 with nobody to clear it (against 1259);
* a fiber that blocks with interrupts disabled gives the slot up (against 176);
* `create_fiber` tests `g_stop` in one critical section and inserts in another
  (against 768); a fiber parked in its exit hook is in state `Blocked` and is
  asked to terminate (against 709), and one that blocks there after the sweep is
  left behind (against 710);
* a fiber still running after `scheduler_shutdown` joined the alarm worker may
  set an alarm and start another worker beside the teardown (`Sync.cpp:1081`
  against `ps2_scheduler.cpp:688`);
* a waiter that is terminated or released after `SignalSema` chose it leaves the
  permit where it is and wakes nobody else;
* a thread that was released from a semaphore which is deleted before the thread
  runs leaves with `KE_WAIT_DELETE` and keeps `forceRelease`; its next
  `WaitEventFlag` reads the flag before `setThreadWaiting` clears it, and returns
  success without the bits (`Sync.cpp:720` against `Helpers/Runtime.h:188-189`);
* `drainPendingIntc` clears a cause for which handlers were counted, also when none
  ran because it was removed, disabled or masked before the snapshot, or has no
  function (`Interrupt.cpp:427` against 429-430);
* `SetVSyncFlag` registers the flag and clears it after it has dropped the lock: a
  tick in between uses the registration up and sets the flag, which is then
  cleared, and `GsSyncV` spins for good (`Interrupt.cpp:1026` against 521-522);
* a tick is counted in one critical section and the list taken in another: a fiber
  that begins to wait in between is woken for the tick it has just read
  (`Interrupt.cpp:538` against 900);
* after a poll that gave up, the runner acknowledges the next request with the answer
  to the one before, because it stores the counter as it is by then
  (`recomp_debug_writer.cpp:74` against `src/ps2xRuntime/include/recomp_debug_ipc.h:139-140`);
* the runner that halts a thread clears the step request after it looked at it, and
  with it a request stored in between, so that a thread that was to pause runs on
  (`recomp_debug_writer.cpp:208` against `src/ps2xRuntime/src/cpu_backend.h:26`);
* `ExitDeleteThread` leaves the thread's own automatic stack in the heap, and a
  `StartThread` that overlaps the stop can leave a token nobody consumes;
* registering the head of a server list a second time links it to itself; a
  chunk longer than a ring's room is cut and acknowledged in full; a third
  nested `CALL` loses its return address; a kick with nothing to send leaves
  `STR` set; `AddBreakpoint` arms a slot before its condition is stored;
* a fiber that is terminated in a server's function leaves its client busy; binds and
  created streams that take more slots than the server pool has give a service
  another's placeholder;
* a register write that finds no thread halted stays in its mailbox, and is applied
  to the thread that halts next.

## Proofs

A theorem holds for every value of the constants: any sets of fibers, threads,
semaphores, handlers, slots or servers, any programs and any bounds. What it
assumes of them is the `ASSUME` of the module that declares them, which the runs
evaluate. Almost none of the properties is inductive. Each is proved from an
inductive invariant that says where the actors are when the property matters;
one lemma per action shows that the action keeps it. TLC confirmed it on a small
instance first, with bounded sets for the quantifiers that range over everything
(`HeapInv`, `ListInv`).

| Theorem | States | Invariant |
|---|---|---|
| `TypeCorrect`, `QueueCorrect`, `SlotCorrect` | `TypeOK`, `QueueWellFormed`, `SlotExclusive` of `Scheduler` | `IInv` |
| `NothingSlept` | `NoLostWakeup` | `IInv`, `WakeInv` |
| `TerminateReaches`, `SuspendedStaysOff`, `GateHasCount`, `ShutdownReaps` | `TerminateReachesParked`, `SuspendedOffQueue`, `NoOrphanSuspend`, `ShutdownReapsTerminated` | `IInv`, `TInv` |
| `AlarmTypeCorrect`, `ThreadNeverOverwritten`, `CancelledIsFinal` | `TypeOK`, `NoThreadOverwritten`, `CancelledNeverFires` of `AlarmWorker` | `AlarmInv` |
| `NoWakeupLost`, `EveryWaiterReleasable`, `DeleteReachesAll`, `EveryEventSeen`, `NoPermitStranded` | `WakeupNotLost`, `ParkedIsReleasable`, `DeletedWakesAll`, `NoEventMissed`, `PermitNotStranded` | `KInv` |
| `OrderStands` | `ForcedOut` | `KInv` |
| `SemaphoreRefined` | `ImplementsSemaphore`: every semaphore is an `AbstractSemaphore` | `KInv` |
| `LifecycleTypeCorrect`, `NoFiberReplaced`, `TokensAccounted`, `StacksAccounted` | `TypeOK`, `FiberNotReplaced`, `TokenHeld`, `StackReclaimed` of `Lifecycle` | `LInv` |
| `FlagStoredInFrame`, `ParkedListed` | `FlagStoreInFrame`, `ParkedIsListed` | `VSyncInv`; `ListInv` of `ServiceProofs` |
| `PendingSurvives`, `DrainedArePending` | `SurvivesUntilRun`, `DrainsPending` | `IrqInv` |
| `CompletionsOwn`, `ClientsFollow` | `CompletionIsOwn`; `ClientFollowsServer`, half of `RegistrySound` | `RpcInv` |
| `StepsOnce`, `AnswersOwn`, `RegsWhole` | `StepHaltsAtOnce`, `AnswerIsOwn`, `RegsOfOneUpdate` | `DbgInv` |
| `StreamsSound` | `DtxSound` | `DtxInv` |
| `StacksApart` | `StacksDisjoint`, a third of `HeapSound` | `PoolInv` |
| `Path3Ordered` | `Path3InOrder` | `Path3Inv` |
| `ChainsResume` | `ChainResumes` | `Path3Inv`, `ResumeInv` |
| `RegistryKept` | `RegistrySound`, with `ClientsFollow` for its second half | `ListInv`, `RpcInv` |
| `HeapKept` | `HeapSound`, with `StacksApart` for its last third | `HeapInv` |

### Along which argument

* Scheduler. `RunQueueProofs` shows that insertion, unlinking, rotation and
  popping keep a priority-ordered list without duplicates such a list, and what
  its elements are. The queue's correctness depends on where the executor and
  each fiber are: popping the head needs it to be `Ready` and nobody running,
  re-enqueueing after a yield needs the fiber not to have queued itself, creating
  a fiber needs its identifier to be still free. `IInv` is `TypeOK`, the queue,
  and `ControlInv`, which ties `exec`, `running`, `holder`, `state` and `pc`
  together. `WakeInv` says of each waiting fiber whose condition holds why it
  will see that: it has not tested yet, `wake_pending` is set, it is queued, or a
  call for its generation is on its way. `TInv` has the same for a request to
  terminate, and relates the scheduler's suspend count to the kernel's.
* Alarms. `AlarmInv` says who may still touch `g_alarm_worker` at each place of
  the stop sequence, and that an alarm the worker has taken is out of the table
  and not settled.
* Kernel. `KInv` describes each thread by the call it is in (status, wait object,
  place on a list) and each object by its list: who is listed is in a wait on it,
  nobody twice; who is off the list and parked was suspended; as long as there
  are permits and listed waiters, as many woken threads have yet to look. That an
  order to leave stands is a matter of every action but the wait's own end. The
  refinement takes each action to a step of `AbstractSemaphore` or to a stutter.
* Lifecycle. `LInv` follows a token and a stack through the critical sections of
  start, exit, delete and the stop: for each counted object there is a fiber, or
  a call under way, that will give the token back. That `g_activeThreads` is the
  number of counted objects needs cardinalities of finite sets.
* Services. `VSyncInv`: one registration is outstanding at most, of the call that
  spins, with its flag clear until the delivery. `ListInv`: who waits without a
  wake noted is on the list or on the worker's copy of it. `IrqInv`: the worker's
  causes are still pending; while a program only adds handlers and mask bits, what
  was counted is in the table, then in the snapshot, then among the handlers that
  ran.
* Devices. `RpcInv` has two parts. `PacketInv`: a packet stamped less than
  `PacketCount` packets ago lies as far behind the pool's index and is its client's,
  and a client that calls nothing has one. `BindInv`: until the pool of servers has
  come round its index counts the slots taken, so a placeholder handed out now is
  nobody else's. `PoolInv`: what was carved from the
  callback pool lies above what is left of it. `DbgInv` says
  that the step is armed or its turn granted; that the halted thread is the
  reported one; that the runner's writes to a slot lie between two increments of its
  sequence number; that what the reader has copied so far is of one update unless
  the number moved; and, as `BoxInv`, how far a request through a free mailbox has
  come, polls that give up included.
  `DtxInv` has the balance of each ring with its position taken without division
  (`Placed`); eight ways of moving bytes keep it (`Moves`), and the search for a
  handle succeeds because fewer objects live than there are handles.
* Induction over data. Four operators of the devices run over a list of any
  length: the tags of a chain (`WalkFrom`, `Program`), the codes of a VIF1
  transfer (`Vif1Codes`), the links of a list (`Places`), the blocks of the heap
  (`MergedUpTo`). Each is a recursive function. `Recursion` shows that a function
  given by a first value and a step for each position exists, so the recursive
  one satisfies its equation; `Upwards` is induction over a set of positions,
  which needs no operator as a parameter.
* PATH3. `Path3Inv`: what was drawn of PATH3, followed by what is held back, is
  what was sent; with the mask off nothing is held. Every VIF code keeps this of
  the state it is given, so by induction the whole transfer does.
* Chains. `ResumeInv` places the channel's registers in the run of an interpreter
  of the chain that nothing stops: an open channel is at some tag of `Program`,
  with ASR0 and ASR1 its call stack, and has gathered the data up to there. A kick
  walks in step with the interpreter until it stops at an interrupt tag or both
  end. What the interpreter has at a tag is a prefix of what it has at the end.
* Lists. `ListInv` does not walk: `Threads` says that the head is the first of the
  history sequence and each element's link the next one. Appending and removing
  keep that as long as no element is in a list twice or in two lists, and a walk
  of as many links as there are elements sees the sequence, which has no more
  elements than there are queues or servers.
* Heap. `HeapInv`: the blocks follow each other from base to limit (`Tiles`), no
  two neighbours are free (`Apart`), the blocks in use are the clients' holdings,
  and each client's words are its own. `Tiles` of a list split at a block is
  `Tiles` of the parts, so replacing a block by one to three that cover the same
  ground keeps it; merging goes block by block, and what is merged so far tiles
  the ground so far, with no two free neighbours. That two clients' blocks are
  disjoint follows from their words: one word cannot be both's.

### From which assumptions

Most theorems assume only what the modules do: constants are numbers where they
are counted with, sentinels (`NoOne`, `Nothing`, `NoFrame`, `Nil`, `Nobody`) are
not among the things they stand beside, threads are finitely many, priorities are
`1..127`, there are more DTX handles than live objects; the heap's base is
aligned and below its limit, and the limit below the largest word. Six also
assume something of the program, because the code does not promise more; the Findings
and hazards say what happens otherwise:

* `OneFiberPerId` (`TerminateReaches`): a host thread's terminate compares no
  generation, so it must not meet a reused identifier;
* `GuestGates` (`SuspendedStaysOff`): only the guest suspends and wakes. A host
  thread may suspend the running fiber, which then yields to the queue and parks
  at its next `yield_point`;
* `GuestCounts` (`GateHasCount`): only the guest suspends and resumes. Between the
  two counts of a host's `SuspendThread` the guest may resume the thread;
* `NoSuspends` (`ShutdownReaps`): nobody suspends and no host thread terminates. A
  suspend after the shutdown's sweep has visited a fiber parks it for good;
* `WalksReach` (`RegistryKept`): no more queues and no more servers than the 1024
  links a walk follows; behind them the code would not find the end of the list,
  and would not append;
* `ChainEnds` (`ChainsResume`): the chain comes to its end within `kMaxChainTags`
  tags, has a tag wherever it leads and nests its calls at most two deep. Of a
  third call the channel has no register for the return address.

The hypotheses about the devices are evaluated on the instance the run `devices`
checks (`MCDevicesAssumption`).

`PermitNotStranded`, `SurvivesUntilRun`, `RegistrySound` (placeholders until the pool has come
round), `CompletionIsOwn` (the same of the packets), `StepHaltsAtOnce` (a halt was
reported) and `AnswerIsOwn` (the mailbox was free) carry their hypothesis in the
property, as in the runs.

### Only model-checked

* The liveness properties: fairness and `ENABLED` are out of the prover's reach.

Every invariant and action property that a passing run checks is also a theorem.

## Plan

What is left, in this order:

1. The type predicates of the devices (`HeapTypeOK` to `DmaTypeOK`) as theorems;
   the invariants above carry only the types their arguments need.
2. The interrupt worker's start and stop, modelled like the alarm worker's, and the
   tables that `notifyRuntimeStop` clears.
3. The hazards without a property (`PROJECT.json`): each needs a promise of the code
   to check against.

## Not modelled

* Game overrides, GS and rasteriser, VU1 and IOP interpreters, MPEG, audio: most
  of the source's lines. They are patches of one game's functions, pixel and
  sample processing and floating-point or instruction interpretation. They hold
  data rather than control, their values are outside what TLC can enumerate, and
  the repository's tests cover them.
* GUI, studio and scripts: user interface and tools.
* Recompiler and analyzer: batch translation of one file, where nothing is
  concurrent and nothing is kept; a model would repeat the code.
* File, CD and card stubs: host I/O answered within the call.
* Fibers: the context switch itself, which `Scheduler` takes as atomic.
* Of the modelled parts: the interrupt worker's start and stop, and the part of
  `notifyRuntimeStop` that clears the handler, vsync, semaphore and event-flag
  tables; DMA channels other than the GIF's and VIF1's, VIF unpacking, an image of
  PATH2 that continues in the next transfer, and address translation; the semaphore
  `SifCallRpc` signals for a completion; the sound services behind the RPC servers.
