--------------------------- MODULE SchedulerProofs ---------------------------
(***************************************************************************)
(* The scheduler's queue and slot invariants and its wait protocol, for    *)
(* any set of fibers, workers and priorities and any mix of operations.    *)
(* The first three theorems follow from one inductive invariant, IInv; the *)
(* fourth from IInv and WakeInv.                                           *)
(***************************************************************************)
EXTENDS Scheduler, RunQueueProofs

-----------------------------------------------------------------------------
(* The inductive invariant *)

\* The queue part of QueueWellFormed on explicit values.
QWF(q, pr, st) ==
    /\ q \in Seq(Fibers)
    /\ Sorted(q, pr)
    /\ NoDuplicates(q)
    /\ \A f \in Fibers : InRunQueue(q, f) <=> st[f] = "Ready"

\* Where control is: the executing fiber is off the queue, and a fiber inside
\* create_fiber keeps the slot while the new identifier stays unused.
ControlInv ==
    /\ exec \in {"guest", "post"} => running \in Fibers
    /\ exec = "guest" => state[running] \notin {"Ready", "Absent"}
    /\ \A f \in Fibers : pc[f] = "create" =>
          /\ running = f /\ exec = "guest"
          /\ target[f] \in Fibers
          /\ state[target[f]] = "Absent" /\ generation[target[f]] < MaxGeneration
    /\ \A f \in Fibers : pc[f] = "join" => target[f] \in Fibers
    /\ SlotExclusive

IInv == TypeOK /\ ControlInv /\ QWF(run_queue, priority, state)

\* The assumptions on the constants that the steps use.
LEMMA Constants ==
    /\ Boot \in Fibers /\ NoOne \notin Fibers /\ NoOne \notin Workers
    /\ Prios \subseteq Int /\ 0 \notin Prios
    /\ MaxGeneration \in Nat \ {0} /\ EscapeLimit \in Nat \ {0}
  BY SchedulerAssumption

\* Priorities are integers, so the queue order is the integers' order.
LEMMA PriorityIsInt == ASSUME TypeOK PROVE priority \in [Fibers -> Int]
  BY Constants DEF TypeOK

-----------------------------------------------------------------------------
(* The shared steps *)

\* A fiber off the queue may change to any other state than Ready.
LEMMA StateOffQueue ==
    ASSUME NEW f \in Fibers, NEW v, v # "Ready", state \in [Fibers -> States],
           state[f] # "Ready", QWF(run_queue, priority, state)
    PROVE  QWF(run_queue, priority, [state EXCEPT ![f] = v])
  BY DEF QWF

\* enqueue_locked leaves the fiber queued and Ready, and nothing else changed.
LEMMA EnqueueLocked ==
    ASSUME TypeOK, QWF(run_queue, priority, state), NEW f \in Fibers, enqueue_locked(f)
    PROVE  /\ QWF(run_queue', priority, state')
           /\ state' \in [Fibers -> States]
           /\ state'[f] = "Ready"
           /\ \A g \in Fibers \ {f} : state'[g] = state[g]
<1>1. priority \in [Fibers -> Int] /\ run_queue \in Seq(Fibers)
      /\ state \in [Fibers -> States] /\ "Ready" \in States
  BY PriorityIsInt DEF TypeOK, States
<1>2. /\ run_queue' \in Seq(Fibers)
      /\ Sorted(run_queue', priority)
      /\ NoDuplicates(run_queue')
      /\ \A g : InRunQueue(run_queue', g) <=> InRunQueue(run_queue, g) \/ g = f
  BY <1>1, EnqueueKeeps DEF enqueue_locked, QWF
<1>3. /\ state' \in [Fibers -> States]
      /\ state'[f] = "Ready"
      /\ \A g \in Fibers \ {f} : state'[g] = state[g]
  BY <1>1 DEF enqueue_locked, Queued, QWF
<1>. QED  BY <1>2, <1>3 DEF QWF

\* wake_locked never touches the state of the running fiber.
LEMMA WakeLocked ==
    ASSUME TypeOK, QWF(run_queue, priority, state), NEW f \in Fibers, wake_locked(f)
    PROVE  /\ QWF(run_queue', priority, state')
           /\ state' \in [Fibers -> States]
           /\ wake_pending' \in [Fibers -> BOOLEAN]
           /\ \A g \in Fibers \ {f} : state'[g] = state[g]
           /\ state'[f] = state[f] \/ (running # f /\ state'[f] = "Ready")
<1>1. CASE Queued(f) /\ UNCHANGED queueVars
  BY <1>1 DEF queueVars, TypeOK
<1>2. CASE /\ running = f
           /\ wake_pending' = [wake_pending EXCEPT ![f] = TRUE]
           /\ UNCHANGED <<run_queue, state>>
  BY <1>2 DEF TypeOK
<1>3. CASE running # f /\ enqueue_locked(f) /\ UNCHANGED wake_pending
  BY <1>3, EnqueueLocked DEF TypeOK
<1>. QED  BY <1>1, <1>2, <1>3 DEF wake_locked

\* suspend_other: the fiber is off the queue, or was before.
LEMMA SuspendOther ==
    ASSUME TypeOK, QWF(run_queue, priority, state), NEW t \in Fibers, suspend_other(t)
    PROVE  /\ QWF(run_queue', priority, state')
           /\ state' \in [Fibers -> States]
           /\ suspendCount' \in [Fibers -> Nat]
           /\ \A g \in Fibers \ {t} : state'[g] = state[g]
           /\ state'[t] = state[t] \/ (state[t] = "Ready" /\ state'[t] = "Blocked")
<1>1. priority \in [Fibers -> Int] /\ run_queue \in Seq(Fibers)
      /\ state \in [Fibers -> States] /\ "Blocked" \in States
  BY PriorityIsInt DEF TypeOK, States
<1>s. suspendCount' \in [Fibers -> Nat]
  <2>1. suspendCount' = [suspendCount EXCEPT ![t] = @ + 1]
    BY DEF suspend_other
  <2>. QED  BY <2>1 DEF TypeOK
<1>2. CASE state[t] = "Ready"
  <2>1. /\ run_queue' \in Seq(Fibers)
        /\ Sorted(run_queue', priority)
        /\ NoDuplicates(run_queue')
        /\ \A g : InRunQueue(run_queue', g) <=> InRunQueue(run_queue, g) /\ g # t
    BY <1>1, <1>2, UnlinkKeeps DEF suspend_other, QWF
  <2>2. state' = [state EXCEPT ![t] = "Blocked"]
    BY <1>2 DEF suspend_other
  <2>. QED  BY <1>1, <1>2, <1>s, <2>1, <2>2 DEF QWF
<1>3. CASE state[t] # "Ready"
  BY <1>1, <1>3, <1>s DEF suspend_other
<1>. QED  BY <1>s, <1>2, <1>3

\* update_priority re-inserts a queued fiber at its new place.
LEMMA UpdatePriority ==
    ASSUME TypeOK, QWF(run_queue, priority, state), NEW t \in Fibers, NEW p \in Prios,
           update_priority(t, p)
    PROVE  /\ QWF(run_queue', priority', state)
           /\ priority' \in [Fibers -> Prios]
           /\ joinSaved' \in [Fibers -> Prios \cup {0}]
           /\ currentPriority' \in [Fibers -> Prios]
<1>1. /\ priority' \in [Fibers -> Prios]
      /\ joinSaved' \in [Fibers -> Prios \cup {0}]
      /\ currentPriority' \in [Fibers -> Prios]
  BY ZenonT(60) DEF update_priority, TypeOK
<1>2. priority \in [Fibers -> Int] /\ priority' \in [Fibers -> Int] /\ run_queue \in Seq(Fibers)
  BY <1>1, Constants DEF TypeOK
<1>3. CASE UNCHANGED <<priority, run_queue>>
  BY <1>1, <1>3
<1>4. CASE /\ priority' = [priority EXCEPT ![t] = p]
           /\ run_queue' = IF Queued(t) /\ priority[t] # p
                           THEN Enqueue(Unlink(run_queue, t), priority', t)
                           ELSE run_queue
  <2> DEFINE u == Unlink(run_queue, t)
  <2>1. CASE Queued(t) /\ priority[t] # p
    <3>1. /\ u \in Seq(Fibers) /\ Sorted(u, priority) /\ NoDuplicates(u)
          /\ \A g : InRunQueue(u, g) <=> InRunQueue(run_queue, g) /\ g # t
      BY <1>2, UnlinkKeeps DEF QWF
    <3>2. run_queue' = Enqueue(u, priority', t)
      BY <1>4, <2>1
    <3>. HIDE DEF u
    <3>3. Sorted(u, priority')
      <4>1. \A g \in Fibers : InRunQueue(u, g) => priority'[g] = priority[g]
        BY <1>2, <1>4, <3>1
      <4>. QED  BY <1>2, <3>1, <4>1, SortedOffQueue
    <3>4. /\ run_queue' \in Seq(Fibers) /\ Sorted(run_queue', priority')
          /\ NoDuplicates(run_queue')
          /\ \A g : InRunQueue(run_queue', g) <=> InRunQueue(u, g) \/ g = t
      BY <1>2, <3>1, <3>2, <3>3, EnqueueKeeps
    <3>5. \A g \in Fibers : InRunQueue(run_queue', g) <=> InRunQueue(run_queue, g)
      BY <2>1, <3>1, <3>4 DEF Queued
    <3>. QED  BY <1>1, <3>4, <3>5 DEF QWF
  <2>2. CASE ~Queued(t)
    <3>1. run_queue' = run_queue
      BY <1>4, <2>2
    <3>2. \A g \in Fibers : InRunQueue(run_queue, g) => priority'[g] = priority[g]
      BY <1>2, <1>4, <2>2 DEF Queued
    <3>3. Sorted(run_queue, priority')
      BY <1>2, <3>2, SortedOffQueue DEF QWF
    <3>. QED  BY <1>1, <3>1, <3>3 DEF QWF
  <2>3. CASE priority[t] = p
    <3>1. priority' = priority
      BY <1>4, <2>3 DEF TypeOK
    <3>2. run_queue' = run_queue
      BY <1>4, <2>3
    <3>. QED  BY <1>1, <3>1, <3>2
  <2>. QED  BY <2>1, <2>2, <2>3
<1>. QED  BY <1>3, <1>4 DEF update_priority

-----------------------------------------------------------------------------
(* Every step keeps the invariant *)

USE DEF queueVars, execVars, tokenVars, stopVars, gateVars, prioVars, ctlVars, infoVars

\* scheduler_init and the first create_fiber establish the invariant.
LEMMA InitKeeps == Init => IInv
<1>. SUFFICES ASSUME Init PROVE IInv
  OBVIOUS
<1>1. TypeOK
  <2>1. /\ run_queue \in Seq(Fibers)
        /\ priority \in [Fibers -> Prios] /\ currentPriority \in [Fibers -> Prios]
    BY Constants DEF Init
  <2>2. /\ state \in [Fibers -> States] /\ pc \in [Fibers -> Places]
        /\ generation \in [Fibers -> 0..MaxGeneration]
        /\ targetGen \in [Fibers -> 0..MaxGeneration]
        /\ joinSaved \in [Fibers -> Prios \cup {0}]
        /\ target \in [Fibers -> Fibers \cup {NoOne}]
        /\ suspendCount \in [Fibers -> Nat] /\ infoSuspend \in [Fibers -> Nat]
    BY Constants DEF Init, States, Places
  <2>3. /\ wake_pending \in [Fibers -> BOOLEAN] /\ terminateRequested \in [Fibers -> BOOLEAN]
        /\ hook \in [Fibers -> BOOLEAN] /\ cond \in [Fibers -> BOOLEAN]
        /\ terminated \in [Fibers -> BOOLEAN]
    BY DEF Init
  <2>4. /\ running = NoOne /\ exec = "check" /\ deferring = "no" /\ asleep = {}
        /\ holder = NoOne /\ waiters = {} /\ stop = FALSE /\ sweep = {}
        /\ intr = 0 /\ calls = {}
    BY DEF Init
  <2>5. stop \in BOOLEAN
    BY <2>4
  <2>6. calls \in SUBSET Calls
    BY <2>4
  <2>7. intr \in 0..EscapeLimit
    BY <2>4, Constants
  <2>. QED  BY <2>1, <2>2, <2>3, <2>4, <2>5, <2>6, <2>7, Zenon DEF TypeOK
<1>2. ControlInv
  BY Constants DEF Init, ControlInv, SlotExclusive
<1>3. QWF(run_queue, priority, state)
  BY Constants DEF Init, QWF, Sorted, NoDuplicates, InRunQueue
<1>. QED  BY <1>1, <1>2, <1>3 DEF IInv

\* The executor's own steps.
LEMMA ExecutorKeeps == ASSUME IInv, Executor PROVE IInv'
<1>0. TypeOK /\ ControlInv /\ QWF(run_queue, priority, state)
  BY DEF IInv
<1>1. CASE ExecutorQuit
  BY <1>0, <1>1 DEF ExecutorQuit, AtPredicate, IInv, TypeOK, ControlInv, SlotExclusive, QWF
<1>2. CASE ExecutorResume
  <2>1. /\ Head(run_queue) \in Fibers /\ Tail(run_queue) \in Seq(Fibers)
        /\ Sorted(Tail(run_queue), priority)
        /\ NoDuplicates(Tail(run_queue))
        /\ \A g : InRunQueue(Tail(run_queue), g)
                    <=> InRunQueue(run_queue, g) /\ g # Head(run_queue)
    BY <1>0, <1>2, TailKeeps, PriorityIsInt DEF ExecutorResume, canPick, QWF
  <2>2. state' = [state EXCEPT ![Head(run_queue)] = "Running"]
        /\ run_queue' = Tail(run_queue) /\ priority' = priority
        /\ running' = Head(run_queue) /\ exec \in {"check", "locked"} /\ exec' = "guest"
        /\ holder = NoOne /\ holder' = NoOne
    BY <1>2 DEF ExecutorResume, AtPredicate, canPick
  <2>3. TypeOK'
    BY <1>0, <1>2, <2>1, <2>2 DEF ExecutorResume, TypeOK, States
  <2>4. ControlInv'
    BY <1>0, <1>2, <2>1, <2>2 DEF ExecutorResume, TypeOK, ControlInv, SlotExclusive
  <2>5. QWF(run_queue, priority, state)'
    BY <1>0, <2>1, <2>2 DEF TypeOK, QWF
  <2>. QED  BY <2>3, <2>4, <2>5 DEF IInv
<1>3. CASE ExecutorSleep
  BY <1>0, <1>3 DEF ExecutorSleep, AtPredicate, IInv, TypeOK, ControlInv, SlotExclusive, QWF
<1>4. CASE PostResume
  <2>0. running \in Fibers /\ running' = NoOne /\ exec = "post" /\ exec' \in {"reap", "locked"}
        /\ priority' = priority
    BY <1>0, <1>4 DEF PostResume, ControlInv
  <2>1. /\ QWF(run_queue', priority, state')
        /\ state' \in [Fibers -> States]
        /\ wake_pending' \in [Fibers -> BOOLEAN]
        /\ pc' \in [Fibers -> Places]
        /\ \A f \in Fibers : pc'[f] = pc[f] \/ pc'[f] = "none"
    <3> DEFINE f == running
    <3>1. CASE enqueue_locked(f) /\ UNCHANGED pc /\ wake_pending' \in [Fibers -> BOOLEAN]
      BY <1>0, <2>0, <3>1, EnqueueLocked DEF TypeOK
    <3>2. CASE UNCHANGED <<queueVars, pc>>
      BY <1>0, <3>2 DEF TypeOK
    <3>3. CASE /\ state[f] = "Finished" /\ state' = [state EXCEPT ![f] = "Absent"]
               /\ pc' = [pc EXCEPT ![f] = "none"]
               /\ UNCHANGED <<run_queue, wake_pending>>
      <4>1. QWF(run_queue, priority, state')
        BY <1>0, <2>0, <3>3, StateOffQueue DEF TypeOK
      <4>. QED  BY <1>0, <2>0, <3>3, <4>1 DEF TypeOK, States, Places
    <3>4. wake_pending' = wake_pending \/ wake_pending' = [wake_pending EXCEPT ![f] = FALSE]
      BY <1>4 DEF PostResume
    <3>5. wake_pending' \in [Fibers -> BOOLEAN]
      BY <1>0, <3>4 DEF TypeOK
    <3>6. \/ enqueue_locked(f) /\ UNCHANGED pc
          \/ UNCHANGED <<queueVars, pc>>
          \/ /\ state[f] = "Finished" /\ state' = [state EXCEPT ![f] = "Absent"]
             /\ pc' = [pc EXCEPT ![f] = "none"]
             /\ UNCHANGED <<run_queue, wake_pending>>
      BY <1>4 DEF PostResume
    <3>. QED  BY <3>1, <3>2, <3>3, <3>5, <3>6
  <2>2. TypeOK'
    BY <1>0, <1>4, <2>0, <2>1 DEF PostResume, TypeOK, QWF
  <2>3. ControlInv'
    BY <1>0, <1>4, <2>0, <2>1 DEF PostResume, TypeOK, ControlInv, SlotExclusive
  <2>. QED  BY <2>0, <2>1, <2>2, <2>3 DEF IInv, QWF
<1>5. CASE Reap
  BY <1>0, <1>5 DEF Reap, IInv, TypeOK, ControlInv, SlotExclusive, QWF
<1>. QED  BY <1>1, <1>2, <1>3, <1>4, <1>5 DEF Executor

\* The host workers, and a spurious wakeup of the condition variable.
LEMMA WorkerKeeps == ASSUME IInv, NEW w \in Workers, Worker(w) PROVE IInv'
<1>0. TypeOK /\ ControlInv /\ QWF(run_queue, priority, state)
  BY DEF IInv
<1>1. CASE PublishWaiter(w)
  BY <1>0, <1>1 DEF PublishWaiter, IInv, TypeOK, ControlInv, SlotExclusive, QWF
<1>2. CASE async_guest_begin(w)
  BY <1>0, <1>2 DEF async_guest_begin, IInv, TypeOK, ControlInv, SlotExclusive, QWF
<1>3. CASE async_guest_end(w)
  BY <1>0, <1>3 DEF async_guest_end, notify_all, IInv, TypeOK, ControlInv, SlotExclusive, QWF
<1>. QED  BY <1>1, <1>2, <1>3 DEF Worker

\* A spurious wakeup of g_sched_cv keeps the invariant.
LEMMA SpuriousWakeupKeeps == ASSUME IInv, SpuriousWakeup PROVE IInv'
<1>0. TypeOK /\ ControlInv /\ QWF(run_queue, priority, state)
  BY DEF IInv
<1>. QED  BY <1>0 DEF SpuriousWakeup, IInv, TypeOK, ControlInv, SlotExclusive, QWF

\* What every step of the executing fiber f has in common: f's state changes to
\* one that is off the queue, or f enqueues itself and yields; control of the
\* other fibers stays where it is.
LEMMA FiberFrame ==
    ASSUME IInv, NEW f \in Fibers, Executing(f),
           \/ UNCHANGED <<run_queue, state>>
           \/ /\ \E v \in {"Running", "Exiting", "Blocked", "Finished"} :
                    state' = [state EXCEPT ![f] = v]
              /\ UNCHANGED run_queue
           \/ enqueue_locked(f) /\ exec' = "post",
           exec' \in {"guest", "post"}, NEW place \in Places \ {"create", "join"},
           pc' = [pc EXCEPT ![f] = place],
           UNCHANGED <<running, holder, priority, target, generation>>
    PROVE  /\ ControlInv' /\ QWF(run_queue, priority, state)'
           /\ run_queue' \in Seq(Fibers)
           /\ state' \in [Fibers -> States]
           /\ pc' \in [Fibers -> Places]
<1>0. TypeOK /\ ControlInv /\ QWF(run_queue, priority, state)
  BY DEF IInv
<1>1. /\ running = f /\ exec = "guest"
      /\ state[f] \notin {"Ready", "Absent"} /\ state \in [Fibers -> States]
  BY <1>0 DEF Executing, ControlInv, TypeOK
<1>2. /\ QWF(run_queue', priority, state')
      /\ state' \in [Fibers -> States]
      /\ \A g \in Fibers \ {f} : state'[g] = state[g]
      /\ state'[f] \notin {"Ready", "Absent"} \/ exec' = "post"
  <2>1. CASE UNCHANGED <<run_queue, state>>
    BY <1>0, <1>1, <2>1
  <2>2. CASE /\ \E v \in {"Running", "Exiting", "Blocked", "Finished"} :
                    state' = [state EXCEPT ![f] = v]
             /\ UNCHANGED run_queue
    <3>1. PICK v \in {"Running", "Exiting", "Blocked", "Finished"} :
                    state' = [state EXCEPT ![f] = v]
      BY <2>2
    <3>2. QWF(run_queue, priority, state')
      BY <1>0, <1>1, <3>1, StateOffQueue
    <3>. QED  BY <1>1, <2>2, <3>1, <3>2 DEF States
  <2>3. CASE enqueue_locked(f) /\ exec' = "post"
    BY <1>0, <2>3, EnqueueLocked
  <2>. QED  BY <2>1, <2>2, <2>3
<1>3. /\ pc' \in [Fibers -> Places]
      /\ pc'[f] \notin {"create", "join"}
      /\ \A g \in Fibers \ {f} : pc'[g] = pc[g]
  BY <1>0 DEF TypeOK
<1>4. ControlInv'
  BY <1>0, <1>1, <1>2, <1>3 DEF ControlInv, SlotExclusive
<1>. QED  BY <1>2, <1>3, <1>4 DEF QWF

\* A fiber with no system call in progress is in neither create_fiber nor
\* join_fiber.
LEMMA HomeIsPlace ==
    ASSUME NEW f \in Fibers
    PROVE  Home(f) \in {"run", "hook"} /\ Home(f) \in Places \ {"create", "join"}
  BY DEF Home, Places

\* The decision of a wait loop keeps the invariant: at most the executing fiber
\* becomes Exiting.
LEMMA CheckConditionKeeps ==
    ASSUME IInv, NEW f \in Fibers, Executing(f), CheckCondition(f)
    PROVE  IInv'
<1>0. TypeOK /\ ControlInv /\ QWF(run_queue, priority, state)
  BY DEF IInv
<1>1. Executing(f) /\ running = f /\ exec = "guest"
  BY DEF CheckCondition, Executing, AtHome
<1>2. PICK place \in Places \ {"create", "join"} : pc' = [pc EXCEPT ![f] = place]
  BY <1>0, <1>1, HomeIsPlace DEF CheckCondition, Unwind, Goto, Places, TypeOK
<1>3. \/ UNCHANGED <<run_queue, state>>
      \/ /\ \E v \in {"Running", "Exiting", "Blocked", "Finished"} :
               state' = [state EXCEPT ![f] = v]
         /\ UNCHANGED run_queue
      \/ enqueue_locked(f) /\ exec' = "post"
  BY <1>1 DEF CheckCondition, Unwind, Goto
<1>4. exec' \in {"guest", "post"} /\ UNCHANGED <<running, holder, priority, target, generation>>
  BY <1>1 DEF CheckCondition, Unwind, Goto
<1>5. /\ ControlInv' /\ QWF(run_queue, priority, state)'
      /\ run_queue' \in Seq(Fibers)
      /\ state' \in [Fibers -> States]
      /\ pc' \in [Fibers -> Places]
  BY <1>1, <1>2, <1>3, <1>4, FiberFrame
<1>6. TypeOK'
  BY <1>0, <1>1, <1>4, <1>5, Constants DEF CheckCondition, Unwind, Goto, TypeOK
<1>. QED  BY <1>5, <1>6 DEF IInv

\* arm_park marks the executing fiber, which is off the queue, Blocked.
LEMMA arm_parkKeeps == ASSUME IInv, NEW f \in Fibers, arm_park(f) PROVE IInv'
<1>0. TypeOK /\ ControlInv /\ QWF(run_queue, priority, state)
  BY DEF IInv
<1>1. Executing(f) /\ running = f /\ exec = "guest"
  BY DEF arm_park, Executing, AtHome
<1>2. PICK place \in Places \ {"create", "join"} : pc' = [pc EXCEPT ![f] = place]
  BY <1>0, <1>1, HomeIsPlace DEF arm_park, Goto, Places, TypeOK
<1>3. \/ UNCHANGED <<run_queue, state>>
      \/ /\ \E v \in {"Running", "Exiting", "Blocked", "Finished"} :
               state' = [state EXCEPT ![f] = v]
         /\ UNCHANGED run_queue
      \/ enqueue_locked(f) /\ exec' = "post"
  BY <1>1 DEF arm_park, Goto
<1>4. exec' \in {"guest", "post"} /\ UNCHANGED <<running, holder, priority, target, generation>>
  BY <1>1 DEF arm_park, Goto
<1>5. /\ ControlInv' /\ QWF(run_queue, priority, state)'
      /\ run_queue' \in Seq(Fibers)
      /\ state' \in [Fibers -> States]
      /\ pc' \in [Fibers -> Places]
  BY <1>1, <1>2, <1>3, <1>4, FiberFrame
<1>6. TypeOK'
  BY <1>0, <1>1, <1>4, <1>5, Constants DEF arm_park, Goto, TypeOK
<1>. QED  BY <1>5, <1>6 DEF IInv

\* block_current leaves the executing fiber Running, Exiting or Blocked, never
\* queued.
LEMMA block_currentKeeps == ASSUME IInv, NEW f \in Fibers, block_current(f) PROVE IInv'
<1>0. TypeOK /\ ControlInv /\ QWF(run_queue, priority, state)
  BY DEF IInv
<1>1. Executing(f) /\ running = f /\ exec = "guest"
  BY DEF block_current, Executing, AtHome
<1>2. PICK place \in Places \ {"create", "join"} : pc' = [pc EXCEPT ![f] = place]
  BY <1>0, <1>1, HomeIsPlace DEF block_current, AfterBlock, Goto, ps2fiber_yield, Places, TypeOK
<1>3. \/ UNCHANGED <<run_queue, state>>
      \/ /\ \E v \in {"Running", "Exiting", "Blocked", "Finished"} :
               state' = [state EXCEPT ![f] = v]
         /\ UNCHANGED run_queue
      \/ enqueue_locked(f) /\ exec' = "post"
  BY <1>1 DEF block_current, AfterBlock, Goto, ps2fiber_yield
<1>4. exec' \in {"guest", "post"} /\ UNCHANGED <<running, holder, priority, target, generation>>
  BY <1>1 DEF block_current, AfterBlock, Goto, ps2fiber_yield
<1>5. /\ ControlInv' /\ QWF(run_queue, priority, state)'
      /\ run_queue' \in Seq(Fibers)
      /\ state' \in [Fibers -> States]
      /\ pc' \in [Fibers -> Places]
  BY <1>1, <1>2, <1>3, <1>4, FiberFrame
<1>6. TypeOK'
  BY <1>0, <1>1, <1>4, <1>5, Constants, ZenonT(60)
     DEF block_current, AfterBlock, Goto, ps2fiber_yield, TypeOK
<1>. QED  BY <1>5, <1>6 DEF IInv

\* The exits of waitWhileSuspended keep the invariant.
LEMMA waitWhileSuspendedKeeps == ASSUME IInv, NEW f \in Fibers, waitWhileSuspended(f) PROVE IInv'
<1>0. TypeOK /\ ControlInv /\ QWF(run_queue, priority, state)
  BY DEF IInv
<1>1. Executing(f) /\ running = f /\ exec = "guest"
  BY DEF waitWhileSuspended, Executing, AtHome
<1>2. PICK place \in Places \ {"create", "join"} : pc' = [pc EXCEPT ![f] = place]
  BY <1>0, <1>1, HomeIsPlace DEF waitWhileSuspended, Unwind, Goto, Places, TypeOK
<1>3. \/ UNCHANGED <<run_queue, state>>
      \/ /\ \E v \in {"Running", "Exiting", "Blocked", "Finished"} :
               state' = [state EXCEPT ![f] = v]
         /\ UNCHANGED run_queue
      \/ enqueue_locked(f) /\ exec' = "post"
  BY <1>1 DEF waitWhileSuspended, Unwind, Goto
<1>4. exec' \in {"guest", "post"} /\ UNCHANGED <<running, holder, priority, target, generation>>
  BY <1>1 DEF waitWhileSuspended, Unwind, Goto
<1>5. /\ ControlInv' /\ QWF(run_queue, priority, state)'
      /\ run_queue' \in Seq(Fibers)
      /\ state' \in [Fibers -> States]
      /\ pc' \in [Fibers -> Places]
  BY <1>1, <1>2, <1>3, <1>4, FiberFrame
<1>6. TypeOK'
  BY <1>0, <1>1, <1>4, <1>5, Constants DEF waitWhileSuspended, Unwind, Goto, TypeOK
<1>. QED  BY <1>5, <1>6 DEF IInv

\* SuspendThread on the caller keeps the invariant: it only counts.
LEMMA SuspendThreadSelfKeeps == ASSUME IInv, NEW f \in Fibers, SuspendThreadSelf(f) PROVE IInv'
<1>0. TypeOK /\ ControlInv /\ QWF(run_queue, priority, state)
  BY DEF IInv
<1>1. Executing(f) /\ running = f /\ exec = "guest"
  BY DEF SuspendThreadSelf, Executing, AtHome
<1>2. PICK place \in Places \ {"create", "join"} : pc' = [pc EXCEPT ![f] = place]
  BY <1>0, <1>1, HomeIsPlace DEF SuspendThreadSelf, AtHome, Unwind, Goto, Places, TypeOK
<1>3. \/ UNCHANGED <<run_queue, state>>
      \/ /\ \E v \in {"Running", "Exiting", "Blocked", "Finished"} :
               state' = [state EXCEPT ![f] = v]
         /\ UNCHANGED run_queue
      \/ enqueue_locked(f) /\ exec' = "post"
  BY <1>1 DEF SuspendThreadSelf, AtHome, Unwind, Goto
<1>4. exec' \in {"guest", "post"} /\ UNCHANGED <<running, holder, priority, target, generation>>
  BY <1>1 DEF SuspendThreadSelf, AtHome, Unwind, Goto
<1>5. /\ ControlInv' /\ QWF(run_queue, priority, state)'
      /\ run_queue' \in Seq(Fibers)
      /\ state' \in [Fibers -> States]
      /\ pc' \in [Fibers -> Places]
  BY <1>1, <1>2, <1>3, <1>4, FiberFrame
<1>i. infoSuspend' \in [Fibers -> Nat]
  BY <1>0 DEF SuspendThreadSelf, TypeOK
<1>h. hook' = hook \/ hook' = [hook EXCEPT ![f] = TRUE]
  BY DEF SuspendThreadSelf, Unwind
<1>6. TypeOK'
  BY <1>0, <1>5, <1>i, <1>h DEF SuspendThreadSelf, TypeOK
<1>. QED  BY <1>5, <1>6 DEF IInv

\* suspend_self's count keeps the invariant.
LEMMA suspend_selfKeeps == ASSUME IInv, NEW f \in Fibers, suspend_self(f) PROVE IInv'
<1>0. TypeOK /\ ControlInv /\ QWF(run_queue, priority, state)
  BY DEF IInv
<1>1. Executing(f) /\ running = f /\ exec = "guest"
  BY DEF suspend_self, Executing, AtHome
<1>2. PICK place \in Places \ {"create", "join"} : pc' = [pc EXCEPT ![f] = place]
  BY <1>0, <1>1, HomeIsPlace DEF suspend_self, Goto, Places, TypeOK
<1>3. \/ UNCHANGED <<run_queue, state>>
      \/ /\ \E v \in {"Running", "Exiting", "Blocked", "Finished"} :
               state' = [state EXCEPT ![f] = v]
         /\ UNCHANGED run_queue
      \/ enqueue_locked(f) /\ exec' = "post"
  BY <1>1 DEF suspend_self, Goto
<1>4. exec' \in {"guest", "post"} /\ UNCHANGED <<running, holder, priority, target, generation>>
  BY <1>1 DEF suspend_self, Goto
<1>5. /\ ControlInv' /\ QWF(run_queue, priority, state)'
      /\ run_queue' \in Seq(Fibers)
      /\ state' \in [Fibers -> States]
      /\ pc' \in [Fibers -> Places]
  BY <1>1, <1>2, <1>3, <1>4, FiberFrame
<1>6. TypeOK'
  BY <1>0, <1>1, <1>4, <1>5, Constants, SMTT(30) DEF suspend_self, Goto, TypeOK
<1>. QED  BY <1>5, <1>6 DEF IInv

\* SuspendThread's return keeps the invariant.
LEMMA SuspendReturnKeeps == ASSUME IInv, NEW f \in Fibers, SuspendReturn(f) PROVE IInv'
<1>0. TypeOK /\ ControlInv /\ QWF(run_queue, priority, state)
  BY DEF IInv
<1>1. Executing(f) /\ running = f /\ exec = "guest"
  BY DEF SuspendReturn, Executing, AtHome
<1>2. PICK place \in Places \ {"create", "join"} : pc' = [pc EXCEPT ![f] = place]
  BY <1>0, <1>1, HomeIsPlace DEF SuspendReturn, Unwind, Goto, Places, TypeOK
<1>3. \/ UNCHANGED <<run_queue, state>>
      \/ /\ \E v \in {"Running", "Exiting", "Blocked", "Finished"} :
               state' = [state EXCEPT ![f] = v]
         /\ UNCHANGED run_queue
      \/ enqueue_locked(f) /\ exec' = "post"
  BY <1>1 DEF SuspendReturn, Unwind, Goto
<1>4. exec' \in {"guest", "post"} /\ UNCHANGED <<running, holder, priority, target, generation>>
  BY <1>1 DEF SuspendReturn, Unwind, Goto
<1>5. /\ ControlInv' /\ QWF(run_queue, priority, state)'
      /\ run_queue' \in Seq(Fibers)
      /\ state' \in [Fibers -> States]
      /\ pc' \in [Fibers -> Places]
  BY <1>1, <1>2, <1>3, <1>4, FiberFrame
<1>6. TypeOK'
  BY <1>0, <1>1, <1>4, <1>5, Constants DEF SuspendReturn, Unwind, Goto, TypeOK
<1>. QED  BY <1>5, <1>6 DEF IInv

\* maybe_yield and force_reschedule queue the caller and give up the slot in one
\* step.
LEMMA RescheduleKeeps == ASSUME IInv, NEW f \in Fibers, Reschedule(f) PROVE IInv'
<1>0. TypeOK /\ ControlInv /\ QWF(run_queue, priority, state)
  BY DEF IInv
<1>1. Executing(f) /\ running = f /\ exec = "guest"
  BY DEF Reschedule, Executing, AtHome
<1>2. PICK place \in Places \ {"create", "join"} : pc' = [pc EXCEPT ![f] = place]
  BY <1>0, <1>1, HomeIsPlace DEF Reschedule, Goto, ps2fiber_yield, Places, TypeOK
<1>3. \/ UNCHANGED <<run_queue, state>>
      \/ /\ \E v \in {"Running", "Exiting", "Blocked", "Finished"} :
               state' = [state EXCEPT ![f] = v]
         /\ UNCHANGED run_queue
      \/ enqueue_locked(f) /\ exec' = "post"
  BY <1>1 DEF Reschedule, Goto, ps2fiber_yield
<1>4. exec' \in {"guest", "post"} /\ UNCHANGED <<running, holder, priority, target, generation>>
  BY <1>1 DEF Reschedule, Goto, ps2fiber_yield
<1>5. /\ ControlInv' /\ QWF(run_queue, priority, state)'
      /\ run_queue' \in Seq(Fibers)
      /\ state' \in [Fibers -> States]
      /\ pc' \in [Fibers -> Places]
  BY <1>1, <1>2, <1>3, <1>4, FiberFrame
<1>6. TypeOK'
  BY <1>0, <1>1, <1>4, <1>5, Constants DEF Reschedule, Goto, ps2fiber_yield, TypeOK
<1>. QED  BY <1>5, <1>6 DEF IInv

\* The gates of yield_point keep the invariant.
LEMMA YieldPointGatesKeeps == ASSUME IInv, NEW f \in Fibers, YieldPointGates(f) PROVE IInv'
<1>0. TypeOK /\ ControlInv /\ QWF(run_queue, priority, state)
  BY DEF IInv
<1>1. Executing(f) /\ running = f /\ exec = "guest"
  BY DEF YieldPointGates, Executing, AtHome
<1>2. PICK place \in Places \ {"create", "join"} : pc' = [pc EXCEPT ![f] = place]
  BY <1>0, <1>1, HomeIsPlace, ZenonT(60) DEF YieldPointGates, AtHome, Unwind, Goto, Places, TypeOK
<1>3. \/ UNCHANGED <<run_queue, state>>
      \/ /\ \E v \in {"Running", "Exiting", "Blocked", "Finished"} :
               state' = [state EXCEPT ![f] = v]
         /\ UNCHANGED run_queue
      \/ enqueue_locked(f) /\ exec' = "post"
  BY <1>1 DEF YieldPointGates, AtHome, Unwind, Goto
<1>4. exec' \in {"guest", "post"} /\ UNCHANGED <<running, holder, priority, target, generation>>
  BY <1>1 DEF YieldPointGates, AtHome, Unwind, Goto
<1>5. /\ ControlInv' /\ QWF(run_queue, priority, state)'
      /\ run_queue' \in Seq(Fibers)
      /\ state' \in [Fibers -> States]
      /\ pc' \in [Fibers -> Places]
  BY <1>1, <1>2, <1>3, <1>4, FiberFrame
<1>i. intr' \in 0..EscapeLimit
  BY <1>0, Constants DEF YieldPointGates, TypeOK
<1>h. hook' = hook \/ hook' = [hook EXCEPT ![f] = TRUE]
  BY DEF YieldPointGates, Unwind
<1>6. TypeOK'
  BY <1>0, <1>5, <1>i, <1>h DEF YieldPointGates, TypeOK
<1>. QED  BY <1>5, <1>6 DEF IInv

\* yield_point past its gates: the caller is queued only as it yields.
LEMMA YieldPointKeeps == ASSUME IInv, NEW f \in Fibers, YieldPoint(f) PROVE IInv'
<1>0. TypeOK /\ ControlInv /\ QWF(run_queue, priority, state)
  BY DEF IInv
<1>1. Executing(f) /\ running = f /\ exec = "guest"
  BY DEF YieldPoint, Executing, AtHome
<1>2. PICK place \in Places \ {"create", "join"} : pc' = [pc EXCEPT ![f] = place]
  <2>1. CASE pc' = [pc EXCEPT ![f] = "yp4"] \/ pc' = [pc EXCEPT ![f] = "yp5"]
    BY <2>1 DEF Places
  <2>2. CASE pc' = pc
    <3>1. pc' = [pc EXCEPT ![f] = Home(f)]
      BY <1>0, <2>2 DEF YieldPoint, AtHome, TypeOK
    <3>. QED  BY <3>1, HomeIsPlace
  <2>. QED  BY <2>1, <2>2 DEF YieldPoint, Goto
<1>3. \/ UNCHANGED <<run_queue, state>>
      \/ /\ \E v \in {"Running", "Exiting", "Blocked", "Finished"} :
               state' = [state EXCEPT ![f] = v]
         /\ UNCHANGED run_queue
      \/ enqueue_locked(f) /\ exec' = "post"
  BY <1>1 DEF YieldPoint, AtHome, Goto, ps2fiber_yield
<1>4. exec' \in {"guest", "post"} /\ UNCHANGED <<running, holder, priority, target, generation>>
  BY <1>1 DEF YieldPoint, AtHome, Goto, ps2fiber_yield
<1>5. /\ ControlInv' /\ QWF(run_queue, priority, state)'
      /\ run_queue' \in Seq(Fibers)
      /\ state' \in [Fibers -> States]
      /\ pc' \in [Fibers -> Places]
  BY <1>1, <1>2, <1>3, <1>4, FiberFrame
<1>6. TypeOK'
  BY <1>0, <1>1, <1>4, <1>5, Constants, SMTT(30)
     DEF YieldPoint, AtHome, Goto, ps2fiber_yield, TypeOK
<1>. QED  BY <1>5, <1>6 DEF IInv

\* yield_point's return keeps the invariant.
LEMMA YieldPointReturnKeeps == ASSUME IInv, NEW f \in Fibers, YieldPointReturn(f) PROVE IInv'
<1>0. TypeOK /\ ControlInv /\ QWF(run_queue, priority, state)
  BY DEF IInv
<1>1. Executing(f) /\ running = f /\ exec = "guest"
  BY DEF YieldPointReturn, Executing, AtHome
<1>2. PICK place \in Places \ {"create", "join"} : pc' = [pc EXCEPT ![f] = place]
  BY <1>0, <1>1, HomeIsPlace DEF YieldPointReturn, Unwind, Goto, ps2fiber_yield, Places, TypeOK
<1>3. \/ UNCHANGED <<run_queue, state>>
      \/ /\ \E v \in {"Running", "Exiting", "Blocked", "Finished"} :
               state' = [state EXCEPT ![f] = v]
         /\ UNCHANGED run_queue
      \/ enqueue_locked(f) /\ exec' = "post"
  BY <1>1 DEF YieldPointReturn, Unwind, Goto, ps2fiber_yield
<1>4. exec' \in {"guest", "post"} /\ UNCHANGED <<running, holder, priority, target, generation>>
  BY <1>1 DEF YieldPointReturn, Unwind, Goto, ps2fiber_yield
<1>5. /\ ControlInv' /\ QWF(run_queue, priority, state)'
      /\ run_queue' \in Seq(Fibers)
      /\ state' \in [Fibers -> States]
      /\ pc' \in [Fibers -> Places]
  BY <1>1, <1>2, <1>3, <1>4, FiberFrame
<1>6. TypeOK'
  BY <1>0, <1>1, <1>4, <1>5, Constants DEF YieldPointReturn, Unwind, Goto, ps2fiber_yield, TypeOK
<1>. QED  BY <1>5, <1>6 DEF IInv

\* di and ei keep the invariant.
LEMMA SetInterruptsKeeps == ASSUME IInv, NEW f \in Fibers, SetInterrupts(f) PROVE IInv'
<1>0. TypeOK /\ ControlInv /\ QWF(run_queue, priority, state)
  BY DEF IInv
<1>1. Executing(f) /\ running = f /\ exec = "guest"
  BY DEF SetInterrupts, Executing, AtHome
<1>2. PICK place \in Places \ {"create", "join"} : pc' = [pc EXCEPT ![f] = place]
  BY <1>0, <1>1, HomeIsPlace DEF SetInterrupts, AtHome, Places, TypeOK
<1>3. \/ UNCHANGED <<run_queue, state>>
      \/ /\ \E v \in {"Running", "Exiting", "Blocked", "Finished"} :
               state' = [state EXCEPT ![f] = v]
         /\ UNCHANGED run_queue
      \/ enqueue_locked(f) /\ exec' = "post"
  BY <1>1 DEF SetInterrupts, AtHome
<1>4. exec' \in {"guest", "post"} /\ UNCHANGED <<running, holder, priority, target, generation>>
  BY <1>1 DEF SetInterrupts, AtHome
<1>5. /\ ControlInv' /\ QWF(run_queue, priority, state)'
      /\ run_queue' \in Seq(Fibers)
      /\ state' \in [Fibers -> States]
      /\ pc' \in [Fibers -> Places]
  BY <1>1, <1>2, <1>3, <1>4, FiberFrame
<1>6. TypeOK'
  BY <1>0, <1>1, <1>4, <1>5, Constants, SMTT(30) DEF SetInterrupts, AtHome, TypeOK
<1>. QED  BY <1>5, <1>6 DEF IInv

\* The end of the dispatch loop only marks the executing fiber Exiting.
LEMMA DispatchLoopEndsKeeps == ASSUME IInv, NEW f \in Fibers, DispatchLoopEnds(f) PROVE IInv'
<1>0. TypeOK /\ ControlInv /\ QWF(run_queue, priority, state)
  BY DEF IInv
<1>1. Executing(f) /\ running = f /\ exec = "guest"
  BY DEF DispatchLoopEnds, Executing, AtHome
<1>2. PICK place \in Places \ {"create", "join"} : pc' = [pc EXCEPT ![f] = place]
  BY <1>0, <1>1, HomeIsPlace DEF DispatchLoopEnds, Unwind, Places, TypeOK
<1>3. \/ UNCHANGED <<run_queue, state>>
      \/ /\ \E v \in {"Running", "Exiting", "Blocked", "Finished"} :
               state' = [state EXCEPT ![f] = v]
         /\ UNCHANGED run_queue
      \/ enqueue_locked(f) /\ exec' = "post"
  BY <1>1 DEF DispatchLoopEnds, Unwind
<1>4. exec' \in {"guest", "post"} /\ UNCHANGED <<running, holder, priority, target, generation>>
  BY <1>1 DEF DispatchLoopEnds, Unwind
<1>5. /\ ControlInv' /\ QWF(run_queue, priority, state)'
      /\ run_queue' \in Seq(Fibers)
      /\ state' \in [Fibers -> States]
      /\ pc' \in [Fibers -> Places]
  BY <1>1, <1>2, <1>3, <1>4, FiberFrame
<1>6. TypeOK'
  BY <1>0, <1>1, <1>4, <1>5, Constants DEF DispatchLoopEnds, Unwind, TypeOK
<1>. QED  BY <1>5, <1>6 DEF IInv

\* The end of the exit hook only marks the executing fiber Finished.
LEMMA FiberFinishedKeeps == ASSUME IInv, NEW f \in Fibers, FiberFinished(f) PROVE IInv'
<1>0. TypeOK /\ ControlInv /\ QWF(run_queue, priority, state)
  BY DEF IInv
<1>1. Executing(f) /\ running = f /\ exec = "guest"
  BY DEF FiberFinished, Executing, AtHome
<1>2. PICK place \in Places \ {"create", "join"} : pc' = [pc EXCEPT ![f] = place]
  BY <1>0, <1>1, HomeIsPlace DEF FiberFinished, ps2fiber_yield, Places, TypeOK
<1>3. \/ UNCHANGED <<run_queue, state>>
      \/ /\ \E v \in {"Running", "Exiting", "Blocked", "Finished"} :
               state' = [state EXCEPT ![f] = v]
         /\ UNCHANGED run_queue
      \/ enqueue_locked(f) /\ exec' = "post"
  BY <1>1 DEF FiberFinished, ps2fiber_yield
<1>4. exec' \in {"guest", "post"} /\ UNCHANGED <<running, holder, priority, target, generation>>
  BY <1>1 DEF FiberFinished, ps2fiber_yield
<1>5. /\ ControlInv' /\ QWF(run_queue, priority, state)'
      /\ run_queue' \in Seq(Fibers)
      /\ state' \in [Fibers -> States]
      /\ pc' \in [Fibers -> Places]
  BY <1>1, <1>2, <1>3, <1>4, FiberFrame
<1>6. TypeOK'
  BY <1>0, <1>1, <1>4, <1>5, Constants DEF FiberFinished, ps2fiber_yield, TypeOK
<1>. QED  BY <1>5, <1>6 DEF IInv

-----------------------------------------------------------------------------
(* Operations on another fiber *)

\* An operation of the slot owner: no fiber is inside create_fiber, and only the
\* caller's own control moves.
LEMMA CallerFrame ==
    ASSUME IInv, NEW next \in {"maybe_yield", "force_reschedule", "return"}, Caller(next),
           state' \in [Fibers -> States],
           running \in Fibers => state'[running] = state[running],
           exec' = exec \/ (exec = "asleep" /\ exec' = "check"),
           UNCHANGED <<running, holder, target, generation>>
    PROVE  ControlInv' /\ pc' \in [Fibers -> Places]
<1>0. TypeOK /\ ControlInv
  BY DEF IInv
<1>1. CASE holder # NoOne /\ UNCHANGED pc
  <2>1. running = NoOne
    BY <1>0, <1>1 DEF ControlInv, SlotExclusive
  <2>. QED  BY <1>0, <1>1, <2>1, Constants DEF TypeOK, ControlInv, SlotExclusive
<1>2. CASE /\ exec = "guest" /\ pc[running] = Home(running)
           /\ pc' = [pc EXCEPT ![running] = IF next = "return" THEN Home(running) ELSE next]
  <2>1. running \in Fibers
    BY <1>0, <1>2 DEF ControlInv
  <2>2. /\ pc' \in [Fibers -> Places]
        /\ pc'[running] \notin {"create", "join"}
        /\ pc[running] \notin {"create", "join"}
        /\ \A g \in Fibers \ {running} : pc'[g] = pc[g]
    BY <1>0, <1>2, <2>1, HomeIsPlace DEF TypeOK, Places
  <2>3. \A g \in Fibers : pc'[g] # "create"
    BY <1>0, <2>1, <2>2 DEF ControlInv
  <2>. QED  BY <1>0, <1>2, <2>1, <2>2, <2>3 DEF ControlInv, SlotExclusive
<1>. QED  BY <1>1, <1>2 DEF Caller

\* A step beside the running fiber: an unused identifier stays unused and the
\* executing fiber's state stays.
LEMMA HostFrame ==
    ASSUME IInv, state' \in [Fibers -> States],
           \A g \in Fibers : \/ state'[g] = state[g]
                             \/ g # running /\ state[g] # "Absent"
                             \/ state[g] = "Ready",
           exec' = exec \/ (exec = "asleep" /\ exec' = "check"),
           UNCHANGED <<running, holder, pc, target, generation>>
    PROVE  ControlInv'
<1>0. TypeOK /\ ControlInv
  BY DEF IInv
<1>. QED  BY <1>0 DEF TypeOK, ControlInv, SlotExclusive

\* notify_all moves nobody but sleepers.
LEMMA NotifyAll ==
    ASSUME TypeOK, notify_all
    PROVE  /\ exec' = exec \/ (exec = "asleep" /\ exec' = "check")
           /\ exec' \in {"check", "asleep", "guest", "post", "reap", "locked", "quit"}
           /\ asleep' \in SUBSET Workers
  BY DEF notify_all, TypeOK

\* What make_ready and enqueue_external_wakeup_validated do: a wake of a live
\* fiber, or nothing.
WakeOrNothing(t) ==
    /\ (Live(t) /\ wake_locked(t)) \/ UNCHANGED queueVars
    /\ notify_all \/ UNCHANGED <<exec, asleep>>

\* A wake that may find the fiber absent, suspended or recycled.
LEMMA WakeUnless ==
    ASSUME TypeOK, QWF(run_queue, priority, state), NEW t \in Fibers, WakeOrNothing(t)
    PROVE  /\ QWF(run_queue', priority, state')
           /\ state' \in [Fibers -> States]
           /\ wake_pending' \in [Fibers -> BOOLEAN]
           /\ \A g \in Fibers \ {t} : state'[g] = state[g]
           /\ state'[t] = state[t] \/ (running # t /\ Live(t) /\ state'[t] = "Ready")
           /\ exec' = exec \/ (exec = "asleep" /\ exec' = "check")
           /\ exec' \in {"check", "asleep", "guest", "post", "reap", "locked", "quit"}
           /\ asleep' \in SUBSET Workers
<1>1. /\ exec' = exec \/ (exec = "asleep" /\ exec' = "check")
      /\ exec' \in {"check", "asleep", "guest", "post", "reap", "locked", "quit"}
      /\ asleep' \in SUBSET Workers
  BY NotifyAll DEF WakeOrNothing, TypeOK
<1>2. CASE Live(t) /\ wake_locked(t)
  BY <1>1, <1>2, WakeLocked
<1>3. CASE UNCHANGED queueVars
  BY <1>1, <1>3 DEF TypeOK
<1>. QED  BY <1>2, <1>3 DEF WakeOrNothing

\* A signal to another thread keeps the invariant.
LEMMA SignalKeeps == ASSUME IInv, NEW t \in Targets, Signal(t) PROVE IInv'
<1>0. TypeOK /\ ControlInv /\ QWF(run_queue, priority, state)
  BY DEF IInv
<1>1. t \in Fibers /\ t # running
  BY DEF Targets
<1>2. WakeOrNothing(t) /\ Caller("maybe_yield")
      /\ UNCHANGED <<running, holder, target, generation, priority>>
  BY DEF Signal, make_ready, WakeOrNothing
<1>3. /\ QWF(run_queue', priority, state')
      /\ state' \in [Fibers -> States]
      /\ wake_pending' \in [Fibers -> BOOLEAN]
      /\ \A g \in Fibers \ {t} : state'[g] = state[g]
      /\ exec' = exec \/ (exec = "asleep" /\ exec' = "check")
      /\ exec' \in {"check", "asleep", "guest", "post", "reap", "locked", "quit"}
      /\ asleep' \in SUBSET Workers
  BY <1>0, <1>1, <1>2, WakeUnless
<1>5. ControlInv' /\ pc' \in [Fibers -> Places]
  BY <1>1, <1>2, <1>3, CallerFrame
<1>6. TypeOK'
  BY <1>0, <1>1, <1>3, <1>5 DEF Signal, TypeOK, QWF
<1>. QED  BY <1>2, <1>3, <1>5, <1>6 DEF IInv, QWF

\* SuspendThread on another thread keeps the invariant.
LEMMA SuspendThreadKeeps == ASSUME IInv, NEW t \in Targets, SuspendThread(t) PROVE IInv'
<1>0. TypeOK /\ ControlInv /\ QWF(run_queue, priority, state)
  BY DEF IInv
<1>1. t \in Fibers /\ t # running
  BY DEF Targets
<1>2. suspend_other(t) /\ Caller("return")
      /\ UNCHANGED <<running, holder, target, generation, priority, exec>>
  BY DEF SuspendThread
<1>3. /\ QWF(run_queue', priority, state')
      /\ state' \in [Fibers -> States]
      /\ suspendCount' \in [Fibers -> Nat]
      /\ \A g \in Fibers \ {t} : state'[g] = state[g]
  BY <1>0, <1>1, <1>2, SuspendOther
<1>5. ControlInv' /\ pc' \in [Fibers -> Places]
  BY <1>1, <1>2, <1>3, CallerFrame
<1>i. infoSuspend' \in [Fibers -> Nat]
  BY <1>0, <1>1 DEF SuspendThread, TypeOK
<1>6. TypeOK'
  BY <1>0, <1>1, <1>3, <1>5, <1>i DEF SuspendThread, TypeOK, QWF
<1>. QED  BY <1>2, <1>3, <1>5, <1>6 DEF IInv, QWF

\* ResumeThread on another thread keeps the invariant.
LEMMA ResumeThreadKeeps == ASSUME IInv, NEW t \in Targets, ResumeThread(t) PROVE IInv'
<1>0. TypeOK /\ ControlInv /\ QWF(run_queue, priority, state)
  BY DEF IInv
<1>1. t \in Fibers /\ t # running
  BY DEF Targets
<1>2. UNCHANGED <<running, holder, target, generation, priority>>
  BY DEF ResumeThread
<1>3. \/ clear_suspend(t) /\ Caller("maybe_yield")
      \/ UNCHANGED <<queueVars, suspendCount, exec, asleep>> /\ Caller("return")
  BY DEF ResumeThread
<1>4. /\ QWF(run_queue', priority, state')
      /\ state' \in [Fibers -> States]
      /\ wake_pending' \in [Fibers -> BOOLEAN]
      /\ suspendCount' \in [Fibers -> Nat]
      /\ \A g \in Fibers \ {t} : state'[g] = state[g]
      /\ exec' = exec \/ (exec = "asleep" /\ exec' = "check")
      /\ exec' \in {"check", "asleep", "guest", "post", "reap", "locked", "quit"}
      /\ asleep' \in SUBSET Workers
  <2>1. CASE clear_suspend(t)
    <3>1. suspendCount' = [suspendCount EXCEPT ![t] = 0] /\ wake_locked(t) /\ notify_all
      BY <2>1 DEF clear_suspend
    <3>2. suspendCount' \in [Fibers -> Nat]
      BY <1>0, <3>1 DEF TypeOK
    <3>. QED  BY <1>0, <1>1, <3>1, <3>2, WakeLocked, NotifyAll
  <2>2. CASE UNCHANGED <<queueVars, suspendCount, exec, asleep>>
    BY <1>0, <2>2 DEF TypeOK
  <2>. QED  BY <1>3, <2>1, <2>2
<1>5. ControlInv' /\ pc' \in [Fibers -> Places]
  BY <1>1, <1>2, <1>3, <1>4, CallerFrame
<1>i. infoSuspend' \in [Fibers -> Nat]
  BY <1>0, <1>1 DEF ResumeThread, TypeOK
<1>6. TypeOK'
  BY <1>0, <1>1, <1>4, <1>5, <1>i DEF ResumeThread, TypeOK, QWF
<1>. QED  BY <1>2, <1>4, <1>5, <1>6 DEF IInv, QWF

\* TerminateThread keeps the invariant and leaves the caller a fiber to join.
LEMMA TerminateThreadKeeps ==
    ASSUME IInv, NEW f \in Fibers, NEW t \in Targets, TerminateThread(f, t)
    PROVE  IInv'
<1>0. TypeOK /\ ControlInv /\ QWF(run_queue, priority, state)
  BY DEF IInv
<1>1. /\ t \in Fibers /\ t # running /\ running = f /\ exec = "guest"
      /\ pc[f] \notin {"create", "join"}
  BY <1>0, HomeIsPlace DEF Targets, TerminateThread, AtHome, Executing
<1>2. /\ wake_locked(t) /\ notify_all
      /\ suspendCount' = [suspendCount EXCEPT ![t] = 0]
      /\ terminateRequested' = [terminateRequested EXCEPT ![t] = TRUE]
      /\ pc' = [pc EXCEPT ![f] = "join"]
      /\ target' = [target EXCEPT ![f] = t]
      /\ UNCHANGED <<running, holder, generation, priority>>
  BY DEF TerminateThread, request_terminate, Goto
<1>3. /\ QWF(run_queue', priority, state')
      /\ state' \in [Fibers -> States]
      /\ wake_pending' \in [Fibers -> BOOLEAN]
      /\ \A g \in Fibers \ {t} : state'[g] = state[g]
  BY <1>0, <1>1, <1>2, WakeLocked
<1>4. exec' = "guest" /\ asleep' \in SUBSET Workers
  BY <1>0, <1>1, <1>2, NotifyAll
<1>5. ControlInv'
  <2>1. \A g \in Fibers : pc'[g] # "create"
    BY <1>0, <1>1, <1>2 DEF TypeOK, ControlInv
  <2>2. \A g \in Fibers : pc'[g] = "join" => target'[g] \in Fibers
    BY <1>0, <1>1, <1>2 DEF TypeOK, ControlInv
  <2>. QED  BY <1>0, <1>1, <1>2, <1>3, <1>4, <2>1, <2>2 DEF ControlInv, SlotExclusive
<1>6. TypeOK'
  <2>1. /\ suspendCount' \in [Fibers -> Nat]
        /\ pc' \in [Fibers -> Places]
        /\ target' \in [Fibers -> Fibers \cup {NoOne}]
        /\ targetGen' \in [Fibers -> 0..MaxGeneration]
    BY <1>0, <1>1, <1>2 DEF TerminateThread, TypeOK, Places
  <2>2. terminateRequested' \in [Fibers -> BOOLEAN] /\ terminated' \in [Fibers -> BOOLEAN]
    BY <1>0, <1>1, <1>2 DEF TerminateThread, TypeOK
  <2>. QED  BY <1>0, <1>3, <1>4, <2>1, <2>2 DEF TerminateThread, TypeOK, QWF
<1>. QED  BY <1>2, <1>3, <1>5, <1>6 DEF IInv, QWF

\* join_fiber moves the priority of a fiber that is off the queue.
LEMMA join_fiberKeeps == ASSUME IInv, NEW f \in Fibers, join_fiber(f) PROVE IInv'
<1>0. TypeOK /\ ControlInv /\ QWF(run_queue, priority, state)
  BY DEF IInv
<1>1. /\ running = f /\ exec = "guest" /\ pc[f] = "join"
      /\ UNCHANGED <<queueVars, running, holder, generation>>
  BY DEF join_fiber, Executing
<1>2. target[f] \in Fibers /\ state[f] # "Ready"
  BY <1>0, <1>1 DEF ControlInv
<1>3. /\ priority' \in [Fibers -> Prios]
      /\ joinSaved' \in [Fibers -> Prios \cup {0}]
      /\ \A g \in Fibers \ {f} : priority'[g] = priority[g]
  BY <1>0, <1>2, ZenonT(60) DEF join_fiber, TypeOK
<1>4. QWF(run_queue', priority', state')
  <2>1. priority \in [Fibers -> Int] /\ priority' \in [Fibers -> Int] /\ run_queue \in Seq(Fibers)
    BY <1>0, <1>3, Constants DEF TypeOK
  <2>2. \A g \in Fibers : InRunQueue(run_queue, g) => priority'[g] = priority[g]
    BY <1>0, <1>2, <1>3 DEF QWF
  <2>3. Sorted(run_queue, priority')
    BY <1>0, <2>1, <2>2, SortedOffQueue DEF QWF
  <2>. QED  BY <1>0, <1>1, <2>3 DEF QWF
<1>5. /\ exec' \in {"guest", "post"}
      /\ \/ UNCHANGED <<pc, target, targetGen>>
         \/ /\ pc' = [pc EXCEPT ![f] = Home(f)]
            /\ target' = [target EXCEPT ![f] = NoOne]
            /\ targetGen' = [targetGen EXCEPT ![f] = 0]
  BY <1>1 DEF join_fiber, ps2fiber_yield, Goto
<1>6. /\ pc' \in [Fibers -> Places]
      /\ target' \in [Fibers -> Fibers \cup {NoOne}]
      /\ targetGen' \in [Fibers -> 0..MaxGeneration]
      /\ \A g \in Fibers : pc'[g] # "create"
      /\ \A g \in Fibers : pc'[g] = "join" => target'[g] \in Fibers
  <2>1. \A g \in Fibers : pc[g] # "create"
    BY <1>0, <1>1 DEF ControlInv
  <2>2. CASE UNCHANGED <<pc, target, targetGen>>
    BY <1>0, <2>1, <2>2 DEF TypeOK, ControlInv
  <2>3. CASE /\ pc' = [pc EXCEPT ![f] = Home(f)]
             /\ target' = [target EXCEPT ![f] = NoOne]
             /\ targetGen' = [targetGen EXCEPT ![f] = 0]
    <3>1. Home(f) \in Places \ {"create", "join"}
      BY HomeIsPlace
    <3>2. targetGen' \in [Fibers -> 0..MaxGeneration]
      BY <1>0, <2>3, Constants DEF TypeOK
    <3>. QED  BY <1>0, <2>1, <2>3, <3>1, <3>2 DEF TypeOK, ControlInv
  <2>. QED  BY <1>5, <2>2, <2>3
<1>7. ControlInv'
  BY <1>0, <1>1, <1>5, <1>6 DEF ControlInv, SlotExclusive
<1>8. TypeOK'
  BY <1>0, <1>1, <1>3, <1>5, <1>6 DEF join_fiber, TypeOK
<1>. QED  BY <1>4, <1>7, <1>8 DEF IInv, QWF

\* ChangeThreadPriority keeps the invariant.
LEMMA ChangeThreadPriorityKeeps ==
    ASSUME IInv, NEW t \in Fibers, NEW p \in Prios, ChangeThreadPriority(t, p)
    PROVE  IInv'
<1>0. TypeOK /\ ControlInv /\ QWF(run_queue, priority, state)
  BY DEF IInv
<1>1. /\ update_priority(t, p) /\ Caller("force_reschedule")
      /\ UNCHANGED <<running, holder, target, generation, state, exec>>
  BY DEF ChangeThreadPriority
<1>2. /\ QWF(run_queue', priority', state)
      /\ priority' \in [Fibers -> Prios]
      /\ joinSaved' \in [Fibers -> Prios \cup {0}]
      /\ currentPriority' \in [Fibers -> Prios]
  BY <1>0, <1>1, UpdatePriority
<1>3. ControlInv' /\ pc' \in [Fibers -> Places]
  BY <1>0, <1>1, CallerFrame DEF TypeOK
<1>4. TypeOK'
  BY <1>0, <1>2, <1>3 DEF ChangeThreadPriority, TypeOK, QWF
<1>. QED  BY <1>1, <1>2, <1>3, <1>4 DEF IInv, QWF

\* RotateThreadReadyQueue keeps the invariant.
LEMMA RotateThreadReadyQueueKeeps ==
    ASSUME IInv, NEW p \in Prios, RotateThreadReadyQueue(p)
    PROVE  IInv'
<1>0. TypeOK /\ ControlInv /\ QWF(run_queue, priority, state)
  BY DEF IInv
<1>1. /\ run_queue' = Rotate(run_queue, priority, p) /\ Caller("maybe_yield")
      /\ UNCHANGED <<running, holder, target, generation, state, exec, priority>>
  BY DEF RotateThreadReadyQueue
<1>2. QWF(run_queue', priority, state)
  <2>1. priority \in [Fibers -> Int] /\ p \in Int
    BY <1>0, Constants, PriorityIsInt
  <2>. QED  BY <1>0, <1>1, <2>1, RotateKeeps DEF QWF
<1>3. ControlInv' /\ pc' \in [Fibers -> Places]
  BY <1>0, <1>1, CallerFrame DEF TypeOK
<1>4. TypeOK'
  BY <1>0, <1>2, <1>3 DEF RotateThreadReadyQueue, TypeOK, QWF
<1>. QED  BY <1>1, <1>2, <1>3, <1>4 DEF IInv, QWF

\* StartThread's first critical section finds an unused identifier.
LEMMA StartThreadKeeps ==
    ASSUME IInv, NEW f \in Fibers, NEW t \in Fibers, StartThread(f, t)
    PROVE  IInv'
<1>0. TypeOK /\ ControlInv /\ QWF(run_queue, priority, state)
  BY DEF IInv
<1>1. /\ running = f /\ exec = "guest" /\ pc[f] \notin {"create", "join"}
      /\ state[t] = "Absent" /\ generation[t] < MaxGeneration
      /\ pc' = [pc EXCEPT ![f] = "create"]
      /\ target' = [target EXCEPT ![f] = t]
      /\ UNCHANGED <<queueVars, execVars, tokenVars, priority, generation>>
  BY <1>0, HomeIsPlace DEF StartThread, AtHome, Executing, Goto
<1>2. ControlInv'
  <2>1. \A g \in Fibers \ {f} : pc'[g] = pc[g] /\ target'[g] = target[g] /\ pc'[g] # "create"
    BY <1>0, <1>1 DEF TypeOK, ControlInv
  <2>2. pc'[f] = "create" /\ target'[f] = t
    BY <1>0, <1>1 DEF TypeOK
  <2>. QED  BY <1>0, <1>1, <2>1, <2>2 DEF ControlInv, SlotExclusive
<1>3. TypeOK'
  BY <1>0, <1>1 DEF StartThread, TypeOK, Places
<1>. QED  BY <1>0, <1>1, <1>2, <1>3 DEF IInv, QWF

\* create_fiber gives an unused identifier a new fiber and queues it.
LEMMA create_fiberKeeps ==
    ASSUME IInv, NEW f \in Fibers, NEW p \in Prios, create_fiber(f, p)
    PROVE  IInv'
<1>0. TypeOK /\ ControlInv /\ QWF(run_queue, priority, state)
  BY DEF IInv
<1> DEFINE t == target[f]
<1>1. /\ running = f /\ exec = "guest" /\ pc[f] = "create"
      /\ t \in Fibers /\ state[t] = "Absent" /\ generation[t] < MaxGeneration
      /\ state[f] \notin {"Ready", "Absent"} /\ t # f
  BY <1>0 DEF create_fiber, Executing, ControlInv
<1>2. /\ generation' = [generation EXCEPT ![t] = @ + 1]
      /\ priority' = [priority EXCEPT ![t] = p]
      /\ run_queue' = Enqueue(run_queue, priority', t)
      /\ state' = [state EXCEPT ![t] = "Ready"]
      /\ pc' = [pc EXCEPT ![f] = "maybe_yield", ![t] = "run"]
      /\ target' = [target EXCEPT ![f] = NoOne]
      /\ notify_all
      /\ UNCHANGED <<running, holder>>
  BY DEF create_fiber
<1>3. QWF(run_queue', priority', state')
  <2>1. priority \in [Fibers -> Int] /\ priority' \in [Fibers -> Int] /\ run_queue \in Seq(Fibers)
    BY <1>0, <1>2, Constants DEF TypeOK
  <2>2. \A g \in Fibers : InRunQueue(run_queue, g) => priority'[g] = priority[g]
    BY <1>0, <1>1, <1>2 DEF QWF, TypeOK
  <2>3. Sorted(run_queue, priority')
    BY <1>0, <2>1, <2>2, SortedOffQueue DEF QWF
  <2>4. /\ run_queue' \in Seq(Fibers) /\ Sorted(run_queue', priority')
        /\ NoDuplicates(run_queue')
        /\ \A g : InRunQueue(run_queue', g) <=> InRunQueue(run_queue, g) \/ g = t
    <3>1. NoDuplicates(run_queue) /\ t \in Fibers /\ run_queue' = Enqueue(run_queue, priority', t)
      BY <1>0, <1>1, <1>2 DEF QWF
    <3>. HIDE DEF t
    <3>. QED  BY <2>1, <2>3, <3>1, EnqueueKeeps
  <2>. QED  BY <1>0, <1>1, <1>2, <2>4 DEF QWF, TypeOK
<1>4. exec' = "guest" /\ asleep' \in SUBSET Workers
  BY <1>0, <1>1, <1>2, NotifyAll
<1>5. /\ generation' \in [Fibers -> 0..MaxGeneration]
      /\ priority' \in [Fibers -> Prios]
      /\ currentPriority' \in [Fibers -> Prios]
      /\ suspendCount' \in [Fibers -> Nat]
  BY <1>0, <1>1, <1>2, Constants, SMTT(30) DEF create_fiber, TypeOK
<1>6. /\ state' \in [Fibers -> States]
      /\ pc' \in [Fibers -> Places]
      /\ target' \in [Fibers -> Fibers \cup {NoOne}]
  BY <1>0, <1>1, <1>2 DEF TypeOK, States, Places
<1>7. /\ wake_pending' \in [Fibers -> BOOLEAN]
      /\ terminateRequested' \in [Fibers -> BOOLEAN]
      /\ hook' \in [Fibers -> BOOLEAN]
  BY <1>0, <1>1 DEF create_fiber, TypeOK
<1>8. TypeOK'
  BY <1>0, <1>3, <1>4, <1>5, <1>6, <1>7 DEF create_fiber, TypeOK, QWF
<1>9. ControlInv'
  <2>1. \A g \in Fibers : pc'[g] # "create"
    BY <1>0, <1>1, <1>2 DEF TypeOK, ControlInv
  <2>2. \A g \in Fibers : pc'[g] = "join" => pc[g] = "join" /\ g # f
    BY <1>0, <1>1, <1>2 DEF TypeOK
  <2>3. state'[f] = state[f] /\ \A g \in Fibers \ {f} : target'[g] = target[g]
    BY <1>0, <1>1, <1>2 DEF TypeOK
  <2>. QED  BY <1>0, <1>1, <1>2, <1>4, <2>1, <2>2, <2>3 DEF ControlInv, SlotExclusive
<1>. QED  BY <1>3, <1>8, <1>9 DEF IInv, QWF

-----------------------------------------------------------------------------
(* Host threads and shutdown *)

\* The first half of a host call touches no scheduler state.
LEMMA HostBeginKeeps ==
    ASSUME IInv, NEW op \in HostOps, NEW t \in Fibers, HostBegin(op, t)
    PROVE  IInv'
<1>0. TypeOK /\ ControlInv /\ QWF(run_queue, priority, state)
  BY DEF IInv
<1>1. UNCHANGED <<queueVars, execVars, tokenVars, priority, pc, target, generation>>
  BY DEF HostBegin
<1>2. ControlInv'
  BY <1>0, <1>1 DEF ControlInv, SlotExclusive
<1>3. infoSuspend' \in [Fibers -> Nat]
  <2>1. infoSuspend \in [Fibers -> Nat]
    BY <1>0 DEF TypeOK
  <2>2. \/ infoSuspend' = infoSuspend
        \/ infoSuspend' = [infoSuspend EXCEPT ![t] = @ + 1]
        \/ infoSuspend[t] > 0 /\ infoSuspend' = [infoSuspend EXCEPT ![t] = @ - 1]
    BY DEF HostBegin
  <2>. QED  BY <2>1, <2>2
<1>4. cond' \in [Fibers -> BOOLEAN] /\ terminated' \in [Fibers -> BOOLEAN]
  BY <1>0 DEF HostBegin, TypeOK
<1>5. calls' \in SUBSET Calls
  <2>1. calls \in SUBSET Calls /\ generation[t] \in 0..MaxGeneration
    BY <1>0 DEF TypeOK
  <2>2. op \in CallOps
    BY DEF HostBegin, CallOps
  <2>3. [op |-> op, tid |-> t, gen |-> generation[t]] \in Calls
    BY <2>1, <2>2 DEF Calls
  <2>4. \/ calls' = calls
        \/ calls' = calls \cup {[op |-> op, tid |-> t, gen |-> generation[t]]}
    BY DEF HostBegin
  <2>. QED  BY <2>1, <2>3, <2>4
<1>6. TypeOK'
  BY <1>0, <1>3, <1>4, <1>5 DEF HostBegin, TypeOK
<1>. QED  BY <1>0, <1>1, <1>2, <1>6 DEF IInv, QWF

\* What a wake, suspend or terminate of fiber t by a host thread, or a visit of
\* scheduler_shutdown, leaves true.
BesideStep(t) ==
    /\ QWF(run_queue', priority, state')
    /\ state' \in [Fibers -> States]
    /\ wake_pending' \in [Fibers -> BOOLEAN]
    /\ suspendCount' \in [Fibers -> Nat]
    /\ \A g \in Fibers : \/ state'[g] = state[g]
                         \/ g # running /\ state[g] # "Absent"
                         \/ state[g] = "Ready"

\* A wake of a fiber that is not Absent.
LEMMA WakeBeside ==
    ASSUME TypeOK, QWF(run_queue, priority, state), NEW t \in Fibers, wake_locked(t),
           suspendCount' \in [Fibers -> Nat], Live(t)
    PROVE  BesideStep(t)
  BY WakeLocked DEF BesideStep, Live

\* The second half of a host call.
LEMMA HostEndKeeps == ASSUME IInv, NEW c \in calls, HostEnd(c) PROVE IInv'
<1>0. TypeOK /\ ControlInv /\ QWF(run_queue, priority, state)
  BY DEF IInv
<1>1. c \in Calls /\ c.tid \in Fibers
  BY <1>0 DEF TypeOK, Calls
<1> DEFINE t == c.tid
           notified == /\ exec' = exec \/ (exec = "asleep" /\ exec' = "check")
                       /\ exec' \in {"check", "asleep", "guest", "post", "reap", "locked", "quit"}
                       /\ asleep' \in SUBSET Workers
<1>2. UNCHANGED <<running, holder, priority, pc, target, generation>>
  BY DEF HostEnd
<1>4. /\ BesideStep(t) /\ notified
      /\ terminateRequested' \in [Fibers -> BOOLEAN]
  <2>0. suspendCount \in [Fibers -> Nat] /\ terminateRequested \in [Fibers -> BOOLEAN]
    BY <1>0 DEF TypeOK
  <2>n. notify_all => notified
    BY <1>0, NotifyAll
  <2>u. UNCHANGED <<exec, asleep>> => notified
    BY <1>0 DEF TypeOK
  <2>1. CASE WakeOrNothing(t) /\ UNCHANGED gateVars
    <3>1. suspendCount' \in [Fibers -> Nat] /\ terminateRequested' \in [Fibers -> BOOLEAN]
      BY <2>0, <2>1
    <3>2. /\ QWF(run_queue', priority, state')
          /\ state' \in [Fibers -> States]
          /\ wake_pending' \in [Fibers -> BOOLEAN]
          /\ \A g \in Fibers \ {t} : state'[g] = state[g]
          /\ state'[t] = state[t] \/ (running # t /\ Live(t) /\ state'[t] = "Ready")
          /\ notified
      BY <1>0, <1>1, <2>1, WakeUnless
    <3>3. BesideStep(t)
      BY <3>1, <3>2 DEF BesideStep, Live
    <3>. QED  BY <3>1, <3>2, <3>3
  <2>2. CASE /\ Live(t) /\ suspend_other(t)
             /\ UNCHANGED <<wake_pending, terminateRequested, exec, asleep>>
    <3>1. /\ QWF(run_queue', priority, state')
          /\ state' \in [Fibers -> States]
          /\ suspendCount' \in [Fibers -> Nat]
          /\ \A g \in Fibers \ {t} : state'[g] = state[g]
          /\ state'[t] = state[t] \/ (state[t] = "Ready" /\ state'[t] = "Blocked")
      BY <1>0, <1>1, <2>2, SuspendOther
    <3>2. wake_pending' \in [Fibers -> BOOLEAN] /\ terminateRequested' \in [Fibers -> BOOLEAN]
      BY <1>0, <2>2 DEF TypeOK
    <3>3. BesideStep(t)
      BY <3>1, <3>2 DEF BesideStep
    <3>. QED  BY <2>2, <2>u, <3>2, <3>3
  <2>3. CASE Live(t) /\ clear_suspend(t) /\ UNCHANGED terminateRequested
    <3>1. suspendCount' = [suspendCount EXCEPT ![t] = 0] /\ wake_locked(t) /\ notify_all
      BY <2>3 DEF clear_suspend
    <3>2. suspendCount' \in [Fibers -> Nat]
      BY <2>0, <3>1
    <3>. QED  BY <1>0, <1>1, <2>0, <2>3, <2>n, <3>1, <3>2, WakeBeside
  <2>4. CASE Live(t) /\ request_terminate(t)
    <3>1. /\ suspendCount' = [suspendCount EXCEPT ![t] = 0] /\ wake_locked(t) /\ notify_all
          /\ terminateRequested' = [terminateRequested EXCEPT ![t] = TRUE]
      BY <2>4 DEF request_terminate
    <3>2. suspendCount' \in [Fibers -> Nat]
      BY <2>0, <3>1
    <3>3. terminateRequested' \in [Fibers -> BOOLEAN]
      BY <2>0, <3>1
    <3>. QED  BY <1>0, <1>1, <2>4, <2>n, <3>1, <3>2, <3>3, WakeBeside
  <2>5. CASE UNCHANGED <<queueVars, gateVars, exec, asleep>>
    BY <1>0, <2>0, <2>5, <2>u DEF BesideStep, TypeOK
  <2>6. make_ready(t) \/ enqueue_external_wakeup_validated(t, c.gen) => WakeOrNothing(t)
    BY DEF make_ready, enqueue_external_wakeup_validated, WakeOrNothing
  <2>. QED  BY <2>1, <2>2, <2>3, <2>4, <2>5, <2>6 DEF HostEnd
<1>5. ControlInv'
  BY <1>2, <1>4, HostFrame DEF BesideStep
<1>6. TypeOK'
  BY <1>0, <1>4 DEF HostEnd, BesideStep, TypeOK, QWF
<1>. QED  BY <1>2, <1>4, <1>5, <1>6 DEF BesideStep, IInv, QWF

\* The beginning of scheduler_shutdown keeps the invariant.
LEMMA ShutdownBeginKeeps == ASSUME IInv, ShutdownBegin PROVE IInv'
<1>0. TypeOK /\ ControlInv /\ QWF(run_queue, priority, state)
  BY DEF IInv
<1>1. UNCHANGED <<queueVars, running, holder, priority, pc, target, generation>>
  BY DEF ShutdownBegin
<1>2. /\ exec' = exec \/ (exec = "asleep" /\ exec' = "check")
      /\ exec' \in {"check", "asleep", "guest", "post", "reap", "locked", "quit"}
      /\ asleep' \in SUBSET Workers
  BY <1>0, NotifyAll DEF ShutdownBegin
<1>3. ControlInv'
  BY <1>0, <1>1, <1>2, HostFrame DEF TypeOK
<1>4. TypeOK'
  BY <1>0, <1>2 DEF ShutdownBegin, TypeOK
<1>. QED  BY <1>0, <1>1, <1>3, <1>4 DEF IInv, QWF

\* Each visit of scheduler_shutdown keeps the invariant.
LEMMA ShutdownVisitKeeps == ASSUME IInv, NEW f \in sweep, ShutdownVisit(f) PROVE IInv'
<1>0. TypeOK /\ ControlInv /\ QWF(run_queue, priority, state)
  BY DEF IInv
<1>1. f \in Fibers
  BY <1>0 DEF TypeOK
<1>2. UNCHANGED <<execVars, holder, priority, pc, target, generation>>
  BY DEF ShutdownVisit
<1>3. BesideStep(f)
  <2>1. CASE /\ state[f] \in {"Blocked", "Exiting"}
             /\ suspendCount' = [suspendCount EXCEPT ![f] = 0]
             /\ wake_locked(f)
    <3>1. suspendCount' \in [Fibers -> Nat]
      BY <1>0, <2>1 DEF TypeOK
    <3>. QED  BY <1>0, <1>1, <2>1, <3>1, WakeBeside DEF Live
  <2>2. CASE UNCHANGED <<queueVars, suspendCount>>
    BY <1>0, <2>2 DEF BesideStep, TypeOK
  <2>. QED  BY <2>1, <2>2 DEF ShutdownVisit
<1>4. terminateRequested' \in [Fibers -> BOOLEAN]
  <2>1. (terminateRequested[f] \/ state[f] # "Exiting") \in BOOLEAN
    OBVIOUS
  <2>. QED  BY <1>0, <1>1, <2>1, Zenon DEF ShutdownVisit, TypeOK
<1>5. ControlInv'
  BY <1>2, <1>3, HostFrame DEF BesideStep
<1>6. TypeOK'
  BY <1>0, <1>3, <1>4 DEF ShutdownVisit, BesideStep, TypeOK, QWF
<1>. QED  BY <1>2, <1>3, <1>5, <1>6 DEF BesideStep, IInv, QWF

-----------------------------------------------------------------------------
(* The theorems *)

\* Every step of the executing fiber keeps the invariant.
LEMMA FiberStepKeeps == ASSUME IInv, NEW f \in Fibers, FiberStep(f) PROVE IInv'
<1>1. ASSUME Continue(f) PROVE IInv'
  <2>1. CASE Recheck(f)
    BY <2>1, CheckConditionKeeps DEF Recheck
  <2>2. ASSUME NEW p \in Prios, create_fiber(f, p) PROVE IInv'
    BY <2>2, create_fiberKeeps
  <2>. QED  BY <1>1, <2>1, <2>2, arm_parkKeeps, block_currentKeeps, waitWhileSuspendedKeeps,
            suspend_selfKeeps, SuspendReturnKeeps, RescheduleKeeps,
            YieldPointReturnKeeps, join_fiberKeeps DEF Continue
<1>2. CASE Wait(f)
  BY <1>2, CheckConditionKeeps DEF Wait, AtHome
<1>3. ASSUME NEW t \in Fibers, StartThread(f, t) PROVE IInv'
  BY <1>3, StartThreadKeeps
<1>4. ASSUME NEW t \in Targets, TerminateThread(f, t) PROVE IInv'
  BY <1>4, TerminateThreadKeeps
<1>. QED  BY <1>1, <1>2, <1>3, <1>4, SuspendThreadSelfKeeps, YieldPointGatesKeeps,
          YieldPointKeeps, SetInterruptsKeeps, DispatchLoopEndsKeeps, FiberFinishedKeeps
          DEF FiberStep

\* IInv is inductive.
LEMMA NextKeeps == IInv /\ [Next]_vars => IInv'
<1>. SUFFICES ASSUME IInv, [Next]_vars PROVE IInv'
  OBVIOUS
<1>1. ASSUME NEW f \in sweep, ShutdownVisit(f) PROVE IInv'
  BY <1>1, ShutdownVisitKeeps
<1>2. CASE Executor
  BY <1>2, ExecutorKeeps
<1>3. CASE SpuriousWakeup
  BY <1>3, SpuriousWakeupKeeps
<1>4. CASE SlotOwner
  <2>1. ASSUME NEW t \in Targets, Signal(t) \/ SuspendThread(t) \/ ResumeThread(t) PROVE IInv'
    BY <2>1, SignalKeeps, SuspendThreadKeeps, ResumeThreadKeeps
  <2>2. ASSUME NEW t \in Fibers, NEW p \in Prios, ChangeThreadPriority(t, p) PROVE IInv'
    BY <2>2, ChangeThreadPriorityKeeps
  <2>3. ASSUME NEW p \in Prios, RotateThreadReadyQueue(p) PROVE IInv'
    BY <2>3, RotateThreadReadyQueueKeeps
  <2>. QED  BY <1>4, <2>1, <2>2, <2>3 DEF SlotOwner
<1>5. CASE Host
  <2>1. ASSUME NEW op \in HostOps, NEW t \in Fibers, HostBegin(op, t) PROVE IInv'
    BY <2>1, HostBeginKeeps
  <2>2. ASSUME NEW c \in calls, HostEnd(c) PROVE IInv'
    BY <2>2, HostEndKeeps
  <2>. QED  BY <1>5, <2>1, <2>2, ShutdownBeginKeeps DEF Host
<1>6. ASSUME NEW f \in Fibers, FiberStep(f) PROVE IInv'
  BY <1>6, FiberStepKeeps
<1>7. ASSUME NEW w \in Workers, Worker(w) PROVE IInv'
  BY <1>7, WorkerKeeps
<1>8. CASE UNCHANGED vars
  <2>1. TypeOK /\ ControlInv /\ QWF(run_queue, priority, state)
    BY DEF IInv
  <2>. QED  BY <1>8, <2>1 DEF vars, IInv, TypeOK, ControlInv, SlotExclusive, QWF
<1>. QED  BY <1>1, <1>2, <1>3, <1>4, <1>5, <1>6, <1>7, <1>8 DEF Next

\* Every reachable state of the scheduler is well typed.
THEOREM TypeCorrect == Spec => []TypeOK
<1>1. IInv => TypeOK
  BY DEF IInv
<1>. QED  BY InitKeeps, NextKeeps, <1>1, PTL DEF Spec

\* The run queue stays sorted by priority, free of duplicates, and holds exactly
\* the Ready fibers: enqueue_locked, remove_locked, rotate_ready_queue and
\* update_priority agree with the state every operation leaves behind.
THEOREM QueueCorrect == Spec => []QueueWellFormed
<1>1. IInv => QueueWellFormed
  BY DEF IInv, QWF, QueueWellFormed, Queued
<1>. QED  BY InitKeeps, NextKeeps, <1>1, PTL DEF Spec

\* No fiber runs while a host worker holds the guest token: async_guest_begin
\* and guest_executor_main never grant the one execution slot twice.
THEOREM SlotCorrect == Spec => []SlotExclusive
<1>1. IInv => SlotExclusive
  BY DEF IInv, ControlInv
<1>. QED  BY InitKeeps, NextKeeps, <1>1, PTL DEF Spec

-----------------------------------------------------------------------------
(***************************************************************************)
(* No wakeup is lost: the wait protocol publish / arm_park / block_current *)
(* against wake_locked, the executor's post-resume code, suspends and late *)
(* host calls.                                                             *)
(***************************************************************************)

\* A host call in flight whose scheduler step will reach the fiber as it is now.
WakeComing(f) ==
    \E c \in calls : c.tid = f /\ (c.op = "ready" \/ (c.op = "wake" /\ c.gen = generation[f]))

\* A published fiber whose condition holds will look at it again: it is on the
\* queue or executing, its wakeup is noted, it is suspended, or a wakeup comes.
Reached(f) ==
    \/ state[f] = "Ready"
    \/ running = f /\ exec = "guest" /\ pc[f] = "woken"
    \/ running = f /\ wake_pending[f]
    \/ suspendCount[f] > 0
    \/ WakeComing(f)

\* Only the executing fiber is between publishing itself and block_current, and
\* an identifier without a fiber waits for nothing.
WaitOK(f) ==
    /\ pc[f] \in {"published", "armed"} => running = f /\ exec = "guest"
    /\ state[f] = "Absent" => pc[f] = "none"
    /\ Published(f) /\ cond[f] => Reached(f)

WakeInv == \A f \in Fibers : WaitOK(f)

-----------------------------------------------------------------------------
(* What a step leaves alone *)

\* The wait of a fiber that a step does not touch stays as it was.
LEMMA Unmoved ==
    ASSUME NEW g \in Fibers, WaitOK(g),
           pc'[g] = pc[g], state'[g] = state[g], cond'[g] = cond[g],
           suspendCount'[g] = suspendCount[g], wake_pending'[g] = wake_pending[g],
           generation'[g] = generation[g],
           running = g => running' = g /\ (exec = "guest" => exec' = "guest"),
           \A c \in calls : c.tid = g => c \in calls'
    PROVE  WaitOK(g)'
  BY DEF WaitOK, Reached, WakeComing, Published

\* A fiber that is not published only has to be there.
LEMMA NotPublished ==
    ASSUME NEW f \in Fibers, pc'[f] \notin {"published", "armed", "woken"}, state'[f] # "Absent"
    PROVE  WaitOK(f)'
  BY DEF WaitOK, Published

\* A step of the executing fiber that touches no other fiber's wait, and leaves
\* its own in order, keeps the invariant.
LEMMA WakeOwnStep ==
    ASSUME IInv, WakeInv, NEW f \in Fibers, Executing(f),
           \A g \in Fibers \ {f} :
              /\ pc'[g] = pc[g] /\ state'[g] = state[g] /\ cond'[g] = cond[g]
              /\ suspendCount'[g] = suspendCount[g] /\ wake_pending'[g] = wake_pending[g]
              /\ generation'[g] = generation[g],
           running' = running, calls' = calls, WaitOK(f)'
    PROVE  WakeInv'
<1>1. \A g \in Fibers \ {f} : WaitOK(g)'
  <2>. SUFFICES ASSUME NEW g \in Fibers \ {f} PROVE WaitOK(g)'
    OBVIOUS
  <2>1. running # g
    BY DEF Executing
  <2>. QED  BY <2>1, Unmoved DEF WakeInv
<1>. QED  BY <1>1 DEF WakeInv

\* wake_locked reaches the fiber: it is on the queue, or runs with the wakeup
\* noted.  No other fiber is touched.
LEMMA WakeReaches ==
    ASSUME IInv, NEW t \in Fibers, wake_locked(t)
    PROVE  /\ state'[t] = "Ready" \/ (running = t /\ wake_pending'[t])
           /\ state'[t] = "Absent" => state[t] = "Absent"
           /\ \A g \in Fibers \ {t} : state'[g] = state[g] /\ wake_pending'[g] = wake_pending[g]
<1>0. TypeOK /\ QWF(run_queue, priority, state)
  BY DEF IInv
<1>1. CASE Queued(t) /\ UNCHANGED queueVars
  BY <1>0, <1>1 DEF QWF, Queued, queueVars
<1>2. CASE /\ running = t
           /\ wake_pending' = [wake_pending EXCEPT ![t] = TRUE]
           /\ UNCHANGED <<run_queue, state>>
  BY <1>0, <1>2 DEF TypeOK
<1>3. CASE running # t /\ enqueue_locked(t) /\ UNCHANGED wake_pending
  BY <1>0, <1>3, EnqueueLocked
<1>. QED  BY <1>1, <1>2, <1>3 DEF wake_locked

\* The woken fiber's wait is in order.
LEMMA WokenOK ==
    ASSUME IInv, NEW t \in Fibers, WaitOK(t), wake_locked(t),
           pc'[t] = pc[t], running' = running, exec = "guest" => exec' = "guest",
           state[t] # "Absent"
    PROVE  WaitOK(t)'
  BY WakeReaches DEF WaitOK, Reached, Published

\* A step on fiber t beside the running one keeps the waits of all other fibers.
LEMMA Beside ==
    ASSUME IInv, WakeInv, NEW t \in Fibers,
           \A g \in Fibers \ {t} :
              /\ state'[g] = state[g] /\ cond'[g] = cond[g]
              /\ suspendCount'[g] = suspendCount[g] /\ wake_pending'[g] = wake_pending[g]
              /\ generation'[g] = generation[g],
           UNCHANGED pc,
           running' = running, exec = "guest" => exec' = "guest",
           \A c \in calls : c.tid # t => c \in calls',
           WaitOK(t)'
    PROVE  WakeInv'
<1>1. \A g \in Fibers \ {t} : WaitOK(g)'
  BY Unmoved DEF WakeInv
<1>. QED  BY <1>1 DEF WakeInv

\* The caller of a system call on another thread is not waiting itself, before
\* and after: the others keep their waits.
LEMMA WakeCallerStep ==
    ASSUME IInv, WakeInv, NEW next \in {"return", "maybe_yield", "force_reschedule"}, Caller(next),
           NEW T, running \notin T,
           \A g \in Fibers \ T :
              /\ state'[g] = state[g] /\ cond'[g] = cond[g]
              /\ suspendCount'[g] = suspendCount[g] /\ wake_pending'[g] = wake_pending[g]
              /\ generation'[g] = generation[g],
           running' = running, exec = "guest" => exec' = "guest", calls' = calls,
           \A u \in T \cap Fibers : WaitOK(u)'
    PROVE  WakeInv'
<1>0. TypeOK /\ ControlInv
  BY DEF IInv
<1>1. CASE UNCHANGED pc
  <2>1. \A g \in Fibers \ T : WaitOK(g)'
    BY <1>1, Unmoved DEF WakeInv
  <2>. QED  BY <2>1 DEF WakeInv
<1>2. CASE /\ exec = "guest"
           /\ pc' = [pc EXCEPT ![running] = IF next = "return" THEN Home(running) ELSE next]
  <2>1. running \in Fibers /\ state[running] # "Absent"
    BY <1>0, <1>2 DEF ControlInv
  <2>2. pc'[running] \notin {"published", "armed", "woken"}
    BY <1>0, <1>2, <2>1, HomeIsPlace DEF TypeOK
  <2>3. WaitOK(running)'
    <3>1. state'[running] # "Absent"
      BY <2>1
    <3>. QED  BY <2>1, <2>2, <3>1 DEF WaitOK, Published
  <2>4. \A g \in Fibers \ T : g # running => WaitOK(g)'
    <3>. SUFFICES ASSUME NEW g \in Fibers \ T, g # running PROVE WaitOK(g)'
      OBVIOUS
    <3>1. pc'[g] = pc[g]
      BY <1>0, <1>2 DEF TypeOK
    <3>. QED  BY <3>1, Unmoved DEF WakeInv
  <2>5. WaitOK(running)' /\ running' = running
    BY <2>3
  <2>. QED  BY <2>3, <2>4 DEF WakeInv
<1>. QED  BY <1>1, <1>2 DEF Caller

-----------------------------------------------------------------------------
(* Steps of the running fiber outside its wait loop *)

USE DEF queueVars, execVars, tokenVars, stopVars, gateVars, prioVars, ctlVars, infoVars

\* A fiber that stays where it is goes, formally, to where it is.
LEMMA WakeStaysPut ==
    ASSUME IInv, NEW f \in Fibers, pc' = pc
    PROVE  pc' = [pc EXCEPT ![f] = pc[f]]
  BY DEF IInv, TypeOK

\* A step of the executing fiber that ends outside the wait loop.
LEMMA WakePlainStep ==
    ASSUME IInv, WakeInv, NEW f \in Fibers, Executing(f),
           \E place \in Places \ {"published", "armed", "woken"} : pc' = [pc EXCEPT ![f] = place],
           \/ state' = state
           \/ \E v \in States \ {"Absent"} : state' = [state EXCEPT ![f] = v]
           \/ enqueue_locked(f),
           cond' = cond \/ cond' = [cond EXCEPT ![f] = FALSE],
           suspendCount' = suspendCount \/ \E n : suspendCount' = [suspendCount EXCEPT ![f] = n],
           UNCHANGED <<wake_pending, generation, running, calls>>
    PROVE  WakeInv'
<1>0. TypeOK /\ ControlInv /\ QWF(run_queue, priority, state)
  BY DEF IInv
<1>1. /\ pc'[f] \notin {"published", "armed", "woken"}
      /\ \A g \in Fibers \ {f} : pc'[g] = pc[g]
  BY <1>0 DEF TypeOK
<1>2. /\ state'[f] # "Absent"
      /\ \A g \in Fibers \ {f} : state'[g] = state[g]
  <2>1. CASE state' = state
    BY <1>0, <2>1 DEF Executing, ControlInv
  <2>2. CASE \E v \in States \ {"Absent"} : state' = [state EXCEPT ![f] = v]
    BY <1>0, <2>2 DEF TypeOK
  <2>3. CASE enqueue_locked(f)
    BY <1>0, <2>3, EnqueueLocked
  <2>. QED  BY <2>1, <2>2, <2>3
<1>3. \A g \in Fibers \ {f} : cond'[g] = cond[g] /\ suspendCount'[g] = suspendCount[g]
  BY <1>0 DEF TypeOK
<1>4. WaitOK(f)'
  BY <1>1, <1>2, NotPublished
<1>. QED  BY <1>1, <1>2, <1>3, <1>4, WakeOwnStep

\* The exits of waitWhileSuspended.
LEMMA waitWhileSuspendedWaits ==
    ASSUME IInv, WakeInv, NEW f \in Fibers, waitWhileSuspended(f)
    PROVE  WakeInv'
<1>1. Executing(f)
  BY DEF waitWhileSuspended, AtHome
<1>2. \E place \in Places \ {"published", "armed", "woken"} : pc' = [pc EXCEPT ![f] = place]
  BY <1>1, WakeStaysPut, HomeIsPlace DEF waitWhileSuspended, Unwind, Goto, Places, States
<1>3. \/ state' = state
      \/ \E v \in States \ {"Absent"} : state' = [state EXCEPT ![f] = v]
      \/ enqueue_locked(f)
  BY DEF waitWhileSuspended, Unwind, Goto, Places, States
<1>4. /\ UNCHANGED <<wake_pending, generation, running, calls>>
      /\ cond' = cond \/ cond' = [cond EXCEPT ![f] = FALSE]
      /\ suspendCount' = suspendCount \/ \E n : suspendCount' = [suspendCount EXCEPT ![f] = n]
  BY DEF waitWhileSuspended, Unwind, Goto, Places, States
<1>. QED  BY <1>1, <1>2, <1>3, <1>4, WakePlainStep

\* SuspendThread on the calling thread.
LEMMA SuspendThreadSelfWaits ==
    ASSUME IInv, WakeInv, NEW f \in Fibers, SuspendThreadSelf(f)
    PROVE  WakeInv'
<1>1. Executing(f)
  BY DEF SuspendThreadSelf, AtHome
<1>2. \E place \in Places \ {"published", "armed", "woken"} : pc' = [pc EXCEPT ![f] = place]
  BY <1>1, WakeStaysPut, HomeIsPlace DEF SuspendThreadSelf, Unwind, Goto, Places, States
<1>3. \/ state' = state
      \/ \E v \in States \ {"Absent"} : state' = [state EXCEPT ![f] = v]
      \/ enqueue_locked(f)
  BY DEF SuspendThreadSelf, Unwind, Goto, Places, States
<1>4. /\ UNCHANGED <<wake_pending, generation, running, calls>>
      /\ cond' = cond \/ cond' = [cond EXCEPT ![f] = FALSE]
      /\ suspendCount' = suspendCount \/ \E n : suspendCount' = [suspendCount EXCEPT ![f] = n]
  BY DEF SuspendThreadSelf, Unwind, Goto, Places, States
<1>. QED  BY <1>1, <1>2, <1>3, <1>4, WakePlainStep

\* suspend_self closes the caller's own gate.
LEMMA suspend_selfWaits == ASSUME IInv, WakeInv, NEW f \in Fibers, suspend_self(f) PROVE WakeInv'
<1>1. Executing(f)
  BY DEF suspend_self, AtHome
<1>2. \E place \in Places \ {"published", "armed", "woken"} : pc' = [pc EXCEPT ![f] = place]
  BY <1>1, WakeStaysPut, HomeIsPlace DEF suspend_self, Goto, Places, States
<1>3. \/ state' = state
      \/ \E v \in States \ {"Absent"} : state' = [state EXCEPT ![f] = v]
      \/ enqueue_locked(f)
  BY DEF suspend_self, Goto, Places, States
<1>4. /\ UNCHANGED <<wake_pending, generation, running, calls>>
      /\ cond' = cond \/ cond' = [cond EXCEPT ![f] = FALSE]
      /\ suspendCount' = suspendCount \/ \E n : suspendCount' = [suspendCount EXCEPT ![f] = n]
  BY DEF suspend_self, Goto, Places, States
<1>. QED  BY <1>1, <1>2, <1>3, <1>4, WakePlainStep

\* SuspendThread after suspend_self returned.
LEMMA SuspendReturnWaits ==
    ASSUME IInv, WakeInv, NEW f \in Fibers, SuspendReturn(f)
    PROVE  WakeInv'
<1>1. Executing(f)
  BY DEF SuspendReturn, AtHome
<1>2. \E place \in Places \ {"published", "armed", "woken"} : pc' = [pc EXCEPT ![f] = place]
  BY <1>1, WakeStaysPut, HomeIsPlace DEF SuspendReturn, Unwind, Goto, Places, States
<1>3. \/ state' = state
      \/ \E v \in States \ {"Absent"} : state' = [state EXCEPT ![f] = v]
      \/ enqueue_locked(f)
  BY DEF SuspendReturn, Unwind, Goto, Places, States
<1>4. /\ UNCHANGED <<wake_pending, generation, running, calls>>
      /\ cond' = cond \/ cond' = [cond EXCEPT ![f] = FALSE]
      /\ suspendCount' = suspendCount \/ \E n : suspendCount' = [suspendCount EXCEPT ![f] = n]
  BY DEF SuspendReturn, Unwind, Goto, Places, States
<1>. QED  BY <1>1, <1>2, <1>3, <1>4, WakePlainStep

\* The trailing maybe_yield or force_reschedule.
LEMMA RescheduleWaits == ASSUME IInv, WakeInv, NEW f \in Fibers, Reschedule(f) PROVE WakeInv'
<1>1. Executing(f)
  BY DEF Reschedule, AtHome
<1>2. \E place \in Places \ {"published", "armed", "woken"} : pc' = [pc EXCEPT ![f] = place]
  BY <1>1, WakeStaysPut, HomeIsPlace DEF Reschedule, ps2fiber_yield, Goto, Places, States
<1>3. \/ state' = state
      \/ \E v \in States \ {"Absent"} : state' = [state EXCEPT ![f] = v]
      \/ enqueue_locked(f)
  BY DEF Reschedule, ps2fiber_yield, Goto, Places, States
<1>4. /\ UNCHANGED <<wake_pending, generation, running, calls>>
      /\ cond' = cond \/ cond' = [cond EXCEPT ![f] = FALSE]
      /\ suspendCount' = suspendCount \/ \E n : suspendCount' = [suspendCount EXCEPT ![f] = n]
  BY DEF Reschedule, ps2fiber_yield, Goto, Places, States
<1>. QED  BY <1>1, <1>2, <1>3, <1>4, WakePlainStep

\* The gates of yield_point.
LEMMA YieldPointGatesWaits ==
    ASSUME IInv, WakeInv, NEW f \in Fibers, YieldPointGates(f)
    PROVE  WakeInv'
<1>1. Executing(f)
  BY DEF YieldPointGates, AtHome
<1>2. \E place \in Places \ {"published", "armed", "woken"} : pc' = [pc EXCEPT ![f] = place]
  BY <1>1, WakeStaysPut, HomeIsPlace DEF YieldPointGates, AtHome, Unwind, Goto, Places, States
<1>3. \/ state' = state
      \/ \E v \in States \ {"Absent"} : state' = [state EXCEPT ![f] = v]
      \/ enqueue_locked(f)
  BY DEF YieldPointGates, AtHome, Unwind, Goto, Places, States
<1>4. /\ UNCHANGED <<wake_pending, generation, running, calls>>
      /\ cond' = cond \/ cond' = [cond EXCEPT ![f] = FALSE]
      /\ suspendCount' = suspendCount \/ \E n : suspendCount' = [suspendCount EXCEPT ![f] = n]
  BY DEF YieldPointGates, AtHome, Unwind, Goto, Places, States
<1>. QED  BY <1>1, <1>2, <1>3, <1>4, WakePlainStep

\* yield_point past its gates.
LEMMA YieldPointWaits == ASSUME IInv, WakeInv, NEW f \in Fibers, YieldPoint(f) PROVE WakeInv'
<1>1. Executing(f)
  BY DEF YieldPoint, AtHome
<1>2. \E place \in Places \ {"published", "armed", "woken"} : pc' = [pc EXCEPT ![f] = place]
  BY <1>1, WakeStaysPut, HomeIsPlace DEF YieldPoint, AtHome, ps2fiber_yield, Goto, Places, States
<1>3. \/ state' = state
      \/ \E v \in States \ {"Absent"} : state' = [state EXCEPT ![f] = v]
      \/ enqueue_locked(f)
  BY DEF YieldPoint, AtHome, ps2fiber_yield, Goto, Places, States
<1>4. /\ UNCHANGED <<wake_pending, generation, running, calls>>
      /\ cond' = cond \/ cond' = [cond EXCEPT ![f] = FALSE]
      /\ suspendCount' = suspendCount \/ \E n : suspendCount' = [suspendCount EXCEPT ![f] = n]
  BY DEF YieldPoint, AtHome, ps2fiber_yield, Goto, Places, States
<1>. QED  BY <1>1, <1>2, <1>3, <1>4, WakePlainStep

\* yield_point resumed.
LEMMA YieldPointReturnWaits ==
    ASSUME IInv, WakeInv, NEW f \in Fibers, YieldPointReturn(f)
    PROVE  WakeInv'
<1>1. Executing(f)
  BY DEF YieldPointReturn, AtHome
<1>2. \E place \in Places \ {"published", "armed", "woken"} : pc' = [pc EXCEPT ![f] = place]
  BY <1>1, WakeStaysPut, HomeIsPlace
     DEF YieldPointReturn, ps2fiber_yield, Unwind, Goto, Places, States
<1>3. \/ state' = state
      \/ \E v \in States \ {"Absent"} : state' = [state EXCEPT ![f] = v]
      \/ enqueue_locked(f)
  BY DEF YieldPointReturn, ps2fiber_yield, Unwind, Goto, Places, States
<1>4. /\ UNCHANGED <<wake_pending, generation, running, calls>>
      /\ cond' = cond \/ cond' = [cond EXCEPT ![f] = FALSE]
      /\ suspendCount' = suspendCount \/ \E n : suspendCount' = [suspendCount EXCEPT ![f] = n]
  BY DEF YieldPointReturn, ps2fiber_yield, Unwind, Goto, Places, States
<1>. QED  BY <1>1, <1>2, <1>3, <1>4, WakePlainStep

\* di and ei change no wait.
LEMMA SetInterruptsWaits ==
    ASSUME IInv, WakeInv, NEW f \in Fibers, SetInterrupts(f)
    PROVE  WakeInv'
<1>1. Executing(f)
  BY DEF SetInterrupts, AtHome
<1>2. \E place \in Places \ {"published", "armed", "woken"} : pc' = [pc EXCEPT ![f] = place]
  BY <1>1, WakeStaysPut, HomeIsPlace DEF SetInterrupts, AtHome
<1>3. \/ state' = state
      \/ \E v \in States \ {"Absent"} : state' = [state EXCEPT ![f] = v]
      \/ enqueue_locked(f)
  BY DEF SetInterrupts, AtHome
<1>4. /\ UNCHANGED <<wake_pending, generation, running, calls>>
      /\ cond' = cond \/ cond' = [cond EXCEPT ![f] = FALSE]
      /\ suspendCount' = suspendCount \/ \E n : suspendCount' = [suspendCount EXCEPT ![f] = n]
  BY DEF SetInterrupts, AtHome
<1>. QED  BY <1>1, <1>2, <1>3, <1>4, WakePlainStep

\* The end of the dispatch loop.
LEMMA DispatchLoopEndsWaits ==
    ASSUME IInv, WakeInv, NEW f \in Fibers, DispatchLoopEnds(f)
    PROVE  WakeInv'
<1>1. Executing(f)
  BY DEF DispatchLoopEnds, AtHome
<1>2. \E place \in Places \ {"published", "armed", "woken"} : pc' = [pc EXCEPT ![f] = place]
  BY <1>1, WakeStaysPut, HomeIsPlace DEF DispatchLoopEnds, Unwind, Goto, Places, States
<1>3. \/ state' = state
      \/ \E v \in States \ {"Absent"} : state' = [state EXCEPT ![f] = v]
      \/ enqueue_locked(f)
  BY DEF DispatchLoopEnds, Unwind, Goto, Places, States
<1>4. /\ UNCHANGED <<wake_pending, generation, running, calls>>
      /\ cond' = cond \/ cond' = [cond EXCEPT ![f] = FALSE]
      /\ suspendCount' = suspendCount \/ \E n : suspendCount' = [suspendCount EXCEPT ![f] = n]
  BY DEF DispatchLoopEnds, Unwind, Goto, Places, States
<1>. QED  BY <1>1, <1>2, <1>3, <1>4, WakePlainStep

\* The exit hook's return resets the condition.
LEMMA FiberFinishedWaits ==
    ASSUME IInv, WakeInv, NEW f \in Fibers, FiberFinished(f)
    PROVE  WakeInv'
<1>1. Executing(f)
  BY DEF FiberFinished, AtHome
<1>2. \E place \in Places \ {"published", "armed", "woken"} : pc' = [pc EXCEPT ![f] = place]
  BY <1>1, WakeStaysPut, HomeIsPlace DEF FiberFinished, ps2fiber_yield, Places, States
<1>3. \/ state' = state
      \/ \E v \in States \ {"Absent"} : state' = [state EXCEPT ![f] = v]
      \/ enqueue_locked(f)
  BY DEF FiberFinished, ps2fiber_yield, Places, States
<1>4. /\ UNCHANGED <<wake_pending, generation, running, calls>>
      /\ cond' = cond \/ cond' = [cond EXCEPT ![f] = FALSE]
      /\ suspendCount' = suspendCount \/ \E n : suspendCount' = [suspendCount EXCEPT ![f] = n]
  BY DEF FiberFinished, ps2fiber_yield, Places, States
<1>. QED  BY <1>1, <1>2, <1>3, <1>4, WakePlainStep

\* A turn of join_fiber's loop.
LEMMA join_fiberWaits == ASSUME IInv, WakeInv, NEW f \in Fibers, join_fiber(f) PROVE WakeInv'
<1>1. Executing(f)
  BY DEF join_fiber, AtHome
<1>2. \E place \in Places \ {"published", "armed", "woken"} : pc' = [pc EXCEPT ![f] = place]
  BY <1>1, WakeStaysPut, HomeIsPlace DEF join_fiber, ps2fiber_yield, Goto, Places
<1>3. \/ state' = state
      \/ \E v \in States \ {"Absent"} : state' = [state EXCEPT ![f] = v]
      \/ enqueue_locked(f)
  BY DEF join_fiber, ps2fiber_yield, Goto, Places
<1>4. /\ UNCHANGED <<wake_pending, generation, running, calls>>
      /\ cond' = cond \/ cond' = [cond EXCEPT ![f] = FALSE]
      /\ suspendCount' = suspendCount \/ \E n : suspendCount' = [suspendCount EXCEPT ![f] = n]
  BY DEF join_fiber, ps2fiber_yield, Goto, Places
<1>. QED  BY <1>1, <1>2, <1>3, <1>4, WakePlainStep

\* StartThread's first critical section.
LEMMA StartThreadWaits ==
    ASSUME IInv, WakeInv, NEW f \in Fibers, NEW t \in Fibers, StartThread(f, t)
    PROVE  WakeInv'
<1>1. Executing(f)
  BY DEF StartThread, AtHome
<1>2. \E place \in Places \ {"published", "armed", "woken"} : pc' = [pc EXCEPT ![f] = place]
  BY <1>1, WakeStaysPut, HomeIsPlace DEF StartThread, Goto, Places
<1>3. \/ state' = state
      \/ \E v \in States \ {"Absent"} : state' = [state EXCEPT ![f] = v]
      \/ enqueue_locked(f)
  BY DEF StartThread, Goto, Places
<1>4. /\ UNCHANGED <<wake_pending, generation, running, calls>>
      /\ cond' = cond \/ cond' = [cond EXCEPT ![f] = FALSE]
      /\ suspendCount' = suspendCount \/ \E n : suspendCount' = [suspendCount EXCEPT ![f] = n]
  BY DEF StartThread, Goto, Places
<1>. QED  BY <1>1, <1>2, <1>3, <1>4, WakePlainStep

-----------------------------------------------------------------------------
(* The wait loop *)

\* The loop's decision: a fiber that publishes itself has found its condition
\* false under the object's lock.
LEMMA CheckConditionWaits ==
    ASSUME IInv, WakeInv, NEW f \in Fibers, Executing(f), CheckCondition(f)
    PROVE  WakeInv'
<1>0. TypeOK /\ ControlInv /\ state[f] # "Absent" /\ running = f /\ exec = "guest"
  BY DEF IInv, ControlInv, Executing
<1>1. CASE terminated[f] /\ Unwind(f) /\ UNCHANGED cond
  <2>1. /\ \E place \in Places \ {"published", "armed", "woken"} : pc' = [pc EXCEPT ![f] = place]
        /\ state' = state \/ \E v \in States \ {"Absent"} : state' = [state EXCEPT ![f] = v]
        /\ UNCHANGED <<wake_pending, generation, running, calls, cond, suspendCount>>
    BY <1>1 DEF CheckCondition, Unwind, Places, States
  <2>. QED  BY <2>1, WakePlainStep
<1>2. CASE /\ cond' = [cond EXCEPT ![f] = FALSE] /\ Goto(f, "wws") /\ UNCHANGED <<hook, state>>
  <2>1. /\ \E place \in Places \ {"published", "armed", "woken"} : pc' = [pc EXCEPT ![f] = place]
        /\ state' = state
        /\ UNCHANGED <<wake_pending, generation, running, calls, suspendCount>>
    BY <1>2 DEF CheckCondition, Goto, Places
  <2>. QED  BY <1>2, <2>1, WakePlainStep
<1>3. CASE ~cond[f] /\ Goto(f, "published") /\ UNCHANGED <<hook, state, cond>>
  <2>1. /\ pc'[f] = "published" /\ ~cond'[f] /\ state'[f] # "Absent"
        /\ \A g \in Fibers \ {f} : pc'[g] = pc[g]
    BY <1>0, <1>3 DEF Goto, TypeOK
  <2>2. UNCHANGED <<state, cond, wake_pending, generation, running, exec, calls, suspendCount>>
    BY <1>3 DEF CheckCondition
  <2>3. WaitOK(f)'
    BY <1>0, <2>1, <2>2 DEF WaitOK
  <2>. QED  BY <2>1, <2>2, <2>3, WakeOwnStep
<1>. QED  BY <1>1, <1>2, <1>3 DEF CheckCondition

\* arm_park keeps the note of a wakeup that came since the fiber was published.
LEMMA arm_parkWaits == ASSUME IInv, WakeInv, NEW f \in Fibers, arm_park(f) PROVE WakeInv'
<1>0. /\ TypeOK /\ state[f] \notin {"Absent", "Ready"} /\ running = f /\ exec = "guest"
      /\ Executing(f) /\ WaitOK(f)
  BY DEF IInv, ControlInv, Executing, arm_park, WakeInv
<1>1. CASE pc[f] = "published" /\ Goto(f, "armed")
  <2>1. /\ pc'[f] = "armed" /\ state'[f] = "Blocked"
        /\ \A g \in Fibers \ {f} : pc'[g] = pc[g] /\ state'[g] = state[g]
    BY <1>0, <1>1 DEF arm_park, Goto, TypeOK
  <2>2. UNCHANGED <<cond, wake_pending, generation, running, exec, calls, suspendCount>>
    BY <1>1 DEF arm_park
  <2>3. WaitOK(f)'
    <3>1. cond[f] => (running = f /\ wake_pending[f]) \/ suspendCount[f] > 0 \/ WakeComing(f)
      BY <1>0, <1>1 DEF WaitOK, Reached, Published
    <3>. QED  BY <1>0, <2>1, <2>2, <3>1 DEF WaitOK, Reached, WakeComing
  <2>. QED  BY <1>0, <2>1, <2>2, <2>3, WakeOwnStep
<1>2. CASE Goto(f, "wwsArmed") \/ Goto(f, "selfArmed")
  <2>1. /\ \E place \in Places \ {"published", "armed", "woken"} : pc' = [pc EXCEPT ![f] = place]
        /\ \E v \in States \ {"Absent"} : state' = [state EXCEPT ![f] = v]
        /\ UNCHANGED <<cond, wake_pending, generation, running, calls, suspendCount>>
    BY <1>2 DEF arm_park, Goto, Places, States
  <2>. QED  BY <1>0, <2>1, WakePlainStep
<1>. QED  BY <1>1, <1>2 DEF arm_park

\* block_current parks a fiber only when no wakeup is noted.
LEMMA block_currentWaits ==
    ASSUME IInv, WakeInv, NEW f \in Fibers, block_current(f)
    PROVE  WakeInv'
<1>0. /\ TypeOK /\ state[f] \notin {"Absent", "Ready"} /\ running = f /\ exec = "guest"
      /\ Executing(f) /\ WaitOK(f)
  BY DEF IInv, ControlInv, Executing, block_current, WakeInv
<1>1. UNCHANGED <<cond, generation, running, calls, suspendCount>>
  BY DEF block_current
<1>2. \A g \in Fibers \ {f} :
          pc'[g] = pc[g] /\ state'[g] = state[g] /\ wake_pending'[g] = wake_pending[g]
  BY <1>0 DEF block_current, Goto, TypeOK
<1>3. state'[f] # "Absent"
  BY <1>0 DEF block_current, TypeOK
<1>4. pc'[f] # "woken" => pc'[f] \notin {"published", "armed"}
  <2>1. AfterBlock(f) \in {"woken", "wws", "resumed", "run", "hook"}
    BY HomeIsPlace DEF AfterBlock
  <2>2. pc'[f] \in {"hook", AfterBlock(f)}
    BY <1>0 DEF block_current, Goto, TypeOK
  <2>. QED  BY <2>1, <2>2
<1>5. CASE pc'[f] # "woken"
  <2>1. WaitOK(f)'
    BY <1>3, <1>4, <1>5, NotPublished
  <2>. QED  BY <1>0, <1>1, <1>2, <2>1, WakeOwnStep
<1>6. CASE pc'[f] = "woken"
  <2>1. pc[f] = "armed"
    <3>1. pc'[f] \in {"hook", AfterBlock(f)}
      BY <1>0 DEF block_current, Goto, TypeOK
    <3>2. pc[f] # "armed" => AfterBlock(f) # "woken"
      BY HomeIsPlace DEF AfterBlock
    <3>. QED  BY <1>6, <3>1, <3>2
  <2>2. CASE exec' = exec
    <3>1. WaitOK(f)'
      BY <1>0, <1>1, <1>3, <1>6, <2>2 DEF WaitOK, Reached
    <3>. QED  BY <1>0, <1>1, <1>2, <3>1, WakeOwnStep
  <2>3. CASE ~wake_pending[f] /\ UNCHANGED wake_pending
    <3>1. cond[f] => suspendCount[f] > 0 \/ WakeComing(f)
      BY <1>0, <2>1, <2>3 DEF WaitOK, Reached, Published
    <3>2. WaitOK(f)'
      BY <1>1, <1>3, <1>6, <3>1 DEF WaitOK, Reached, WakeComing
    <3>. QED  BY <1>0, <1>1, <1>2, <3>2, WakeOwnStep
  <2>. QED  BY <2>2, <2>3 DEF block_current
<1>. QED  BY <1>5, <1>6

-----------------------------------------------------------------------------
(* The executor *)

\* The executor resumes a published fiber at its re-check, and queues one whose
\* wakeup was noted while it parked.
LEMMA ExecutorWaits == ASSUME IInv, WakeInv, Executor PROVE WakeInv'
<1>0. TypeOK /\ ControlInv /\ QWF(run_queue, priority, state)
  BY DEF IInv
<1>1. CASE ExecutorQuit \/ ExecutorSleep \/ Reap
  <2>1. /\ exec \in {"check", "locked", "reap"}
        /\ UNCHANGED <<pc, state, cond, suspendCount, wake_pending, generation, running, calls>>
    BY <1>1 DEF ExecutorQuit, ExecutorSleep, AtPredicate, Reap
  <2>. QED  BY <2>1, Unmoved DEF WakeInv
<1>2. CASE ExecutorResume
  <2>0. Head(run_queue) \in Fibers
    BY <1>0, <1>2, TailKeeps, PriorityIsInt DEF ExecutorResume, canPick, QWF
  <2>1. PICK h \in Fibers : h = Head(run_queue)
    BY <2>0
  <2>2. /\ running = NoOne /\ running' = h /\ exec \in {"check", "locked"} /\ exec' = "guest"
        /\ state' = [state EXCEPT ![h] = "Running"]
        /\ UNCHANGED <<pc, cond, suspendCount, wake_pending, generation, calls>>
    BY <1>2, <2>1 DEF ExecutorResume, AtPredicate, canPick
  <2>3. WaitOK(h)'
    BY <1>0, <2>1, <2>2 DEF WakeInv, WaitOK, Reached, Published, TypeOK
  <2>4. \A g \in Fibers \ {h} : WaitOK(g)'
    BY <1>0, <2>1, <2>2, Constants, Unmoved DEF WakeInv, TypeOK
  <2>. QED  BY <2>3, <2>4 DEF WakeInv
<1>3. CASE PostResume
  <2> DEFINE f == running
  <2>1. /\ f \in Fibers /\ exec = "post" /\ running' = NoOne
        /\ UNCHANGED <<cond, suspendCount, generation, calls>>
    BY <1>0, <1>3 DEF PostResume, ControlInv
  <2>2. \A g \in Fibers \ {f} :
            pc'[g] = pc[g] /\ state'[g] = state[g] /\ wake_pending'[g] = wake_pending[g]
    <3>1. /\ pc' = pc \/ pc' = [pc EXCEPT ![f] = "none"]
          /\ \/ state' = state \/ state' = [state EXCEPT ![f] = "Absent"]
             \/ enqueue_locked(f)
          /\ wake_pending' = wake_pending \/ wake_pending' = [wake_pending EXCEPT ![f] = FALSE]
      BY <1>3 DEF PostResume
    <3>2. \A g \in Fibers \ {f} : state'[g] = state[g]
      BY <1>0, <2>1, <3>1, EnqueueLocked DEF TypeOK
    <3>. QED  BY <1>0, <3>1, <3>2 DEF TypeOK
  <2>3. \A g \in Fibers \ {f} : WaitOK(g)'
    BY <2>1, <2>2, Unmoved DEF WakeInv
  <2>4. \A g \in Fibers : g = f => WaitOK(g)'
    <3>0. /\ pc[f] \notin {"published", "armed"}
          /\ Published(f) /\ cond[f] =>
                state[f] = "Ready" \/ wake_pending[f] \/ suspendCount[f] > 0 \/ WakeComing(f)
          /\ state[f] = "Absent" => pc[f] = "none"
      BY <2>1 DEF WakeInv, WaitOK, Reached
    <3>. SUFFICES ASSUME NEW g \in Fibers, g = f PROVE WaitOK(g)'
      OBVIOUS
    <3>1. CASE enqueue_locked(f) /\ UNCHANGED pc
      <4>1. state'[f] = "Ready"
        BY <1>0, <2>1, <3>1, EnqueueLocked
      <4>. QED  BY <3>0, <3>1, <4>1 DEF WaitOK, Reached, Published
    <3>2. CASE /\ state[f] = "Blocked" /\ ~(wake_pending[f] /\ suspendCount[f] = 0)
               /\ UNCHANGED <<queueVars, pc>>
      <4>1. suspendCount[f] \in Nat
        BY <1>0, <2>1 DEF TypeOK
      <4>2. Published(f) /\ cond[f] => suspendCount[f] > 0 \/ WakeComing(f)
        BY <3>0, <3>2, <4>1
      <4>. QED  BY <2>1, <3>0, <3>2, <4>2 DEF WaitOK, Reached, Published, WakeComing
    <3>3. CASE state[f] = "Ready" /\ UNCHANGED <<queueVars, pc>>
      BY <3>0, <3>3 DEF WaitOK, Reached, Published
    <3>4. CASE pc' = [pc EXCEPT ![f] = "none"]
      BY <1>0, <2>1, <3>4 DEF WaitOK, Published, TypeOK
    <3>. QED  BY <1>3, <3>1, <3>2, <3>3, <3>4 DEF PostResume
  <2>. QED  BY <2>3, <2>4 DEF WakeInv
<1>. QED  BY <1>1, <1>2, <1>3 DEF Executor

-----------------------------------------------------------------------------
(* Operations on another fiber *)

\* create_fiber makes a fiber of a new generation that waits for nothing.
LEMMA create_fiberWaits ==
    ASSUME IInv, WakeInv, NEW f \in Fibers, NEW p \in Prios, create_fiber(f, p)
    PROVE  WakeInv'
<1>0. TypeOK /\ ControlInv
  BY DEF IInv
<1>1. /\ running = f /\ exec = "guest" /\ state[f] # "Absent"
      /\ target[f] \in Fibers /\ state[target[f]] = "Absent"
  BY <1>0 DEF create_fiber, Executing, ControlInv
<1>2. PICK t \in Fibers : t = target[f]
  BY <1>1
<1>3. t # f
  BY <1>1, <1>2
<1>4. /\ UNCHANGED <<running, cond, calls>>
      /\ generation' = [generation EXCEPT ![t] = @ + 1]
      /\ wake_pending' = [wake_pending EXCEPT ![t] = FALSE]
      /\ suspendCount' = [suspendCount EXCEPT ![t] = 0]
      /\ state' = [state EXCEPT ![t] = "Ready"]
      /\ pc' = [pc EXCEPT ![f] = "maybe_yield", ![t] = "run"]
  BY <1>2 DEF create_fiber
<1>5. WaitOK(t)' /\ WaitOK(f)'
  <2>1. /\ pc'[t] = "run" /\ state'[t] = "Ready"
        /\ pc'[f] = "maybe_yield" /\ state'[f] = state[f]
    BY <1>0, <1>3, <1>4 DEF TypeOK
  <2>. QED  BY <1>1, <2>1, NotPublished
<1>6. \A g \in Fibers \ {t, f} : WaitOK(g)'
  <2>. SUFFICES ASSUME NEW g \in Fibers \ {t, f} PROVE WaitOK(g)'
    OBVIOUS
  <2>1. generation'[g] = generation[g]
    BY <1>0, <1>4 DEF TypeOK
  <2>2. /\ pc'[g] = pc[g] /\ state'[g] = state[g] /\ cond'[g] = cond[g]
        /\ suspendCount'[g] = suspendCount[g] /\ wake_pending'[g] = wake_pending[g]
        /\ running # g
    BY <1>0, <1>1, <1>4 DEF TypeOK
  <2>. QED  BY <1>4, <2>1, <2>2, Unmoved DEF WakeInv
<1>. QED  BY <1>5, <1>6 DEF WakeInv

\* TerminateThread wakes its target whatever the suspend gate says.
LEMMA TerminateThreadWaits ==
    ASSUME IInv, WakeInv, NEW f \in Fibers, NEW t \in Targets, TerminateThread(f, t)
    PROVE  WakeInv'
<1>0. /\ TypeOK /\ t \in Fibers /\ t # f /\ state[t] # "Absent"
      /\ running = f /\ exec = "guest" /\ state[f] # "Absent"
  BY DEF IInv, ControlInv, TerminateThread, AtHome, Executing, Targets, Started
<1>1. /\ wake_locked(t) /\ exec' = "guest"
      /\ UNCHANGED <<running, cond, generation, calls>>
      /\ suspendCount' = [suspendCount EXCEPT ![t] = 0]
      /\ pc' = [pc EXCEPT ![f] = "join"]
  BY <1>0 DEF TerminateThread, request_terminate, notify_all, Goto
<1>2. /\ pc'[f] = "join" /\ pc'[t] = pc[t] /\ state'[f] = state[f]
      /\ \A g \in Fibers \ {t} : state'[g] = state[g] /\ wake_pending'[g] = wake_pending[g]
  BY <1>0, <1>1, WakeReaches DEF TypeOK
<1>3. WaitOK(f)'
  BY <1>0, <1>2, NotPublished
<1>4. WaitOK(t)'
  BY <1>0, <1>1, <1>2, WokenOK DEF WakeInv
<1>5. \A g \in Fibers \ {t, f} : WaitOK(g)'
  <2>. SUFFICES ASSUME NEW g \in Fibers \ {t, f} PROVE WaitOK(g)'
    OBVIOUS
  <2>1. pc'[g] = pc[g] /\ suspendCount'[g] = suspendCount[g] /\ running # g
    BY <1>0, <1>1 DEF TypeOK
  <2>. QED  BY <1>1, <1>2, <2>1, Unmoved DEF WakeInv
<1>. QED  BY <1>3, <1>4, <1>5 DEF WakeInv

\* The signaller finds the published fiber and wakes it, unless it is suspended.
LEMMA SignalWaits == ASSUME IInv, WakeInv, NEW t \in Targets, Signal(t) PROVE WakeInv'
<1>0. TypeOK /\ t \in Fibers /\ t # running /\ state[t] # "Absent" /\ WaitOK(t)
  BY DEF IInv, Targets, Started, WakeInv
<1>1. /\ Caller("maybe_yield") /\ cond' = [cond EXCEPT ![t] = TRUE]
      /\ exec = "guest" => exec' = "guest"
      /\ UNCHANGED <<running, suspendCount, generation, calls>>
  BY DEF Signal, make_ready, notify_all
<1>2. pc'[t] = pc[t]
  BY <1>0, <1>1, Constants DEF Caller, TypeOK
<1>3. \/ Published(t) /\ wake_locked(t)
      \/ UNCHANGED <<state, wake_pending>> /\ (Published(t) => suspendCount[t] # 0)
  BY <1>0 DEF Signal, make_ready, Live
<1>4. WaitOK(t)'
  <2>1. CASE wake_locked(t)
    BY <1>0, <1>1, <1>2, <2>1, WokenOK
  <2>2. CASE UNCHANGED <<state, wake_pending>> /\ (Published(t) => suspendCount[t] # 0)
    <3>1. suspendCount[t] \in Nat
      BY <1>0 DEF TypeOK
    <3>2. Published(t) => suspendCount[t] > 0
      BY <2>2, <3>1
    <3>. QED  BY <1>0, <1>1, <1>2, <2>2, <3>2 DEF WaitOK, Reached, Published
  <2>. QED  BY <1>3, <2>1, <2>2
<1>5. \A g \in Fibers \ {t} :
          /\ state'[g] = state[g] /\ cond'[g] = cond[g]
          /\ suspendCount'[g] = suspendCount[g] /\ wake_pending'[g] = wake_pending[g]
          /\ generation'[g] = generation[g]
  BY <1>0, <1>1, <1>3, WakeReaches DEF TypeOK
<1>6. running \notin {t} /\ \A u \in {t} \cap Fibers : WaitOK(u)'
  BY <1>0, <1>4
<1>. QED  BY <1>1, <1>5, <1>6, WakeCallerStep

\* A suspended fiber is excused: its ResumeThread wakes it.
LEMMA SuspendThreadWaits ==
    ASSUME IInv, WakeInv, NEW t \in Targets, SuspendThread(t)
    PROVE  WakeInv'
<1>0. /\ TypeOK /\ t \in Fibers /\ t # running /\ state[t] # "Absent" /\ WaitOK(t)
      /\ QWF(run_queue, priority, state) /\ suspendCount[t] \in Nat
  BY DEF IInv, Targets, Started, WakeInv, TypeOK
<1>1. /\ Caller("return") /\ suspend_other(t)
      /\ UNCHANGED <<running, exec, cond, wake_pending, generation, calls>>
  BY DEF SuspendThread
<1>2. pc'[t] = pc[t]
  BY <1>0, <1>1, Constants DEF Caller, TypeOK
<1>3. /\ suspendCount'[t] = suspendCount[t] + 1
      /\ \A g \in Fibers \ {t} : suspendCount'[g] = suspendCount[g]
  <2>1. suspendCount' = [suspendCount EXCEPT ![t] = @ + 1]
    BY <1>1 DEF suspend_other
  <2>. QED  BY <1>0, <2>1 DEF TypeOK
<1>4. suspendCount'[t] > 0
  BY <1>0, <1>3
<1>5. /\ state'[t] # "Absent" /\ \A g \in Fibers \ {t} : state'[g] = state[g]
  BY <1>0, <1>1, SuspendOther
<1>6. WaitOK(t)'
  BY <1>0, <1>1, <1>2, <1>4, <1>5 DEF WaitOK, Reached
<1>7. running \notin {t} /\ \A u \in {t} \cap Fibers : WaitOK(u)'
  BY <1>0, <1>6
<1>8. \A g \in Fibers \ {t} :
          /\ state'[g] = state[g] /\ cond'[g] = cond[g]
          /\ suspendCount'[g] = suspendCount[g] /\ wake_pending'[g] = wake_pending[g]
          /\ generation'[g] = generation[g]
  BY <1>1, <1>3, <1>5
<1>. QED  BY <1>1, <1>7, <1>8, WakeCallerStep

\* ResumeThread opens the gate and wakes the fiber in one critical section.
LEMMA ResumeThreadWaits == ASSUME IInv, WakeInv, NEW t \in Targets, ResumeThread(t) PROVE WakeInv'
<1>0. TypeOK /\ t \in Fibers /\ t # running /\ state[t] # "Absent" /\ WaitOK(t)
  BY DEF IInv, Targets, Started, WakeInv
<1>1. /\ UNCHANGED <<running, cond, generation, calls>>
      /\ exec = "guest" => exec' = "guest"
  BY DEF ResumeThread, clear_suspend, notify_all
<1>2. CASE clear_suspend(t) /\ Caller("maybe_yield")
  <2>1. pc'[t] = pc[t]
    BY <1>0, <1>2, Constants DEF Caller, TypeOK
  <2>2. wake_locked(t) /\ suspendCount' = [suspendCount EXCEPT ![t] = 0]
    BY <1>2 DEF clear_suspend
  <2>3. WaitOK(t)'
    BY <1>0, <1>1, <2>1, <2>2, WokenOK
  <2>4. \A g \in Fibers \ {t} :
            /\ state'[g] = state[g] /\ wake_pending'[g] = wake_pending[g]
            /\ suspendCount'[g] = suspendCount[g]
    BY <1>0, <2>2, WakeReaches DEF TypeOK
  <2>5. running \notin {t} /\ \A u \in {t} \cap Fibers : WaitOK(u)'
    BY <1>0, <2>3
  <2>6. \A g \in Fibers \ {t} :
            /\ state'[g] = state[g] /\ cond'[g] = cond[g]
            /\ suspendCount'[g] = suspendCount[g] /\ wake_pending'[g] = wake_pending[g]
            /\ generation'[g] = generation[g]
    BY <1>1, <2>4
  <2>. QED  BY <1>1, <1>2, <2>5, <2>6, WakeCallerStep
<1>3. CASE UNCHANGED <<queueVars, suspendCount, exec, asleep>> /\ Caller("return")
  <2>1. /\ running \notin {} /\ \A u \in {} \cap Fibers : WaitOK(u)'
        /\ \A g \in Fibers \ {} :
              /\ state'[g] = state[g] /\ cond'[g] = cond[g]
              /\ suspendCount'[g] = suspendCount[g] /\ wake_pending'[g] = wake_pending[g]
              /\ generation'[g] = generation[g]
    BY <1>1, <1>3
  <2>. QED  BY <1>1, <1>3, <2>1, WakeCallerStep
<1>. QED  BY <1>2, <1>3 DEF ResumeThread

\* Priorities and the order of the queue are no part of a wait.
LEMMA QueueOrderWaits ==
    ASSUME IInv, WakeInv,
           \/ \E t \in Fibers, p \in Prios : ChangeThreadPriority(t, p)
           \/ \E p \in Prios : RotateThreadReadyQueue(p)
    PROVE  WakeInv'
<1>1. /\ Caller("force_reschedule") \/ Caller("maybe_yield")
      /\ UNCHANGED <<state, wake_pending, running, exec, suspendCount, cond, generation, calls>>
  BY DEF ChangeThreadPriority, RotateThreadReadyQueue
<1>2. /\ running \notin {}
      /\ \A g \in Fibers \ {} :
            /\ state'[g] = state[g] /\ cond'[g] = cond[g]
            /\ suspendCount'[g] = suspendCount[g] /\ wake_pending'[g] = wake_pending[g]
            /\ generation'[g] = generation[g]
      /\ \A u \in {} \cap Fibers : WaitOK(u)'
  BY <1>1
<1>. QED  BY <1>1, <1>2, WakeCallerStep

-----------------------------------------------------------------------------
(* Host threads and shutdown *)

\* A host thread that makes the condition true of a published fiber has its
\* scheduler step still to make.
LEMMA HostBeginWaits ==
    ASSUME IInv, WakeInv, NEW op \in HostOps, NEW t \in Fibers, HostBegin(op, t)
    PROVE  WakeInv'
<1>0. TypeOK /\ WaitOK(t)
  BY DEF IInv, WakeInv
<1>1. /\ UNCHANGED <<pc, state, suspendCount, wake_pending, generation, running, exec>>
      /\ calls \subseteq calls'
      /\ UNCHANGED cond \/ (op \in {"wake", "ready"} /\ cond' = [cond EXCEPT ![t] = TRUE])
  BY DEF HostBegin
<1>2. \A g \in Fibers \ {t} : cond'[g] = cond[g]
  BY <1>0, <1>1 DEF TypeOK
<1>3. WaitOK(t)'
  <2>1. CASE UNCHANGED cond
    BY <1>0, <1>1, <2>1, Unmoved
  <2>2. CASE op \in {"wake", "ready"} /\ ~Published(t)
    BY <1>0, <1>1, <2>2 DEF WaitOK, Published
  <2>3. CASE op \in {"wake", "ready"} /\ Published(t)
    <3> DEFINE c == [op |-> op, tid |-> t, gen |-> generation[t]]
    <3>1. c \in calls'
      BY <2>3 DEF HostBegin
    <3>2. c.tid = t /\ c.op = op /\ c.gen = generation[t]
      OBVIOUS
    <3>. HIDE DEF c
    <3>3. \E d \in calls' :
            d.tid = t /\ (d.op = "ready" \/ (d.op = "wake" /\ d.gen = generation'[t]))
      BY <1>1, <2>3, <3>1, <3>2
    <3>. QED  BY <1>0, <1>1, <3>3 DEF WaitOK, Reached, WakeComing
  <2>. QED  BY <1>1, <2>1, <2>2, <2>3
<1>. QED  BY <1>1, <1>2, <1>3, Beside

\* The scheduler step of a host call: it wakes the fiber it names, or its call
\* was none that the fiber's wait rested on.
LEMMA HostEndWaits == ASSUME IInv, WakeInv, NEW c \in calls, HostEnd(c) PROVE WakeInv'
<1>0. TypeOK /\ c.tid \in Fibers /\ QWF(run_queue, priority, state)
  BY DEF IInv, TypeOK, Calls
<1>1. PICK t \in Fibers : t = c.tid
  BY <1>0
<1>2. /\ UNCHANGED <<pc, cond, generation, running>>
      /\ exec = "guest" => exec' = "guest"
      /\ calls' = calls \ {c}
      /\ WaitOK(t)
  BY DEF HostEnd, enqueue_external_wakeup_validated, make_ready, suspend_other, clear_suspend,
         request_terminate, notify_all, WakeInv
<1>3. suspendCount[t] \in Nat
  BY <1>0 DEF TypeOK
<1>4. CASE wake_locked(t) /\ Live(t) /\ \A g \in Fibers \ {t} : suspendCount'[g] = suspendCount[g]
  <2>1. WaitOK(t)'
    BY <1>2, <1>4, WokenOK DEF Live
  <2>2. \A g \in Fibers \ {t} :
           state'[g] = state[g] /\ wake_pending'[g] = wake_pending[g]
    BY <1>4, WakeReaches
  <2>. QED  BY <1>1, <1>2, <1>4, <2>1, <2>2, Beside
<1>5. CASE c.op = "suspend" /\ suspend_other(t) /\ Live(t) /\ UNCHANGED wake_pending
  <2>1. suspendCount' = [suspendCount EXCEPT ![t] = @ + 1]
    BY <1>5 DEF suspend_other
  <2>2. /\ suspendCount'[t] = suspendCount[t] + 1
        /\ \A g \in Fibers \ {t} : suspendCount'[g] = suspendCount[g]
    BY <1>0, <2>1 DEF TypeOK
  <2>3. suspendCount'[t] > 0
    BY <1>3, <2>2
  <2>4. state'[t] # "Absent" /\ \A g \in Fibers \ {t} : state'[g] = state[g]
    BY <1>0, <1>5, SuspendOther DEF Live
  <2>5. WaitOK(t)'
    BY <1>2, <2>3, <2>4 DEF WaitOK, Reached
  <2>. QED  BY <1>1, <1>2, <1>5, <2>2, <2>4, <2>5, Beside
<1>6. CASE /\ UNCHANGED <<queueVars, suspendCount>>
           /\ \/ ~Live(t) \/ suspendCount[t] # 0
              \/ c.op \notin {"wake", "ready"}
              \/ c.op = "wake" /\ c.gen # generation[t]
  <2>1. WaitOK(t)'
    <3>1. CASE ~Live(t)
      BY <1>2, <1>6, <3>1 DEF WaitOK, Live, Published
    <3>2. CASE suspendCount[t] # 0
      <4>1. suspendCount'[t] > 0
        BY <1>3, <1>6, <3>2
      <4>. QED  BY <1>2, <1>6, <4>1 DEF WaitOK, Reached
    <3>3. CASE c.op \notin {"wake", "ready"} \/ (c.op = "wake" /\ c.gen # generation[t])
      <4>1. WakeComing(t) => WakeComing(t)'
        BY <1>2, <3>3 DEF WakeComing
      <4>. QED  BY <1>2, <1>6, <4>1 DEF WaitOK, Reached, Published
    <3>. QED  BY <1>6, <3>1, <3>2, <3>3
  <2>. QED  BY <1>1, <1>2, <1>6, <2>1, Beside
<1>7. suspendCount' = suspendCount \/ suspendCount' = [suspendCount EXCEPT ![t] = 0]
         => \A g \in Fibers \ {t} : suspendCount'[g] = suspendCount[g]
  BY <1>0 DEF TypeOK
<1>. QED
  <2>1. \/ /\ wake_locked(t) /\ Live(t)
           /\ suspendCount' = suspendCount \/ suspendCount' = [suspendCount EXCEPT ![t] = 0]
        \/ c.op = "suspend" /\ suspend_other(t) /\ Live(t) /\ UNCHANGED wake_pending
        \/ /\ UNCHANGED <<queueVars, suspendCount>>
           /\ \/ ~Live(t) \/ suspendCount[t] # 0
              \/ c.op \notin {"wake", "ready"}
              \/ c.op = "wake" /\ c.gen # generation[t]
    BY <1>1 DEF HostEnd, enqueue_external_wakeup_validated, make_ready, clear_suspend,
                request_terminate
  <2>. QED  BY <1>4, <1>5, <1>6, <1>7, <2>1

\* scheduler_shutdown opens the gate of a fiber only together with its wake.
LEMMA ShutdownVisitWaits == ASSUME IInv, WakeInv, NEW t \in sweep, ShutdownVisit(t) PROVE WakeInv'
<1>0. TypeOK /\ t \in Fibers /\ WaitOK(t)
  BY DEF IInv, TypeOK, WakeInv
<1>1. UNCHANGED <<pc, cond, generation, running, exec, calls>>
  BY DEF ShutdownVisit
<1>2. CASE /\ wake_locked(t) /\ state[t] # "Absent"
           /\ suspendCount' = [suspendCount EXCEPT ![t] = 0]
  <2>1. WaitOK(t)'
    BY <1>0, <1>1, <1>2, WokenOK
  <2>2. \A g \in Fibers \ {t} :
           /\ state'[g] = state[g] /\ wake_pending'[g] = wake_pending[g]
           /\ suspendCount'[g] = suspendCount[g]
    BY <1>0, <1>2, WakeReaches DEF TypeOK
  <2>. QED  BY <1>0, <1>1, <2>1, <2>2, Beside
<1>3. CASE UNCHANGED <<queueVars, suspendCount>>
  BY <1>0, <1>1, <1>3, Unmoved DEF WakeInv
<1>. QED  BY <1>2, <1>3 DEF ShutdownVisit

-----------------------------------------------------------------------------
(* The theorem *)

\* Before the first resume nobody waits.
LEMMA InitWaits == Init => WakeInv
  BY Constants DEF Init, WakeInv, WaitOK, Published

\* Every step of the specification keeps the invariant.
LEMMA NextWaits == ASSUME IInv, WakeInv, [Next]_vars PROVE WakeInv'
<1>1. CASE UNCHANGED vars
  BY <1>1, Unmoved DEF vars, WakeInv
<1>2. CASE \E f \in sweep : ShutdownVisit(f)
  BY <1>2, ShutdownVisitWaits
<1>3. CASE Executor
  BY <1>3, ExecutorWaits
<1>4. CASE SpuriousWakeup \/ ShutdownBegin \/ \E w \in Workers : Worker(w)
  <2>1. /\ UNCHANGED <<pc, state, cond, suspendCount, wake_pending, generation, running, calls>>
        /\ exec = "guest" => exec' = "guest"
    BY <1>4 DEF SpuriousWakeup, ShutdownBegin, Worker, PublishWaiter, async_guest_begin,
                async_guest_end, notify_all
  <2>. QED  BY <2>1, Unmoved DEF WakeInv
<1>5. CASE SlotOwner
  BY <1>5, SignalWaits, SuspendThreadWaits, ResumeThreadWaits, QueueOrderWaits DEF SlotOwner
<1>6. CASE \E op \in HostOps, t \in Fibers : HostBegin(op, t)
  BY <1>6, HostBeginWaits
<1>7. CASE \E c \in calls : HostEnd(c)
  BY <1>7, HostEndWaits
<1>8. CASE \E f \in Fibers : FiberStep(f)
  <2>1. PICK f \in Fibers : FiberStep(f)
    BY <1>8
  <2>2. CASE Continue(f)
    <3>1. CASE Recheck(f)
      BY <3>1, CheckConditionWaits DEF Recheck
    <3>. QED
      BY <2>2, <3>1, arm_parkWaits, block_currentWaits, waitWhileSuspendedWaits, suspend_selfWaits,
         SuspendReturnWaits, RescheduleWaits, YieldPointReturnWaits, join_fiberWaits,
         create_fiberWaits DEF Continue
  <2>3. CASE Wait(f)
    BY <2>3, CheckConditionWaits DEF Wait, AtHome
  <2>. QED
    BY <2>1, <2>2, <2>3, SuspendThreadSelfWaits, YieldPointGatesWaits, YieldPointWaits,
       SetInterruptsWaits, DispatchLoopEndsWaits, FiberFinishedWaits, StartThreadWaits,
       TerminateThreadWaits DEF FiberStep
<1>. QED  BY <1>1, <1>2, <1>3, <1>4, <1>5, <1>6, <1>7, <1>8 DEF Next, Host

\* The invariant says what NoLostWakeup says of the parked fibers.
LEMMA WakeInvImplies == IInv /\ WakeInv => NoLostWakeup
  BY DEF IInv, QWF, WakeInv, WaitOK, Reached, WakeComing, NoLostWakeup, Parked, Published,
         CallPending

\* No wakeup is lost: a fiber whose wait condition holds is not left parked
\* between publish, arm_park, block_current and the executor's post-resume code,
\* whoever signals it and whenever (wake_locked, make_ready,
\* enqueue_external_wakeup_validated, clear_suspend, request_terminate).
THEOREM NothingSlept == Spec => []NoLostWakeup
<1>1. Init => IInv /\ WakeInv
  BY InitKeeps, InitWaits
<1>2. IInv /\ WakeInv /\ [Next]_vars => (IInv /\ WakeInv)'
  BY NextKeeps, NextWaits
<1>3. IInv /\ WakeInv => NoLostWakeup
  BY WakeInvImplies
<1>. QED  BY <1>1, <1>2, <1>3, PTL DEF Spec
=============================================================================
