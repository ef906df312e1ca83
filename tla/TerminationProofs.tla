-------------------------- MODULE TerminationProofs --------------------------
(***************************************************************************)
(* The scheduler's suspend gate, its termination requests and its shutdown *)
(* for any set of fibers and workers and any number of generations.  Each  *)
(* theorem names the host operations it excludes: those act on whatever    *)
(* fiber the identifier names by then, and the property fails with them.   *)
(***************************************************************************)
EXTENDS SchedulerProofs

-----------------------------------------------------------------------------
(* What the theorems assume of the program *)

\* A host's request to terminate cannot reach a later fiber of the identifier.
OneFiberPerId == "terminate" \notin HostOps \/ MaxGeneration = 1

\* Only the guest suspends, resumes and signals, and the process is not stopping.
GuestGates == HostOps \subseteq {"terminate"} /\ "stop" \notin Ops

\* Only the guest suspends and resumes.
GuestCounts == {"suspend", "clear"} \cap HostOps = {}

\* Nobody suspends, and only the guest terminates.
NoSuspends == "suspend" \notin Ops \cup HostOps /\ "terminate" \notin HostOps

-----------------------------------------------------------------------------
(* The inductive invariant, fiber by fiber *)

\* Where a fiber is on its way to block_current.
ToPark == {"published", "armed", "wwsArmed", "suspending", "suspended", "selfArmed", "once"}

\* block_current has still to decide, or the executor's post-resume code has.
Parking(f) ==
    \/ exec = "guest" /\ pc[f] \in ToPark /\ ~stop
    \/ exec = "post" /\ state[f] = "Blocked"

\* A fiber that is neither queued nor parked owns the slot.
Base(f) ==
    /\ running = f => exec \in {"guest", "post"}
    /\ pc[f] \in ToPark => running = f /\ exec = "guest"
    /\ state[f] \in {"Running", "Exiting", "Finished"} => running = f
    /\ state[f] = "Finished" => exec = "post"
    /\ running = f /\ exec = "guest" /\ state[f] = "Blocked"
          => pc[f] \in {"armed", "wwsArmed", "selfArmed"}
    /\ state[f] # "Absent" => generation[f] > 0
    /\ \A c \in calls : c.tid = f => c.op \in HostOps
    /\ sweep # {} => stop

\* The ThreadInfo of a fiber asked to terminate says so before the scheduler
\* does, and its wakeup is noted while it is on its way to park.
Term(f) ==
    /\ terminateRequested[f] /\ Started(f) => terminated[f] \/ stop
    /\ \A c \in calls : c.tid = f /\ c.op = "terminate" =>
          generation[f] = MaxGeneration /\ (Started(f) => terminated[f])
    /\ running = f /\ terminateRequested[f] /\ Parking(f) => wake_pending[f] \/ suspendCount[f] > 0
    /\ Parked(f) /\ terminateRequested[f] => suspendCount[f] > 0

\* Until the process stops, a suspended fiber is Blocked, or is about to be.
Gate(f) ==
    /\ ~stop
    /\ wake_pending[f] => terminateRequested[f]
    /\ suspendCount[f] > 0 /\ ~terminateRequested[f] =>
          \/ state[f] \in {"Blocked", "Absent"}
          \/ running = f /\ exec = "guest" /\ pc[f] = "suspended"

\* The thread's own count is raised before the scheduler's.
Count(f) ==
    /\ pc[f] = "suspending" => infoSuspend[f] > 0
    /\ suspendCount[f] > 0 /\ Started(f) => infoSuspend[f] > 0

\* The executor quits after the sweep, when no fiber has its exit to run.
Quit(f) ==
    /\ suspendCount[f] = 0 /\ pc[f] # "suspending"
    /\ exec = "quit" => stop /\ sweep = {}
    /\ exec = "quit" /\ terminateRequested[f] => state[f] = "Absent"

FInv(f) ==
    /\ Base(f)
    /\ OneFiberPerId => Term(f)
    /\ GuestGates => Gate(f)
    /\ GuestCounts => Count(f)
    /\ NoSuspends => Quit(f)

TInv == \A f \in Fibers : FInv(f)

-----------------------------------------------------------------------------
(* What a step leaves alone *)

USE DEF queueVars, execVars, tokenVars, stopVars, gateVars, prioVars, ctlVars, infoVars

\* A step changes nothing the invariant says of fiber g.
Untouched(g) ==
    /\ pc'[g] = pc[g] /\ state'[g] = state[g] /\ generation'[g] = generation[g]
    /\ wake_pending'[g] = wake_pending[g] /\ suspendCount'[g] = suspendCount[g]
    /\ terminateRequested'[g] = terminateRequested[g]
    /\ terminated'[g] = terminated[g] /\ infoSuspend'[g] = infoSuspend[g]

\* The executor, the shutdown and the host calls do nothing the invariant sees.
Steady ==
    /\ running' = running
    /\ exec' = exec \/ (exec = "asleep" /\ exec' = "check")
    /\ stop' = stop /\ sweep' \subseteq sweep
    /\ calls' \subseteq calls

\* The invariant of a fiber that a steady step does not touch stays.
LEMMA UntouchedKeeps ==
    ASSUME NEW g \in Fibers, FInv(g), Untouched(g), Steady
    PROVE  FInv(g)'
<1>1. Base(g)'
  BY DEF FInv, Base, Untouched, Steady
<1>2. OneFiberPerId => Term(g)'
  BY DEF FInv, Term, Untouched, Steady, Started, Parking, Parked
<1>3. GuestGates => Gate(g)'
  BY DEF FInv, Gate, Untouched, Steady
<1>4. GuestCounts => Count(g)'
  BY DEF FInv, Count, Untouched, Steady, Started
<1>5. NoSuspends => Quit(g)'
  BY DEF FInv, Quit, Untouched, Steady
<1>. QED  BY <1>1, <1>2, <1>3, <1>4, <1>5
             DEF FInv, OneFiberPerId, GuestGates, GuestCounts, NoSuspends

\* A step of the executing fiber that touches no other fiber, and leaves its own
\* part in order, keeps the invariant.
LEMMA OwnStep ==
    ASSUME IInv, TInv, NEW f \in Fibers, Executing(f), exec' \in {"guest", "post"},
           UNCHANGED <<running, stop, sweep, calls>>,
           \A g \in Fibers \ {f} : Untouched(g),
           FInv(f)'
    PROVE  TInv'
<1>1. \A g \in Fibers \ {f} : FInv(g)'
  <2>. SUFFICES ASSUME NEW g \in Fibers \ {f} PROVE FInv(g)'
    OBVIOUS
  <2>0. running = f /\ exec = "guest" /\ g # f /\ FInv(g) /\ Untouched(g)
    BY DEF Executing, TInv
  <2>1. Base(g)'
    BY <2>0 DEF FInv, Base, Untouched
  <2>2. OneFiberPerId => Term(g)'
    BY <2>0 DEF FInv, Term, Untouched, Started, Parking, Parked
  <2>3. GuestGates => Gate(g)'
    BY <2>0 DEF FInv, Gate, Untouched
  <2>4. GuestCounts => Count(g)'
    BY <2>0 DEF FInv, Count, Untouched, Started
  <2>5. NoSuspends => Quit(g)'
    BY <2>0 DEF FInv, Quit, Untouched
  <2>. QED  BY <2>1, <2>2, <2>3, <2>4, <2>5
               DEF FInv, OneFiberPerId, GuestGates, GuestCounts, NoSuspends
<1>. QED  BY <1>1 DEF TInv

\* What the invariant says of the fiber that executes.
LEMMA ExecutingFiber ==
    ASSUME IInv, TInv, NEW f \in Fibers, Executing(f)
    PROVE  /\ running = f /\ exec = "guest" /\ FInv(f) /\ TypeOK
           /\ state[f] \in {"Running", "Exiting", "Blocked"}
           /\ suspendCount[f] \in Nat /\ infoSuspend[f] \in Nat
           /\ state[f] = "Blocked" => pc[f] \in {"armed", "wwsArmed", "selfArmed"}
<1>1. running = f /\ exec = "guest" /\ FInv(f) /\ TypeOK /\ state[f] \notin {"Ready", "Absent"}
  BY DEF Executing, TInv, IInv, ControlInv
<1>2. state[f] \in States /\ suspendCount[f] \in Nat /\ infoSuspend[f] \in Nat
  BY <1>1 DEF TypeOK
<1>. QED  BY <1>1, <1>2 DEF FInv, Base, States

-----------------------------------------------------------------------------
(* Steps of the running fiber that do not lead to block_current *)

\* A step of the executing fiber from outside arm_park and suspend_self to a
\* place outside ToPark.
LEMMA PlainStep ==
    ASSUME IInv, TInv, NEW f \in Fibers, Executing(f),
           pc[f] \notin {"armed", "wwsArmed", "selfArmed", "suspended"},
           \E place \in Places \ ToPark : pc' = [pc EXCEPT ![f] = place],
           exec' \in {"guest", "post"},
           \/ state' = state
           \/ state' = [state EXCEPT ![f] = "Exiting"]
           \/ state' = [state EXCEPT ![f] = "Finished"] /\ exec' = "post"
           \/ enqueue_locked(f),
           \/ UNCHANGED <<terminated, infoSuspend>>
           \/ /\ state' = [state EXCEPT ![f] = "Finished"]
              /\ terminated' = [terminated EXCEPT ![f] = FALSE]
              /\ infoSuspend' = [infoSuspend EXCEPT ![f] = 0],
           UNCHANGED <<wake_pending, suspendCount, terminateRequested, generation, running, stop,
                       sweep, calls>>
    PROVE  TInv'
<1>0. /\ running = f /\ exec = "guest" /\ FInv(f) /\ TypeOK /\ state[f] \in {"Running", "Exiting"}
      /\ QWF(run_queue, priority, state)
  BY ExecutingFiber DEF IInv
<1>1. /\ pc'[f] \notin ToPark
      /\ \A g \in Fibers \ {f} : pc'[g] = pc[g]
  BY <1>0 DEF TypeOK
<1>2. /\ state'[f] \in {"Running", "Exiting", "Finished", "Ready"}
      /\ state'[f] = "Finished" => exec' = "post"
      /\ \A g \in Fibers \ {f} : state'[g] = state[g]
  <2>1. CASE enqueue_locked(f)
    BY <1>0, <2>1, EnqueueLocked
  <2>. QED  BY <1>0, <2>1 DEF TypeOK
<1>3. /\ \A g \in Fibers \ {f} : terminated'[g] = terminated[g] /\ infoSuspend'[g] = infoSuspend[g]
      /\ \/ terminated'[f] = terminated[f] /\ infoSuspend'[f] = infoSuspend[f]
         \/ state'[f] = "Finished"
  BY <1>0 DEF TypeOK
<1>4. FInv(f)'
  <2>1. Base(f)'
    BY <1>0, <1>1, <1>2 DEF FInv, Base
  <2>2. OneFiberPerId => Term(f)'
    BY <1>0, <1>1, <1>2, <1>3 DEF FInv, Term, Started, Parking, Parked
  <2>3. GuestGates => Gate(f)'
    BY <1>0 DEF FInv, Gate
  <2>4. GuestCounts => Count(f)'
    BY <1>0, <1>1, <1>2, <1>3 DEF FInv, Count, Started, ToPark
  <2>5. NoSuspends => Quit(f)'
    BY <1>0, <1>1 DEF FInv, Quit, ToPark
  <2>. QED  BY <2>1, <2>2, <2>3, <2>4, <2>5
               DEF FInv, OneFiberPerId, GuestGates, GuestCounts, NoSuspends
<1>5. \A g \in Fibers \ {f} : Untouched(g)
  BY <1>1, <1>2, <1>3 DEF Untouched
<1>. QED  BY <1>4, <1>5, OwnStep

\* A fiber that stays where it is goes, formally, to where it is.
LEMMA StaysPut ==
    ASSUME IInv, NEW f \in Fibers, pc' = pc
    PROVE  pc' = [pc EXCEPT ![f] = pc[f]]
  BY DEF IInv, TypeOK

\* Between two system calls a fiber is not on its way to park.
LEMMA HomeIsPlain ==
    ASSUME NEW f \in Fibers
    PROVE  Home(f) \in {"run", "hook"} /\ Home(f) \in Places \ ToPark
  BY DEF Home, Places, ToPark

\* The exits of waitWhileSuspended.
LEMMA waitWhileSuspendedEnds ==
    ASSUME IInv, TInv, NEW f \in Fibers, waitWhileSuspended(f)
    PROVE  TInv'
<1>1. Executing(f) /\ exec = "guest"
  BY DEF waitWhileSuspended, AtHome, Executing
<1>2. pc[f] \notin {"armed", "wwsArmed", "selfArmed", "suspended"}
  BY HomeIsPlain DEF waitWhileSuspended, AtHome
<1>3. \E place \in Places \ ToPark : pc' = [pc EXCEPT ![f] = place]
  BY StaysPut, HomeIsPlain DEF waitWhileSuspended, Unwind, Goto, Places, ToPark
<1>4. /\ exec' \in {"guest", "post"}
      /\ \/ state' = state
         \/ state' = [state EXCEPT ![f] = "Exiting"]
         \/ state' = [state EXCEPT ![f] = "Finished"] /\ exec' = "post"
         \/ enqueue_locked(f)
  BY <1>1 DEF waitWhileSuspended, Unwind, Goto, Places, ToPark
<1>5. /\ \/ UNCHANGED <<terminated, infoSuspend>>
         \/ /\ state' = [state EXCEPT ![f] = "Finished"]
            /\ terminated' = [terminated EXCEPT ![f] = FALSE]
            /\ infoSuspend' = [infoSuspend EXCEPT ![f] = 0]
      /\ UNCHANGED <<wake_pending, suspendCount, terminateRequested, generation, running, stop,
                     sweep, calls>>
  BY DEF waitWhileSuspended, Unwind, Goto, Places, ToPark
<1>. QED  BY <1>1, <1>2, <1>3, <1>4, <1>5, PlainStep

\* SuspendThread after suspend_self returned.
LEMMA SuspendReturnEnds == ASSUME IInv, TInv, NEW f \in Fibers, SuspendReturn(f) PROVE TInv'
<1>1. Executing(f) /\ exec = "guest"
  BY DEF SuspendReturn, AtHome, Executing
<1>2. pc[f] \notin {"armed", "wwsArmed", "selfArmed", "suspended"}
  BY HomeIsPlain DEF SuspendReturn, AtHome
<1>3. \E place \in Places \ ToPark : pc' = [pc EXCEPT ![f] = place]
  BY StaysPut, HomeIsPlain DEF SuspendReturn, Unwind, Goto, Places, ToPark
<1>4. /\ exec' \in {"guest", "post"}
      /\ \/ state' = state
         \/ state' = [state EXCEPT ![f] = "Exiting"]
         \/ state' = [state EXCEPT ![f] = "Finished"] /\ exec' = "post"
         \/ enqueue_locked(f)
  BY <1>1 DEF SuspendReturn, Unwind, Goto, Places, ToPark
<1>5. /\ \/ UNCHANGED <<terminated, infoSuspend>>
         \/ /\ state' = [state EXCEPT ![f] = "Finished"]
            /\ terminated' = [terminated EXCEPT ![f] = FALSE]
            /\ infoSuspend' = [infoSuspend EXCEPT ![f] = 0]
      /\ UNCHANGED <<wake_pending, suspendCount, terminateRequested, generation, running, stop,
                     sweep, calls>>
  BY DEF SuspendReturn, Unwind, Goto, Places, ToPark
<1>. QED  BY <1>1, <1>2, <1>3, <1>4, <1>5, PlainStep

\* The trailing maybe_yield or force_reschedule.
LEMMA RescheduleEnds == ASSUME IInv, TInv, NEW f \in Fibers, Reschedule(f) PROVE TInv'
<1>1. Executing(f) /\ exec = "guest"
  BY DEF Reschedule, AtHome, Executing
<1>2. pc[f] \notin {"armed", "wwsArmed", "selfArmed", "suspended"}
  BY HomeIsPlain DEF Reschedule, AtHome
<1>3. \E place \in Places \ ToPark : pc' = [pc EXCEPT ![f] = place]
  BY StaysPut, HomeIsPlain DEF Reschedule, ps2fiber_yield, Goto, Places, ToPark
<1>4. /\ exec' \in {"guest", "post"}
      /\ \/ state' = state
         \/ state' = [state EXCEPT ![f] = "Exiting"]
         \/ state' = [state EXCEPT ![f] = "Finished"] /\ exec' = "post"
         \/ enqueue_locked(f)
  BY <1>1 DEF Reschedule, ps2fiber_yield, Goto, Places, ToPark
<1>5. /\ \/ UNCHANGED <<terminated, infoSuspend>>
         \/ /\ state' = [state EXCEPT ![f] = "Finished"]
            /\ terminated' = [terminated EXCEPT ![f] = FALSE]
            /\ infoSuspend' = [infoSuspend EXCEPT ![f] = 0]
      /\ UNCHANGED <<wake_pending, suspendCount, terminateRequested, generation, running, stop,
                     sweep, calls>>
  BY DEF Reschedule, ps2fiber_yield, Goto, Places, ToPark
<1>. QED  BY <1>1, <1>2, <1>3, <1>4, <1>5, PlainStep

\* yield_point past its gates.
LEMMA YieldPointEnds == ASSUME IInv, TInv, NEW f \in Fibers, YieldPoint(f) PROVE TInv'
<1>1. Executing(f) /\ exec = "guest"
  BY DEF YieldPoint, AtHome, Executing
<1>2. pc[f] \notin {"armed", "wwsArmed", "selfArmed", "suspended"}
  BY HomeIsPlain DEF YieldPoint, AtHome
<1>3. \E place \in Places \ ToPark : pc' = [pc EXCEPT ![f] = place]
  BY StaysPut, HomeIsPlain DEF YieldPoint, AtHome, ps2fiber_yield, Goto, Places, ToPark
<1>4. /\ exec' \in {"guest", "post"}
      /\ \/ state' = state
         \/ state' = [state EXCEPT ![f] = "Exiting"]
         \/ state' = [state EXCEPT ![f] = "Finished"] /\ exec' = "post"
         \/ enqueue_locked(f)
  BY <1>1 DEF YieldPoint, AtHome, ps2fiber_yield, Goto, Places, ToPark
<1>5. /\ \/ UNCHANGED <<terminated, infoSuspend>>
         \/ /\ state' = [state EXCEPT ![f] = "Finished"]
            /\ terminated' = [terminated EXCEPT ![f] = FALSE]
            /\ infoSuspend' = [infoSuspend EXCEPT ![f] = 0]
      /\ UNCHANGED <<wake_pending, suspendCount, terminateRequested, generation, running, stop,
                     sweep, calls>>
  BY DEF YieldPoint, AtHome, ps2fiber_yield, Goto, Places, ToPark
<1>. QED  BY <1>1, <1>2, <1>3, <1>4, <1>5, PlainStep

\* yield_point resumed.
LEMMA YieldPointReturnEnds == ASSUME IInv, TInv, NEW f \in Fibers, YieldPointReturn(f) PROVE TInv'
<1>1. Executing(f) /\ exec = "guest"
  BY DEF YieldPointReturn, AtHome, Executing
<1>2. pc[f] \notin {"armed", "wwsArmed", "selfArmed", "suspended"}
  BY HomeIsPlain DEF YieldPointReturn, AtHome
<1>3. \E place \in Places \ ToPark : pc' = [pc EXCEPT ![f] = place]
  BY StaysPut, HomeIsPlain DEF YieldPointReturn, ps2fiber_yield, Unwind, Goto, Places, ToPark
<1>4. /\ exec' \in {"guest", "post"}
      /\ \/ state' = state
         \/ state' = [state EXCEPT ![f] = "Exiting"]
         \/ state' = [state EXCEPT ![f] = "Finished"] /\ exec' = "post"
         \/ enqueue_locked(f)
  BY <1>1 DEF YieldPointReturn, ps2fiber_yield, Unwind, Goto, Places, ToPark
<1>5. /\ \/ UNCHANGED <<terminated, infoSuspend>>
         \/ /\ state' = [state EXCEPT ![f] = "Finished"]
            /\ terminated' = [terminated EXCEPT ![f] = FALSE]
            /\ infoSuspend' = [infoSuspend EXCEPT ![f] = 0]
      /\ UNCHANGED <<wake_pending, suspendCount, terminateRequested, generation, running, stop,
                     sweep, calls>>
  BY DEF YieldPointReturn, ps2fiber_yield, Unwind, Goto, Places, ToPark
<1>. QED  BY <1>1, <1>2, <1>3, <1>4, <1>5, PlainStep

\* di and ei.
LEMMA SetInterruptsEnds == ASSUME IInv, TInv, NEW f \in Fibers, SetInterrupts(f) PROVE TInv'
<1>1. Executing(f) /\ exec = "guest"
  BY DEF SetInterrupts, AtHome, Executing
<1>2. pc[f] \notin {"armed", "wwsArmed", "selfArmed", "suspended"}
  BY HomeIsPlain DEF SetInterrupts, AtHome
<1>3. \E place \in Places \ ToPark : pc' = [pc EXCEPT ![f] = place]
  BY StaysPut, HomeIsPlain DEF SetInterrupts, AtHome
<1>4. /\ exec' \in {"guest", "post"}
      /\ \/ state' = state
         \/ state' = [state EXCEPT ![f] = "Exiting"]
         \/ state' = [state EXCEPT ![f] = "Finished"] /\ exec' = "post"
         \/ enqueue_locked(f)
  BY <1>1 DEF SetInterrupts, AtHome
<1>5. /\ \/ UNCHANGED <<terminated, infoSuspend>>
         \/ /\ state' = [state EXCEPT ![f] = "Finished"]
            /\ terminated' = [terminated EXCEPT ![f] = FALSE]
            /\ infoSuspend' = [infoSuspend EXCEPT ![f] = 0]
      /\ UNCHANGED <<wake_pending, suspendCount, terminateRequested, generation, running, stop,
                     sweep, calls>>
  BY DEF SetInterrupts, AtHome
<1>. QED  BY <1>1, <1>2, <1>3, <1>4, <1>5, PlainStep

\* The end of the dispatch loop.
LEMMA DispatchLoopEndsEnds == ASSUME IInv, TInv, NEW f \in Fibers, DispatchLoopEnds(f) PROVE TInv'
<1>1. Executing(f) /\ exec = "guest"
  BY DEF DispatchLoopEnds, AtHome, Executing
<1>2. pc[f] \notin {"armed", "wwsArmed", "selfArmed", "suspended"}
  BY HomeIsPlain DEF DispatchLoopEnds, AtHome
<1>3. \E place \in Places \ ToPark : pc' = [pc EXCEPT ![f] = place]
  BY StaysPut, HomeIsPlain DEF DispatchLoopEnds, Unwind, Goto, Places, ToPark
<1>4. /\ exec' \in {"guest", "post"}
      /\ \/ state' = state
         \/ state' = [state EXCEPT ![f] = "Exiting"]
         \/ state' = [state EXCEPT ![f] = "Finished"] /\ exec' = "post"
         \/ enqueue_locked(f)
  BY <1>1 DEF DispatchLoopEnds, Unwind, Goto, Places, ToPark
<1>5. /\ \/ UNCHANGED <<terminated, infoSuspend>>
         \/ /\ state' = [state EXCEPT ![f] = "Finished"]
            /\ terminated' = [terminated EXCEPT ![f] = FALSE]
            /\ infoSuspend' = [infoSuspend EXCEPT ![f] = 0]
      /\ UNCHANGED <<wake_pending, suspendCount, terminateRequested, generation, running, stop,
                     sweep, calls>>
  BY DEF DispatchLoopEnds, Unwind, Goto, Places, ToPark
<1>. QED  BY <1>1, <1>2, <1>3, <1>4, <1>5, PlainStep

\* The exit hook's return resets the ThreadInfo.
LEMMA FiberFinishedEnds == ASSUME IInv, TInv, NEW f \in Fibers, FiberFinished(f) PROVE TInv'
<1>1. Executing(f) /\ exec = "guest"
  BY DEF FiberFinished, AtHome, Executing
<1>2. pc[f] \notin {"armed", "wwsArmed", "selfArmed", "suspended"}
  BY HomeIsPlain DEF FiberFinished, AtHome
<1>3. \E place \in Places \ ToPark : pc' = [pc EXCEPT ![f] = place]
  BY StaysPut, HomeIsPlain DEF FiberFinished, ps2fiber_yield, Places, ToPark
<1>4. /\ exec' \in {"guest", "post"}
      /\ \/ state' = state
         \/ state' = [state EXCEPT ![f] = "Exiting"]
         \/ state' = [state EXCEPT ![f] = "Finished"] /\ exec' = "post"
         \/ enqueue_locked(f)
  BY <1>1 DEF FiberFinished, ps2fiber_yield, Places, ToPark
<1>5. /\ \/ UNCHANGED <<terminated, infoSuspend>>
         \/ /\ state' = [state EXCEPT ![f] = "Finished"]
            /\ terminated' = [terminated EXCEPT ![f] = FALSE]
            /\ infoSuspend' = [infoSuspend EXCEPT ![f] = 0]
      /\ UNCHANGED <<wake_pending, suspendCount, terminateRequested, generation, running, stop,
                     sweep, calls>>
  BY DEF FiberFinished, ps2fiber_yield, Places, ToPark
<1>. QED  BY <1>1, <1>2, <1>3, <1>4, <1>5, PlainStep

\* A turn of join_fiber's loop.
LEMMA join_fiberEnds == ASSUME IInv, TInv, NEW f \in Fibers, join_fiber(f) PROVE TInv'
<1>1. Executing(f) /\ exec = "guest"
  BY DEF join_fiber, AtHome, Executing
<1>2. pc[f] \notin {"armed", "wwsArmed", "selfArmed", "suspended"}
  BY HomeIsPlain DEF join_fiber, AtHome
<1>3. \E place \in Places \ ToPark : pc' = [pc EXCEPT ![f] = place]
  BY StaysPut, HomeIsPlain DEF join_fiber, ps2fiber_yield, Goto, Places, ToPark
<1>4. /\ exec' \in {"guest", "post"}
      /\ \/ state' = state
         \/ state' = [state EXCEPT ![f] = "Exiting"]
         \/ state' = [state EXCEPT ![f] = "Finished"] /\ exec' = "post"
         \/ enqueue_locked(f)
  BY <1>1 DEF join_fiber, ps2fiber_yield, Goto, Places, ToPark
<1>5. /\ \/ UNCHANGED <<terminated, infoSuspend>>
         \/ /\ state' = [state EXCEPT ![f] = "Finished"]
            /\ terminated' = [terminated EXCEPT ![f] = FALSE]
            /\ infoSuspend' = [infoSuspend EXCEPT ![f] = 0]
      /\ UNCHANGED <<wake_pending, suspendCount, terminateRequested, generation, running, stop,
                     sweep, calls>>
  BY DEF join_fiber, ps2fiber_yield, Goto, Places, ToPark
<1>. QED  BY <1>1, <1>2, <1>3, <1>4, <1>5, PlainStep

\* StartThread's first critical section.
LEMMA StartThreadEnds ==
    ASSUME IInv, TInv, NEW f \in Fibers, NEW t \in Fibers, StartThread(f, t)
    PROVE  TInv'
<1>1. Executing(f) /\ exec = "guest"
  BY DEF StartThread, AtHome, Executing
<1>2. pc[f] \notin {"armed", "wwsArmed", "selfArmed", "suspended"}
  BY HomeIsPlain DEF StartThread, AtHome
<1>3. \E place \in Places \ ToPark : pc' = [pc EXCEPT ![f] = place]
  BY StaysPut, HomeIsPlain DEF StartThread, Goto, Places, ToPark
<1>4. /\ exec' \in {"guest", "post"}
      /\ \/ state' = state
         \/ state' = [state EXCEPT ![f] = "Exiting"]
         \/ state' = [state EXCEPT ![f] = "Finished"] /\ exec' = "post"
         \/ enqueue_locked(f)
  BY <1>1 DEF StartThread, Goto, Places, ToPark
<1>5. /\ \/ UNCHANGED <<terminated, infoSuspend>>
         \/ /\ state' = [state EXCEPT ![f] = "Finished"]
            /\ terminated' = [terminated EXCEPT ![f] = FALSE]
            /\ infoSuspend' = [infoSuspend EXCEPT ![f] = 0]
      /\ UNCHANGED <<wake_pending, suspendCount, terminateRequested, generation, running, stop,
                     sweep, calls>>
  BY DEF StartThread, Goto, Places, ToPark
<1>. QED  BY <1>1, <1>2, <1>3, <1>4, <1>5, PlainStep

-----------------------------------------------------------------------------
(* Steps of the running fiber on its way to block_current *)

\* A step of the executing fiber that changes only its place, its state, its
\* pending wakeup and its counts.
LEMMA ParkStep ==
    ASSUME IInv, TInv, NEW f \in Fibers, Executing(f), exec' \in {"guest", "post"},
           \E place : pc' = [pc EXCEPT ![f] = place],
           state' = state \/ \E v : state' = [state EXCEPT ![f] = v],
           wake_pending' = wake_pending \/ \E b : wake_pending' = [wake_pending EXCEPT ![f] = b],
           suspendCount' = suspendCount \/ \E n : suspendCount' = [suspendCount EXCEPT ![f] = n],
           infoSuspend' = infoSuspend \/ \E n : infoSuspend' = [infoSuspend EXCEPT ![f] = n],
           UNCHANGED <<terminateRequested, terminated, generation, running, stop, sweep, calls>>,
           Base(f)', OneFiberPerId => Term(f)', GuestGates => Gate(f)',
           GuestCounts => Count(f)', NoSuspends => Quit(f)'
    PROVE  TInv'
<1>1. FInv(f)'
  BY DEF FInv, OneFiberPerId, GuestGates, GuestCounts, NoSuspends
<1>2. \A g \in Fibers \ {f} : Untouched(g)
  BY DEF IInv, TypeOK, Untouched
<1>. QED  BY <1>1, <1>2, OwnStep

\* A wait loop publishes only a fiber that nobody has asked to terminate.
LEMMA CheckConditionEnds ==
    ASSUME IInv, TInv, NEW f \in Fibers, Executing(f), CheckCondition(f),
           pc[f] \notin {"armed", "wwsArmed", "selfArmed", "suspended"}
    PROVE  TInv'
<1>0. /\ running = f /\ exec = "guest" /\ FInv(f) /\ TypeOK /\ state[f] \in {"Running", "Exiting"}
  BY ExecutingFiber
<1>1. UNCHANGED <<wake_pending, suspendCount, terminateRequested, terminated, infoSuspend,
                  generation, running, exec, stop, sweep, calls>>
  BY DEF CheckCondition
<1>2. CASE Unwind(f)
  <2>1. /\ \E place \in Places \ ToPark : pc' = [pc EXCEPT ![f] = place]
        /\ state' = state \/ state' = [state EXCEPT ![f] = "Exiting"]
    BY <1>2 DEF Unwind, Places, ToPark
  <2>. QED  BY <1>0, <1>1, <2>1, PlainStep
<1>3. CASE Goto(f, "wws") /\ UNCHANGED state
  <2>1. \E place \in Places \ ToPark : pc' = [pc EXCEPT ![f] = place]
    BY <1>3 DEF Goto, Places, ToPark
  <2>. QED  BY <1>0, <1>1, <1>3, <2>1, PlainStep
<1>4. CASE ~terminated[f] /\ Goto(f, "published") /\ UNCHANGED state
  <2>1. pc' = [pc EXCEPT ![f] = "published"] /\ pc'[f] = "published"
    BY <1>0, <1>4 DEF Goto, TypeOK
  <2>2. Base(f)'
    BY <1>0, <1>1, <1>4 DEF FInv, Base
  <2>3. OneFiberPerId => Term(f)'
    BY <1>0, <1>1, <1>4 DEF FInv, Term, Started, Parking, Parked
  <2>4. GuestGates => Gate(f)'
    BY <1>0, <1>1, <1>4 DEF FInv, Gate
  <2>5. GuestCounts => Count(f)'
    BY <1>0, <1>1, <1>4, <2>1 DEF FInv, Count, Started
  <2>6. NoSuspends => Quit(f)'
    BY <1>0, <1>1, <2>1 DEF FInv, Quit
  <2>. QED  BY <1>0, <1>1, <1>4, <2>1, <2>2, <2>3, <2>4, <2>5, <2>6, ParkStep
<1>. QED  BY <1>2, <1>3, <1>4 DEF CheckCondition

\* yield_point's gates: termination is looked at before the suspend gate.
LEMMA YieldPointGatesEnds == ASSUME IInv, TInv, NEW f \in Fibers, YieldPointGates(f) PROVE TInv'
<1>0. /\ running = f /\ exec = "guest" /\ FInv(f) /\ TypeOK /\ state[f] \in {"Running", "Exiting"}
      /\ Executing(f) /\ pc[f] \notin ToPark
  BY ExecutingFiber, HomeIsPlain DEF YieldPointGates, AtHome, ToPark
<1>1. UNCHANGED <<wake_pending, suspendCount, terminateRequested, terminated, infoSuspend,
                  generation, running, exec, stop, sweep, calls>>
  BY DEF YieldPointGates
<1>2. CASE Unwind(f) \/ UNCHANGED <<pc, state>>
  <2>1. /\ \E place \in Places \ ToPark : pc' = [pc EXCEPT ![f] = place]
        /\ state' = state \/ state' = [state EXCEPT ![f] = "Exiting"]
    <3>1. CASE Unwind(f)
      BY <3>1 DEF Unwind, Places, ToPark
    <3>2. CASE UNCHANGED <<pc, state>>
      BY <1>0, <3>2, StaysPut DEF TypeOK
    <3>. QED  BY <1>2, <3>1, <3>2
  <2>. QED  BY <1>0, <1>1, <2>1, PlainStep DEF ToPark
<1>3. CASE ~terminateRequested[f] /\ Goto(f, "once") /\ UNCHANGED state
  <2>1. pc' = [pc EXCEPT ![f] = "once"] /\ pc'[f] = "once"
    BY <1>0, <1>3 DEF Goto, TypeOK
  <2>2. Base(f)'
    BY <1>0, <1>1, <1>3 DEF FInv, Base
  <2>3. OneFiberPerId => Term(f)'
    BY <1>0, <1>1, <1>3 DEF FInv, Term, Started, Parking, Parked
  <2>4. GuestGates => Gate(f)'
    BY <1>0, <1>1, <1>3 DEF FInv, Gate, ToPark
  <2>5. GuestCounts => Count(f)'
    BY <1>0, <1>1, <1>3, <2>1 DEF FInv, Count, Started
  <2>6. NoSuspends => Quit(f)'
    BY <1>0, <1>1, <2>1 DEF FInv, Quit
  <2>. QED  BY <1>0, <1>1, <1>3, <2>1, <2>2, <2>3, <2>4, <2>5, <2>6, ParkStep
<1>. QED  BY <1>2, <1>3 DEF YieldPointGates

\* SuspendThread on the caller counts in the ThreadInfo, and throws at once if
\* the thread was asked to terminate.
LEMMA SuspendThreadSelfEnds ==
    ASSUME IInv, TInv, NEW f \in Fibers, SuspendThreadSelf(f)
    PROVE  TInv'
<1>0. /\ running = f /\ exec = "guest" /\ FInv(f) /\ TypeOK /\ state[f] \in {"Running", "Exiting"}
      /\ Executing(f) /\ pc[f] \notin ToPark /\ infoSuspend[f] \in Nat
  BY ExecutingFiber, HomeIsPlain DEF SuspendThreadSelf, AtHome, ToPark
<1>1. /\ UNCHANGED <<wake_pending, suspendCount, terminateRequested, terminated,
                     generation, running, exec, stop, sweep, calls>>
      /\ "suspend" \in Ops
      /\ infoSuspend' = [infoSuspend EXCEPT ![f] = @ + 1]
  BY DEF SuspendThreadSelf
<1>2. infoSuspend'[f] > 0
  BY <1>0, <1>1 DEF TypeOK
<1>3. /\ \/ pc' = [pc EXCEPT ![f] = "hook"]
         \/ pc' = [pc EXCEPT ![f] = "suspending"] /\ ~terminated[f]
      /\ state' = state \/ state' = [state EXCEPT ![f] = "Exiting"]
  BY DEF SuspendThreadSelf, Unwind, Goto
<1>4. /\ state'[f] \in {"Running", "Exiting"}
      /\ \/ pc'[f] = "hook"
         \/ pc'[f] = "suspending" /\ ~terminated[f]
  BY <1>0, <1>3 DEF TypeOK
<1>5. Base(f)'
  BY <1>0, <1>1, <1>4 DEF FInv, Base
<1>6. OneFiberPerId => Term(f)'
  BY <1>0, <1>1, <1>4 DEF FInv, Term, Started, Parking, Parked, ToPark
<1>7. GuestGates => Gate(f)'
  BY <1>0, <1>1, <1>4 DEF FInv, Gate, ToPark
<1>8. GuestCounts => Count(f)'
  BY <1>0, <1>1, <1>2, <1>4 DEF FInv, Count, Started
<1>9. NoSuspends => Quit(f)'
  BY <1>1 DEF NoSuspends
<1>10. \E place : pc' = [pc EXCEPT ![f] = place]
  BY <1>3
<1>11. \E n : infoSuspend' = [infoSuspend EXCEPT ![f] = n]
  BY <1>1
<1>. QED  BY <1>0, <1>1, <1>3, <1>5, <1>6, <1>7, <1>8, <1>9, <1>10, <1>11, ParkStep

\* suspend_self counts in the FiberContext of the executing fiber.
LEMMA suspend_selfEnds == ASSUME IInv, TInv, NEW f \in Fibers, suspend_self(f) PROVE TInv'
<1>0. /\ running = f /\ exec = "guest" /\ FInv(f) /\ TypeOK /\ state[f] \in {"Running", "Exiting"}
      /\ Executing(f) /\ pc[f] = "suspending" /\ suspendCount[f] \in Nat
  BY ExecutingFiber DEF suspend_self
<1>1. /\ UNCHANGED <<wake_pending, terminateRequested, terminated, infoSuspend, state,
                     generation, running, exec, stop, sweep, calls>>
      /\ suspendCount' = [suspendCount EXCEPT ![f] = @ + 1]
      /\ pc' = [pc EXCEPT ![f] = "suspended"]
  BY DEF suspend_self, Goto
<1>2. suspendCount'[f] = suspendCount[f] + 1
  BY <1>0, <1>1 DEF TypeOK
<1>3. pc'[f] = "suspended" /\ suspendCount'[f] > 0
  BY <1>0, <1>1, <1>2 DEF TypeOK
<1>4. Base(f)'
  BY <1>0, <1>1 DEF FInv, Base
<1>5. OneFiberPerId => Term(f)'
  BY <1>0, <1>1, <1>3 DEF FInv, Term, Started, Parking, Parked
<1>6. GuestGates => Gate(f)'
  BY <1>0, <1>1, <1>3 DEF FInv, Gate
<1>7. GuestCounts => Count(f)'
  BY <1>0, <1>1, <1>3 DEF FInv, Count, Started
<1>8. NoSuspends => Quit(f)'
  BY <1>0 DEF FInv, Quit
<1>9. \E n : suspendCount' = [suspendCount EXCEPT ![f] = n]
  BY <1>1
<1>. QED  BY <1>0, <1>1, <1>4, <1>5, <1>6, <1>7, <1>8, <1>9, ParkStep

\* arm_park marks the fiber Blocked and keeps a wakeup noted before.
LEMMA arm_parkEnds == ASSUME IInv, TInv, NEW f \in Fibers, arm_park(f) PROVE TInv'
<1>0. /\ running = f /\ exec = "guest" /\ FInv(f) /\ TypeOK
      /\ Executing(f) /\ state[f] \in {"Running", "Exiting", "Blocked"}
  BY ExecutingFiber DEF arm_park
<1>1. /\ UNCHANGED <<wake_pending, suspendCount, terminateRequested, terminated, infoSuspend,
                     generation, running, exec, stop, sweep, calls>>
      /\ state' = [state EXCEPT ![f] = "Blocked"]
  BY DEF arm_park
<1>2. \/ pc[f] = "published" /\ pc' = [pc EXCEPT ![f] = "armed"]
      \/ pc[f] = "wws" /\ ~terminated[f] /\ pc' = [pc EXCEPT ![f] = "wwsArmed"]
      \/ pc[f] = "suspended" /\ pc' = [pc EXCEPT ![f] = "selfArmed"]
  BY DEF arm_park, Goto
<1>3. /\ state'[f] = "Blocked"
      /\ \/ pc[f] \in {"published", "suspended"} /\ pc'[f] \in {"armed", "selfArmed"}
         \/ pc[f] = "wws" /\ ~terminated[f] /\ pc'[f] = "wwsArmed"
  BY <1>0, <1>1, <1>2 DEF TypeOK
<1>4. Base(f)'
  BY <1>0, <1>1, <1>3 DEF FInv, Base
<1>5. OneFiberPerId => Term(f)'
  BY <1>0, <1>1, <1>3 DEF FInv, Term, Started, Parking, Parked, ToPark
<1>6. GuestGates => Gate(f)'
  BY <1>0, <1>1, <1>3 DEF FInv, Gate
<1>7. GuestCounts => Count(f)'
  BY <1>0, <1>1, <1>3 DEF FInv, Count, Started
<1>8. NoSuspends => Quit(f)'
  BY <1>0, <1>1, <1>3 DEF FInv, Quit
<1>9. \E place : pc' = [pc EXCEPT ![f] = place]
  BY <1>2
<1>. QED  BY <1>0, <1>1, <1>4, <1>5, <1>6, <1>7, <1>8, <1>9, ParkStep

\* block_current parks a fiber asked to terminate only behind a suspend gate.
LEMMA block_currentEnds == ASSUME IInv, TInv, NEW f \in Fibers, block_current(f) PROVE TInv'
<1>0. /\ running = f /\ exec = "guest" /\ FInv(f) /\ TypeOK
      /\ Executing(f) /\ state[f] \in {"Running", "Exiting", "Blocked"}
      /\ pc[f] \in {"armed", "wwsArmed", "selfArmed", "once"}
  BY ExecutingFiber DEF block_current
<1>1. UNCHANGED <<suspendCount, terminateRequested, terminated, infoSuspend,
                  generation, running, stop, sweep, calls>>
  BY DEF block_current
<1>2. AfterBlock(f) \in {"woken", "wws", "resumed", "run", "hook"}
  BY HomeIsPlain DEF AfterBlock
<1>3. pc' = [pc EXCEPT ![f] = "hook"] \/ pc' = [pc EXCEPT ![f] = AfterBlock(f)]
  BY DEF block_current, Goto
<1>4. pc'[f] \notin ToPark
  BY <1>0, <1>2, <1>3 DEF TypeOK, ToPark
<1>5. /\ exec' \in {"guest", "post"}
      /\ \/ /\ exec' = "guest" /\ state'[f] \in {"Running", "Exiting"}
            /\ (stop /\ terminateRequested[f]) \/ wake_pending[f]
            /\ ~wake_pending'[f]
         \/ /\ exec' = "post" /\ state'[f] = "Blocked"
            /\ ~(stop /\ terminateRequested[f]) /\ ~wake_pending[f] /\ ~wake_pending'[f]
  BY <1>0 DEF block_current, ps2fiber_yield, TypeOK
<1>6. Base(f)'
  BY <1>0, <1>1, <1>4, <1>5 DEF FInv, Base
<1>7. OneFiberPerId => Term(f)'
  BY <1>0, <1>1, <1>4, <1>5 DEF FInv, Term, Started, Parking, Parked, ToPark
<1>8. GuestGates => Gate(f)'
  BY <1>0, <1>1, <1>5 DEF FInv, Gate
<1>9. GuestCounts => Count(f)'
  BY <1>0, <1>1, <1>4 DEF FInv, Count, Started, ToPark
<1>10. NoSuspends => Quit(f)'
  BY <1>0, <1>1, <1>4, <1>5 DEF FInv, Quit, ToPark
<1>11. /\ \E place : pc' = [pc EXCEPT ![f] = place]
       /\ \E v : state' = [state EXCEPT ![f] = v]
       /\ wake_pending' = wake_pending \/ \E b : wake_pending' = [wake_pending EXCEPT ![f] = b]
  BY <1>3 DEF block_current
<1>. QED  BY <1>0, <1>1, <1>5, <1>6, <1>7, <1>8, <1>9, <1>10, <1>11, ParkStep

-----------------------------------------------------------------------------
(* The executor *)

\* ExecutorQuit: the queue is empty, nobody runs, so no fiber asked to
\* terminate is left.
LEMMA ExecutorQuitEnds == ASSUME IInv, TInv, sweep = {}, ExecutorQuit PROVE TInv'
<1>. SUFFICES ASSUME NEW g \in Fibers PROVE FInv(g)'
  BY DEF TInv
<1>0. /\ FInv(g) /\ TypeOK /\ QWF(run_queue, priority, state)
      /\ exec \in {"check", "locked"} /\ exec' = "quit" /\ stop /\ run_queue = <<>>
      /\ UNCHANGED <<pc, state, generation, wake_pending, suspendCount, terminateRequested,
                     terminated, infoSuspend, running, stop, sweep, calls>>
  BY DEF TInv, IInv, ExecutorQuit, AtPredicate, canQuit
<1>1. running # g /\ state[g] \in {"Absent", "Blocked"}
  <2>1. running # g
    BY <1>0 DEF FInv, Base
  <2>2. ~InRunQueue(run_queue, g)
    BY <1>0 DEF InRunQueue
  <2>3. state[g] \in States /\ state[g] # "Ready"
    BY <1>0, <2>2 DEF TypeOK, QWF
  <2>. QED  BY <1>0, <2>1, <2>3 DEF FInv, Base, States
<1>2. Base(g)'
  BY <1>0, <1>1 DEF FInv, Base
<1>3. OneFiberPerId => Term(g)'
  BY <1>0, <1>1 DEF FInv, Term, Started, Parking, Parked
<1>4. GuestGates => Gate(g)'
  BY <1>0, <1>1 DEF FInv, Gate
<1>5. GuestCounts => Count(g)'
  BY <1>0, <1>1 DEF FInv, Count, Started
<1>6. NoSuspends => Quit(g)'
  <2>. SUFFICES ASSUME NoSuspends PROVE Quit(g)'
    OBVIOUS
  <2>1. suspendCount[g] = 0 /\ pc[g] # "suspending"
    BY <1>0 DEF FInv, Quit
  <2>2. Term(g)
    BY <1>0 DEF FInv, OneFiberPerId, NoSuspends
  <2>3. terminateRequested[g] => state[g] = "Absent"
    BY <1>1, <2>1, <2>2 DEF Term, Parked
  <2>. QED  BY <1>0, <2>1, <2>3 DEF Quit
<1>. QED  BY <1>2, <1>3, <1>4, <1>5, <1>6
             DEF FInv, OneFiberPerId, GuestGates, GuestCounts, NoSuspends

\* ExecutorSleep and the freeing of a finished fiber's stack change nothing of a
\* fiber.
LEMMA ExecutorSleepEnds == ASSUME IInv, TInv, ExecutorSleep \/ Reap PROVE TInv'
<1>. SUFFICES ASSUME NEW g \in Fibers PROVE FInv(g)'
  BY DEF TInv
<1>0. /\ FInv(g) /\ exec \in {"check", "locked", "reap"} /\ exec' \in {"asleep", "locked"}
      /\ UNCHANGED <<pc, state, generation, wake_pending, suspendCount, terminateRequested,
                     terminated, infoSuspend, running, stop, sweep, calls>>
  BY DEF TInv, ExecutorSleep, AtPredicate, Reap
<1>1. running # g
  BY <1>0 DEF FInv, Base
<1>2. Base(g)'
  BY <1>0, <1>1 DEF FInv, Base
<1>3. OneFiberPerId => Term(g)'
  BY <1>0, <1>1 DEF FInv, Term, Started, Parking, Parked
<1>4. GuestGates => Gate(g)'
  BY <1>0, <1>1 DEF FInv, Gate
<1>5. GuestCounts => Count(g)'
  BY <1>0, <1>1 DEF FInv, Count, Started
<1>6. NoSuspends => Quit(g)'
  BY <1>0 DEF FInv, Quit
<1>. QED  BY <1>2, <1>3, <1>4, <1>5, <1>6
             DEF FInv, OneFiberPerId, GuestGates, GuestCounts, NoSuspends

\* ExecutorResume: the head of the queue is not on its way to park, nor
\* suspended unless it is unwinding.
LEMMA ExecutorResumeEnds == ASSUME IInv, TInv, ExecutorResume PROVE TInv'
<1>0. TypeOK /\ ControlInv /\ QWF(run_queue, priority, state)
  BY DEF IInv
<1>1. Head(run_queue) \in Fibers /\ InRunQueue(run_queue, Head(run_queue))
  <2>1. run_queue \in Seq(Fibers) /\ run_queue # <<>>
    BY <1>0 DEF ExecutorResume, canPick, QWF
  <2>. QED  BY <2>1 DEF InRunQueue
<1>2. PICK h \in Fibers : h = Head(run_queue)
  BY <1>1
<1>3. /\ running = NoOne /\ running' = h /\ exec \in {"check", "locked"} /\ exec' = "guest"
      /\ state[h] = "Ready" /\ state' = [state EXCEPT ![h] = "Running"]
      /\ UNCHANGED <<pc, generation, wake_pending, suspendCount, terminateRequested,
                     terminated, infoSuspend, stop, sweep, calls>>
  BY <1>0, <1>1, <1>2 DEF ExecutorResume, AtPredicate, canPick, QWF
<1>. SUFFICES ASSUME NEW g \in Fibers PROVE FInv(g)'
  BY DEF TInv
<1>4. FInv(g) /\ state'[g] = (IF g = h THEN "Running" ELSE state[g]) /\ running # g
  BY <1>0, <1>3, Constants DEF TInv, TypeOK
<1>5. Base(g)'
  BY <1>3, <1>4 DEF FInv, Base
<1>6. OneFiberPerId => Term(g)'
  <2>. SUFFICES ASSUME OneFiberPerId, Term(g) PROVE Term(g)'
    BY <1>4 DEF FInv
  <2>1. CASE g # h
    BY <1>3, <1>4, <2>1 DEF Term, Started, Parking, Parked
  <2>2. CASE g = h
    <3>1. pc[g] \notin ToPark
      BY <1>3, <1>4, <2>2 DEF FInv, Base
    <3>. QED  BY <1>3, <1>4, <2>2, <3>1 DEF Term, Started, Parking, Parked
  <2>. QED  BY <2>1, <2>2
<1>7. GuestGates => Gate(g)'
  BY <1>3, <1>4 DEF FInv, Gate
<1>8. GuestCounts => Count(g)'
  BY <1>3, <1>4 DEF FInv, Count, Started
<1>9. NoSuspends => Quit(g)'
  BY <1>3, <1>4 DEF FInv, Quit
<1>. QED  BY <1>5, <1>6, <1>7, <1>8, <1>9
             DEF FInv, OneFiberPerId, GuestGates, GuestCounts, NoSuspends

\* The executor's post-resume code parks only what block_current decided to park.
LEMMA PostResumeEnds == ASSUME IInv, TInv, PostResume PROVE TInv'
<1>0. TypeOK /\ ControlInv /\ QWF(run_queue, priority, state)
  BY DEF IInv
<1>1. running \in Fibers
  BY <1>0 DEF PostResume, ControlInv
<1>2. PICK f \in Fibers : f = running
  BY <1>1
<1>3. /\ running = f /\ running' = NoOne /\ exec = "post" /\ exec' \in {"reap", "locked"}
      /\ UNCHANGED <<generation, suspendCount, terminateRequested, terminated, infoSuspend, stop,
                     sweep, calls>>
  BY <1>2 DEF PostResume
<1>4. /\ pc' = pc \/ (state[f] = "Finished" /\ pc' = [pc EXCEPT ![f] = "none"])
      /\ \/ /\ enqueue_locked(f) /\ pc' = pc
            /\ state[f] \in {"Running", "Exiting"} \/ (state[f] = "Blocked" /\ suspendCount[f] = 0)
         \/ /\ state[f] = "Blocked" /\ ~(wake_pending[f] /\ suspendCount[f] = 0) /\ state' = state
            /\ pc' = pc /\ wake_pending' = wake_pending
         \/ state[f] = "Ready" /\ state' = state
         \/ state[f] = "Finished" /\ state' = [state EXCEPT ![f] = "Absent"]
      /\ wake_pending' = wake_pending \/ wake_pending' = [wake_pending EXCEPT ![f] = FALSE]
  BY <1>2 DEF PostResume
<1>5. /\ pc'[f] \in {pc[f], "none"}
      /\ wake_pending'[f] => wake_pending[f]
      /\ \A g \in Fibers \ {f} : pc'[g] = pc[g] /\ wake_pending'[g] = wake_pending[g]
  BY <1>0, <1>4 DEF TypeOK
<1>6. /\ \/ /\ state'[f] = "Ready" /\ state[f] # "Finished"
            /\ state[f] = "Blocked" => suspendCount[f] = 0
         \/ /\ state[f] = "Blocked" /\ state'[f] = "Blocked"
            /\ ~(wake_pending[f] /\ suspendCount[f] = 0)
         \/ state'[f] = "Absent"
      /\ \A g \in Fibers \ {f} : state'[g] = state[g]
  <2>1. CASE /\ enqueue_locked(f)
             /\ state[f] \in {"Running", "Exiting"} \/ (state[f] = "Blocked" /\ suspendCount[f] = 0)
    <3>1. state'[f] = "Ready" /\ \A g \in Fibers \ {f} : state'[g] = state[g]
      BY <1>0, <2>1, EnqueueLocked
    <3>. QED  BY <2>1, <3>1
  <2>. QED  BY <1>0, <1>4, <2>1 DEF TypeOK
<1>. SUFFICES ASSUME NEW g \in Fibers PROVE FInv(g)'
  BY DEF TInv
<1>7. FInv(g) /\ suspendCount[g] \in Nat /\ running' # g /\ (running = g <=> g = f)
  BY <1>0, <1>3, Constants DEF TInv, TypeOK
<1>8. /\ pc[g] \notin ToPark /\ pc'[g] \notin ToPark
      /\ state'[g] = "Absent" \/ state[g] # "Absent"
  <2>1. pc[g] \notin ToPark
    BY <1>3, <1>7 DEF FInv, Base
  <2>2. state[f] # "Absent"
    BY <1>2 DEF PostResume
  <2>. QED  BY <1>5, <1>6, <2>1, <2>2 DEF ToPark
<1>9. Base(g)'
  BY <1>3, <1>6, <1>7, <1>8 DEF FInv, Base
<1>10. OneFiberPerId => Term(g)'
  <2>. SUFFICES ASSUME OneFiberPerId, Term(g) PROVE Term(g)'
    BY <1>7 DEF FInv
  <2>1. CASE g # f
    BY <1>3, <1>5, <1>6, <1>7, <2>1 DEF Term, Started, Parking, Parked
  <2>2. CASE g = f
    <3>1. Started(f)' => Started(f) \/ state[f] = "Absent"
      BY <1>6 DEF Started
    <3>2. state'[g] = "Blocked" /\ terminateRequested[g] => suspendCount[g] > 0
      BY <1>3, <1>6, <1>7, <2>2 DEF Term, Parking
    <3>3. Started(g)' => Started(g)
      BY <1>6, <1>8, <2>2 DEF Started
    <3>. QED  BY <1>3, <1>7, <3>2, <3>3 DEF Term, Parking, Parked
  <2>. QED  BY <2>1, <2>2
<1>11. GuestGates => Gate(g)'
  <2>. SUFFICES ASSUME GuestGates, Gate(g) PROVE Gate(g)'
    BY <1>7 DEF FInv
  <2>1. wake_pending'[g] => wake_pending[g]
    BY <1>5
  <2>2. CASE g # f
    BY <1>3, <1>6, <1>7, <2>1, <2>2 DEF Gate
  <2>3. CASE g = f
    <3>1. suspendCount[g] > 0 /\ ~terminateRequested[g] => state[g] \in {"Blocked", "Absent"}
      BY <1>3 DEF Gate
    <3>2. state[g] # "Absent"
      BY <1>2, <2>3 DEF PostResume
    <3>3. state'[g] = "Ready" => state[g] # "Blocked" \/ suspendCount[g] = 0 \/ state[g] = "Ready"
      BY <1>6, <2>3
    <3>4. suspendCount[g] > 0 /\ ~terminateRequested[g] => state'[g] \in {"Blocked", "Absent"}
      BY <1>6, <1>7, <2>3, <3>1, <3>2, <3>3
    <3>. QED  BY <1>3, <2>1, <3>4 DEF Gate
  <2>. QED  BY <2>2, <2>3
<1>12. GuestCounts => Count(g)'
  BY <1>3, <1>6, <1>7, <1>8 DEF FInv, Count, Started, ToPark
<1>13. NoSuspends => Quit(g)'
  BY <1>3, <1>7, <1>8 DEF FInv, Quit, ToPark
<1>. QED
  BY <1>9, <1>10, <1>11, <1>12, <1>13 DEF FInv, OneFiberPerId, GuestGates, GuestCounts, NoSuspends

-----------------------------------------------------------------------------
(* Operations on another fiber *)

\* What wake_locked does to the fiber it is called on.
LEMMA WakeFacts ==
    ASSUME IInv, TInv, NEW t \in Fibers, wake_locked(t), state[t] # "Absent"
    PROVE  /\ \/ /\ state'[t] = "Ready" /\ wake_pending'[t] = wake_pending[t]
                 /\ running = t => exec = "post" /\ state[t] = "Ready"
              \/ running = t /\ wake_pending'[t] /\ state'[t] = state[t] /\ state[t] # "Ready"
           /\ \A g \in Fibers \ {t} : state'[g] = state[g] /\ wake_pending'[g] = wake_pending[g]
<1>0. TypeOK /\ ControlInv /\ QWF(run_queue, priority, state) /\ FInv(t)
  BY DEF IInv, TInv
<1>1. CASE Queued(t) /\ UNCHANGED queueVars
  <2>1. state[t] = "Ready"
    BY <1>0, <1>1 DEF QWF, Queued
  <2>2. running = t => exec = "post"
    BY <1>0, <2>1 DEF ControlInv, FInv, Base
  <2>. QED  BY <1>1, <2>1, <2>2
<1>2. CASE /\ ~Queued(t) /\ running = t
           /\ wake_pending' = [wake_pending EXCEPT ![t] = TRUE]
           /\ UNCHANGED <<run_queue, state>>
  BY <1>0, <1>2 DEF TypeOK, QWF, Queued
<1>3. CASE running # t /\ enqueue_locked(t) /\ UNCHANGED wake_pending
  BY <1>0, <1>3, EnqueueLocked
<1>. QED  BY <1>1, <1>2, <1>3 DEF wake_locked

\* A gate opened together with a wake leaves the fiber in order.
LEMMA WokenKeeps ==
    ASSUME IInv, TInv, NEW t \in Fibers, wake_locked(t), state[t] # "Absent", Steady,
           pc'[t] = pc[t], generation'[t] = generation[t], infoSuspend'[t] = infoSuspend[t],
           suspendCount'[t] = 0 \/ (suspendCount'[t] = suspendCount[t] /\ suspendCount[t] = 0),
           terminateRequested[t] => terminateRequested'[t],
           terminated[t] => terminated'[t],
           OneFiberPerId /\ terminateRequested'[t] /\ Started(t)
              => terminateRequested[t] \/ terminated'[t] \/ stop,
           GuestGates /\ wake_pending'[t] => terminateRequested'[t],
           NoSuspends /\ exec = "quit" => terminateRequested'[t] = terminateRequested[t]
    PROVE  FInv(t)'
<1>0. /\ FInv(t) /\ suspendCount'[t] = 0 /\ running' = running /\ stop' = stop
      /\ exec' = exec \/ (exec = "asleep" /\ exec' = "check")
  BY DEF TInv, Steady
<1>1. \/ /\ state'[t] = "Ready" /\ wake_pending'[t] = wake_pending[t]
         /\ running = t => exec = "post" /\ state[t] = "Ready"
      \/ running = t /\ wake_pending'[t] /\ state'[t] = state[t] /\ state[t] # "Ready"
  BY WakeFacts
<1>2. Base(t)'
  BY <1>0, <1>1 DEF FInv, Base, Steady
<1>3. OneFiberPerId => Term(t)'
  <2>. SUFFICES ASSUME OneFiberPerId, Term(t) PROVE Term(t)'
    BY <1>0 DEF FInv
  <2>1. Started(t)' => Started(t)
    BY <1>0, <1>1 DEF Started, FInv, Base
  <2>2. terminateRequested'[t] /\ Started(t)' => terminated'[t] \/ stop'
    BY <1>0, <2>1 DEF Term
  <2>3. \A c \in calls' : c.tid = t /\ c.op = "terminate" =>
            generation'[t] = MaxGeneration /\ (Started(t)' => terminated'[t])
    BY <2>1 DEF Term, Steady
  <2>4. running' = t /\ Parking(t)' => wake_pending'[t]
    BY <1>0, <1>1 DEF Parking, FInv, Base
  <2>5. ~Parked(t)'
    BY <1>0, <1>1 DEF Parked
  <2>. QED  BY <2>2, <2>3, <2>4, <2>5 DEF Term
<1>4. GuestGates => Gate(t)'
  BY <1>0 DEF FInv, Gate
<1>5. GuestCounts => Count(t)'
  BY <1>0 DEF FInv, Count
<1>6. NoSuspends => Quit(t)'
  BY <1>0, <1>1 DEF FInv, Quit, Steady
<1>. QED  BY <1>2, <1>3, <1>4, <1>5, <1>6
             DEF FInv, OneFiberPerId, GuestGates, GuestCounts, NoSuspends

\* Everything the invariant says of fiber g but its place is left alone.
Idle(g) ==
    /\ state'[g] = state[g] /\ generation'[g] = generation[g]
    /\ wake_pending'[g] = wake_pending[g] /\ suspendCount'[g] = suspendCount[g]
    /\ terminateRequested'[g] = terminateRequested[g]
    /\ terminated'[g] = terminated[g] /\ infoSuspend'[g] = infoSuspend[g]

\* The executing fiber goes from a place outside ToPark to another.
LEMMA MovedOn ==
    ASSUME IInv, TInv, NEW f \in Fibers, Executing(f), Steady, Idle(f),
           pc[f] \notin ToPark, pc'[f] \notin ToPark
    PROVE  FInv(f)'
<1>0. /\ FInv(f) /\ running = f /\ running' = f /\ exec = "guest" /\ exec' = "guest"
      /\ state[f] \in {"Running", "Exiting"}
  BY ExecutingFiber DEF ToPark, Steady
<1>1. Base(f)'
  BY <1>0 DEF FInv, Base, Idle, Steady
<1>2. OneFiberPerId => Term(f)'
  BY <1>0 DEF FInv, Term, Started, Parking, Parked, Idle, Steady
<1>3. GuestGates => Gate(f)'
  BY <1>0 DEF FInv, Gate, Idle, ToPark, Steady
<1>4. GuestCounts => Count(f)'
  BY <1>0 DEF FInv, Count, Started, Idle, ToPark
<1>5. NoSuspends => Quit(f)'
  BY <1>0 DEF FInv, Quit, Idle, ToPark
<1>. QED  BY <1>1, <1>2, <1>3, <1>4, <1>5
             DEF FInv, OneFiberPerId, GuestGates, GuestCounts, NoSuspends

\* The caller of a system call on another thread is between two system calls of
\* its own: all fibers but the target keep their part.
LEMMA CallerStep ==
    ASSUME IInv, TInv, NEW next \in {"return", "maybe_yield", "force_reschedule"}, Caller(next),
           NEW T, running \notin T, Steady, \A g \in Fibers \ T : Idle(g),
           \A u \in T \cap Fibers : FInv(u)'
    PROVE  TInv'
<1>0. TypeOK /\ ControlInv /\ running' = running
  BY DEF IInv, Steady
<1>1. CASE UNCHANGED pc
  <2>1. \A g \in Fibers \ T : FInv(g)'
    BY <1>1, UntouchedKeeps DEF TInv, Untouched, Idle
  <2>. QED  BY <2>1 DEF TInv
<1>2. CASE /\ exec = "guest" /\ pc[running] = Home(running)
           /\ pc' = [pc EXCEPT ![running] = IF next = "return" THEN Home(running) ELSE next]
  <2>1. PICK f \in Fibers : f = running
    BY <1>0, <1>2 DEF ControlInv
  <2>2. pc'[f] \notin ToPark /\ \A g \in Fibers \ {f} : pc'[g] = pc[g]
    BY <1>0, <1>2, <2>1, HomeIsPlain DEF TypeOK, ToPark
  <2>3. FInv(f)'
    <3>1. pc[f] \notin ToPark /\ Executing(f) /\ Idle(f)
      BY <1>2, <2>1, HomeIsPlain DEF Executing
    <3>. QED  BY <2>2, <3>1, MovedOn
  <2>4. \A g \in Fibers \ T : g # f => FInv(g)'
    <3>. SUFFICES ASSUME NEW g \in Fibers \ T, g # f PROVE FInv(g)'
      OBVIOUS
    <3>1. Untouched(g)
      BY <2>2 DEF Untouched, Idle
    <3>. QED  BY <3>1, UntouchedKeeps DEF TInv
  <2>. QED  BY <2>3, <2>4 DEF TInv
<1>. QED  BY <1>1, <1>2 DEF Caller

\* What the target of a system call on another thread is: parked or queued.
LEMMA TargetFacts ==
    ASSUME IInv, TInv, NEW t \in Targets
    PROVE  /\ t \in Fibers /\ t # running /\ state[t] \in {"Ready", "Blocked"} /\ Started(t)
           /\ FInv(t) /\ TypeOK /\ suspendCount[t] \in Nat /\ infoSuspend[t] \in Nat
           /\ pc[t] \notin ToPark
           /\ \A next : Caller(next) => pc'[t] = pc[t]
<1>1. t \in Fibers /\ t # running /\ Started(t) /\ FInv(t) /\ TypeOK
  BY DEF Targets, TInv, IInv
<1>2. state[t] \in States /\ suspendCount[t] \in Nat /\ infoSuspend[t] \in Nat
  BY <1>1 DEF TypeOK
<1>3. state[t] \in {"Ready", "Blocked"} /\ pc[t] \notin ToPark
  BY <1>1, <1>2 DEF FInv, Base, Started, States
<1>4. \A next : Caller(next) => pc'[t] = pc[t]
  BY <1>1 DEF Caller, TypeOK
<1>. QED  BY <1>1, <1>2, <1>3, <1>4

\* A signal wakes a fiber whose gate is open.
LEMMA SignalEnds == ASSUME IInv, TInv, NEW t \in Targets, Signal(t) PROVE TInv'
<1>0. /\ t \in Fibers /\ t # running /\ state[t] \in {"Ready", "Blocked"} /\ FInv(t) /\ TypeOK
  BY TargetFacts
<1>1. /\ Caller("maybe_yield") /\ Steady
      /\ UNCHANGED <<generation, suspendCount, terminateRequested, terminated, infoSuspend>>
  BY DEF Signal, make_ready, notify_all, Steady
<1>2. pc'[t] = pc[t]
  BY <1>1, TargetFacts
<1>3. \/ wake_locked(t) /\ suspendCount[t] = 0
      \/ UNCHANGED <<state, wake_pending>>
  BY DEF Signal, make_ready
<1>4. CASE wake_locked(t) /\ suspendCount[t] = 0
  <2>1. /\ wake_pending'[t] = wake_pending[t]
        /\ \A g \in Fibers \ {t} : state'[g] = state[g] /\ wake_pending'[g] = wake_pending[g]
    BY <1>0, <1>4, WakeFacts
  <2>2. FInv(t)'
    <3>1. GuestGates /\ wake_pending'[t] => terminateRequested'[t]
      BY <1>0, <1>1, <2>1 DEF FInv, Gate
    <3>2. OneFiberPerId /\ terminateRequested'[t] /\ Started(t)
              => terminateRequested[t] \/ terminated'[t] \/ stop
      BY <1>1
    <3>. QED  BY <1>0, <1>1, <1>2, <1>4, <3>1, <3>2, WokenKeeps
  <2>3. \A g \in Fibers \ {t} : Idle(g)
    BY <1>1, <2>1 DEF Idle
  <2>4. running \notin {t} /\ \A u \in {t} \cap Fibers : FInv(u)'
    BY <1>0, <2>2
  <2>. QED  BY <1>1, <2>3, <2>4, CallerStep
<1>5. CASE UNCHANGED <<state, wake_pending>>
  <2>1. /\ running \notin {} /\ \A u \in {} \cap Fibers : FInv(u)'
        /\ \A g \in Fibers \ {} : Idle(g)
    BY <1>1, <1>5 DEF Idle
  <2>. QED  BY <1>1, <2>1, CallerStep
<1>. QED  BY <1>3, <1>4, <1>5

\* SuspendThread takes a Ready target off the queue as it closes its gate.
LEMMA SuspendThreadEnds == ASSUME IInv, TInv, NEW t \in Targets, SuspendThread(t) PROVE TInv'
<1>0. /\ t \in Fibers /\ t # running /\ state[t] \in {"Ready", "Blocked"} /\ FInv(t) /\ TypeOK
      /\ suspendCount[t] \in Nat /\ infoSuspend[t] \in Nat /\ Started(t) /\ pc[t] \notin ToPark
  BY TargetFacts
<1>1. /\ Caller("return") /\ Steady /\ suspend_other(t) /\ "suspend" \in Ops
      /\ infoSuspend' = [infoSuspend EXCEPT ![t] = @ + 1]
      /\ suspendCount' = [suspendCount EXCEPT ![t] = @ + 1]
      /\ UNCHANGED <<generation, wake_pending, terminateRequested, terminated, running, exec, stop,
                     sweep, calls>>
  BY DEF SuspendThread, suspend_other, Steady
<1>2. pc'[t] = pc[t]
  BY <1>1, TargetFacts
<1>3. infoSuspend'[t] = infoSuspend[t] + 1 /\ suspendCount'[t] = suspendCount[t] + 1
  BY <1>0, <1>1 DEF TypeOK
<1>4. infoSuspend'[t] > 0 /\ suspendCount'[t] > 0
  BY <1>0, <1>3
<1>5. state'[t] = "Blocked" /\ \A g \in Fibers \ {t} : state'[g] = state[g]
  BY <1>0, <1>1 DEF suspend_other, TypeOK
<1>6. FInv(t)'
  <2>1. Base(t)'
    BY <1>0, <1>1, <1>2, <1>5 DEF FInv, Base
  <2>2. OneFiberPerId => Term(t)'
    BY <1>0, <1>1, <1>4, <1>5 DEF FInv, Term, Started, Parking, Parked
  <2>3. GuestGates => Gate(t)'
    BY <1>0, <1>1, <1>5 DEF FInv, Gate
  <2>4. GuestCounts => Count(t)'
    BY <1>4 DEF Count
  <2>5. NoSuspends => Quit(t)'
    BY <1>1 DEF NoSuspends
  <2>. QED  BY <2>1, <2>2, <2>3, <2>4, <2>5
               DEF FInv, OneFiberPerId, GuestGates, GuestCounts, NoSuspends
<1>7. \A g \in Fibers \ {t} : Idle(g)
  <2>1. \A g \in Fibers \ {t} : /\ infoSuspend'[g] = infoSuspend[g]
                               /\ suspendCount'[g] = suspendCount[g]
    BY <1>0, <1>1 DEF TypeOK
  <2>. QED  BY <1>1, <1>5, <2>1 DEF Idle
<1>8. running \notin {t} /\ \A u \in {t} \cap Fibers : FInv(u)'
  BY <1>0, <1>6
<1>. QED  BY <1>1, <1>7, <1>8, CallerStep

\* ResumeThread opens the gate with the last count, and not before.
LEMMA ResumeThreadEnds == ASSUME IInv, TInv, NEW t \in Targets, ResumeThread(t) PROVE TInv'
<1>0. /\ t \in Fibers /\ t # running /\ state[t] \in {"Ready", "Blocked"} /\ FInv(t) /\ TypeOK
      /\ suspendCount[t] \in Nat /\ infoSuspend[t] \in Nat /\ Started(t) /\ pc[t] \notin ToPark
  BY TargetFacts
<1>1. /\ infoSuspend[t] > 0 /\ Steady
      /\ infoSuspend' = [infoSuspend EXCEPT ![t] = @ - 1]
      /\ UNCHANGED <<generation, terminateRequested, terminated, running, stop, sweep, calls>>
  BY DEF ResumeThread, clear_suspend, notify_all, Steady
<1>2. /\ infoSuspend'[t] = infoSuspend[t] - 1
      /\ \A g \in Fibers \ {t} : infoSuspend'[g] = infoSuspend[g]
  BY <1>0, <1>1 DEF TypeOK
<1>3. CASE clear_suspend(t) /\ Caller("maybe_yield")
  <2>1. wake_locked(t) /\ suspendCount' = [suspendCount EXCEPT ![t] = 0] /\ pc'[t] = pc[t]
    BY <1>3, TargetFacts DEF clear_suspend
  <2>2. /\ state'[t] = "Ready" /\ wake_pending'[t] = wake_pending[t] /\ suspendCount'[t] = 0
        /\ \A g \in Fibers \ {t} : state'[g] = state[g] /\ wake_pending'[g] = wake_pending[g]
        /\ \A g \in Fibers \ {t} : suspendCount'[g] = suspendCount[g]
    BY <1>0, <2>1, WakeFacts DEF TypeOK
  <2>3. FInv(t)'
    <3>1. Base(t)'
      BY <1>0, <1>1, <2>1, <2>2 DEF FInv, Base, Steady
    <3>2. OneFiberPerId => Term(t)'
      BY <1>0, <1>1, <2>1, <2>2 DEF FInv, Term, Started, Parking, Parked, Steady
    <3>3. GuestGates => Gate(t)'
      BY <1>0, <1>1, <2>2 DEF FInv, Gate
    <3>4. GuestCounts => Count(t)'
      BY <1>0, <2>1, <2>2 DEF Count, ToPark
    <3>5. NoSuspends => Quit(t)'
      BY <1>0, <1>1, <2>1, <2>2 DEF FInv, Quit, Steady, Started
    <3>. QED  BY <3>1, <3>2, <3>3, <3>4, <3>5
                 DEF FInv, OneFiberPerId, GuestGates, GuestCounts, NoSuspends
  <2>4. \A g \in Fibers \ {t} : Idle(g)
    BY <1>1, <1>2, <2>2 DEF Idle
  <2>5. running \notin {t} /\ \A u \in {t} \cap Fibers : FInv(u)'
    BY <1>0, <2>3
  <2>. QED  BY <1>1, <1>3, <2>4, <2>5, CallerStep
<1>4. CASE /\ infoSuspend[t] # 1
           /\ UNCHANGED <<queueVars, suspendCount, exec, asleep>> /\ Caller("return")
  <2>1. pc'[t] = pc[t] /\ infoSuspend'[t] > 0
    BY <1>0, <1>1, <1>2, <1>4, TargetFacts
  <2>2. FInv(t)'
    <3>1. Base(t)'
      BY <1>0, <1>1, <1>4, <2>1 DEF FInv, Base
    <3>2. OneFiberPerId => Term(t)'
      BY <1>0, <1>1, <1>4, <2>1 DEF FInv, Term, Started, Parking, Parked
    <3>3. GuestGates => Gate(t)'
      BY <1>0, <1>1, <1>4, <2>1 DEF FInv, Gate
    <3>4. GuestCounts => Count(t)'
      BY <2>1 DEF Count
    <3>5. NoSuspends => Quit(t)'
      BY <1>0, <1>1, <1>4, <2>1 DEF FInv, Quit
    <3>. QED  BY <3>1, <3>2, <3>3, <3>4, <3>5
                 DEF FInv, OneFiberPerId, GuestGates, GuestCounts, NoSuspends
  <2>3. \A g \in Fibers \ {t} : Idle(g)
    BY <1>1, <1>2, <1>4 DEF Idle
  <2>4. running \notin {t} /\ \A u \in {t} \cap Fibers : FInv(u)'
    BY <1>0, <2>2
  <2>. QED  BY <1>1, <1>4, <2>3, <2>4, CallerStep
<1>. QED  BY <1>3, <1>4 DEF ResumeThread

\* Priorities and the order of the queue are no part of the invariant.
LEMMA QueueOrderEnds ==
    ASSUME IInv, TInv,
           \/ \E t \in Fibers, p \in Prios : ChangeThreadPriority(t, p)
           \/ \E p \in Prios : RotateThreadReadyQueue(p)
    PROVE  TInv'
<1>1. /\ Caller("force_reschedule") \/ Caller("maybe_yield")
      /\ UNCHANGED <<state, wake_pending, running, exec, suspendCount, terminateRequested,
                     terminated, infoSuspend, generation, stop, sweep, calls>>
  BY DEF ChangeThreadPriority, RotateThreadReadyQueue
<1>2. /\ running \notin {} /\ \A u \in {} \cap Fibers : FInv(u)'
      /\ \A g \in Fibers \ {} : Idle(g)
      /\ Steady
  BY <1>1 DEF Idle, Steady
<1>. QED  BY <1>1, <1>2, CallerStep

\* TerminateThread records the request in the ThreadInfo before the scheduler
\* opens the target's gate and wakes it.
LEMMA TerminateThreadEnds ==
    ASSUME IInv, TInv, NEW f \in Fibers, NEW t \in Targets, TerminateThread(f, t)
    PROVE  TInv'
<1>0. /\ t \in Fibers /\ t # running /\ state[t] \in {"Ready", "Blocked"} /\ FInv(t) /\ TypeOK
      /\ running = f /\ exec = "guest" /\ Executing(f) /\ pc[f] \notin ToPark
  BY TargetFacts, HomeIsPlain DEF TerminateThread, AtHome, Executing
<1>1. /\ wake_locked(t) /\ Steady
      /\ terminateRequested' = [terminateRequested EXCEPT ![t] = TRUE]
      /\ suspendCount' = [suspendCount EXCEPT ![t] = 0]
      /\ terminated' = [terminated EXCEPT ![t] = TRUE]
      /\ pc' = [pc EXCEPT ![f] = "join"]
      /\ UNCHANGED <<generation, infoSuspend>>
  BY <1>0 DEF TerminateThread, request_terminate, notify_all, Goto, Steady
<1>2. /\ terminateRequested'[t] /\ terminated'[t] /\ suspendCount'[t] = 0
      /\ pc'[f] = "join" /\ \A g \in Fibers \ {f} : pc'[g] = pc[g]
  BY <1>0, <1>1 DEF TypeOK
<1>3. \A g \in Fibers \ {t} : Idle(g)
  <2>1. \A g \in Fibers \ {t} :
            /\ terminateRequested'[g] = terminateRequested[g]
            /\ terminated'[g] = terminated[g] /\ suspendCount'[g] = suspendCount[g]
    BY <1>0, <1>1 DEF TypeOK
  <2>2. \A g \in Fibers \ {t} : state'[g] = state[g] /\ wake_pending'[g] = wake_pending[g]
    BY <1>0, <1>1, WakeFacts
  <2>. QED  BY <1>1, <2>1, <2>2 DEF Idle
<1>4. FInv(t)'
  BY <1>0, <1>1, <1>2, WokenKeeps
<1>5. FInv(f)'
  BY <1>0, <1>1, <1>2, <1>3, MovedOn DEF ToPark
<1>6. \A g \in Fibers \ {f, t} : FInv(g)'
  BY <1>1, <1>2, <1>3, UntouchedKeeps DEF TInv, Untouched, Idle
<1>. QED  BY <1>4, <1>5, <1>6 DEF TInv

\* create_fiber makes a fiber of a new generation with open gates.
LEMMA create_fiberEnds ==
    ASSUME IInv, TInv, NEW f \in Fibers, NEW p \in Prios, create_fiber(f, p)
    PROVE  TInv'
<1>0. /\ TypeOK /\ Executing(f) /\ running = f /\ exec = "guest" /\ pc[f] = "create"
      /\ target[f] \in Fibers /\ state[target[f]] = "Absent"
      /\ generation[target[f]] < MaxGeneration /\ state[f] # "Absent"
  BY DEF IInv, ControlInv, create_fiber, Executing
<1>1. PICK t \in Fibers : t = target[f]
  BY <1>0
<1>2. /\ t # f /\ state[t] = "Absent" /\ FInv(t)
      /\ generation[t] < MaxGeneration /\ generation[t] \in Nat
  BY <1>0, <1>1 DEF TypeOK, TInv
<1>3. /\ generation' = [generation EXCEPT ![t] = @ + 1]
      /\ wake_pending' = [wake_pending EXCEPT ![t] = FALSE]
      /\ suspendCount' = [suspendCount EXCEPT ![t] = 0]
      /\ terminateRequested' = [terminateRequested EXCEPT ![t] = FALSE]
      /\ state' = [state EXCEPT ![t] = "Ready"]
      /\ pc' = [pc EXCEPT ![f] = "maybe_yield", ![t] = "run"]
      /\ Steady
      /\ UNCHANGED <<running, stop, sweep, calls, terminated, infoSuspend>> /\ exec' = "guest"
  BY <1>0, <1>1 DEF create_fiber, notify_all, Steady
<1>4. /\ ~wake_pending'[t] /\ suspendCount'[t] = 0 /\ ~terminateRequested'[t]
      /\ state'[t] = "Ready" /\ pc'[t] = "run" /\ pc'[f] = "maybe_yield"
      /\ \A g \in Fibers \ {f, t} : pc'[g] = pc[g]
  BY <1>0, <1>2, <1>3 DEF TypeOK
<1>5. generation'[t] > 0
  <2>1. generation'[t] = generation[t] + 1
    BY <1>0, <1>3 DEF TypeOK
  <2>. QED  BY <1>2, <2>1
<1>6. \A g \in Fibers \ {t} : Idle(g)
  <2>1. \A g \in Fibers \ {t} : generation'[g] = generation[g]
    BY <1>0, <1>3 DEF TypeOK
  <2>2. \A g \in Fibers \ {t} :
            /\ state'[g] = state[g] /\ wake_pending'[g] = wake_pending[g]
            /\ suspendCount'[g] = suspendCount[g]
            /\ terminateRequested'[g] = terminateRequested[g]
    BY <1>0, <1>3 DEF TypeOK
  <2>. QED  BY <1>3, <2>1, <2>2 DEF Idle
<1>7. FInv(t)'
  <2>1. Base(t)'
    BY <1>0, <1>2, <1>3, <1>4, <1>5 DEF FInv, Base, ToPark
  <2>2. OneFiberPerId => Term(t)'
    <3>. SUFFICES ASSUME OneFiberPerId, Term(t) PROVE Term(t)'
      BY <1>2 DEF FInv
    <3>1. generation[t] # MaxGeneration
      BY <1>2
    <3>2. \A c \in calls' : ~(c.tid = t /\ c.op = "terminate")
      BY <1>3, <3>1 DEF Term
    <3>. QED  BY <1>4, <3>2 DEF Term
  <2>3. GuestGates => Gate(t)'
    BY <1>2, <1>3, <1>4 DEF FInv, Gate
  <2>4. GuestCounts => Count(t)'
    BY <1>4 DEF Count
  <2>5. NoSuspends => Quit(t)'
    BY <1>3, <1>4 DEF Quit
  <2>. QED  BY <2>1, <2>2, <2>3, <2>4, <2>5
               DEF FInv, OneFiberPerId, GuestGates, GuestCounts, NoSuspends
<1>8. FInv(f)'
  BY <1>0, <1>2, <1>3, <1>4, <1>6, MovedOn DEF ToPark
<1>9. \A g \in Fibers \ {f, t} : FInv(g)'
  BY <1>3, <1>4, <1>6, UntouchedKeeps DEF TInv, Untouched, Idle
<1>. QED  BY <1>7, <1>8, <1>9 DEF TInv

-----------------------------------------------------------------------------
(* Host threads and shutdown *)

\* A host call's first step; only an operation the theorems allow counts.
LEMMA HostBeginEnds ==
    ASSUME IInv, TInv, NEW op \in HostOps, NEW t \in Fibers, HostBegin(op, t)
    PROVE  TInv'
<1>0. TypeOK /\ Started(t) /\ generation[t] \in 0..MaxGeneration
  BY DEF IInv, HostBegin, TypeOK
<1>1. /\ UNCHANGED <<pc, state, generation, wake_pending, suspendCount, terminateRequested, running,
                     exec, stop, sweep>>
      /\ \/ UNCHANGED terminated /\ op # "terminate"
         \/ op = "terminate" /\ terminated' = [terminated EXCEPT ![t] = TRUE]
      /\ \/ UNCHANGED infoSuspend
         \/ op \in {"suspend", "clear"} /\ \E n : infoSuspend' = [infoSuspend EXCEPT ![t] = n]
  BY DEF HostBegin
<1>2. \A c \in calls' : c \in calls \/ (c.tid = t /\ c.op = op)
  BY DEF HostBegin
<1>. SUFFICES ASSUME NEW g \in Fibers PROVE FInv(g)'
  BY DEF TInv
<1>3. FInv(g)
  BY DEF TInv
<1>4. /\ terminated[g] => terminated'[g]
      /\ g = t /\ op = "terminate" => terminated'[g]
  BY <1>0, <1>1 DEF TypeOK
<1>5. GuestCounts => infoSuspend' = infoSuspend
  BY <1>1 DEF GuestCounts
<1>6. Base(g)'
  BY <1>1, <1>2, <1>3 DEF FInv, Base
<1>7. OneFiberPerId => Term(g)'
  <2>. SUFFICES ASSUME OneFiberPerId, Term(g) PROVE Term(g)'
    BY <1>3 DEF FInv
  <2>1. g = t /\ op = "terminate" => generation[g] = MaxGeneration
    <3>1. g = t => generation[g] > 0
      BY <1>0, <1>3 DEF FInv, Base, Started
    <3>2. op = "terminate" => MaxGeneration = 1
      BY DEF OneFiberPerId
    <3>. QED  BY <1>0, <3>1, <3>2
  <2>2. \A c \in calls' : c.tid = g /\ c.op = "terminate" =>
            generation'[g] = MaxGeneration /\ (Started(g)' => terminated'[g])
    BY <1>1, <1>2, <1>4, <2>1 DEF Term, Started
  <2>. QED  BY <1>1, <1>4, <2>2 DEF Term, Started, Parking, Parked
<1>8. GuestGates => Gate(g)'
  BY <1>1, <1>3 DEF FInv, Gate
<1>9. GuestCounts => Count(g)'
  BY <1>1, <1>3, <1>5 DEF FInv, Count, Started
<1>10. NoSuspends => Quit(g)'
  BY <1>1, <1>3 DEF FInv, Quit
<1>. QED  BY <1>6, <1>7, <1>8, <1>9, <1>10
             DEF FInv, OneFiberPerId, GuestGates, GuestCounts, NoSuspends

\* The scheduler step of a host call: it wakes the fiber, closes its gate, or
\* leaves it alone.
LEMMA HostEndEnds == ASSUME IInv, TInv, NEW c \in calls, HostEnd(c) PROVE TInv'
<1>0. TypeOK /\ c.tid \in Fibers
  BY DEF IInv, TypeOK, Calls
<1>1. PICK t \in Fibers : t = c.tid
  BY <1>0
<1>2. /\ FInv(t) /\ c.op \in HostOps /\ suspendCount[t] \in Nat
      /\ UNCHANGED <<pc, generation, terminated, infoSuspend>>
      /\ Steady
  BY <1>0, <1>1 DEF HostEnd, enqueue_external_wakeup_validated, make_ready, suspend_other,
         clear_suspend, request_terminate, notify_all, Steady, TInv, FInv, Base, TypeOK
<1>3. \/ /\ wake_locked(t) /\ Live(t)
         /\ \/ UNCHANGED suspendCount /\ suspendCount[t] = 0
            \/ suspendCount' = [suspendCount EXCEPT ![t] = 0]
         /\ \/ c.op \in {"wake", "ready", "clear"} /\ UNCHANGED terminateRequested
            \/ /\ c.op = "terminate"
               /\ terminateRequested' = [terminateRequested EXCEPT ![t] = TRUE]
      \/ /\ c.op = "suspend" /\ suspend_other(t) /\ Live(t)
         /\ UNCHANGED <<wake_pending, terminateRequested, exec>>
      \/ UNCHANGED <<queueVars, suspendCount, terminateRequested>>
  BY <1>1
     DEF HostEnd, enqueue_external_wakeup_validated, make_ready, clear_suspend, request_terminate
<1>4. CASE /\ wake_locked(t) /\ Live(t)
           /\ \/ UNCHANGED suspendCount /\ suspendCount[t] = 0
              \/ suspendCount' = [suspendCount EXCEPT ![t] = 0]
           /\ \/ c.op \in {"wake", "ready", "clear"} /\ UNCHANGED terminateRequested
              \/ /\ c.op = "terminate"
                 /\ terminateRequested' = [terminateRequested EXCEPT ![t] = TRUE]
  <2>1. /\ suspendCount'[t] = 0
        /\ \A g \in Fibers \ {t} :
              /\ suspendCount'[g] = suspendCount[g]
              /\ terminateRequested'[g] = terminateRequested[g]
    BY <1>0, <1>4 DEF TypeOK
  <2>2. \A g \in Fibers \ {t} : state'[g] = state[g] /\ wake_pending'[g] = wake_pending[g]
    BY <1>4, WakeFacts DEF Live
  <2>3. /\ terminateRequested[t] => terminateRequested'[t]
        /\ c.op = "terminate" => terminateRequested'[t]
        /\ c.op # "terminate" => terminateRequested' = terminateRequested
    BY <1>0, <1>4 DEF TypeOK
  <2>4. OneFiberPerId /\ terminateRequested'[t] /\ Started(t)
              => terminateRequested[t] \/ terminated'[t] \/ stop
    BY <1>1, <1>2, <2>3 DEF FInv, Term
  <2>5. GuestGates => terminateRequested'[t]
    BY <1>2, <1>4, <2>3 DEF GuestGates
  <2>6. NoSuspends => terminateRequested' = terminateRequested
    BY <1>2, <2>3 DEF NoSuspends
  <2>7. FInv(t)'
    BY <1>2, <1>4, <2>1, <2>3, <2>4, <2>5, <2>6, WokenKeeps DEF Live
  <2>8. \A g \in Fibers \ {t} : FInv(g)'
    BY <1>2, <2>1, <2>2, UntouchedKeeps DEF TInv, Untouched
  <2>. QED  BY <2>7, <2>8 DEF TInv
<1>5. CASE /\ c.op = "suspend" /\ suspend_other(t) /\ Live(t)
           /\ UNCHANGED <<wake_pending, terminateRequested, exec>>
  <2>1. /\ suspendCount'[t] = suspendCount[t] + 1
        /\ \A g \in Fibers \ {t} : suspendCount'[g] = suspendCount[g]
    <3>1. suspendCount' = [suspendCount EXCEPT ![t] = @ + 1]
      BY <1>5 DEF suspend_other
    <3>. QED  BY <1>0, <3>1 DEF TypeOK
  <2>2. suspendCount'[t] > 0
    BY <1>2, <2>1
  <2>3. /\ state'[t] = state[t] \/ (state[t] = "Ready" /\ state'[t] = "Blocked")
        /\ \A g \in Fibers \ {t} : state'[g] = state[g]
    BY <1>5, SuspendOther DEF IInv
  <2>4. running = t /\ exec = "guest" => state[t] # "Ready"
    BY DEF IInv, ControlInv
  <2>5. ~GuestGates /\ ~GuestCounts /\ ~NoSuspends
    BY <1>2, <1>5 DEF GuestGates, GuestCounts, NoSuspends
  <2>6. Base(t)'
    BY <1>2, <2>3, <2>4 DEF FInv, Base, Steady
  <2>7. OneFiberPerId => Term(t)'
    BY <1>2, <1>5, <2>2, <2>3 DEF FInv, Term, Started, Parking, Parked, Steady
  <2>8. FInv(t)'
    BY <2>5, <2>6, <2>7 DEF FInv, OneFiberPerId, GuestGates, GuestCounts, NoSuspends
  <2>9. \A g \in Fibers \ {t} : FInv(g)'
    BY <1>2, <1>5, <2>1, <2>3, UntouchedKeeps DEF TInv, Untouched
  <2>. QED  BY <2>8, <2>9 DEF TInv
<1>6. CASE UNCHANGED <<queueVars, suspendCount, terminateRequested>>
  BY <1>2, <1>6, UntouchedKeeps DEF TInv, Untouched
<1>. QED  BY <1>3, <1>4, <1>5, <1>6

\* g_stop is set before the first visit.
LEMMA ShutdownBeginEnds == ASSUME IInv, TInv, ShutdownBegin PROVE TInv'
<1>. SUFFICES ASSUME NEW g \in Fibers PROVE FInv(g)'
  BY DEF TInv
<1>0. /\ FInv(g) /\ ~stop /\ stop' /\ "stop" \in Ops
      /\ exec' = exec \/ (exec = "asleep" /\ exec' = "check")
      /\ UNCHANGED <<pc, state, generation, wake_pending, suspendCount, terminateRequested,
                     terminated, infoSuspend, running, calls>>
  BY DEF TInv, ShutdownBegin, notify_all
<1>1. Base(g)'
  BY <1>0 DEF FInv, Base
<1>2. OneFiberPerId => Term(g)'
  BY <1>0 DEF FInv, Term, Started, Parking, Parked
<1>3. ~GuestGates
  BY <1>0 DEF GuestGates
<1>4. GuestCounts => Count(g)'
  BY <1>0 DEF FInv, Count, Started
<1>5. NoSuspends => Quit(g)'
  BY <1>0 DEF FInv, Quit
<1>. QED  BY <1>1, <1>2, <1>3, <1>4, <1>5
             DEF FInv, OneFiberPerId, GuestGates, GuestCounts, NoSuspends

\* scheduler_shutdown opens the gate of a parked fiber and wakes it.
LEMMA ShutdownVisitEnds == ASSUME IInv, TInv, NEW t \in sweep, ShutdownVisit(t) PROVE TInv'
<1>0. TypeOK /\ t \in Fibers /\ FInv(t) /\ stop
  BY DEF IInv, TypeOK, TInv, FInv, Base
<1>1. /\ UNCHANGED <<pc, generation, terminated, infoSuspend, running, exec, stop, calls>>
      /\ sweep' = sweep \ {t} /\ Steady
      /\ terminateRequested' =
            [terminateRequested EXCEPT ![t] = terminateRequested[t] \/ state[t] # "Exiting"]
  BY DEF ShutdownVisit, Steady
<1>2. ~GuestGates
  BY <1>0 DEF FInv, Gate
<1>3. NoSuspends => exec # "quit"
  BY <1>0 DEF FInv, Quit
<1>4. /\ terminateRequested[t] => terminateRequested'[t]
      /\ \A g \in Fibers \ {t} : terminateRequested'[g] = terminateRequested[g]
  BY <1>0, <1>1 DEF TypeOK
<1>5. CASE /\ state[t] \in {"Blocked", "Exiting"} /\ wake_locked(t)
           /\ suspendCount' = [suspendCount EXCEPT ![t] = 0]
  <2>1. suspendCount'[t] = 0 /\ \A g \in Fibers \ {t} : suspendCount'[g] = suspendCount[g]
    BY <1>0, <1>5 DEF TypeOK
  <2>2. \A g \in Fibers \ {t} : state'[g] = state[g] /\ wake_pending'[g] = wake_pending[g]
    BY <1>0, <1>5, WakeFacts
  <2>3. FInv(t)'
    BY <1>0, <1>1, <1>2, <1>3, <1>4, <1>5, <2>1, WokenKeeps
  <2>4. \A g \in Fibers \ {t} : FInv(g)'
    BY <1>1, <1>4, <2>1, <2>2, UntouchedKeeps DEF TInv, Untouched
  <2>. QED  BY <2>3, <2>4 DEF TInv
<1>6. CASE state[t] \notin {"Blocked", "Exiting"} /\ UNCHANGED <<queueVars, suspendCount>>
  <2>1. Base(t)'
    BY <1>0, <1>1, <1>6 DEF FInv, Base
  <2>2. OneFiberPerId => Term(t)'
    BY <1>0, <1>1, <1>6 DEF FInv, Term, Started, Parking, Parked
  <2>3. GuestCounts => Count(t)'
    BY <1>0, <1>1, <1>6 DEF FInv, Count, Started
  <2>4. NoSuspends => Quit(t)'
    BY <1>0, <1>1, <1>3, <1>6 DEF FInv, Quit
  <2>5. FInv(t)'
    BY <1>2, <2>1, <2>2, <2>3, <2>4 DEF FInv, OneFiberPerId, GuestGates, GuestCounts, NoSuspends
  <2>6. \A g \in Fibers \ {t} : FInv(g)'
    BY <1>1, <1>4, <1>6, UntouchedKeeps DEF TInv, Untouched
  <2>. QED  BY <2>5, <2>6 DEF TInv
<1>. QED  BY <1>5, <1>6 DEF ShutdownVisit

-----------------------------------------------------------------------------
(* The theorems *)

\* scheduler_init and the first create_fiber establish the invariant.
LEMMA InitEnds == Init => TInv
<1>. SUFFICES ASSUME Init, NEW g \in Fibers PROVE FInv(g)
  BY DEF TInv
<1>1. Base(g)
  BY Constants DEF Init, Base, ToPark
<1>2. Term(g) /\ Gate(g) /\ Count(g) /\ Quit(g)
  BY DEF Init, Term, Parking, Parked, Gate, Count, Quit
<1>. QED  BY <1>1, <1>2 DEF FInv

\* Every step of the specification keeps the invariant.
LEMMA NextEnds == ASSUME IInv, TInv, [Next]_vars PROVE TInv'
<1>1. CASE UNCHANGED vars
  BY <1>1, UntouchedKeeps DEF vars, TInv, Untouched, Steady
<1>2. CASE \E f \in sweep : ShutdownVisit(f)
  BY <1>2, ShutdownVisitEnds
<1>3. CASE sweep = {} /\ Executor
  BY <1>3, ExecutorQuitEnds, ExecutorResumeEnds, ExecutorSleepEnds, PostResumeEnds DEF Executor
<1>4. CASE SpuriousWakeup \/ \E w \in Workers : Worker(w)
  <2>1. /\ UNCHANGED <<pc, state, generation, wake_pending, suspendCount, terminateRequested,
                       terminated, infoSuspend>>
        /\ Steady
    BY <1>4 DEF SpuriousWakeup, Worker, PublishWaiter, async_guest_begin, async_guest_end,
                notify_all, Steady
  <2>. QED  BY <2>1, UntouchedKeeps DEF TInv, Untouched
<1>5. CASE SlotOwner
  BY <1>5, SignalEnds, SuspendThreadEnds, ResumeThreadEnds, QueueOrderEnds DEF SlotOwner
<1>6. CASE Host
  BY <1>6, HostBeginEnds, HostEndEnds, ShutdownBeginEnds DEF Host
<1>7. CASE \E f \in Fibers : FiberStep(f)
  <2>1. PICK f \in Fibers : FiberStep(f)
    BY <1>7
  <2>2. CASE Continue(f)
    <3>1. CASE Recheck(f)
      BY <3>1, CheckConditionEnds DEF Recheck
    <3>. QED
      BY <2>2, <3>1, arm_parkEnds, block_currentEnds, waitWhileSuspendedEnds, suspend_selfEnds,
         SuspendReturnEnds, RescheduleEnds, YieldPointReturnEnds, join_fiberEnds,
         create_fiberEnds DEF Continue
  <2>3. CASE Wait(f)
    BY <2>3, CheckConditionEnds, HomeIsPlain DEF Wait, AtHome
  <2>. QED
    BY <2>1, <2>2, <2>3, SuspendThreadSelfEnds, YieldPointGatesEnds, YieldPointEnds,
       SetInterruptsEnds, DispatchLoopEndsEnds, FiberFinishedEnds, StartThreadEnds,
       TerminateThreadEnds DEF FiberStep
<1>. QED  BY <1>1, <1>2, <1>3, <1>4, <1>5, <1>6, <1>7 DEF Next

\* Both invariants hold throughout.
LEMMA Invariant == Spec => [](IInv /\ TInv)
<1>1. Init => IInv /\ TInv
  BY InitKeeps, InitEnds
<1>2. IInv /\ TInv /\ [Next]_vars => (IInv /\ TInv)'
  BY NextKeeps, NextEnds
<1>. QED  BY <1>1, <1>2, PTL DEF Spec

\* A fiber asked to terminate is not left parked (request_terminate,
\* block_current), as long as no host thread's request can outlive the fiber it
\* was made for: such a request sets terminateRequested of a later fiber whose
\* ThreadInfo does not say terminated, and whose wait loop parks again.
THEOREM TerminateReaches == OneFiberPerId => (Spec => []TerminateReachesParked)
<1>. SUFFICES ASSUME OneFiberPerId PROVE Spec => []TerminateReachesParked
  OBVIOUS
<1>1. IInv /\ TInv => TerminateReachesParked
  BY DEF TInv, FInv, Term, TerminateReachesParked
<1>. QED  BY Invariant, <1>1, PTL

\* A suspended fiber is never on the run queue unless it is unwinding
\* (suspend_other, make_ready, the executor's post-resume code), as long as only
\* the guest suspends and wakes: a host thread may suspend the running fiber,
\* which then yields to the queue and parks at its next yield_point.
THEOREM SuspendedStaysOff == GuestGates => (Spec => []SuspendedOffQueue)
<1>. SUFFICES ASSUME GuestGates PROVE Spec => []SuspendedOffQueue
  OBVIOUS
<1>1. IInv /\ TInv => SuspendedOffQueue
  <2>. SUFFICES ASSUME IInv, TInv, NEW f \in Fibers, Queued(f), ~terminateRequested[f]
                PROVE  suspendCount[f] = 0
    BY DEF SuspendedOffQueue
  <2>1. state[f] = "Ready" /\ suspendCount[f] \in Nat
    BY DEF IInv, QWF, Queued, TypeOK
  <2>2. ~(running = f /\ exec = "guest")
    BY <2>1 DEF IInv, ControlInv
  <2>3. ~(suspendCount[f] > 0)
    BY <2>1, <2>2 DEF TInv, FInv, Gate
  <2>. QED  BY <2>1, <2>3
<1>. QED  BY Invariant, <1>1, PTL

\* The scheduler's gate is closed only while the thread's nesting count says so
\* (SuspendThread, ResumeThread, suspend_self), as long as only the guest
\* suspends and resumes: between the two counts of a host's SuspendThread the
\* guest may resume the thread.
THEOREM GateHasCount == GuestCounts => (Spec => []NoOrphanSuspend)
<1>. SUFFICES ASSUME GuestCounts PROVE Spec => []NoOrphanSuspend
  OBVIOUS
<1>1. IInv /\ TInv => NoOrphanSuspend
  BY DEF TInv, FInv, Count, NoOrphanSuspend
<1>. QED  BY Invariant, <1>1, PTL

\* When the executor has quit, every fiber asked to terminate has run its exit
\* path to the end (scheduler_shutdown, block_current), as long as nobody
\* suspends and no host thread terminates: a suspend after the sweep's visit
\* parks the fiber for good.
THEOREM ShutdownReaps == NoSuspends => (Spec => []ShutdownReapsTerminated)
<1>. SUFFICES ASSUME NoSuspends PROVE Spec => []ShutdownReapsTerminated
  OBVIOUS
<1>1. IInv /\ TInv => ShutdownReapsTerminated
  BY DEF TInv, FInv, Quit, ShutdownReapsTerminated
<1>. QED  BY Invariant, <1>1, PTL
=============================================================================
