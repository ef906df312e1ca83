-------------------------------- MODULE VSync --------------------------------
(***************************************************************************)
(* The vsync part of Kernel/Syscalls/Interrupt.cpp: the one-shot flag of   *)
(* SetVSyncFlag and the threads in WaitForNextVSyncTick.                   *)
(*                                                                         *)
(* signalVSyncFlag runs on the worker without the guest token, so its      *)
(* stores to guest memory come between any two steps of guest code.  The   *)
(* caller of SetVSyncFlag is the SDK's GsSyncV: the flag and the tick are  *)
(* words of its stack frame, it spins on the flag and returns.             *)
(*                                                                         *)
(* Of the counter of ticks the model keeps what a waiter compares: whether *)
(* it has ticked since the waiter read it.                                  *)
(***************************************************************************)
CONSTANTS
    Frames,        \* places GsSyncV's frame can be at
    Waiting,       \* fibers that call WaitForNextVSyncTick
    Polling,       \* host workers that do, which cannot park
    NoFrame        \* no registration

ASSUME VSyncAssumption ==
    NoFrame \notin Frames /\ Waiting \cap Polling = {}

Callers == Waiting \cup Polling

VARIABLES
    registration,  \* g_vsync_registration
    signal,        \* signalVSyncFlag on the worker: its place, its copies
                   \* of the registration and of the list it wakes
    flagWord,      \* the flag in each frame
    spinner,       \* the call of GsSyncV: its place and frame
    waitList,      \* g_vsync_waitList
    waiter,        \* WaitForNextVSyncTick in each caller
    ticked         \* callers whose entryTick is no longer g_vsync_tick_counter

vsyncVars == <<registration, signal, flagWord, spinner, waitList, waiter, ticked>>

\* noted: woken before it has parked (wake_pending).
VSyncWaits == {"out", "publish", "published", "noted", "parked", "woken", "polling"}

VSyncTypeOK ==
    /\ registration \in Frames \cup {NoFrame}
    /\ signal \in [pc : {"idle", "swap", "wake", "flag", "tick"}, frame : Frames \cup {NoFrame},
                   waiters : SUBSET Waiting]
    /\ flagWord \in [Frames -> {0, 1}]
    /\ spinner \in [pc : {"out", "set_flag", "set_tick", "spin"}, frame : Frames \cup {NoFrame}]
    /\ waitList \subseteq Waiting
    /\ waiter \in [Callers -> VSyncWaits]
    /\ ticked \subseteq Callers

-----------------------------------------------------------------------------
(* signalVSyncFlag *)

\* Mutant of SignalTakes: the registration stays.
SignalTakesKeeping ==
    /\ signal.pc = "idle"
    /\ signal' = [pc |-> "swap", frame |-> registration, waiters |-> {}]
    /\ ticked' = Callers
    /\ UNCHANGED <<registration, flagWord, spinner, waitList, waiter>>

\* The registration is copied and cleared and the tick counted, under the lock.
SignalTakes ==
    /\ signal.pc = "idle"
    /\ signal' = [pc |-> "swap", frame |-> registration, waiters |-> {}]
    /\ registration' = NoFrame
    /\ ticked' = Callers
    /\ UNCHANGED <<flagWord, spinner, waitList, waiter>>

\* wakeWaiters takes the whole list, under the lock again.
SignalSwaps ==
    /\ signal.pc = "swap"
    /\ signal' = [signal EXCEPT !.pc = "wake", !.waiters = waitList]
    /\ waitList' = {}
    /\ UNCHANGED <<registration, flagWord, spinner, waiter, ticked>>

\* A validated wakeup; of a fiber that has not parked yet it is noted.
Woken(w) ==
    [waiter EXCEPT ![w] = CASE @ = "parked" -> "woken" [] @ = "published" -> "noted" [] OTHER -> @]

\* It wakes the fibers it took one after the other.
SignalWakes(w) ==
    /\ signal.pc = "wake" /\ w \in signal.waiters
    /\ signal' = [signal EXCEPT !.waiters = @ \ {w}]
    /\ waiter' = Woken(w)
    /\ UNCHANGED <<registration, flagWord, spinner, waitList, ticked>>

SignalWoke ==
    /\ signal.pc = "wake" /\ signal.waiters = {}
    /\ signal' = [signal EXCEPT !.pc = "flag"]
    /\ UNCHANGED <<registration, flagWord, spinner, waitList, waiter, ticked>>

SignalFlag ==
    /\ signal.pc = "flag"
    /\ flagWord' = IF signal.frame = NoFrame THEN flagWord
                   ELSE [flagWord EXCEPT ![signal.frame] = 1]
    /\ signal' = [signal EXCEPT !.pc = "tick"]
    /\ UNCHANGED <<registration, spinner, waitList, waiter, ticked>>

\* The store of the tick; what the words hold is of no further use.
SignalTick ==
    /\ signal.pc = "tick"
    /\ signal' = [pc |-> "idle", frame |-> NoFrame, waiters |-> {}]
    /\ UNCHANGED <<registration, flagWord, spinner, waitList, waiter, ticked>>

-----------------------------------------------------------------------------
(* SetVSyncFlag, and the loop around it *)

SetVSyncFlag(f) ==
    /\ spinner.pc = "out"
    /\ registration' = f
    /\ spinner' = [pc |-> "set_flag", frame |-> f]
    /\ UNCHANGED <<signal, flagWord, waitList, waiter, ticked>>

SetVSyncClears ==
    /\ spinner.pc = "set_flag"
    /\ flagWord' = [flagWord EXCEPT ![spinner.frame] = 0]
    /\ spinner' = [spinner EXCEPT !.pc = "set_tick"]
    /\ UNCHANGED <<registration, signal, waitList, waiter, ticked>>

SetVSyncReturns ==
    /\ spinner.pc = "set_tick"
    /\ spinner' = [spinner EXCEPT !.pc = "spin"]
    /\ UNCHANGED <<registration, signal, flagWord, waitList, waiter, ticked>>

\* External: the loop on the flag ends and the frame is popped.
GsSyncVReturns ==
    /\ spinner.pc = "spin" /\ flagWord[spinner.frame] = 1
    /\ spinner' = [pc |-> "out", frame |-> NoFrame]
    /\ UNCHANGED <<registration, signal, flagWord, waitList, waiter, ticked>>

-----------------------------------------------------------------------------
(* WaitForNextVSyncTick *)

WaitForNextVSyncTick(w) ==
    /\ waiter[w] = "out"
    /\ waiter' = [waiter EXCEPT ![w] = IF w \in Waiting THEN "publish" ELSE "polling"]
    /\ ticked' = ticked \ {w}
    /\ UNCHANGED <<registration, signal, flagWord, spinner, waitList>>

VSyncPublish(w) ==
    /\ waiter[w] = "publish"
    /\ waitList' = waitList \cup {w}
    /\ waiter' = [waiter EXCEPT ![w] = "published"]
    /\ UNCHANGED <<registration, signal, flagWord, spinner, ticked>>

\* Mutant of VSyncPark: the park forgets a wake that came before it.
VSyncParkForgets(w) ==
    /\ waiter[w] \in {"published", "noted"}
    /\ waiter' = [waiter EXCEPT ![w] = "parked"]
    /\ UNCHANGED <<registration, signal, flagWord, spinner, waitList, ticked>>

\* arm_park and block_current, which returns at once when a wake was noted.
VSyncPark(w) ==
    /\ waiter[w] \in {"published", "noted"}
    /\ waiter' = [waiter EXCEPT ![w] = IF @ = "noted" THEN "woken" ELSE "parked"]
    /\ UNCHANGED <<registration, signal, flagWord, spinner, waitList, ticked>>

\* A termination, or a resume of a fiber that was suspended in the park.
WokenOtherwise(w) ==
    /\ waiter[w] \in {"published", "parked"}
    /\ waiter' = Woken(w)
    /\ UNCHANGED <<registration, signal, flagWord, spinner, waitList, ticked>>

\* The entry is removed by the fiber's token and the counter returned.
VSyncWaitReturns(w) ==
    /\ waiter[w] = "woken"
    /\ waitList' = waitList \ {w}
    /\ waiter' = [waiter EXCEPT ![w] = "out"]
    /\ UNCHANGED <<registration, signal, flagWord, spinner, ticked>>

\* A host worker looks at the counter after every backoff step.
VSyncPollReturns(w) ==
    /\ waiter[w] = "polling" /\ w \in ticked
    /\ waiter' = [waiter EXCEPT ![w] = "out"]
    /\ UNCHANGED <<registration, signal, flagWord, spinner, waitList, ticked>>

-----------------------------------------------------------------------------
VSyncInit ==
    /\ registration = NoFrame
    /\ signal = [pc |-> "idle", frame |-> NoFrame, waiters |-> {}]
    /\ flagWord \in [Frames -> {0, 1}]
    /\ spinner = [pc |-> "out", frame |-> NoFrame]
    /\ waitList = {}
    /\ waiter = [w \in Callers |-> "out"]
    /\ ticked = {}

VSyncWorker == \/ SignalTakes \/ SignalSwaps \/ (\E w \in Waiting : SignalWakes(w)) \/ SignalWoke
               \/ SignalFlag \/ SignalTick

SpinnerCalls == SetVSyncClears \/ SetVSyncReturns \/ GsSyncVReturns

VSyncCalls(w) == VSyncPublish(w) \/ VSyncPark(w) \/ WokenOtherwise(w) \/ VSyncWaitReturns(w)

VSyncNext ==
    \/ VSyncWorker
    \/ \E f \in Frames : SetVSyncFlag(f)
    \/ SpinnerCalls
    \/ \E w \in Callers : WaitForNextVSyncTick(w)
    \/ \E w \in Waiting : VSyncCalls(w)
    \/ \E w \in Polling : VSyncPollReturns(w)

-----------------------------------------------------------------------------
(* Properties *)

\* The registration is one-shot: the worker's flag store only ever lands in
\* a frame whose call is still waiting for it (Interrupt.cpp 516-533).
FlagStoreInFrame ==
    (signal.pc \in {"swap", "wake", "flag"} /\ signal.frame # NoFrame)
        => spinner.frame = signal.frame

\* "the idiom is only sound if the kernel stops writing after it fires once;
\* a persistent registration turns every later vblank into an async store into
\* an abandoned frame" (Interrupt.cpp 523-525): no store of the worker, the
\* tick's included, lands in a frame that was popped.
NoStoreInDeadFrame ==
    (signal.pc \in {"swap", "wake", "flag", "tick"} /\ signal.frame # NoFrame)
        => spinner.frame = signal.frame

\* A parked fiber is on the list the next tick takes or among the ones this tick
\* has still to wake, however ticks, other wakes and a new wait of the same fiber
\* fall between its entry in the list, its park and its return (Interrupt.cpp
\* 535-538, 938-987).
ParkedIsListed ==
    \A w \in Waiting : waiter[w] = "parked" => w \in waitList \cup signal.waiters
=============================================================================
