------------------------------ MODULE Lifecycle ------------------------------
(***************************************************************************)
(* A guest thread from CreateThread to its last fiber's end: the registry  *)
(* g_threads, the ThreadInfo objects it holds, the token each started      *)
(* thread has in g_activeThreads, the stack StartThread allocates for a    *)
(* thread that brought none, and notifyRuntimeStop on the main thread.     *)
(*                                                                         *)
(* Guest calls run one at a time in the slot.  Where a call drops a lock   *)
(* the main thread's stop may come in between, so a call is a sequence of  *)
(* critical sections; where it runs guest code (an exit handler, which may *)
(* block) the slot may change hands.  Lookup and stop test of StartThread  *)
(* are one step: the flag is set before the registry is cleared.           *)
(***************************************************************************)
EXTENDS Integers, FiniteSets

CONSTANTS
    MaxThreadId,  \* bound: the last thread identifier (0xFF in the code)
    MaxInfos,     \* bound: ThreadInfo objects made in a behaviour
    None          \* nullptr

ASSUME LifecycleAssumption ==
    MaxThreadId \in Nat /\ MaxThreadId > 1 /\ MaxInfos \in Nat \ {0} /\ None \notin Int

Boot == 1
Tids == 2..MaxThreadId
Ids == {Boot} \cup Tids
Objects == 1..MaxInfos

VARIABLES
    registry,       \* g_threads: the ThreadInfo of an identifier
    nextId,         \* g_nextThreadId
    made,           \* how many ThreadInfo objects were made
    obj,            \* the ThreadInfo objects
    active,         \* g_activeThreads
    heap,           \* objects whose allocated stack is in the guest heap
    handlers,       \* identifiers with an exit handler
    fiber,          \* what the fiber of an identifier is doing
    slot,           \* the fiber in the middle of a call, or None
    stopRequested,  \* PS2Runtime::m_stopRequested
    stop            \* notifyRuntimeStop: its place and what it has yet to do

vars == <<registry, nextId, made, obj, active, heap, handlers, fiber, slot, stopRequested, stop>>

Infos == [started : BOOLEAN, dormant : BOOLEAN, terminated : BOOLEAN, counted : BOOLEAN,
          \* "ask": none brought and a size given; "auto": ownsStack; "own": brought along
          stack : {"ask", "auto", "own"}]

FiberStates == [pc : {"none", "run", "start_lock", "start_mint", "start_create", "delete_lock",
                      "delete_erase", "handlers", "exit_mark", "exit_delete", "exit_consume",
                      "hook_lookup", "hook_reset", "hook_stack", "hook_consume"},
                then : {"", "exit_mark", "exit_delete", "hook_reset"},
                who : Ids, info : Objects \cup {None}]

TypeOK ==
    /\ registry \in [Ids -> Objects \cup {None}]
    /\ nextId \in Tids /\ made \in 0..MaxInfos
    /\ obj \in [Objects -> Infos]
    /\ active \in 0..MaxInfos
    /\ heap \subseteq Objects /\ handlers \subseteq Ids
    /\ fiber \in [Ids -> FiberStates]
    /\ slot \in Ids \cup {None}
    /\ stopRequested \in BOOLEAN
    /\ stop \in [pc : {"idle", "clear", "consume", "mark", "done"}, left : SUBSET Objects,
                 all : SUBSET Objects]

-----------------------------------------------------------------------------
Fresh(stack) == [started |-> FALSE, dormant |-> TRUE, terminated |-> FALSE, counted |-> FALSE,
                 stack |-> stack]

NoFiber == [pc |-> "none", then |-> "", who |-> Boot, info |-> None]

Alive(f) == fiber[f].pc # "none"

\* f is in the slot and between two calls.
MayCall(f) == slot = None /\ fiber[f].pc = "run"

At(f, place) == fiber[f].pc = place /\ slot = f

Goes(f, place) == fiber' = [fiber EXCEPT ![f].pc = place] /\ slot' = f

Back(f) == fiber' = [fiber EXCEPT ![f] = [NoFiber EXCEPT !.pc = "run"]] /\ slot' = None

\* consumeActiveToken: the exchange decides who takes the token back.
consumeActiveToken(i) ==
    IF i # None /\ obj[i].counted
    THEN obj' = [obj EXCEPT ![i].counted = FALSE] /\ active' = active - 1
    ELSE UNCHANGED <<obj, active>>

Wrapped(n) == 2 + ((n - 2) % (MaxThreadId - 1))

\* The identifier CreateThread's search ends on.
Candidate ==
    LET Free(d) == registry[Wrapped(nextId + d)] = None
    IN  Wrapped(nextId + CHOOSE d \in 0..(MaxThreadId - 2) :
                            Free(d) /\ \A e \in 0..(d - 1) : ~Free(e))

\* With every identifier taken the call fails.
CreateThread(f, stack) ==
    /\ MayCall(f) /\ made < MaxInfos
    /\ \E t \in Tids : registry[t] = None
    /\ made' = made + 1
    /\ obj' = [obj EXCEPT ![made + 1] = Fresh(stack)]
    /\ registry' = [registry EXCEPT ![Candidate] = made + 1]
    /\ nextId' = Wrapped(Candidate + 1)
    /\ UNCHANGED <<active, heap, handlers, fiber, slot, stopRequested, stop>>

-----------------------------------------------------------------------------
(* StartThread *)

StartThread(f, t) ==
    /\ MayCall(f) /\ registry[t] # None /\ ~stopRequested
    /\ fiber' = [fiber EXCEPT ![f] = [pc |-> "start_lock", then |-> "", who |-> t,
                                      info |-> registry[t]]]
    /\ slot' = f
    /\ UNCHANGED <<registry, nextId, made, obj, active, heap, handlers, stopRequested, stop>>

StartLock(f) ==
    /\ At(f, "start_lock")
    /\ LET i == fiber[f].info
       IN  \/ /\ obj[i].started \/ ~obj[i].dormant       \* KE_NOT_DORMANT
              /\ Back(f)
              /\ UNCHANGED <<obj, heap>>
           \/ /\ ~obj[i].started /\ obj[i].dormant
              /\ obj' = [obj EXCEPT ![i] = [@ EXCEPT !.started = TRUE, !.dormant = FALSE,
                            !.terminated = FALSE,
                            !.stack = IF obj[i].stack = "ask" THEN "auto" ELSE obj[i].stack]]
              /\ heap' = IF obj[i].stack = "ask" THEN heap \cup {i} ELSE heap
              /\ Goes(f, "start_mint")
    /\ UNCHANGED <<registry, nextId, made, active, handlers, stopRequested, stop>>

StartMint(f) ==
    /\ At(f, "start_mint")
    /\ obj' = [obj EXCEPT ![fiber[f].info].counted = TRUE]
    /\ active' = active + 1
    /\ Goes(f, "start_create")
    /\ UNCHANGED <<registry, nextId, made, heap, handlers, stopRequested, stop>>

\* create_fiber stores the new fiber over whatever the map holds.
StartCreate(f) ==
    /\ At(f, "start_create")
    /\ fiber' = [fiber EXCEPT ![f] = [NoFiber EXCEPT !.pc = "run"],
                              ![fiber[f].who] = [NoFiber EXCEPT !.pc = "run"]]
    /\ slot' = None
    /\ UNCHANGED <<registry, nextId, made, obj, active, heap, handlers, stopRequested, stop>>

\* Allocation failed or the scheduler is stopping.
StartFails(f) ==
    /\ At(f, "start_create")
    /\ LET i == fiber[f].info
       IN  /\ obj' = [obj EXCEPT ![i] = [@ EXCEPT !.counted = FALSE, !.started = FALSE,
                                                  !.dormant = TRUE]]
           /\ active' = IF obj[i].counted THEN active - 1 ELSE active
    /\ Back(f)
    /\ UNCHANGED <<registry, nextId, made, heap, handlers, stopRequested, stop>>

-----------------------------------------------------------------------------
(* DeleteThread *)

DeleteThread(f, t) ==
    /\ MayCall(f) /\ registry[t] # None
    /\ fiber' = [fiber EXCEPT ![f] = [pc |-> "delete_lock", then |-> "", who |-> t,
                                      info |-> registry[t]]]
    /\ slot' = f
    /\ UNCHANGED <<registry, nextId, made, obj, active, heap, handlers, stopRequested, stop>>

\* Mutant of DeleteLock: only the status is looked at.
DeleteLockStarted(f) ==
    /\ At(f, "delete_lock")
    /\ Goes(f, "delete_erase")
    /\ UNCHANGED <<registry, nextId, made, obj, active, heap, handlers, stopRequested, stop>>

\* A dormant thread's stack is taken; it is freed when the entry is gone.
DeleteLock(f) ==
    /\ At(f, "delete_lock")
    /\ LET i == fiber[f].info
       IN  \/ /\ obj[i].started \/ ~obj[i].dormant       \* KE_NOT_DORMANT
              /\ Back(f)
              /\ UNCHANGED <<obj, heap>>
           \/ /\ ~obj[i].started /\ obj[i].dormant
              /\ obj' = [obj EXCEPT ![i].stack = IF @ = "auto" THEN "own" ELSE @]
              /\ heap' = heap \ {i}
              /\ Goes(f, "delete_erase")
    /\ UNCHANGED <<registry, nextId, made, active, handlers, stopRequested, stop>>

DeleteErase(f) ==
    /\ At(f, "delete_erase")
    /\ registry' = [registry EXCEPT ![fiber[f].who] = None]
    /\ handlers' = handlers \ {fiber[f].who}
    /\ Back(f)
    /\ UNCHANGED <<nextId, made, obj, active, heap, stopRequested, stop>>

-----------------------------------------------------------------------------
(* ExitThread, ExitDeleteThread, a return or a throw out of dispatchLoop,  *)
(* and on_fiber_exit, the hook fiber_trampoline calls for all of them      *)

\* runExitHandlersForThread: the handlers are taken off and run, and may block.
RunHandlers(f, then) ==
    /\ handlers' = handlers \ {f}
    /\ IF f \in handlers
       THEN fiber' = [fiber EXCEPT ![f].pc = "handlers", ![f].then = then] /\ slot' = None
       ELSE fiber' = [fiber EXCEPT ![f].pc = then] /\ slot' = f

RegisterExitHandler(f) ==
    /\ MayCall(f)
    /\ handlers' = handlers \cup {f}
    /\ UNCHANGED <<registry, nextId, made, obj, active, heap, fiber, slot, stopRequested, stop>>

HandlersDone(f) ==
    /\ slot = None /\ fiber[f].pc = "handlers"
    /\ Goes(f, fiber[f].then)
    /\ UNCHANGED <<registry, nextId, made, obj, active, heap, handlers, stopRequested, stop>>

ExitThread(f, then) ==
    /\ MayCall(f) /\ then \in {"exit_mark", "exit_delete"}
    /\ RunHandlers(f, then)
    /\ UNCHANGED <<registry, nextId, made, obj, active, heap, stopRequested, stop>>

\* ensureCurrentThreadInfo makes an object when the registry has none (after a
\* stop, or for the boot thread); markSelfExitingLocked; the throw.
ExitMark(f) ==
    /\ At(f, "exit_mark") \/ At(f, "exit_delete")
    /\ \/ /\ registry[f] # None
          /\ obj' = [obj EXCEPT ![registry[f]].terminated = TRUE]
          /\ fiber' = [fiber EXCEPT ![f].info = registry[f],
                         ![f].pc = IF @ = "exit_mark" THEN "hook_lookup" ELSE "exit_consume"]
          /\ UNCHANGED <<registry, made>>
       \/ /\ registry[f] = None /\ made < MaxInfos
          /\ made' = made + 1
          /\ obj' = [obj EXCEPT ![made + 1] = [Fresh("own") EXCEPT !.started = TRUE,
                                                !.dormant = FALSE, !.terminated = TRUE]]
          /\ registry' = [registry EXCEPT ![f] = made + 1]
          /\ fiber' = [fiber EXCEPT ![f].info = made + 1,
                         ![f].pc = IF @ = "exit_mark" THEN "hook_lookup" ELSE "exit_consume"]
    /\ UNCHANGED <<nextId, active, heap, handlers, slot, stopRequested, stop>>

\* Mutant of ExitDeleteThread: the token is left to on_fiber_exit.
ExitDeleteThreadKeeps(f) ==
    /\ At(f, "exit_consume")
    /\ registry' = [registry EXCEPT ![f] = None]
    /\ Goes(f, "hook_lookup")
    /\ UNCHANGED <<nextId, made, obj, active, heap, handlers, stopRequested, stop>>

\* The entry is erased and the token consumed here, as the hook will not see it.
ExitDeleteThread(f) ==
    /\ At(f, "exit_consume")
    /\ registry' = [registry EXCEPT ![f] = None]
    /\ consumeActiveToken(fiber[f].info)
    /\ Goes(f, "hook_lookup")
    /\ UNCHANGED <<nextId, made, heap, handlers, stopRequested, stop>>

\* The thread's function returns, the stop flag ends its loop, or it is
\* terminated at a yield point.
ThreadReturns(f) ==
    /\ MayCall(f)
    /\ Goes(f, "hook_lookup")
    /\ UNCHANGED <<registry, nextId, made, obj, active, heap, handlers, stopRequested, stop>>

\* Mutant of HookLookup: the thread becomes dormant before its handlers run.
HookLookupResetsFirst(f) ==
    /\ At(f, "hook_lookup")
    /\ obj' = IF registry[f] = None THEN obj ELSE [obj EXCEPT ![registry[f]] =
                 [@ EXCEPT !.started = FALSE, !.dormant = TRUE, !.terminated = FALSE]]
    /\ handlers' = handlers \ {f}
    /\ fiber' = [fiber EXCEPT ![f] = [pc |-> IF f \in handlers THEN "handlers" ELSE "hook_reset",
                                      then |-> "hook_reset", who |-> Boot, info |-> registry[f]]]
    /\ slot' = IF f \in handlers THEN None ELSE f
    /\ UNCHANGED <<registry, nextId, made, active, heap, stopRequested, stop>>

HookLookup(f) ==
    /\ At(f, "hook_lookup")
    /\ handlers' = handlers \ {f}
    /\ fiber' = [fiber EXCEPT ![f] = [pc |-> IF f \in handlers THEN "handlers" ELSE "hook_reset",
                                      then |-> "hook_reset", who |-> Boot, info |-> registry[f]]]
    /\ slot' = IF f \in handlers THEN None ELSE f
    /\ UNCHANGED <<registry, nextId, made, obj, active, heap, stopRequested, stop>>

HookReset(f) ==
    /\ At(f, "hook_reset")
    /\ obj' = IF fiber[f].info = None THEN obj ELSE [obj EXCEPT ![fiber[f].info] =
                 [@ EXCEPT !.started = FALSE, !.dormant = TRUE, !.terminated = FALSE]]
    /\ Goes(f, "hook_stack")
    /\ UNCHANGED <<registry, nextId, made, active, heap, handlers, stopRequested, stop>>

\* The stack goes with a thread whose identifier is no longer registered.
HookStack(f) ==
    /\ At(f, "hook_stack")
    /\ LET i == fiber[f].info
       IN  IF registry[f] = None /\ i # None /\ obj[i].stack = "auto"
           THEN obj' = [obj EXCEPT ![i].stack = "own"] /\ heap' = heap \ {i}
           ELSE UNCHANGED <<obj, heap>>
    /\ Goes(f, "hook_consume")
    /\ UNCHANGED <<registry, nextId, made, active, handlers, stopRequested, stop>>

\* The last step of the hook; the executor frees the finished fiber.
HookConsume(f) ==
    /\ At(f, "hook_consume")
    /\ consumeActiveToken(fiber[f].info)
    /\ fiber' = [fiber EXCEPT ![f] = NoFiber]
    /\ slot' = None
    /\ UNCHANGED <<registry, nextId, made, heap, handlers, stopRequested, stop>>

-----------------------------------------------------------------------------
(* requestStop on the main thread *)

RequestStop ==
    /\ stop.pc = "idle"
    /\ stopRequested' = TRUE
    /\ stop' = [stop EXCEPT !.pc = "clear"]
    /\ UNCHANGED <<registry, nextId, made, obj, active, heap, handlers, fiber, slot>>

StopClear ==
    /\ stop.pc = "clear"
    /\ LET found == {registry[t] : t \in {u \in Ids : registry[u] # None}}
       IN  stop' = [pc |-> "consume", left |-> found, all |-> found]
    /\ registry' = [t \in Ids |-> None]
    /\ nextId' = 2
    /\ UNCHANGED <<made, obj, active, heap, handlers, fiber, slot, stopRequested>>

StopConsume(i) ==
    /\ stop.pc = "consume" /\ i \in stop.left
    /\ consumeActiveToken(i)
    /\ stop' = [stop EXCEPT !.left = @ \ {i}]
    /\ UNCHANGED <<registry, nextId, made, heap, handlers, fiber, slot, stopRequested>>

\* Then every snapshotted thread is marked and request_terminate called.
StopMark ==
    /\ stop.pc = "consume" /\ stop.left = {}
    /\ stop' = [stop EXCEPT !.pc = "mark", !.left = stop.all]
    /\ UNCHANGED <<registry, nextId, made, obj, active, heap, handlers, fiber, slot, stopRequested>>

StopTerminates(i) ==
    /\ stop.pc = "mark" /\ i \in stop.left
    /\ obj' = [obj EXCEPT ![i].terminated = TRUE]
    /\ stop' = [stop EXCEPT !.left = @ \ {i}]
    /\ UNCHANGED <<registry, nextId, made, active, heap, handlers, fiber, slot, stopRequested>>

StopEnds ==
    /\ stop.pc = "mark" /\ stop.left = {}
    /\ handlers' = {}
    /\ stop' = [stop EXCEPT !.pc = "done"]
    /\ UNCHANGED <<registry, nextId, made, obj, active, heap, fiber, slot, stopRequested>>

-----------------------------------------------------------------------------
Init ==
    /\ registry = [t \in Ids |-> None] /\ nextId = 2 /\ made = 0
    /\ obj = [i \in Objects |-> Fresh("own")]
    /\ active = 0 /\ heap = {} /\ handlers = {}
    /\ fiber = [t \in Ids |-> IF t = Boot THEN [NoFiber EXCEPT !.pc = "run"] ELSE NoFiber]
    /\ slot = None /\ stopRequested = FALSE
    /\ stop = [pc |-> "idle", left |-> {}, all |-> {}]

Call(f) ==
    \/ \E stack \in {"ask", "own"} : CreateThread(f, stack)
    \/ \E t \in Tids : StartThread(f, t) \/ DeleteThread(f, t)
    \/ StartLock(f) \/ StartMint(f) \/ StartCreate(f) \/ StartFails(f)
    \/ DeleteLock(f) \/ DeleteErase(f)
    \/ RegisterExitHandler(f) \/ HandlersDone(f)
    \/ \E then \in {"exit_mark", "exit_delete"} : ExitThread(f, then)
    \/ ExitMark(f) \/ ExitDeleteThread(f) \/ ThreadReturns(f)
    \/ HookLookup(f) \/ HookReset(f) \/ HookStack(f) \/ HookConsume(f)

Stopping ==
    \/ RequestStop \/ StopClear \/ StopMark \/ StopEnds
    \/ \E i \in Objects : StopConsume(i) \/ StopTerminates(i)

Next == Stopping \/ \E f \in Ids : Call(f)

Spec == Init /\ [][Next]_vars

-----------------------------------------------------------------------------
(* Properties *)

\* Who will consume the token of object i: the fiber the registry leads to it
\* from, a StartThread that minted it, an exit that holds it, or the stop.
Holder(i) ==
    \/ \E t \in Tids : registry[t] = i /\ Alive(t) /\ fiber[t].pc \notin {"hook_reset", "hook_stack",
                                                                         "hook_consume"}
    \/ \E f \in Ids : fiber[f].info = i /\ fiber[f].pc \in {"start_create", "exit_consume",
                                    "handlers", "hook_reset", "hook_stack", "hook_consume"}
    \/ stop.pc = "clear" /\ i \in {registry[t] : t \in Ids}
    \/ stop.pc = "consume" /\ i \in stop.left

\* Until the runtime stops, every token counted in g_activeThreads has a thread
\* or call left that will consume it, whichever way the thread ends, and the
\* count is the number of tokens (State.h 34-42, 249-260).
TokenHeld ==
    /\ active = Cardinality({i \in Objects : obj[i].counted})
    /\ stopRequested \/ \A i \in Objects : obj[i].counted => Holder(i)

\* create_fiber never replaces a fiber that is still alive in g_fiber_map
\* (ps2_scheduler.cpp 818-822): a thread counts as dormant only when its last
\* fiber is past its exit handlers, which may block (Thread.cpp 243-256).
FiberNotReplaced ==
    \A f \in Ids : fiber[f].pc = "start_create" => ~Alive(fiber[f].who)

\* A stack StartThread allocated is given back when its thread is gone, and
\* not while the thread may still run on it: it belongs to a registered
\* object or to one whose exit or deletion is under way (Thread.cpp 263-278,
\* 473-503).  Beyond it are the threads that delete themselves, whose stack
\* is left in the heap, and those the stop reaps.
StackReclaimed ==
    /\ \A i \in heap :
          \/ \E t \in Ids : registry[t] = i \/ (Alive(t) /\ fiber[t].info = i)
          \/ obj[i].terminated \/ stopRequested
    /\ \A t \in Tids : (fiber[t].pc = "run" /\ registry[t] # None /\ obj[registry[t]].stack = "auto")
          => registry[t] \in heap
=============================================================================
