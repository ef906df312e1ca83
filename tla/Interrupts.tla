----------------------------- MODULE Interrupts -----------------------------
(***************************************************************************)
(* Kernel/Syscalls/Interrupt.cpp without the vsync flag: the handler       *)
(* tables and masks of the two controllers, the causes raised for a later  *)
(* tick, and the dispatch the IRQ worker makes every vblank and a fiber    *)
(* makes in line for a finished DMA transfer.                              *)
(*                                                                         *)
(* A dispatch reads the mask, then takes the handlers under the lock, then *)
(* runs them; fibers and running handlers may change masks and tables      *)
(* between any two of these steps.                                         *)
(***************************************************************************)
EXTENDS Integers

CONSTANTS
    Raised,       \* causes raisePendingIntc is called with; 2 and 3 are the vblank
    DmacCauses,   \* DMA channels whose end is dispatched in line
    IrqPrograms,  \* sets of calls guest code makes; a behaviour uses one
    MaxHandlers,  \* bound: handlers added to a controller
    MaxAge        \* kPendingIntcMaxAgeTicks

ASSUME InterruptsAssumption ==
    /\ Raised \subseteq 0..31 /\ DmacCauses \subseteq 0..31
    /\ MaxHandlers \in Nat /\ MaxAge \in Nat

VARIABLES
    table,      \* g_intcHandlers, g_dmacHandlers
    order,      \* head and tail order of each table
    mask,       \* g_enabled_intc_mask, g_enabled_dmac_mask
    pending,    \* g_pending_intc_causes
    age,        \* g_pending_intc_age
    intcStat,   \* the vblank bits of INTC_STAT
    dispatch,   \* the dispatch each actor is in
    irqOps      \* the calls of this behaviour's program; never changes

irqVars == <<table, order, mask, pending, age, intcStat, dispatch, irqOps>>

VBlankStart == 2
VBlankEnd == 3
IntcCauses == {VBlankStart, VBlankEnd} \cup Raised
Controllers == {"intc", "dmac"}
CausesOf(c) == IF c = "intc" THEN IntcCauses ELSE DmacCauses
Actors == {"worker", "fiber"}

\* known: hasFunction of the handler's address, which no call changes later.
HandlerInfos == [id : 1..MaxHandlers, cause : IntcCauses \cup DmacCauses, enabled : BOOLEAN,
                 order : -MaxHandlers..(1000 + MaxHandlers), known : BOOLEAN]

\* left: the causes of this drain; eligible: the handlers counted; loaded: the
\* mask as read; queue: handlers to run; ran: the ones that did.
Dispatches == [pc : {"idle", "count", "age", "load", "snap", "run"},
               cause : IntcCauses \cup DmacCauses, left : SUBSET IntcCauses,
               eligible : SUBSET HandlerInfos, loaded : BOOLEAN,
               queue : SUBSET HandlerInfos, ran : SUBSET HandlerInfos,
               then : {"", "gap", "drain", "drained"}]

IrqTypeOK ==
    /\ \A c \in Controllers : table[c] \subseteq HandlerInfos
    /\ \A c \in Controllers : \A g, h \in table[c] : g.id = h.id \/ g.order = h.order => g = h
    /\ order \in [Controllers -> [head : -MaxHandlers..0, tail : 1000..(1000 + MaxHandlers)]]
    /\ \A c \in Controllers : mask[c] \subseteq CausesOf(c)
    /\ pending \subseteq Raised \ {VBlankStart, VBlankEnd}
    /\ age \in [Raised -> 0..MaxAge]
    /\ intcStat \subseteq {VBlankStart, VBlankEnd}
    /\ \A a \in Actors : dispatch[a] \in Dispatches
    /\ irqOps \in IrqPrograms

-----------------------------------------------------------------------------
(* Calls of guest code, from a fiber or from a handler that runs *)

IrqCalled(op) == op \in irqOps

\* The controller whose table this behaviour's program works on.
Programmed(c) == c = IF IrqCalled("dma") THEN "dmac" ELSE "intc"

Added(c) == (0 - order[c].head) + (order[c].tail - 1000)

\* next = 0 puts the handler before all others, else it goes behind them.  An
\* address the runtime has no function for is registered like any other.
AddHandler(c, cause, next, known) ==
    /\ IrqCalled("add") /\ Programmed(c) /\ Added(c) < MaxHandlers
    /\ order' = IF next = 0 THEN [order EXCEPT ![c].head = @ - 1]
                ELSE [order EXCEPT ![c].tail = @ + 1]
    /\ table' = [table EXCEPT ![c] = @ \cup
          {[id |-> Added(c) + 1, cause |-> cause, enabled |-> TRUE, known |-> known,
            order |-> IF next = 0 THEN order'[c].head ELSE order'[c].tail]}]
    /\ UNCHANGED <<mask, pending, age, intcStat, dispatch, irqOps>>

\* The identifier must be one of this cause.
RemoveHandler(c, cause, id) ==
    /\ IrqCalled("remove") /\ Programmed(c)
    /\ \E h \in table[c] : h.id = id /\ h.cause = cause
    /\ table' = [table EXCEPT ![c] = {h \in @ : h.id # id}]
    /\ UNCHANGED <<order, mask, pending, age, intcStat, dispatch, irqOps>>

EnableHandler(c, id, on) ==
    /\ IrqCalled(IF on THEN "enable" ELSE "disable") /\ Programmed(c)
    /\ \E h \in table[c] : h.id = id
    /\ table' = [table EXCEPT ![c] = {IF h.id = id THEN [h EXCEPT !.enabled = on] ELSE h : h \in @}]
    /\ UNCHANGED <<order, mask, pending, age, intcStat, dispatch, irqOps>>

EnableCause(c, cause, on) ==
    /\ IrqCalled(IF on THEN "enable" ELSE "disable") /\ Programmed(c)
    /\ mask' = [mask EXCEPT ![c] = IF on THEN @ \cup {cause} ELSE @ \ {cause}]
    /\ UNCHANGED <<table, order, pending, age, intcStat, dispatch, irqOps>>

\* Mutant of raisePendingIntc: a raise restarts the age of a pending cause too.
raisePendingIntcRestarts(cause) ==
    /\ IrqCalled("raise") /\ cause \notin {VBlankStart, VBlankEnd}
    /\ pending' = pending \cup {cause}
    /\ age' = [age EXCEPT ![cause] = 0]
    /\ UNCHANGED <<table, order, mask, intcStat, dispatch, irqOps>>

\* The vblank causes are the worker's own; a raise of a pending cause is one with it.
raisePendingIntc(cause) ==
    /\ IrqCalled("raise") /\ cause \notin {VBlankStart, VBlankEnd}
    /\ pending' = pending \cup {cause}
    /\ age' = IF cause \in pending THEN age ELSE [age EXCEPT ![cause] = 0]
    /\ UNCHANGED <<table, order, mask, intcStat, dispatch, irqOps>>

\* The guest writes ones to INTC_STAT to acknowledge.
AckIntcStat(cause) ==
    /\ IrqCalled("ack") /\ cause \in intcStat
    /\ intcStat' = intcStat \ {cause}
    /\ UNCHANGED <<table, order, mask, pending, age, dispatch, irqOps>>

-----------------------------------------------------------------------------
(* dispatchHandlersForCause *)

ControllerOf(a) == IF a = "worker" THEN "intc" ELSE "dmac"

Eligible(c, cause) == {h \in table[c] : h.enabled /\ h.cause = cause}

Idle == [pc |-> "idle", cause |-> VBlankStart, left |-> {}, eligible |-> {}, loaded |-> FALSE,
         queue |-> {}, ran |-> {}, then |-> ""]

\* The mask is read as the call's argument, before the lock.
LoadMask(a) ==
    /\ dispatch[a].pc = "load"
    /\ dispatch' = [dispatch EXCEPT ![a].pc = "snap",
                                    ![a].loaded = dispatch[a].cause \in mask[ControllerOf(a)]]
    /\ UNCHANGED <<table, order, mask, pending, age, intcStat, irqOps>>

SnapshotHandlers(a) ==
    /\ dispatch[a].pc = "snap"
    /\ dispatch' = [dispatch EXCEPT ![a].pc = "run", ![a].ran = {},
          ![a].queue = IF dispatch[a].loaded
                       THEN Eligible(ControllerOf(a), dispatch[a].cause) ELSE {}]
    /\ UNCHANGED <<table, order, mask, pending, age, intcStat, irqOps>>

\* The snapshot is sorted by the handlers' order.
NextInOrder(S) == CHOOSE h \in S : \A g \in S : h.order <= g.order

\* A handler without a function is passed over.
RunHandler(a) ==
    /\ dispatch[a].pc = "run" /\ dispatch[a].queue # {}
    /\ LET h == NextInOrder(dispatch[a].queue)
       IN  dispatch' = [dispatch EXCEPT ![a].queue = @ \ {h},
                                        ![a].ran = IF h.known THEN @ \cup {h} ELSE @]
    /\ UNCHANGED <<table, order, mask, pending, age, intcStat, irqOps>>

\* dispatchDmacHandlersForCause on the fiber whose call finished a transfer.
DmacDispatch(cause) ==
    /\ dispatch["fiber"].pc = "idle" /\ IrqCalled("dma")
    /\ dispatch' = [dispatch EXCEPT !["fiber"] = [Idle EXCEPT !.pc = "load", !.cause = cause]]
    /\ UNCHANGED <<table, order, mask, pending, age, intcStat, irqOps>>

DmacDone ==
    /\ dispatch["fiber"].pc = "run" /\ dispatch["fiber"].queue = {}
    /\ dispatch' = [dispatch EXCEPT !["fiber"] = Idle]
    /\ UNCHANGED <<table, order, mask, pending, age, intcStat, irqOps>>

-----------------------------------------------------------------------------
(* A tick of interruptWorkerMain *)

Lowest(S) == CHOOSE x \in S : \A y \in S : x <= y

VBlank ==
    /\ dispatch["worker"].pc = "idle"
    /\ intcStat' = intcStat \cup {VBlankStart}
    /\ dispatch' = [dispatch EXCEPT !["worker"] =
                       [Idle EXCEPT !.pc = "count", !.cause = VBlankStart, !.then = "gap"]]
    /\ UNCHANGED <<table, order, mask, pending, age, irqOps>>

\* Mutant of GoOn: the cause taken stays among the ones left.
GoOnAgain(d) ==
    IF d.then = "gap" THEN [Idle EXCEPT !.pc = "count", !.cause = VBlankEnd, !.then = "drain"]
    ELSE LET left == IF d.then = "drain" THEN pending ELSE d.left
         IN  IF left = {} THEN Idle
             ELSE [Idle EXCEPT !.pc = "count", !.cause = Lowest(left), !.left = left,
                               !.then = "drained"]

\* What follows when a cause is dealt with: the second half of the vblank, then
\* the causes that were pending when the drain began, lowest first.
GoOn(d) ==
    IF d.then = "gap" THEN [Idle EXCEPT !.pc = "count", !.cause = VBlankEnd, !.then = "drain"]
    ELSE LET left == IF d.then = "drain" THEN pending ELSE d.left
         IN  IF left = {} THEN Idle
             ELSE [Idle EXCEPT !.pc = "count", !.cause = Lowest(left),
                               !.left = left \ {Lowest(left)}, !.then = "drained"]

Stat(d) == IF d.then = "gap" THEN intcStat \cup {VBlankEnd} ELSE intcStat

\* dispatchAndCountIntcHandlersForCause counts under the lock.
CountHandlers ==
    LET d == dispatch["worker"]
        eligible == IF d.cause \in mask["intc"] THEN Eligible("intc", d.cause) ELSE {}
    IN
    /\ d.pc = "count"
    /\ dispatch' = [dispatch EXCEPT !["worker"].pc = IF eligible # {} THEN "load" ELSE "age",
                                    !["worker"].eligible = eligible]
    /\ UNCHANGED <<table, order, mask, pending, age, intcStat, irqOps>>

\* None was counted: a pending cause ages, and is dropped when it is too old.
AgePending ==
    LET d == dispatch["worker"] IN
    /\ d.pc = "age"
    /\ IF d.then # "drained" THEN UNCHANGED <<pending, age>>
       ELSE IF age[d.cause] + 1 > MaxAge
            THEN pending' = pending \ {d.cause} /\ age' = [age EXCEPT ![d.cause] = 0]
            ELSE age' = [age EXCEPT ![d.cause] = @ + 1] /\ UNCHANGED pending
    /\ dispatch' = [dispatch EXCEPT !["worker"] = GoOn(d)]
    /\ intcStat' = Stat(d)
    /\ UNCHANGED <<table, order, mask, irqOps>>

\* Mutant of ClearDelivered: the bit is cleared before the handlers run.
ClearDeliveredEarly ==
    LET d == dispatch["worker"] IN
    /\ d.pc = "run" /\ (d.then = "drained" \/ d.queue = {})
    /\ IF d.then = "drained"
       THEN pending' = pending \ {d.cause} /\ age' = [age EXCEPT ![d.cause] = 0]
       ELSE UNCHANGED <<pending, age>>
    /\ dispatch' = [dispatch EXCEPT !["worker"] = GoOn(d)]
    /\ intcStat' = Stat(d)
    /\ UNCHANGED <<table, order, mask, irqOps>>

\* The handlers were counted, so the pending bit is cleared, whatever ran.
ClearDelivered ==
    LET d == dispatch["worker"] IN
    /\ d.pc = "run" /\ d.queue = {}
    /\ IF d.then = "drained"
       THEN pending' = pending \ {d.cause} /\ age' = [age EXCEPT ![d.cause] = 0]
       ELSE UNCHANGED <<pending, age>>
    /\ dispatch' = [dispatch EXCEPT !["worker"] = GoOn(d)]
    /\ intcStat' = Stat(d)
    /\ UNCHANGED <<table, order, mask, irqOps>>

-----------------------------------------------------------------------------
IrqInit ==
    /\ table = [c \in Controllers |-> {}]
    /\ order = [c \in Controllers |-> [head |-> 0, tail |-> 1000]]
    /\ mask = [c \in Controllers |-> CausesOf(c)]
    /\ pending = {} /\ age = [c \in Raised |-> 0] /\ intcStat = {}
    /\ dispatch = [a \in Actors |-> Idle]
    /\ irqOps \in IrqPrograms

IrqWorker == VBlank \/ CountHandlers \/ AgePending \/ LoadMask("worker") \/ SnapshotHandlers("worker")
             \/ RunHandler("worker") \/ ClearDelivered

IrqGuest ==
    \/ \E c \in Controllers : \E cause \in CausesOf(c) :
          \/ \E next \in {0, 1}, known \in BOOLEAN : AddHandler(c, cause, next, known)
          \/ \E id \in 1..MaxHandlers : RemoveHandler(c, cause, id)
          \/ \E on \in BOOLEAN : EnableCause(c, cause, on)
    \/ \E c \in Controllers, id \in 1..MaxHandlers, on \in BOOLEAN : EnableHandler(c, id, on)
    \/ \E cause \in Raised : raisePendingIntc(cause)
    \/ \E cause \in {VBlankStart, VBlankEnd} : AckIntcStat(cause)
    \/ \E cause \in DmacCauses : DmacDispatch(cause)
    \/ LoadMask("fiber") \/ SnapshotHandlers("fiber") \/ RunHandler("fiber") \/ DmacDone

IrqNext == IrqWorker \/ IrqGuest

-----------------------------------------------------------------------------
(* Properties *)

\* The worker's dispatch is of this cause, and what it counted has run.
Delivered(c) ==
    LET d == dispatch["worker"]
    IN  d.cause = c /\ d.eligible # {} /\ {h \in d.eligible : h.known} \subseteq d.ran

\* A cause is given up only when it is too old, or when every handler the worker
\* counted for it that has a function has run: while guest code takes no handler
\* and no mask bit away, what was counted is still there when the snapshot is
\* taken (Interrupt.cpp 241-271, 358-391, 417-460).
SurvivesUntilRun ==
    [][irqOps \cap {"disable", "remove"} = {} =>
          \A c \in pending \ pending' : age[c] = MaxAge \/ Delivered(c)]_irqVars

\* A drain works on its own copy of the pending bits, and every cause in it is
\* still pending when its turn comes and until it is cleared: none is delivered
\* twice for one raise, or after it was dropped (Interrupt.cpp 417-460).
DrainsPending ==
    LET d == dispatch["worker"]
    IN  d.then = "drained" => d.cause \in pending \ d.left /\ d.left \subseteq pending

\* Every raise is settled: delivered or, with no handler in MaxAge ticks,
\* dropped, however often the cause is raised again (Interrupt.cpp 394-460).
PendingSettles == \A c \in Raised : c \in pending ~> c \notin pending
=============================================================================
