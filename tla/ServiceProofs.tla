---------------------------- MODULE ServiceProofs ----------------------------
(***************************************************************************)
(* The worker of the interrupt controller: its vsync flag is stored only   *)
(* in a frame that waits for it, and a pending cause is given up only when *)
(* it was delivered or is too old, for any frames, handlers and causes.    *)
(***************************************************************************)
EXTENDS MCServices, RunQueueProofs

-----------------------------------------------------------------------------
(* The vsync flag *)

\* A registration that the worker has taken and not yet used.
Taken == signal.pc \in {"swap", "wake", "flag"} /\ signal.frame # NoFrame

VSyncTypes ==
    /\ registration \in Frames \cup {NoFrame}
    /\ signal \in [pc : {"idle", "swap", "wake", "flag", "tick"}, frame : Frames \cup {NoFrame},
                   waiters : SUBSET Waiting]
    /\ flagWord \in [Frames -> {0, 1}]
    /\ spinner \in [pc : {"out", "set_flag", "set_tick", "spin"}, frame : Frames \cup {NoFrame}]

\* One registration is outstanding at most, of the call that spins, and the
\* flag it will set is still clear.
VSyncInv ==
    /\ VSyncTypes
    /\ spinner.pc = "out" <=> spinner.frame = NoFrame
    /\ registration # NoFrame => spinner.frame = registration
    /\ Taken => spinner.frame = signal.frame /\ registration = NoFrame
    /\ (spinner.pc \in {"set_tick", "spin"} /\ (registration # NoFrame \/ Taken))
          => flagWord[spinner.frame] = 0

\* A fiber that has published itself and heard of no wake is on the list, or in
\* the part of it that the worker has still to wake.
ListInv ==
    /\ waiter \in [Callers -> VSyncWaits]
    /\ waitList \in SUBSET Waiting
    /\ signal.waiters # {} => signal.pc = "wake"
    /\ \A w \in Waiting : waiter[w] \in {"published", "parked"}
          => w \in waitList \cup signal.waiters

\* Every step of the worker, of SetVSyncFlag and of the loop around it.
LEMMA VSyncStepKeeps == ASSUME VSyncInv, ListInv, VSyncNext PROVE VSyncInv'
<1>1. CASE SignalTakes
  BY <1>1 DEF VSyncInv, VSyncTypes, Taken, SignalTakes
<1>2. CASE SignalSwaps
  BY <1>2 DEF VSyncInv, VSyncTypes, Taken, SignalSwaps, ListInv
<1>3. CASE \E w \in Waiting : SignalWakes(w)
  BY <1>3 DEF VSyncInv, VSyncTypes, Taken, SignalWakes
<1>4. CASE SignalWoke
  BY <1>4 DEF VSyncInv, VSyncTypes, Taken, SignalWoke
<1>5. CASE SignalFlag
  BY <1>5 DEF VSyncInv, VSyncTypes, Taken, SignalFlag
<1>6. CASE SignalTick
  BY <1>6 DEF VSyncInv, VSyncTypes, Taken, SignalTick
<1>7. CASE \E f \in Frames : SetVSyncFlag(f)
  BY <1>7, VSyncAssumption DEF VSyncInv, VSyncTypes, Taken, SetVSyncFlag
<1>8. CASE SetVSyncClears
  BY <1>8 DEF VSyncInv, VSyncTypes, Taken, SetVSyncClears
<1>9. CASE SetVSyncReturns
  BY <1>9 DEF VSyncInv, VSyncTypes, Taken, SetVSyncReturns
<1>10. CASE GsSyncVReturns
  BY <1>10 DEF VSyncInv, VSyncTypes, Taken, GsSyncVReturns
<1>11. CASE \E w \in Waiting : VSyncCalls(w)
  BY <1>11 DEF VSyncInv, VSyncTypes, Taken, VSyncCalls, WokenOtherwise, VSyncPublish, VSyncPark,
               VSyncWaitReturns
<1>12. CASE (\E w \in Callers : WaitForNextVSyncTick(w)) \/ (\E w \in Polling : VSyncPollReturns(w))
  BY <1>12 DEF VSyncInv, VSyncTypes, Taken, WaitForNextVSyncTick, VSyncPollReturns
<1>. QED
  BY <1>1, <1>2, <1>3, <1>4, <1>5, <1>6, <1>7, <1>8, <1>9, <1>10, <1>11, <1>12
     DEF VSyncNext, VSyncWorker, SpinnerCalls

\* A wake of a fiber that is inside the wait takes it out of the park.
LEMMA WokenIs ==
    ASSUME waiter \in [Callers -> VSyncWaits], NEW w \in Callers
    PROVE  /\ Woken(w) \in [Callers -> VSyncWaits]
           /\ Woken(w)[w] \notin {"published", "parked"}
           /\ \A u \in Callers : u # w => Woken(w)[u] = waiter[u]
  BY DEF Woken, VSyncWaits

\* The same steps, and who is on the list.
LEMMA ListStepKeeps == ASSUME VSyncInv, ListInv, VSyncNext PROVE ListInv'
<1>0. Waiting \subseteq Callers
  BY DEF Callers
<1>1. CASE SignalTakes
  BY <1>1 DEF ListInv, VSyncInv, VSyncTypes, SignalTakes
<1>2. CASE SignalSwaps
  BY <1>2 DEF ListInv, VSyncInv, VSyncTypes, SignalSwaps
<1>3. ASSUME NEW w \in Waiting, SignalWakes(w) PROVE ListInv'
  <2>1. /\ signal'.pc = signal.pc /\ signal'.waiters = signal.waiters \ {w}
        /\ waiter' = Woken(w) /\ waitList' = waitList /\ signal.pc = "wake"
    BY <1>3 DEF SignalWakes, VSyncInv, VSyncTypes
  <2>. QED  BY <1>0, <2>1, WokenIs DEF ListInv
<1>4. CASE SignalWoke
  BY <1>4 DEF ListInv, VSyncInv, VSyncTypes, SignalWoke
<1>5. CASE SignalFlag \/ SignalTick
  BY <1>5 DEF ListInv, VSyncInv, VSyncTypes, SignalFlag, SignalTick
<1>6. CASE (\E f \in Frames : SetVSyncFlag(f)) \/ SpinnerCalls
  BY <1>6 DEF ListInv, SetVSyncFlag, SpinnerCalls, SetVSyncClears, SetVSyncReturns, GsSyncVReturns
<1>7. ASSUME NEW w \in Waiting, VSyncCalls(w) PROVE ListInv'
  <2>1. signal' = signal
    BY <1>7 DEF VSyncCalls, WokenOtherwise, VSyncPublish, VSyncPark, VSyncWaitReturns
  <2>2. CASE VSyncPublish(w)
    BY <1>0, <2>1, <2>2 DEF ListInv, VSyncPublish, VSyncWaits
  <2>3. CASE VSyncPark(w)
    BY <1>0, <2>1, <2>3 DEF ListInv, VSyncPark, VSyncWaits
  <2>4. CASE WokenOtherwise(w)
    BY <1>0, <2>1, <2>4, WokenIs DEF ListInv, WokenOtherwise
  <2>5. CASE VSyncWaitReturns(w)
    BY <1>0, <2>1, <2>5 DEF ListInv, VSyncWaitReturns, VSyncWaits
  <2>. QED  BY <1>7, <2>2, <2>3, <2>4, <2>5 DEF VSyncCalls
<1>8. ASSUME NEW w \in Callers, WaitForNextVSyncTick(w) \/ VSyncPollReturns(w) PROVE ListInv'
  BY <1>0, <1>8 DEF ListInv, WaitForNextVSyncTick, VSyncPollReturns, VSyncWaits
<1>. QED
  BY <1>1, <1>2, <1>3, <1>4, <1>5, <1>6, <1>7, <1>8 DEF VSyncNext, VSyncWorker, Callers

\* A step of another service leaves it alone.
LEMMA VSyncElse == ASSUME VSyncInv, ListInv, UNCHANGED vsyncVars PROVE VSyncInv' /\ ListInv'
  BY DEF VSyncInv, VSyncTypes, Taken, ListInv, vsyncVars

\* Both hold of every state.
LEMMA VSyncAlways == Spec => [](VSyncInv /\ ListInv)
<1>1. Init => VSyncInv /\ ListInv
  BY DEF Init, VSyncInit, VSyncInv, VSyncTypes, Taken, ListInv, VSyncWaits, Callers
<1>2. VSyncInv /\ ListInv /\ [Next]_vars => (VSyncInv /\ ListInv)'
  BY VSyncStepKeeps, ListStepKeeps, VSyncElse DEF Next, IrqStep, VSyncStep, PaceStep, vars
<1>. QED  BY <1>1, <1>2, PTL DEF Spec

\* The worker's flag store only lands in a frame whose call still waits for it,
\* however calls and ticks interleave (Interrupt.cpp 516-533).
THEOREM FlagStoredInFrame == Spec => []FlagStoreInFrame
<1>1. VSyncInv => FlagStoreInFrame
  BY DEF VSyncInv, Taken, FlagStoreInFrame
<1>. QED  BY <1>1, VSyncAlways, PTL

\* A fiber parked in WaitForNextVSyncTick is always where a tick finds it, however
\* its entry, its park and its return interleave with the worker's swap of the
\* list and the wakes that follow (Interrupt.cpp 535-538, 938-987).
THEOREM ParkedListed == Spec => []ParkedIsListed
<1>1. ListInv => ParkedIsListed
  BY DEF ListInv, ParkedIsListed
<1>. QED  BY <1>1, VSyncAlways, PTL

-----------------------------------------------------------------------------
(* The pending causes *)

\* The lowest of the causes left is one of them.
LEMMA LowestIn == ASSUME NEW S \in SUBSET Raised, S # {} PROVE Lowest(S) \in S
<1>1. S \in SUBSET Nat
  BY InterruptsAssumption
<1>2. \E x \in S : \A y \in S : x <= y
  BY <1>1, MinPosition
<1>. QED  BY <1>2 DEF Lowest

\* No handler is put before the head of MaxHandlers others.
Positions == {n \in Int : n >= 0 - MaxHandlers}

Handlers == [id : Int, cause : Int, enabled : BOOLEAN, order : Positions, known : BOOLEAN]

\* The handler a dispatch runs next is one of its snapshot.
LEMMA FirstInOrder == ASSUME NEW S \in SUBSET Handlers, S # {} PROVE NextInOrder(S) \in S
<1> DEFINE T == {h.order + MaxHandlers : h \in S}
<1>1. MaxHandlers \in Nat /\ \A h \in S : h.order \in Positions
  BY InterruptsAssumption DEF Handlers
<1>2. T \in SUBSET Nat /\ T # {}
  BY <1>1 DEF Positions
<1>3. PICK x \in T : \A y \in T : x <= y
  <2>. HIDE DEF T
  <2>. QED  BY <1>2, MinPosition
<1>4. PICK h \in S : x = h.order + MaxHandlers
  BY <1>3
<1>5. \A g \in S : h.order <= g.order
  <2>. SUFFICES ASSUME NEW g \in S PROVE h.order <= g.order
    OBVIOUS
  <2>1. x <= g.order + MaxHandlers
    BY <1>3
  <2>2. h.order \in Int /\ g.order \in Int
    BY <1>1 DEF Positions
  <2>. QED  BY <1>1, <1>4, <2>1, <2>2
<1>. QED  BY <1>5 DEF NextInOrder

DispatchRecords == [pc : {"idle", "count", "age", "load", "snap", "run"}, cause : Int,
                    left : SUBSET Raised, eligible : SUBSET Handlers, loaded : BOOLEAN,
                    queue : SUBSET Handlers, ran : SUBSET Handlers,
                    then : {"", "gap", "drain", "drained"}]

IrqTypes ==
    /\ table \in [Controllers -> SUBSET Handlers]
    /\ order \in [Controllers -> [head : {n \in Int : n <= 0}, tail : {n \in Int : n >= 1000}]]
    /\ mask \in [Controllers -> SUBSET Int]
    /\ pending \in SUBSET Raised
    /\ age \in [Raised -> 0..MaxAge]
    /\ dispatch \in [Actors -> DispatchRecords]

\* Guest code takes no handler and no mask bit away.
OnlyAdds == "disable" \notin irqOps /\ "remove" \notin irqOps

\* What the worker counted is there until it has run.
Deliverable ==
    LET d == dispatch["worker"]
    IN  /\ d.pc = "load" => d.cause \in mask["intc"]
        /\ d.pc \in {"load", "snap"} =>
              \A h \in d.eligible : h \in table["intc"] /\ h.enabled /\ h.cause = d.cause
        /\ d.pc = "snap" => d.loaded
        /\ d.pc = "run" => \A h \in d.eligible : h.known => h \in d.queue \cup d.ran

\* A dispatch was begun for handlers that were counted, and only a drain has
\* causes left.
Counted ==
    /\ dispatch["worker"].pc \in {"load", "snap", "run"} => dispatch["worker"].eligible # {}
    /\ dispatch["worker"].then # "drained" => dispatch["worker"].left = {}

IrqInv == IrqTypes /\ Counted /\ DrainsPending /\ (OnlyAdds => Deliverable)

\* The causes are integers.
LEMMA CausesInt ==
    /\ Raised \subseteq Int /\ DmacCauses \subseteq Int /\ IntcCauses \subseteq Int
    /\ \A c \in Controllers : CausesOf(c) \subseteq Int
    /\ MaxAge \in Nat /\ "worker" \in Actors /\ "fiber" \in Actors /\ "intc" \in Controllers
<1>1. Raised \subseteq Int /\ DmacCauses \subseteq Int /\ MaxAge \in Nat
  <2>1. 0..31 \subseteq Int
    OBVIOUS
  <2>. QED  BY <2>1, InterruptsAssumption
<1>2. IntcCauses \subseteq Int
  BY <1>1 DEF IntcCauses, VBlankStart, VBlankEnd
<1>. QED  BY <1>1, <1>2 DEF CausesOf, Actors, Controllers

\* The worker goes on with a count, or is done.
LEMMA GoesOn ==
    ASSUME IrqTypes
    PROVE  LET d == dispatch["worker"]
               r == GoOn(d)
               left == IF d.then = "drain" THEN pending ELSE d.left
           IN  /\ r \in DispatchRecords
               /\ r.pc \in {"idle", "count"}
               /\ r.then # "drained" => r.left = {}
               /\ r.then = "drained" =>
                     d.then # "gap" /\ r.cause \in left /\ r.left = left \ {r.cause}
<1> DEFINE d == dispatch["worker"]
           left == IF d.then = "drain" THEN pending ELSE d.left
<1>1. left \in SUBSET Raised
  BY CausesInt DEF IrqTypes, DispatchRecords
<1>2. Idle \in DispatchRecords /\ Idle.pc = "idle" /\ Idle.then = "" /\ Idle.left = {}
  BY DEF Idle, DispatchRecords, VBlankStart
<1>3. CASE d.then = "gap"
  <2>0. PICK c \in Int : c = VBlankEnd
    BY DEF VBlankEnd
  <2>1. GoOn(d) = [Idle EXCEPT !.pc = "count", !.cause = c, !.then = "drain"]
    BY <1>3, <2>0 DEF GoOn
  <2>. HIDE DEF left, d
  <2>2. /\ GoOn(d) \in DispatchRecords /\ GoOn(d).pc = "count"
        /\ GoOn(d).then = "drain" /\ GoOn(d).left = {}
    BY <2>0, <2>1 DEF Idle, DispatchRecords, VBlankStart
  <2>. QED  BY <2>2 DEF d
<1>4. CASE d.then # "gap" /\ left = {}
  BY <1>2, <1>4 DEF GoOn
<1>5. CASE d.then # "gap" /\ left # {}
  <2>1. PICK c \in Int : c = Lowest(left) /\ c \in left
    <3>. HIDE DEF left
    <3>. QED  BY <1>1, <1>5, LowestIn, CausesInt
  <2>2. GoOn(d) = [Idle EXCEPT !.pc = "count", !.cause = c, !.left = left \ {c},
                               !.then = "drained"]
    BY <1>5, <2>1 DEF GoOn
  <2>3. left \ {c} \in SUBSET Raised
    BY <1>1
  <2>. HIDE DEF left, d
  <2>4. /\ GoOn(d) \in DispatchRecords /\ GoOn(d).pc = "count"
        /\ GoOn(d).cause = c /\ GoOn(d).left = left \ {c} /\ GoOn(d).then = "drained"
    BY <2>1, <2>2, <2>3 DEF Idle, DispatchRecords, VBlankStart
  <2>. QED  BY <1>5, <2>1, <2>4 DEF d, left
<1>. QED  BY <1>3, <1>4, <1>5

\* The calls of guest code.
LEMMA GuestKeeps ==
    ASSUME IrqInv,
           \/ \E c \in Controllers : \E cause \in CausesOf(c) :
                 \/ \E next \in {0, 1}, known \in BOOLEAN : AddHandler(c, cause, next, known)
                 \/ \E id \in 1..MaxHandlers : RemoveHandler(c, cause, id)
                 \/ \E on \in BOOLEAN : EnableCause(c, cause, on)
           \/ \E c \in Controllers, id \in 1..MaxHandlers, on \in BOOLEAN : EnableHandler(c, id, on)
           \/ \E cause \in Raised : raisePendingIntc(cause)
           \/ \E cause \in {VBlankStart, VBlankEnd} : AckIntcStat(cause)
    PROVE  IrqInv' /\ pending \subseteq pending'
<1>1. ASSUME NEW c \in Controllers, NEW cause \in CausesOf(c), NEW next \in {0, 1},
             NEW known \in BOOLEAN, AddHandler(c, cause, next, known)
      PROVE  IrqInv' /\ pending \subseteq pending'
  <2>1. PICK h : h = [id |-> Added(c) + 1, cause |-> cause, enabled |-> TRUE, known |-> known,
                      order |-> IF next = 0 THEN order'[c].head ELSE order'[c].tail]
    OBVIOUS
  <2>2. order' \in [Controllers -> [head : {n \in Int : n <= 0}, tail : {n \in Int : n >= 1000}]]
    BY <1>1 DEF AddHandler, IrqInv, IrqTypes
  <2>3. Added(c) + 1 \in Int
    BY DEF Added, IrqInv, IrqTypes
  <2>4. order'[c].head \in Positions /\ order'[c].tail \in Positions
    <3>1. order[c].head <= 0 /\ order[c].head \in Int /\ order[c].tail >= 1000 /\ order[c].tail \in Int
      BY DEF IrqInv, IrqTypes
    <3>2. order'[c].head >= order[c].head - 1 /\ order'[c].head \in Int /\ order'[c].tail >= 1000
          /\ order'[c].tail \in Int
      BY <1>1, <2>2, <3>1 DEF AddHandler, IrqInv, IrqTypes
    <3>3. 0 - order[c].head < MaxHandlers /\ MaxHandlers \in Nat
      BY <1>1, <3>1, InterruptsAssumption DEF AddHandler, Added
    <3>. QED  BY <3>1, <3>2, <3>3 DEF Positions
  <2>6. h \in Handlers
    BY <2>1, <2>3, <2>4, CausesInt DEF Handlers
  <2>5. /\ table' = [table EXCEPT ![c] = @ \cup {h}]
        /\ UNCHANGED <<mask, pending, age, intcStat, dispatch, irqOps>>
    BY <1>1, <2>1 DEF AddHandler
  <2>. QED  BY <2>2, <2>5, <2>6, CausesInt
            DEF IrqInv, IrqTypes, Counted, DrainsPending, OnlyAdds, Deliverable
<1>2. ASSUME NEW c \in Controllers, NEW cause, NEW id, RemoveHandler(c, cause, id)
      PROVE  IrqInv' /\ pending \subseteq pending'
  BY <1>2 DEF RemoveHandler, IrqCalled, IrqInv, IrqTypes, Counted, DrainsPending, OnlyAdds
<1>3. ASSUME NEW c \in Controllers, NEW cause \in CausesOf(c), NEW on \in BOOLEAN,
             EnableCause(c, cause, on)
      PROVE  IrqInv' /\ pending \subseteq pending'
  <2>1. mask' \in [Controllers -> SUBSET Int]
    BY <1>3, CausesInt DEF EnableCause, IrqInv, IrqTypes
  <2>2. OnlyAdds => mask["intc"] \subseteq mask'["intc"]
    BY <1>3, CausesInt DEF EnableCause, IrqCalled, IrqInv, IrqTypes, OnlyAdds
  <2>3. UNCHANGED <<table, order, pending, age, intcStat, dispatch, irqOps>>
    BY <1>3 DEF EnableCause
  <2>. QED  BY <2>1, <2>2, <2>3
            DEF IrqInv, IrqTypes, Counted, DrainsPending, OnlyAdds, Deliverable
<1>4. ASSUME NEW c \in Controllers, NEW id, NEW on \in BOOLEAN, EnableHandler(c, id, on)
      PROVE  IrqInv' /\ pending \subseteq pending'
  <2> DEFINE E(h) == IF h.id = id THEN [h EXCEPT !.enabled = on] ELSE h
  <2>1. /\ table' = [table EXCEPT ![c] = {E(h) : h \in @}]
        /\ UNCHANGED <<order, mask, pending, age, intcStat, dispatch, irqOps>>
        /\ OnlyAdds => on
    BY <1>4 DEF EnableHandler, IrqCalled, OnlyAdds
  <2>2. \A h \in Handlers : E(h) \in Handlers /\ (h.enabled /\ on => E(h) = h)
    BY DEF Handlers
  <2>. HIDE DEF E
  <2>3. table' \in [Controllers -> SUBSET Handlers]
    BY <2>1, <2>2 DEF IrqInv, IrqTypes
  <2>4. OnlyAdds => \A h \in table["intc"] : h.enabled => h \in table'["intc"]
    <3>. SUFFICES ASSUME OnlyAdds, NEW h \in table["intc"], h.enabled
                  PROVE  h \in table'["intc"]
      OBVIOUS
    <3>1. h \in Handlers
      BY CausesInt DEF IrqInv, IrqTypes
    <3>2. CASE c = "intc"
      <4>1. E(h) \in table'["intc"]
        BY <2>1, <3>2, CausesInt DEF IrqInv, IrqTypes
      <4>. QED  BY <2>1, <2>2, <3>1, <4>1
    <3>3. CASE c # "intc"
      BY <2>1, <3>3, CausesInt DEF IrqInv, IrqTypes
    <3>. QED  BY <3>2, <3>3
  <2>. QED  BY <2>1, <2>3, <2>4
            DEF IrqInv, IrqTypes, Counted, DrainsPending, OnlyAdds, Deliverable
<1>5. ASSUME NEW cause \in Raised, raisePendingIntc(cause)
      PROVE  IrqInv' /\ pending \subseteq pending'
  BY <1>5, CausesInt DEF raisePendingIntc, IrqInv, IrqTypes, Counted, DrainsPending, OnlyAdds,
                         Deliverable
<1>6. ASSUME NEW cause, AckIntcStat(cause) PROVE IrqInv' /\ pending \subseteq pending'
  BY <1>6 DEF AckIntcStat, IrqInv, IrqTypes, Counted, DrainsPending, OnlyAdds, Deliverable
<1>. QED  BY <1>1, <1>2, <1>3, <1>4, <1>5, <1>6

\* A step of a dispatch on the fiber leaves the worker's alone.
LEMMA FiberKeeps ==
    ASSUME IrqInv, NEW r \in DispatchRecords, dispatch' = [dispatch EXCEPT !["fiber"] = r],
           UNCHANGED <<table, order, mask, pending, age, irqOps>>
    PROVE  IrqInv'
  BY CausesInt DEF IrqInv, IrqTypes, Counted, DrainsPending, OnlyAdds, Deliverable

\* A step of the worker's dispatch that goes on with the same handlers.
LEMMA WorkerGoesOn ==
    ASSUME IrqInv, NEW r \in DispatchRecords, dispatch' = [dispatch EXCEPT !["worker"] = r],
           UNCHANGED <<table, order, mask, pending, age, irqOps>>,
           dispatch["worker"].pc \in {"load", "snap", "run"},
           r.cause = dispatch["worker"].cause, r.left = dispatch["worker"].left,
           r.then = dispatch["worker"].then, r.eligible = dispatch["worker"].eligible,
           OnlyAdds => /\ r.pc \in {"snap", "run"}
                       /\ r.pc = "snap" => /\ r.loaded
                                           /\ \A h \in r.eligible :
                                                 h \in table["intc"] /\ h.enabled /\ h.cause = r.cause
                       /\ r.pc = "run" => \A h \in r.eligible : h.known => h \in r.queue \cup r.ran
    PROVE  IrqInv'
<1>1. dispatch'["worker"] = r /\ IrqTypes'
  BY CausesInt DEF IrqInv, IrqTypes
<1>2. Counted' /\ DrainsPending'
  BY <1>1 DEF IrqInv, Counted, DrainsPending
<1>3. OnlyAdds' => Deliverable'
  BY <1>1 DEF OnlyAdds, Deliverable
<1>. QED  BY <1>1, <1>2, <1>3 DEF IrqInv

\* The three steps of a dispatch, of the worker or of a fiber.
LEMMA DispatchKeeps ==
    ASSUME IrqInv, NEW a \in Actors, LoadMask(a) \/ SnapshotHandlers(a) \/ RunHandler(a)
    PROVE  IrqInv' /\ UNCHANGED pending
<1> DEFINE d == dispatch[a]
<1>1. d \in DispatchRecords /\ ControllerOf(a) \in Controllers /\ (a = "worker" \/ a = "fiber")
  BY DEF IrqInv, IrqTypes, ControllerOf, Controllers, Actors
<1>2. UNCHANGED <<table, order, mask, pending, age, irqOps>>
  BY DEF LoadMask, SnapshotHandlers, RunHandler
<1>3. CASE LoadMask(a)
  <2>0. (d.cause \in mask[ControllerOf(a)]) \in BOOLEAN
    <3>. HIDE DEF d
    <3>. QED  OBVIOUS
  <2>1. PICK l \in BOOLEAN : l = (d.cause \in mask[ControllerOf(a)])
    <3>. HIDE DEF d
    <3>. QED  BY <2>0, Zenon
  <2>2. PICK r : r = [d EXCEPT !.pc = "snap", !.loaded = l]
    OBVIOUS
  <2>3. dispatch' = [dispatch EXCEPT ![a] = r] /\ d.pc = "load"
    BY <1>3, <2>1, <2>2 DEF LoadMask, IrqInv, IrqTypes
  <2>4. /\ r \in DispatchRecords /\ r.pc = "snap" /\ r.loaded = l
        /\ r.cause = d.cause /\ r.left = d.left /\ r.then = d.then /\ r.eligible = d.eligible
    <3>. HIDE DEF d
    <3>. QED  BY <1>1, <2>2 DEF DispatchRecords
  <2>5. CASE a = "fiber"
    BY <1>2, <2>3, <2>4, <2>5, FiberKeeps
  <2>6. CASE a = "worker"
    <3>1. OnlyAdds => /\ l
                      /\ \A h \in d.eligible : h \in table["intc"] /\ h.enabled /\ h.cause = d.cause
      BY <2>1, <2>3, <2>6 DEF IrqInv, Deliverable, ControllerOf
    <3>. QED  BY <1>2, <2>3, <2>4, <2>6, <3>1, WorkerGoesOn
  <2>. QED  BY <1>1, <1>2, <2>5, <2>6
<1>4. CASE SnapshotHandlers(a)
  <2>1. PICK q : q = IF d.loaded THEN Eligible(ControllerOf(a), d.cause) ELSE {}
    OBVIOUS
  <2>2. q \in SUBSET Handlers
    BY <1>1, <2>1 DEF Eligible, IrqInv, IrqTypes
  <2>3. PICK r : r = [d EXCEPT !.pc = "run", !.ran = {}, !.queue = q]
    OBVIOUS
  <2>4. dispatch' = [dispatch EXCEPT ![a] = r] /\ d.pc = "snap"
    BY <1>4, <2>1, <2>3 DEF SnapshotHandlers, IrqInv, IrqTypes
  <2>5. /\ r \in DispatchRecords /\ r.pc = "run" /\ r.queue = q
        /\ r.cause = d.cause /\ r.left = d.left /\ r.then = d.then /\ r.eligible = d.eligible
    <3>. HIDE DEF d
    <3>. QED  BY <1>1, <2>2, <2>3 DEF DispatchRecords
  <2>6. CASE a = "fiber"
    BY <1>2, <2>4, <2>5, <2>6, FiberKeeps
  <2>7. CASE a = "worker"
    <3>1. OnlyAdds => /\ d.loaded
                      /\ \A h \in d.eligible : h \in table["intc"] /\ h.enabled /\ h.cause = d.cause
      BY <2>4, <2>7 DEF IrqInv, Deliverable
    <3>2. OnlyAdds => \A h \in r.eligible : h \in r.queue
      BY <2>1, <2>5, <2>7, <3>1 DEF Eligible, ControllerOf
    <3>. QED  BY <1>2, <2>4, <2>5, <2>7, <3>2, WorkerGoesOn
  <2>. QED  BY <1>1, <1>2, <2>6, <2>7
<1>5. CASE RunHandler(a)
  <2>1. PICK h : h = NextInOrder(d.queue)
    OBVIOUS
  <2>2. PICK q, ran : q = d.queue \ {h} /\ ran = IF h.known THEN d.ran \cup {h} ELSE d.ran
    OBVIOUS
  <2>3. PICK r : r = [d EXCEPT !.queue = q, !.ran = ran]
    OBVIOUS
  <2>4. dispatch' = [dispatch EXCEPT ![a] = r] /\ d.pc = "run" /\ d.queue # {}
    BY <1>5, <2>1, <2>2, <2>3 DEF RunHandler, IrqInv, IrqTypes
  <2>5. h \in d.queue
    <3>1. d.queue \in SUBSET Handlers
      BY <1>1 DEF DispatchRecords
    <3>. QED  BY <2>1, <2>4, <3>1, FirstInOrder
  <2>6. q \in SUBSET Handlers /\ ran \in SUBSET Handlers
    BY <1>1, <2>2, <2>5 DEF DispatchRecords
  <2>7. /\ r \in DispatchRecords /\ r.pc = "run" /\ r.queue = q /\ r.ran = ran
        /\ r.cause = d.cause /\ r.left = d.left /\ r.then = d.then /\ r.eligible = d.eligible
    <3>. HIDE DEF d
    <3>. QED  BY <1>1, <2>3, <2>4, <2>6 DEF DispatchRecords
  <2>8. CASE a = "fiber"
    BY <1>2, <2>4, <2>7, <2>8, FiberKeeps
  <2>9. CASE a = "worker"
    <3>1. OnlyAdds => \A g \in d.eligible : g.known => g \in d.queue \cup d.ran
      BY <2>4, <2>9 DEF IrqInv, Deliverable
    <3>2. OnlyAdds => \A g \in r.eligible : g.known => g \in r.queue \cup r.ran
      BY <2>2, <2>7, <3>1
    <3>. QED  BY <1>2, <2>4, <2>7, <2>9, <3>2, WorkerGoesOn
  <2>. QED  BY <1>1, <1>2, <2>8, <2>9
<1>. QED  BY <1>3, <1>4, <1>5

\* The dispatch of a finished transfer begins and ends on the fiber.
LEMMA DmacKeeps ==
    ASSUME IrqInv, (\E cause \in DmacCauses : DmacDispatch(cause)) \/ DmacDone
    PROVE  IrqInv' /\ UNCHANGED pending
<1>1. PICK r \in DispatchRecords :
         /\ dispatch' = [dispatch EXCEPT !["fiber"] = r]
         /\ UNCHANGED <<table, order, mask, pending, age, intcStat, irqOps>>
  <2>1. Idle \in DispatchRecords
    BY DEF Idle, DispatchRecords, VBlankStart
  <2>2. ASSUME NEW cause \in DmacCauses, DmacDispatch(cause)
        PROVE  [Idle EXCEPT !.pc = "load", !.cause = cause] \in DispatchRecords
    BY CausesInt DEF Idle, DispatchRecords, VBlankStart
  <2>. QED  BY <2>1, <2>2 DEF DmacDispatch, DmacDone
<1>. QED  BY <1>1, FiberKeeps

\* The worker is given a record in which it has nothing to deliver yet.
LEMMA WorkerRests ==
    ASSUME IrqInv, NEW r \in DispatchRecords, r.pc \in {"idle", "count"},
           dispatch' = [dispatch EXCEPT !["worker"] = r],
           r.then = "drained" => r.cause \in pending' \ r.left /\ r.left \subseteq pending',
           r.then # "drained" => r.left = {},
           pending' \in SUBSET Raised, age' \in [Raised -> 0..MaxAge],
           UNCHANGED <<table, order, mask, irqOps>>
    PROVE  IrqInv'
<1>1. dispatch'["worker"] = r /\ IrqTypes'
  BY CausesInt DEF IrqInv, IrqTypes
<1>. QED  BY <1>1 DEF IrqInv, Counted, DrainsPending, Deliverable

\* A tick begins.
LEMMA VBlankKeeps == ASSUME IrqInv, VBlank PROVE IrqInv' /\ UNCHANGED pending
<1>1. PICK c \in Int : c = VBlankStart
  BY DEF VBlankStart
<1>2. PICK r : r = [Idle EXCEPT !.pc = "count", !.cause = c, !.then = "gap"]
  OBVIOUS
<1>3. r \in DispatchRecords /\ r.pc = "count" /\ r.then = "gap" /\ r.left = {}
  BY <1>1, <1>2 DEF Idle, DispatchRecords, VBlankStart
<1>4. /\ dispatch' = [dispatch EXCEPT !["worker"] = r]
      /\ UNCHANGED <<table, order, mask, pending, age, irqOps>>
  BY <1>1, <1>2 DEF VBlank
<1>5. pending' \in SUBSET Raised /\ age' \in [Raised -> 0..MaxAge]
  BY <1>4 DEF IrqInv, IrqTypes
<1>. QED  BY <1>3, <1>4, <1>5, WorkerRests

\* A count: the cause is delivered next, or it ages.
LEMMA CountKeeps == ASSUME IrqInv, CountHandlers PROVE IrqInv' /\ UNCHANGED pending
<1> DEFINE d == dispatch["worker"]
<1>1. /\ d \in DispatchRecords /\ d.pc = "count"
      /\ UNCHANGED <<table, order, mask, pending, age, irqOps>>
  BY CausesInt DEF CountHandlers, IrqInv, IrqTypes
<1>2. PICK S : S = IF d.cause \in mask["intc"] THEN Eligible("intc", d.cause) ELSE {}
  OBVIOUS
<1>3. S \in SUBSET Handlers /\ \A h \in S : h \in table["intc"] /\ h.enabled /\ h.cause = d.cause
  BY <1>2, CausesInt DEF Eligible, IrqInv, IrqTypes
<1>4. PICK p \in {"load", "age"} : p = IF S # {} THEN "load" ELSE "age"
  OBVIOUS
<1>5. PICK r : r = [d EXCEPT !.pc = p, !.eligible = S]
  OBVIOUS
<1>6. dispatch' = [dispatch EXCEPT !["worker"] = r]
  BY <1>2, <1>4, <1>5, CausesInt DEF CountHandlers, IrqInv, IrqTypes
<1>7. /\ r \in DispatchRecords /\ r.pc = p /\ r.eligible = S
      /\ r.cause = d.cause /\ r.left = d.left /\ r.then = d.then
  <2>. HIDE DEF d
  <2>. QED  BY <1>1, <1>3, <1>4, <1>5 DEF DispatchRecords
<1>8. dispatch'["worker"] = r /\ IrqTypes'
  BY <1>1, <1>6, <1>7, CausesInt DEF IrqInv, IrqTypes
<1>9. Counted' /\ DrainsPending'
  BY <1>1, <1>4, <1>7, <1>8 DEF IrqInv, Counted, DrainsPending
<1>10. p = "load" => d.cause \in mask["intc"]
  BY <1>2, <1>4
<1>11. Deliverable'
  BY <1>1, <1>3, <1>4, <1>7, <1>8, <1>10 DEF Deliverable
<1>. QED  BY <1>1, <1>8, <1>9, <1>11 DEF IrqInv

\* The worker is done with a cause and goes on with what the drain has left.
LEMMA CauseDone ==
    ASSUME IrqInv,
           dispatch' = [dispatch EXCEPT !["worker"] = GoOn(dispatch["worker"])],
           UNCHANGED <<table, order, mask, irqOps>>, age' \in [Raised -> 0..MaxAge],
           pending' = pending \/ (/\ dispatch["worker"].then = "drained"
                                 /\ pending' = pending \ {dispatch["worker"].cause})
    PROVE  IrqInv'
<1> DEFINE d == dispatch["worker"]
           r == GoOn(d)
           left == IF d.then = "drain" THEN pending ELSE d.left
<1>1. /\ r \in DispatchRecords /\ r.pc \in {"idle", "count"}
      /\ r.then # "drained" => r.left = {}
      /\ r.then = "drained" => d.then # "gap" /\ r.cause \in left /\ r.left = left \ {r.cause}
  BY GoesOn DEF IrqInv
<1>2. d.then \in {"", "gap", "drain", "drained"} /\ pending \in SUBSET Raised
  BY CausesInt DEF IrqInv, IrqTypes, DispatchRecords
<1>3. d.then = "drained" => d.cause \in pending \ d.left /\ d.left \subseteq pending
  BY DEF IrqInv, DrainsPending
<1>4. d.then # "drained" => d.left = {}
  BY DEF IrqInv, Counted
<1>5. left \subseteq pending'
  BY <1>2, <1>3, <1>4
<1>6. r.then = "drained" => r.cause \in pending' \ r.left /\ r.left \subseteq pending'
  BY <1>1, <1>5
<1>. QED  BY <1>1, <1>2, <1>6, WorkerRests

\* Nothing was counted: the cause ages and goes when it is too old.
LEMMA AgeKeeps ==
    ASSUME IrqInv, AgePending PROVE IrqInv' /\ \A c \in pending \ pending' : age[c] = MaxAge
<1> DEFINE d == dispatch["worker"]
<1>1. /\ dispatch' = [dispatch EXCEPT !["worker"] = GoOn(d)]
      /\ IF d.then # "drained" THEN UNCHANGED <<pending, age>>
         ELSE IF age[d.cause] + 1 > MaxAge
              THEN pending' = pending \ {d.cause} /\ age' = [age EXCEPT ![d.cause] = 0]
              ELSE age' = [age EXCEPT ![d.cause] = @ + 1] /\ UNCHANGED pending
      /\ UNCHANGED <<table, order, mask, irqOps>>
  BY DEF AgePending
<1>2. pending \in SUBSET Raised /\ age \in [Raised -> 0..MaxAge] /\ MaxAge \in Nat
  BY CausesInt DEF IrqInv, IrqTypes
<1>3. age' \in [Raised -> 0..MaxAge]
  <2>. HIDE DEF d
  <2>. QED  BY <1>1, <1>2
<1>4. ASSUME NEW c \in pending \ pending' PROVE age[c] = MaxAge
  <2>1. c = d.cause /\ age[d.cause] + 1 > MaxAge
    BY <1>1, <1>4
  <2>2. age[c] \in 0..MaxAge
    BY <1>2
  <2>. QED  BY <1>2, <2>1, <2>2
<1>5. pending' = pending \/ (d.then = "drained" /\ pending' = pending \ {d.cause})
  BY <1>1
<1>6. IrqInv'
  BY <1>1, <1>3, <1>5, CauseDone
<1>. QED  BY <1>4, <1>6

\* The bit is cleared when what was counted has run.
LEMMA ClearKeeps ==
    ASSUME IrqInv, ClearDelivered
    PROVE  IrqInv' /\ (OnlyAdds => \A c \in pending \ pending' : Delivered(c))
<1> DEFINE d == dispatch["worker"]
<1>1. /\ d.pc = "run" /\ d.queue = {}
      /\ dispatch' = [dispatch EXCEPT !["worker"] = GoOn(d)]
      /\ IF d.then = "drained"
         THEN pending' = pending \ {d.cause} /\ age' = [age EXCEPT ![d.cause] = 0]
         ELSE UNCHANGED <<pending, age>>
      /\ UNCHANGED <<table, order, mask, irqOps>>
  BY DEF ClearDelivered
<1>2. d.eligible # {} /\ (OnlyAdds => {h \in d.eligible : h.known} \subseteq d.ran)
  BY <1>1 DEF IrqInv, Counted, Deliverable
<1>3. pending \in SUBSET Raised /\ age \in [Raised -> 0..MaxAge] /\ MaxAge \in Nat
  BY CausesInt DEF IrqInv, IrqTypes
<1>4. age' \in [Raised -> 0..MaxAge]
  <2>. HIDE DEF d
  <2>. QED  BY <1>1, <1>3
<1>5. pending' = pending \/ (d.then = "drained" /\ pending' = pending \ {d.cause})
  BY <1>1
<1>6. IrqInv'
  BY <1>1, <1>4, <1>5, CauseDone
<1>7. \A c \in pending \ pending' : c = d.cause
  BY <1>5
<1>. QED  BY <1>2, <1>6, <1>7 DEF Delivered

\* What a step of the controller may do to the pending causes.
Spared ==
    irqOps \cap {"disable", "remove"} = {} =>
        \A c \in pending \ pending' : age[c] = MaxAge \/ Delivered(c)

\* Every step of the interrupt model keeps the invariant and spares what is pending.
LEMMA IrqStepKeeps == ASSUME IrqInv, IrqNext PROVE IrqInv' /\ Spared
<1>1. irqOps \cap {"disable", "remove"} = {} => OnlyAdds
  BY DEF OnlyAdds
<1>2. CASE IrqWorker
  BY <1>1, <1>2, VBlankKeeps, CountKeeps, AgeKeeps, ClearKeeps, DispatchKeeps, CausesInt
     DEF IrqWorker, Spared
<1>3. CASE IrqGuest
  <2>1. CASE \/ LoadMask("fiber") \/ SnapshotHandlers("fiber") \/ RunHandler("fiber")
    BY <2>1, DispatchKeeps, CausesInt DEF Spared
  <2>2. CASE (\E cause \in DmacCauses : DmacDispatch(cause)) \/ DmacDone
    BY <2>2, DmacKeeps DEF Spared
  <2>. QED  BY <1>3, <2>1, <2>2, GuestKeeps DEF IrqGuest, Spared
<1>. QED  BY <1>2, <1>3 DEF IrqNext

\* The invariant holds of every state, and every step spares what is pending.
LEMMA IrqAlways == Spec => []IrqInv /\ [][Spared]_irqVars
<1>1. Init => IrqInv
  <2>1. Idle \in DispatchRecords /\ Idle.pc = "idle" /\ Idle.then = "" /\ Idle.left = {}
    BY DEF Idle, DispatchRecords, VBlankStart
  <2>2. ASSUME Init PROVE IrqTypes
    <3>1. CausesOf("intc") \subseteq Int /\ CausesOf("dmac") \subseteq Int
      BY CausesInt DEF Controllers
    <3>2. mask \in [Controllers -> SUBSET Int]
      BY <2>2, <3>1 DEF Init, IrqInit, Controllers
    <3>3. age \in [Raised -> 0..MaxAge] /\ pending \in SUBSET Raised
      BY <2>2, CausesInt DEF Init, IrqInit
    <3>4. table \in [Controllers -> SUBSET Handlers] /\ dispatch \in [Actors -> DispatchRecords]
      BY <2>1, <2>2 DEF Init, IrqInit
    <3>5. order \in [Controllers -> [head : {n \in Int : n <= 0}, tail : {n \in Int : n >= 1000}]]
      BY <2>2 DEF Init, IrqInit
    <3>. QED  BY <3>2, <3>3, <3>4, <3>5 DEF IrqTypes
  <2>3. Init => dispatch["worker"] = Idle
    BY CausesInt DEF Init, IrqInit
  <2>. QED  BY <2>1, <2>2, <2>3 DEF IrqInv, Counted, DrainsPending, Deliverable
<1>2. IrqInv /\ [Next]_vars => IrqInv' /\ [Spared]_irqVars
  <2>1. IrqInv /\ UNCHANGED irqVars => IrqInv'
    BY DEF IrqInv, IrqTypes, Counted, DrainsPending, OnlyAdds, Deliverable, irqVars
  <2>. QED  BY <2>1, IrqStepKeeps DEF Next, IrqStep, VSyncStep, PaceStep, vars
<1>. QED  BY <1>1, <1>2, PTL DEF Spec

\* In a program that takes no handler and no mask bit away, a pending cause goes
\* only when it is too old or when every handler that was counted for it and has
\* a function has run, wherever the guest's calls fall between the worker's
\* count, its read of the mask and its snapshot (Interrupt.cpp 241-271, 358-460).
THEOREM PendingSurvives == Spec => SurvivesUntilRun
  BY IrqAlways, PTL DEF SurvivesUntilRun, Spared

\* What a drain has still to deliver is pending, in a program of any calls: a
\* cause is delivered once for a raise and never after it was dropped
\* (Interrupt.cpp 417-460).
THEOREM DrainedArePending == Spec => []DrainsPending
<1>1. IrqInv => DrainsPending
  BY DEF IrqInv
<1>. QED  BY <1>1, IrqAlways, PTL
=============================================================================
