------------------------------ MODULE DebugIpc ------------------------------
(***************************************************************************)
(* The shared memory of the runner and its debugger: the writer of the     *)
(* runner (recomp_debug_writer.cpp, called once per turn of dispatchLoop)  *)
(* and the reader of the GUI (recomp_backend.cpp).  The two are processes  *)
(* with no lock between them, so each store to the shared state is a step. *)
(*                                                                         *)
(* A mailbox is the read, write or register request: a payload, a counter  *)
(* the debugger raises and one the runner sets equal to it; armed says     *)
(* that the two differ.                                                    *)
(***************************************************************************)
EXTENDS Integers, FiniteSets

CONSTANTS
    DbgThreads,    \* guest threads that go through dispatchLoop
    DbgSlots,      \* thread_states: 1..kDbgMaxTrackedThreads
    BpSlots,       \* bp_slots: 1..kDbgMaxBreakpoints
    Pcs,           \* addresses dispatched
    DbgCalls,      \* the sets of calls the debugger makes; a behaviour uses one
    Attempts,      \* tries of ReadRegs's seqlock loop
    Nobody         \* tid -1

ASSUME DebugIpcAssumption ==
    /\ Nobody \notin DbgThreads /\ Attempts \in Nat \ {0}
    /\ DbgSlots \subseteq Nat /\ BpSlots \subseteq Nat

VARIABLES
    bp,        \* bp_slots
    hit,       \* bp_hit, bp_hit_addr, bp_hit_tid
    stepTid,   \* step_requested_tid
    box,       \* the three mailboxes
    states,    \* thread_states
    runner,    \* the turn of dispatchLoop the runner is in
    gui,       \* the call the debugger is in
    over,      \* m_stepOverActive, m_stepOverTid, m_stepOverTargetRa
    ran,       \* the thread last stepped, the turns it made since, to 2, and
               \* whether a halt was reported when it was
    dbgOps     \* the calls of this behaviour's program; never changes

shared == <<bp, hit, stepTid, box, states>>
dbgVars == <<shared, runner, gui, over, ran, dbgOps>>

Boxes == {"read", "write", "reg"}
Unconditional == 2          \* cond_reg = kDbgNoCondReg; else the value compared with
Conds == {0, 1, Unconditional}
NoBp == [addr |-> Nobody, enabled |-> FALSE, reg |-> TRUE, value |-> 0]
NotStepped == [tid |-> Nobody, turns |-> 0, halted |-> FALSE]

\* The address and the thread count only while bp_hit is set.
NoHit == [on |-> FALSE, addr |-> Nobody, tid |-> Nobody]

DbgTypeOK ==
    /\ bp \in [BpSlots -> [addr : Pcs \cup {Nobody}, enabled : BOOLEAN, reg : BOOLEAN, value : {0, 1}]]
    /\ hit \in [on : BOOLEAN, addr : Pcs \cup {Nobody}, tid : DbgThreads \cup {Nobody}]
    /\ stepTid \in DbgThreads \cup {Nobody}
    /\ \A b \in Boxes : box[b].armed \in BOOLEAN
    /\ \A i \in DbgSlots : states[i].tid \in DbgThreads \cup {Nobody}
    /\ ran \in [tid : DbgThreads \cup {Nobody}, turns : 0..2, halted : BOOLEAN]

-----------------------------------------------------------------------------
(* The runner: one turn is Update, then CheckBreakpoint, then the function *)

\* A condition compares a register; memory that was never written is zero,
\* so a fresh slot compares $zero with 0.
Fires(slot) ==
    /\ slot.enabled /\ slot.addr = runner.pc
    /\ slot.reg => slot.value = runner.gpr

RunnerOut == [at |-> "run", tid |-> Nobody, pc |-> Nobody, gpr |-> 0, box |-> "read", payload |-> 0]

\* On to the next place of the turn, or out of CheckBreakpoint into the function.
Goes(place) == runner' = IF place = "run" THEN RunnerOut ELSE [runner EXCEPT !.at = place]

\* The function returned and the loop comes round, perhaps in another fiber.
Dispatch(t, pc, gpr) ==
    /\ runner.at = "run"
    /\ runner' = [at |-> "claim", tid |-> t, pc |-> pc, gpr |-> gpr, box |-> "read", payload |-> 0]
    /\ ran' = IF ran.tid = t /\ ran.turns < 2 THEN [ran EXCEPT !.turns = @ + 1] ELSE ran
    /\ UNCHANGED <<shared, gui, over, dbgOps>>

\* FindOrClaimSlot: its own slot, a free one, or, by counters of different
\* threads that do not compare, any other.
FindOrClaimSlot ==
    /\ runner.at = "claim"
    /\ LET own  == {i \in DbgSlots : states[i].tid = runner.tid}
           none == {i \in DbgSlots : states[i].tid = Nobody}
       IN  \E i \in DbgSlots :
              /\ IF own # {} THEN i \in own
                 ELSE IF none # {} THEN i \in none /\ \A j \in none : i <= j ELSE TRUE
              /\ states' = [states EXCEPT ![i].tid = runner.tid, ![i].odd = TRUE]
              /\ runner' = [runner EXCEPT !.at = "pc", !.payload = i]
    /\ UNCHANGED <<bp, hit, stepTid, box, gui, over, ran, dbgOps>>

\* A reader is between its two looks at the counter.
Reading == gui.at \in {"copy_pc", "copy_gpr", "seq2"}

\* Mutant of UpdateSlot: the counter is made even before the last field is written.
UpdateSlotEarly ==
    LET i == runner.payload IN
    /\ \/ /\ runner.at = "pc"
          /\ states' = [states EXCEPT ![i].pc = runner.pc, ![i].odd = FALSE, ![i].moved = Reading]
          /\ Goes("gpr")
       \/ runner.at = "gpr" /\ states' = [states EXCEPT ![i].gpr = runner.gpr] /\ Goes("even")
       \/ /\ runner.at = "even" /\ Goes("read")
          /\ states' = [states EXCEPT ![i].whole = [pc |-> runner.pc, gpr |-> runner.gpr]]
    /\ UNCHANGED <<bp, hit, stepTid, box, gui, over, ran, dbgOps>>

\* The writes between the two increments of update_seq; moved tells a reader in
\* its loop that the counter is no longer what it was, and whole, which nobody
\* reads, is what the last complete update wrote.
UpdateSlot ==
    LET i == runner.payload IN
    /\ \/ runner.at = "pc" /\ states' = [states EXCEPT ![i].pc = runner.pc] /\ Goes("gpr")
       \/ runner.at = "gpr" /\ states' = [states EXCEPT ![i].gpr = runner.gpr] /\ Goes("even")
       \/ /\ runner.at = "even" /\ Goes("read")
          /\ states' = [states EXCEPT ![i].odd = FALSE, ![i].moved = Reading,
                                      ![i].whole = [pc |-> runner.pc, gpr |-> runner.gpr]]
    /\ UNCHANGED <<bp, hit, stepTid, box, gui, over, ran, dbgOps>>

\* ServiceMemRequests, ServiceRegWrite: the payload is read, applied, and the
\* counter as it is by then acknowledged.  Where each place leads to next.
After == [read |-> "write", write |-> "check", spinread |-> "spinwrite", spinwrite |-> "spinreg",
          spinreg |-> "spin"]
BoxOf == [read |-> "read", write |-> "write", spinread |-> "read", spinwrite |-> "write",
          spinreg |-> "reg"]

\* Mutant of ServiceRequest: the counter is acknowledged before the payload is applied.
ServiceRequestAcksFirst ==
    /\ \/ /\ runner.at \in DOMAIN After
          /\ LET b == BoxOf[runner.at]
             IN  IF ~box[b].armed THEN Goes(After[runner.at]) /\ UNCHANGED box
                 ELSE /\ runner' = [runner EXCEPT !.at = "apply", !.box = runner.at]
                      /\ box' = [box EXCEPT ![b].armed = FALSE]
       \/ /\ runner.at = "apply" /\ Goes(After[runner.box])
          /\ LET b == BoxOf[runner.box]
             IN  box' = [box EXCEPT ![b].applied = [payload |-> box[b].payload, tid |-> runner.tid]]
    /\ UNCHANGED <<bp, hit, stepTid, states, gui, over, ran, dbgOps>>

ServiceRequest ==
    /\ runner.at \in DOMAIN After
    /\ LET b == BoxOf[runner.at]
       IN  IF ~box[b].armed THEN Goes(After[runner.at]) /\ UNCHANGED box
           ELSE /\ runner' = [runner EXCEPT !.at = "ack", !.box = runner.at]
                /\ box' = [box EXCEPT ![b].applied = [payload |-> box[b].payload, tid |-> runner.tid]]
    /\ UNCHANGED <<bp, hit, stepTid, states, gui, over, ran, dbgOps>>

Acknowledge ==
    /\ runner.at = "ack"
    /\ box' = [box EXCEPT ![BoxOf[runner.box]].armed = FALSE]
    /\ Goes(After[runner.box])
    /\ UNCHANGED <<bp, hit, stepTid, states, gui, over, ran, dbgOps>>

\* A step for this thread, else the first armed slot that fires, else the function.
CheckBreakpoint ==
    /\ runner.at = "check"
    /\ Goes(CASE stepTid = runner.tid -> "clear"
              [] stepTid # runner.tid /\ (\E i \in BpSlots : Fires(bp[i])) -> "halt"
              [] OTHER -> "run")
    /\ UNCHANGED <<shared, gui, over, ran, dbgOps>>

\* step_requested_tid = -1, whatever it is by now.
ClearStep ==
    /\ runner.at = "clear" /\ Goes("halt")
    /\ stepTid' = Nobody
    /\ UNCHANGED <<bp, hit, box, states, gui, over, ran, dbgOps>>

\* bp_hit_addr and bp_hit_tid, then bp_hit.
Halt ==
    /\ runner.at = "halt"
    /\ hit' = [on |-> TRUE, addr |-> runner.pc, tid |-> runner.tid]
    /\ Goes("spin")
    /\ ran' = IF ran.tid = runner.tid THEN NotStepped ELSE ran
    /\ UNCHANGED <<bp, stepTid, box, states, gui, over, dbgOps>>

Spin ==
    /\ runner.at = "spin"
    /\ Goes(IF hit.on THEN "spinread" ELSE "run")
    /\ UNCHANGED <<shared, gui, over, ran, dbgOps>>

Runner ==
    \/ \E t \in DbgThreads, pc \in Pcs, gpr \in {0, 1} : Dispatch(t, pc, gpr)
    \/ FindOrClaimSlot \/ UpdateSlot \/ ServiceRequest \/ Acknowledge
    \/ CheckBreakpoint \/ ClearStep \/ Halt \/ Spin

-----------------------------------------------------------------------------
(* The debugger: one thread, one call at a time *)

GuiIdle == [at |-> "idle", slot |-> 0, cond |-> 0, pcs |-> {}, tid |-> Nobody, box |-> "read",
            payload |-> 0, free |-> TRUE, tries |-> 0, copy |-> [pc |-> Nobody, gpr |-> 0]]

DbgCalled(op) == op \in dbgOps /\ gui.at = "idle"

GuiAt(place) == gui' = IF place = "idle" THEN GuiIdle ELSE [gui EXCEPT !.at = place]

\* The thread that is halted, else that of the first slot claimed.
CurrentTid ==
    LET claimed == {i \in DbgSlots : states[i].tid # Nobody}
    IN  IF hit.on THEN hit.tid
        ELSE IF claimed = {} THEN Nobody
        ELSE states[CHOOSE i \in claimed : \A j \in claimed : i <= j].tid

ArmStep(t) ==
    /\ stepTid' = IF t = Nobody THEN stepTid ELSE t
    /\ ran' = [tid |-> t, turns |-> 0, halted |-> hit.on]

\* AddBreakpoint arms a free slot and then stores the condition.
AddBreakpoint(pc, cond) ==
    /\ DbgCalled("break") /\ \A i \in BpSlots : ~(bp[i].enabled /\ bp[i].addr = pc)
    /\ \E i \in BpSlots :
          /\ ~bp[i].enabled /\ \A j \in BpSlots : j < i => bp[j].enabled
          /\ bp' = [bp EXCEPT ![i].addr = pc, ![i].enabled = TRUE]
          /\ gui' = [gui EXCEPT !.at = "cond_reg", !.slot = i, !.cond = cond]
    /\ UNCHANGED <<hit, stepTid, box, states, runner, over, ran, dbgOps>>

StoreCondition ==
    /\ \/ /\ gui.at = "cond_reg" /\ GuiAt("cond_value")
          /\ bp' = [bp EXCEPT ![gui.slot].reg = (gui.cond # Unconditional)]
       \/ /\ gui.at = "cond_value" /\ GuiAt("idle")
          /\ bp' = [bp EXCEPT ![gui.slot].value = IF gui.cond = Unconditional THEN 0 ELSE gui.cond]
    /\ UNCHANGED <<hit, stepTid, box, states, runner, over, ran, dbgOps>>

\* RemoveBreakpoint and, for all addresses at once, ClearAllBreakpoints.
RemoveBreakpoints(pcs) ==
    /\ DbgCalled("break")
    /\ bp' = [i \in BpSlots |-> IF bp[i].enabled /\ bp[i].addr \in pcs
                                THEN [bp[i] EXCEPT !.enabled = FALSE, !.addr = Nobody] ELSE bp[i]]
    /\ gui' = [gui EXCEPT !.at = "unhit", !.pcs = pcs]
    /\ UNCHANGED <<hit, stepTid, box, states, runner, over, ran, dbgOps>>

\* A target halted at what was removed goes on.
ReleaseRemoved ==
    /\ gui.at = "unhit" /\ GuiAt("idle")
    /\ hit' = IF hit.on /\ hit.addr \in gui.pcs THEN NoHit ELSE hit
    /\ UNCHANGED <<bp, stepTid, box, states, runner, over, ran, dbgOps>>

Resume ==
    /\ DbgCalled("resume")
    /\ hit' = NoHit
    /\ over' = [over EXCEPT !.on = FALSE]
    /\ UNCHANGED <<bp, stepTid, box, states, runner, gui, ran, dbgOps>>

Pause ==
    /\ DbgCalled("step")
    /\ ArmStep(CurrentTid)
    /\ UNCHANGED <<bp, hit, box, states, runner, gui, over, dbgOps>>

\* Mutant of Step: the pause is released before the step is armed.
StepReleasesFirst ==
    /\ \/ /\ DbgCalled("step") /\ hit.on
          /\ hit' = NoHit
          /\ gui' = [gui EXCEPT !.at = "release", !.tid = hit.tid]
          /\ ran' = [tid |-> hit.tid, turns |-> 0, halted |-> TRUE]
          /\ UNCHANGED stepTid
       \/ /\ gui.at = "release" /\ GuiAt("idle")
          /\ stepTid' = gui.tid
          /\ UNCHANGED <<hit, ran>>
    /\ UNCHANGED <<bp, box, states, runner, over, dbgOps>>

\* Step, and StepOver with a return address, of the thread halted or, if none is,
\* of the first one shown: armed, then released.
Step ==
    /\ \/ /\ DbgCalled("step")
          /\ ArmStep(CurrentTid)
          /\ \E ra \in {Nobody} \cup IF "over" \in dbgOps /\ CurrentTid # Nobody THEN Pcs ELSE {} :
                over' = IF ra = Nobody THEN over ELSE [on |-> TRUE, tid |-> CurrentTid, ra |-> ra]
          /\ gui' = [gui EXCEPT !.at = "release", !.tid = CurrentTid]
          /\ UNCHANGED hit
       \/ /\ gui.at = "release" /\ GuiAt("idle")
          /\ hit' = NoHit
          /\ UNCHANGED <<stepTid, over, ran>>
    /\ UNCHANGED <<bp, box, states, runner, dbgOps>>

\* Every frame while a StepOver is under way: on to its target, unless the halt
\* is another thread's.
PollStepOver ==
    /\ gui.at = "idle" /\ over.on /\ hit.on
    /\ LET at == {i \in DbgSlots : states[i].tid = over.tid}
       IN  IF hit.tid # over.tid \/ at = {} \/ \E i \in at : states[i].pc = over.ra
           THEN over' = [over EXCEPT !.on = FALSE] /\ UNCHANGED <<stepTid, gui, ran>>
           ELSE /\ ArmStep(over.tid)
                /\ gui' = [gui EXCEPT !.at = "release", !.tid = over.tid]
                /\ UNCHANGED over
    /\ UNCHANGED <<bp, hit, box, states, runner, dbgOps>>

\* ReadMemory, WriteMemory, and WriteRegister of a halted thread: the payload,
\* then the counter.  The mailbox is free unless an earlier request, whose poll
\* gave up, is still to be served.
Request(b, payload) ==
    /\ DbgCalled(b) /\ (b = "reg" => hit.on)
    /\ box' = [box EXCEPT ![b].payload = payload]
    /\ gui' = [gui EXCEPT !.at = "arm", !.box = b, !.payload = payload, !.tid = hit.tid,
                             !.free = ~box[b].armed]
    /\ UNCHANGED <<bp, hit, stepTid, states, runner, over, ran, dbgOps>>

ArmRequest ==
    /\ gui.at = "arm" /\ GuiAt("poll")
    /\ box' = [box EXCEPT ![gui.box].armed = TRUE]
    /\ UNCHANGED <<bp, hit, stepTid, states, runner, over, ran, dbgOps>>

\* The bounded poll ends with the answer, or with false after 50 ms.
PollRequest ==
    /\ gui.at = "poll" /\ GuiAt("idle")
    /\ box' = [box EXCEPT ![gui.box].applied = [payload |-> 0, tid |-> Nobody]]
    /\ UNCHANGED <<bp, hit, stepTid, states, runner, over, ran, dbgOps>>

\* ReadRegs: a copy counts if the counter was even and is the same after it.
BeginReadRegs ==
    /\ DbgCalled("regs") /\ \E i \in DbgSlots : states[i].tid = CurrentTid /\ CurrentTid # Nobody
    /\ gui' = [gui EXCEPT !.at = "seq", !.tries = Attempts, !.slot =
                  CHOOSE i \in DbgSlots : states[i].tid = CurrentTid, !.copy = [pc |-> Nobody, gpr |-> 0]]
    /\ UNCHANGED <<shared, runner, over, ran, dbgOps>>

ReadRegsTry ==
    LET s == states[gui.slot] IN
    /\ \/ /\ gui.at = "seq" /\ gui.tries > 0
          /\ gui' = [gui EXCEPT !.tries = @ - 1, !.at = IF s.odd THEN "seq" ELSE "copy_pc"]
          /\ states' = [states EXCEPT ![gui.slot].moved = FALSE]
       \/ gui.at = "copy_pc" /\ gui' = [gui EXCEPT !.at = "copy_gpr", !.copy.pc = s.pc] /\ UNCHANGED states
       \/ gui.at = "copy_gpr" /\ gui' = [gui EXCEPT !.at = "seq2", !.copy.gpr = s.gpr] /\ UNCHANGED states
       \/ /\ gui.at = "seq2" /\ GuiAt(IF ~s.odd /\ ~s.moved THEN "regs" ELSE "seq")
          /\ states' = [states EXCEPT ![gui.slot].moved = FALSE]
    /\ UNCHANGED <<bp, hit, stepTid, box, runner, over, ran, dbgOps>>

\* After the last try the copy is shown as it is.
ReadRegsReturns ==
    /\ gui.at = "regs" \/ (gui.at = "seq" /\ gui.tries = 0)
    /\ GuiAt("idle")
    /\ UNCHANGED <<shared, runner, over, ran, dbgOps>>

Debugger ==
    \/ \E pc \in Pcs, cond \in Conds : AddBreakpoint(pc, cond)
    \/ \E pc \in Pcs : RemoveBreakpoints({pc})
    \/ RemoveBreakpoints(Pcs)
    \/ StoreCondition \/ ReleaseRemoved \/ Resume \/ Pause \/ Step \/ PollStepOver
    \/ \E b \in Boxes, payload \in {1, 2} : Request(b, payload)
    \/ ArmRequest \/ PollRequest \/ BeginReadRegs \/ ReadRegsTry \/ ReadRegsReturns
-----------------------------------------------------------------------------
DbgInit ==
    /\ bp = [i \in BpSlots |-> NoBp]
    /\ hit = NoHit
    /\ stepTid = Nobody
    /\ box = [b \in Boxes |-> [payload |-> 0, armed |-> FALSE,
                               applied |-> [payload |-> 0, tid |-> Nobody]]]
    /\ states = [i \in DbgSlots |-> [tid |-> Nobody, pc |-> Nobody, gpr |-> 0, odd |-> FALSE,
                                     moved |-> FALSE, whole |-> [pc |-> Nobody, gpr |-> 0]]]
    /\ runner = RunnerOut /\ gui = GuiIdle
    /\ over = [on |-> FALSE, tid |-> Nobody, ra |-> Nobody]
    /\ ran = NotStepped
    /\ dbgOps \in DbgCalls

DbgNext == Runner \/ Debugger

-----------------------------------------------------------------------------
(* Properties *)

\* A thread stepped while a halt is reported makes one turn and halts: "Re-arm
\* before releasing the current pause so the dispatch loop halts again after
\* exactly one more iteration instead of running free" (recomp_backend.cpp 273).
StepHaltsAtOnce == ran.halted => ran.turns < 2

\* A request that was answered was served with its own payload.
AppliedOwn == box[gui.box].applied.payload = gui.payload

\* A request made through a free mailbox is answered only after its own payload was
\* applied, for a register to the thread that was halted when it was made, whatever
\* the runner was doing (recomp_debug_writer.cpp 60-87, 189-197; recomp_backend.cpp
\* 196-250).
AnswerIsOwn ==
    (gui.at = "poll" /\ gui.free /\ ~box[gui.box].armed) =>
        AppliedOwn /\ (gui.box = "reg" => box[gui.box].applied.tid = gui.tid)

\* A copy of the registers that the seqlock accepts is one update's, not a
\* mixture of two (recomp_backend.cpp 44-56, recomp_debug_ipc.h 20-29).
RegsOfOneUpdate ==
    [][(gui.at = "seq2" /\ gui'.at = "regs") => gui.copy = states[gui.slot].whole]_dbgVars
=============================================================================
