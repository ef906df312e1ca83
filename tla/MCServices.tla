----------------------------- MODULE MCServices -----------------------------
(***************************************************************************)
(* The services around the scheduler that share no state with each other,  *)
(* each explored alone: a behaviour takes the steps of one of them, named  *)
(* by focus, and a run is about the ones in Foci.                          *)
(***************************************************************************)
EXTENDS Interrupts, VSync, VBlankPacing

CONSTANT Foci

ASSUME FociAssumption == Foci \subseteq {"irq", "vsync", "pacing"}

VARIABLE focus

vars == <<irqVars, vsyncVars, paceVars, focus>>

IrqStep(A) == focus = "irq" /\ A /\ UNCHANGED <<vsyncVars, paceVars, focus>>
VSyncStep(A) == focus = "vsync" /\ A /\ UNCHANGED <<irqVars, paceVars, focus>>
PaceStep(A) == focus = "pacing" /\ A /\ UNCHANGED <<irqVars, vsyncVars, focus>>

Init ==
    /\ focus \in Foci
    /\ IrqInit /\ VSyncInit /\ PacingInit
    \* One start is enough of the services a behaviour is not about.
    /\ focus # "irq" => irqOps = CHOOSE p \in IrqPrograms : TRUE
    /\ focus # "vsync" => flagWord = [f \in Frames |-> 0]

Next == IrqStep(IrqNext) \/ VSyncStep(VSyncNext) \/ PaceStep(PacingNext)

\* The IRQ worker is a host thread that ticks on whatever the guest does.
Fairness ==
    /\ WF_vars(IrqStep(IrqWorker))
    /\ WF_vars(PaceStep(Poll))

Spec == Init /\ [][Next]_vars /\ Fairness

\* Guest code of the interrupt controller that only adds, that also disables or
\* removes, and that of the DMA controller.
MCPrograms ==
    {{"add", "enable", "raise"}, {"add", "enable", "disable", "raise"},
     {"add", "remove", "raise"}, {"add", "remove", "disable", "dma", "ack"}}

\* VBlankKeepsComing (VBlankPacing), of the behaviours that are about the pacing.
TicksKeepComing == focus = "pacing" => VBlankKeepsComing
=============================================================================
