---------------------------- MODULE VBlankPacing ----------------------------
(***************************************************************************)
(* The deterministic pacing of interruptWorkerMain (Interrupt.cpp): when a *)
(* poll of the worker delivers vblank ticks.  Guest progress, its deadline *)
(* and the values the worker remembers are kept as differences, so nothing *)
(* grows without bound.                                                    *)
(***************************************************************************)
EXTENDS Integers

CONSTANTS
    Quantum,      \* deterministicVblankQuantum
    StallPolls,   \* kDetStallPolls
    MaxCatchup,   \* kMaxCatchupTicks
    MaxBurst      \* bound: progress the guest makes between two polls

ASSUME PacingAssumption ==
    Quantum \in Nat \ {0} /\ StallPolls \in Nat \ {0} /\ MaxCatchup \in Nat \ {0} /\ MaxBurst \in Nat

VARIABLES
    due,         \* nextProgressTick minus the guest's progress
    moved,       \* progress differs from lastProgressSeen
    stalled,     \* stalledPolls
    armed,       \* idleTickArmed
    reacted,     \* progress differs from progressAtIdleTick
    guestIdle,   \* ps2x_guest_idle
    delivered,   \* ticks the last poll delivered
    source,      \* the rule they came from: g_vblankFromQuantum, ...Idle, ...Stall
    idleTicks    \* idle ticks since the guest last ran, counted to 2; read by no action

paceVars == <<due, moved, stalled, armed, reacted, guestIdle, delivered, source, idleTicks>>

PacingTypeOK ==
    /\ due \in (1 - MaxBurst)..Quantum
    /\ stalled \in 0..StallPolls
    /\ delivered \in 0..MaxCatchup
    /\ source \in {"none", "quantum", "stall", "idle"}
    /\ {moved, armed, reacted, guestIdle} \subseteq BOOLEAN
    /\ idleTicks \in 0..2

\* Whole quanta that fit into the progress beyond the deadline, up to the cap.
CatchUp == LET n == 1 + ((0 - due) \div Quantum) IN IF n < MaxCatchup THEN n ELSE MaxCatchup

GuestProgress(n) ==
    /\ ~guestIdle /\ due > 0 /\ n > 0
    /\ due' = due - n
    /\ moved' = TRUE /\ reacted' = TRUE /\ idleTicks' = 0
    /\ UNCHANGED <<stalled, armed, guestIdle, delivered, source>>

\* Fibers block, or one becomes runnable; a vblank can do that, or an alarm.
GuestBlocks(on) ==
    /\ guestIdle # on /\ guestIdle' = on
    /\ idleTicks' = IF on THEN idleTicks ELSE 0
    /\ UNCHANGED <<due, moved, stalled, armed, reacted, delivered, source>>

\* Mutant of Poll: without the stall fallback.
PollNoStall ==
    LET stalls  == IF moved THEN 0 ELSE IF stalled < StallPolls THEN stalled + 1 ELSE stalled
        quantum == due <= 0
        stall   == FALSE
        canIdle == armed \/ ~guestIdle \/ reacted
        idle    == ~quantum /\ ~stall /\ guestIdle /\ canIdle
    IN  /\ source' = IF quantum THEN "quantum" ELSE IF stall THEN "stall"
                     ELSE IF idle THEN "idle" ELSE "none"
        /\ delivered' = IF quantum THEN CatchUp ELSE IF stall \/ idle THEN 1 ELSE 0
        /\ due' = IF stall \/ idle THEN Quantum
                  ELSE IF quantum
                  THEN IF due + CatchUp * Quantum > 0 THEN due + CatchUp * Quantum ELSE Quantum
                  ELSE due
        /\ stalled' = IF stall \/ idle THEN 0 ELSE stalls
        /\ armed' = (canIdle /\ ~idle)
        /\ reacted' = (reacted /\ ~idle)
        /\ idleTicks' = IF idle /\ idleTicks < 2 THEN idleTicks + 1 ELSE idleTicks
        /\ moved' = FALSE
        /\ UNCHANGED guestIdle

\* One poll: the quantum path, else the stall fallback, else an idle tick.
Poll ==
    LET stalls  == IF moved THEN 0 ELSE stalled + 1
        quantum == due <= 0
        stall   == ~quantum /\ stalls >= StallPolls
        canIdle == armed \/ ~guestIdle \/ reacted
        idle    == ~quantum /\ ~stall /\ guestIdle /\ canIdle
    IN  /\ source' = IF quantum THEN "quantum" ELSE IF stall THEN "stall"
                     ELSE IF idle THEN "idle" ELSE "none"
        /\ delivered' = IF quantum THEN CatchUp ELSE IF stall \/ idle THEN 1 ELSE 0
        /\ due' = IF stall \/ idle THEN Quantum
                  ELSE IF quantum
                  THEN IF due + CatchUp * Quantum > 0 THEN due + CatchUp * Quantum ELSE Quantum
                  ELSE due
        /\ stalled' = IF stall \/ idle THEN 0 ELSE stalls
        /\ armed' = (canIdle /\ ~idle)
        /\ reacted' = (reacted /\ ~idle)
        /\ idleTicks' = IF idle /\ idleTicks < 2 THEN idleTicks + 1 ELSE idleTicks
        /\ moved' = FALSE
        /\ UNCHANGED guestIdle

PacingInit ==
    /\ due = Quantum /\ moved = FALSE /\ stalled = 0 /\ armed = TRUE
    /\ reacted = TRUE /\ guestIdle = FALSE /\ delivered = 0 /\ source = "none" /\ idleTicks = 0

PacingNext == Poll \/ (\E n \in 1..MaxBurst : GuestProgress(n)) \/ \E on \in BOOLEAN : GuestBlocks(on)

-----------------------------------------------------------------------------
(* Properties *)

\* "vblank waits on progress, progress waits on vblank" never happens
\* (Interrupt.cpp 641-648): whatever the guest does, ticks keep coming.
VBlankKeepsComing == []<>(delivered > 0)
=============================================================================
