------------------------------ MODULE EventFlag ------------------------------
(***************************************************************************)
(* The event flags of Kernel/Syscalls/Sync.cpp.  A pattern is the set of   *)
(* its bits.  SetEventFlag wakes every thread on the list and leaves the   *)
(* list alone; each waiter takes itself off and re-checks.                 *)
(***************************************************************************)
EXTENDS ThreadInfo

CONSTANTS
    Flags,       \* event flag identifiers, in the order they are given out
    EventBits,   \* bits of a pattern
    Waits        \* the patterns and modes waited and polled for

ASSUME EventFlagAssumption ==
    /\ Flags \subseteq Nat \ {0} /\ Nothing \notin Flags /\ Flags \cap Threads = {}
    /\ Waits \subseteq [bits : SUBSET EventBits \ {{}},
                        mode : SUBSET {"WEF_OR", "WEF_CLEAR", "WEF_CLEAR_ALL"}]

VARIABLES
    flag,   \* EventFlagInfo by identifier
    want    \* waitBits and mode of a thread's WaitEventFlag

flagVars == <<flag, want>>

FlagInfos == [state : {"unused", "live", "deleted"}, multi : BOOLEAN, bits : SUBSET EventBits,
              waiters : Nat, waitList : Seq(Threads)]

Patterns == SUBSET EventBits \ {{}}
NoWant == [bits |-> {}, mode |-> {}]

FlagTypeOK ==
    /\ flag \in [Flags -> FlagInfos]
    /\ want \in [Threads -> Waits \cup {NoWant}]

-----------------------------------------------------------------------------
FlagListed(e) == {flag[e].waitList[k] : k \in 1..Len(flag[e].waitList)}

\* The bit test of WaitEventFlag and PollEventFlag.
Matches(bits, w) ==
    IF "WEF_OR" \in w.mode THEN bits \cap w.bits # {} ELSE w.bits \subseteq bits

\* The bits after a wait or poll that succeeded.
Cleared(bits, w) ==
    IF "WEF_CLEAR_ALL" \in w.mode THEN {}
    ELSE IF "WEF_CLEAR" \in w.mode THEN bits \ w.bits ELSE bits

CreateEventFlag(multi, bits) ==
    /\ Called("event")
    /\ \E e \in Flags :
          /\ \A d \in Flags : flag[d].state = "unused" <=> d >= e
          /\ flag' = [flag EXCEPT ![e] = [state |-> "live", multi |-> multi, bits |-> bits,
                                          waiters |-> 0, waitList |-> <<>>]]
    /\ UNCHANGED <<want, threadVars>>

DeleteEventFlag(e) ==
    /\ Called("delevent") /\ flag[e].state = "live"
    /\ flag' = [flag EXCEPT ![e] = [@ EXCEPT !.state = "deleted", !.waitList = <<>>]]
    /\ parked' = parked \ Woken(FlagListed(e))
    /\ UNCHANGED <<want, info, pc, on, ret, ops>>

\* Mutant of SetEventFlag: only the first waiter is woken, as SignalSema does.
SetEventFlagFirst(e, bits) ==
    /\ Called("event") /\ flag[e].state = "live"
    /\ flag' = [flag EXCEPT ![e].bits = @ \cup bits]
    /\ parked' = IF flag[e].waitList = <<>> THEN parked
                 ELSE parked \ Woken({Head(flag[e].waitList)})
    /\ UNCHANGED <<want, info, pc, on, ret, ops>>

SetEventFlag(e, bits) ==
    /\ Called("event") /\ flag[e].state = "live"
    /\ flag' = [flag EXCEPT ![e].bits = @ \cup bits]
    /\ parked' = parked \ Woken(FlagListed(e))
    /\ UNCHANGED <<want, info, pc, on, ret, ops>>

ClearEventFlag(e, bits) ==
    /\ Called("clear") /\ flag[e].state = "live"
    /\ flag' = [flag EXCEPT ![e].bits = @ \cap bits]
    /\ UNCHANGED <<want, threadVars>>

\* KE_EVF_MULTI: a flag without EA_MULTI admits one waiter.
Admits(e) == flag[e].multi \/ flag[e].waiters = 0

\* The lambda satisfied of WaitEventFlag.
satisfied(t, f, w) ==
    info[t].forceRelease \/ info[t].terminated \/ f.state = "deleted" \/ Matches(f.bits, w)

\* The loop of WaitEventFlag publishes the thread and parks it.
FlagPublishAndPark(t, e, f) ==
    /\ flag' = [flag EXCEPT ![e] = [f EXCEPT !.waiters = @ + 1,
                                            !.waitList = publishWaiter(@, t)]]
    /\ Parks(t, "event")

WaitEventFlag(t, e, w) ==
    /\ Called("event") /\ Running(t) /\ ~info[t].terminated /\ flag[e].state = "live" /\ Admits(e)
    /\ on' = [on EXCEPT ![t] = e]
    /\ want' = [want EXCEPT ![t] = w]
    /\ \/ /\ satisfied(t, flag[e], w)
          /\ flag' = [flag EXCEPT ![e].bits = Cleared(@, w)]
          /\ Returns(t, info[t], "KE_OK")
          /\ UNCHANGED parked
       \/ /\ ~satisfied(t, flag[e], w)
          /\ info' = [info EXCEPT ![t] = setThreadWaiting(@, "TSW_EVENT")]
          /\ FlagPublishAndPark(t, e, flag[e])
    /\ UNCHANGED ops

\* After a wake: deleted, released, terminated, satisfied, or waiting again.
WaitEventFlagWoken(t) ==
    /\ pc[t] = "event" /\ t \notin parked
    /\ LET e == on[t]
           f == [flag[e] EXCEPT !.waiters = @ - 1, !.waitList = unpublishWaiter(@, t)]
       IN  \/ /\ f.state = "deleted" \/ info[t].forceRelease \/ info[t].terminated
              /\ flag' = [flag EXCEPT ![e] = f]
              /\ IF info[t].terminated THEN Exits(t)
                 ELSE IF f.state = "deleted"
                 THEN Returns(t, clearThreadWaiting(info[t]), "KE_WAIT_DELETE") /\ UNCHANGED on
                 ELSE Returns(t, clearThreadWaiting(consumeForceRelease(info[t])),
                              "KE_RELEASE_WAIT") /\ UNCHANGED on
              /\ UNCHANGED parked
           \/ /\ ~(f.state = "deleted" \/ info[t].forceRelease \/ info[t].terminated)
              /\ \/ /\ Matches(f.bits, want[t])
                    /\ flag' = [flag EXCEPT ![e] = [f EXCEPT !.bits = Cleared(@, want[t])]]
                    /\ Returns(t, clearThreadWaiting(info[t]), "KE_OK")
                    /\ UNCHANGED parked
                 \/ /\ ~Matches(f.bits, want[t])
                    /\ FlagPublishAndPark(t, e, f)
                    /\ UNCHANGED info
              /\ UNCHANGED on
    /\ UNCHANGED <<want, ops>>

PollEventFlag(e, w) ==
    /\ Called("poll") /\ flag[e].state = "live" /\ Admits(e) /\ Matches(flag[e].bits, w)
    /\ flag' = [flag EXCEPT ![e].bits = Cleared(@, w)]
    /\ UNCHANGED <<want, threadVars>>

FlagInit ==
    /\ flag = [e \in Flags |-> [state |-> "unused", multi |-> FALSE, bits |-> {}, waiters |-> 0,
                                waitList |-> <<>>]]
    /\ want = [t \in Threads |-> NoWant]

FlagNext ==
    \/ \E multi \in BOOLEAN, bits \in SUBSET EventBits : CreateEventFlag(multi, bits)
    \/ \E e \in Flags :
          \/ DeleteEventFlag(e)
          \/ \E bits \in Patterns : SetEventFlag(e, bits)
          \/ \E bits \in SUBSET EventBits : ClearEventFlag(e, bits)
          \/ \E w \in Waits : PollEventFlag(e, w)
    \/ \E t \in Threads :
          \/ WaitEventFlagWoken(t)
          \/ \E e \in Flags, w \in Waits : WaitEventFlag(t, e, w)

-----------------------------------------------------------------------------
(* Properties *)

InFlagWait(e) == {t \in Threads : pc[t] = "event" /\ on[t] = e}

\* No event is missed: a thread whose pattern the flag matches is not left
\* parked, even when the pattern was set and another waiter's clear is yet to
\* come (SetEventFlag, Sync.cpp 622-640); a suspended one looks when resumed.
NoEventMissed ==
    \A e \in Flags : \A t \in InFlagWait(e) :
        (t \in parked /\ info[t].suspendCount = 0)
            => flag[e].state = "live" /\ ~Matches(flag[e].bits, want[t])
=============================================================================
