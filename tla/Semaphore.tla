------------------------------ MODULE Semaphore ------------------------------
(***************************************************************************)
(* The semaphores of Kernel/Syscalls/Sync.cpp: SemaInfo, and the calls     *)
(* that create, delete, signal, wait for and poll one.  A waiter with a    *)
(* thread identity is on the wait list and parks; a borrowed host worker   *)
(* has none and polls with backoff, counted in waiters but not listed.     *)
(***************************************************************************)
EXTENDS ThreadInfo

CONSTANTS
    Semas,      \* semaphore identifiers, in the order g_nextSemaId gives them
    Observed,   \* the one compared with AbstractSemaphore: any of them
    Workers,    \* host workers that run guest handlers
    MaxPermits  \* bound: maxCount asked for

ASSUME SemaphoreAssumption ==
    /\ Semas \subseteq Nat \ {0} /\ Observed \in Semas /\ MaxPermits \in Nat \ {0}
    /\ Nothing \notin Semas /\ Semas \cap Threads = {}

VARIABLES
    sema,     \* SemaInfo by identifier
    polling   \* the semaphore a worker polls for

semaVars == <<sema, polling>>

SemaInfos == [state : {"unused", "live", "deleted"}, count : 0..MaxPermits, maxCount : 0..MaxPermits,
              waiters : Nat, waitList : Seq(Threads)]

SemaTypeOK ==
    /\ sema \in [Semas -> SemaInfos]
    /\ polling \in [Workers -> Semas \cup {Nothing}]

-----------------------------------------------------------------------------
Listed(s) == {sema[s].waitList[k] : k \in 1..Len(sema[s].waitList)}

\* decodeCreateSemaParams's result after the clamps of CreateSema.
Clamped(init, max) ==
    LET m == IF max <= 0 THEN 1 ELSE max
    IN  [state |-> "live", maxCount |-> m, waiters |-> 0, waitList |-> <<>>,
         count |-> IF init < 0 THEN 0 ELSE IF init > m THEN m ELSE init]

CreateSema(init, max) ==
    /\ Called("sema")
    /\ \E s \in Semas :
          /\ \A r \in Semas : sema[r].state = "unused" <=> r >= s
          /\ sema' = [sema EXCEPT ![s] = Clamped(init, max)]
    /\ UNCHANGED <<polling, threadVars>>

\* markDeletedAndWake: the waiters are woken and leave by themselves.
DeleteSema(s) ==
    /\ Called("delete") /\ sema[s].state = "live"
    /\ sema' = [sema EXCEPT ![s] = [@ EXCEPT !.state = "deleted", !.waitList = <<>>]]
    /\ parked' = parked \ Woken(Listed(s))
    /\ UNCHANGED <<polling, info, pc, on, ret, ops>>

\* Mutant of SignalSema: the waiter is taken off the list but woken only when
\* the semaphore was empty.
SignalSemaWakeOnEmpty(s) ==
    /\ Called("sema") /\ sema[s].state = "live" /\ sema[s].count < sema[s].maxCount
    /\ LET list == sema[s].waitList
       IN  \/ /\ list = <<>>
              /\ sema' = [sema EXCEPT ![s].count = @ + 1]
              /\ UNCHANGED parked
           \/ /\ list # <<>>
              /\ sema' = [sema EXCEPT ![s] = [sema[s] EXCEPT !.count = @ + 1,
                                                           !.waitList = Tail(list)]]
              /\ parked' = IF sema[s].count = 0 THEN parked \ Woken({Head(list)}) ELSE parked
    /\ UNCHANGED <<polling, info, pc, on, ret, ops>>

\* At maxCount the call returns KE_SEMA_OVF and changes nothing.
SignalSema(s) ==
    /\ Called("sema") /\ sema[s].state = "live" /\ sema[s].count < sema[s].maxCount
    /\ LET list == sema[s].waitList
       IN  \/ /\ list = <<>>
              /\ sema' = [sema EXCEPT ![s].count = @ + 1]
              /\ UNCHANGED parked
           \/ /\ list # <<>>
              /\ sema' = [sema EXCEPT ![s] = [sema[s] EXCEPT !.count = @ + 1,
                                                           !.waitList = Tail(list)]]
              /\ parked' = parked \ Woken({Head(list)})
    /\ UNCHANGED <<polling, info, pc, on, ret, ops>>

\* The loop of WaitSema publishes the thread and parks it.
PublishAndPark(t, s, sem) ==
    /\ sema' = [sema EXCEPT ![s] = [sem EXCEPT !.waiters = @ + 1,
                                               !.waitList = publishWaiter(@, t)]]
    /\ Parks(t, "sema")

WaitSema(t, s) ==
    /\ Called("sema") /\ Running(t) /\ ~info[t].terminated /\ sema[s].state = "live"
    /\ on' = [on EXCEPT ![t] = s]
    /\ \/ /\ sema[s].count > 0
          /\ sema' = [sema EXCEPT ![s].count = @ - 1]
          /\ Returns(t, clearThreadWaiting(info[t]), "KE_OK")
          /\ UNCHANGED parked
       \/ /\ sema[s].count = 0
          /\ info' = [info EXCEPT ![t] = setThreadWaiting(@, "TSW_SEMA")]
          /\ PublishAndPark(t, s, sema[s])
    /\ UNCHANGED <<polling, ops>>

\* Mutant of WaitSemaWoken: a released waiter takes a permit along.
WaitSemaWokenTakes(t) ==
    /\ pc[t] = "sema" /\ t \notin parked
    /\ LET s   == on[t]
           sem == [sema[s] EXCEPT !.waiters = @ - 1, !.waitList = unpublishWaiter(@, t)]
       IN  \/ /\ sem.state = "deleted" \/ info[t].forceRelease \/ info[t].terminated
              /\ sema' = [sema EXCEPT ![s] = [sem EXCEPT !.count = IF @ > 0 THEN @ - 1 ELSE @]]
              /\ IF info[t].terminated THEN Exits(t)
                 ELSE IF sem.state = "deleted"
                 THEN Returns(t, clearThreadWaiting(info[t]), "KE_WAIT_DELETE") /\ UNCHANGED on
                 ELSE Returns(t, clearThreadWaiting(consumeForceRelease(info[t])),
                              "KE_RELEASE_WAIT") /\ UNCHANGED on
              /\ UNCHANGED parked
           \/ /\ ~(sem.state = "deleted" \/ info[t].forceRelease \/ info[t].terminated)
              /\ \/ /\ sem.count > 0
                    /\ sema' = [sema EXCEPT ![s] = [sem EXCEPT !.count = @ - 1]]
                    /\ Returns(t, clearThreadWaiting(info[t]), "KE_OK")
                    /\ UNCHANGED parked
                 \/ sem.count = 0 /\ PublishAndPark(t, s, sem) /\ UNCHANGED info
              /\ UNCHANGED on
    /\ UNCHANGED <<polling, ops>>

\* The thread re-checks in the code's order; whoever was terminated meanwhile
\* ends in ThreadExitException, in the loop or in waitWhileSuspended.
WaitSemaWoken(t) ==
    /\ pc[t] = "sema" /\ t \notin parked
    /\ LET s   == on[t]
           sem == [sema[s] EXCEPT !.waiters = @ - 1, !.waitList = unpublishWaiter(@, t)]
       IN  \/ /\ sem.state = "deleted" \/ info[t].forceRelease \/ info[t].terminated
              /\ sema' = [sema EXCEPT ![s] = sem]
              /\ IF info[t].terminated THEN Exits(t)
                 ELSE IF sem.state = "deleted"
                 THEN Returns(t, clearThreadWaiting(info[t]), "KE_WAIT_DELETE") /\ UNCHANGED on
                 ELSE Returns(t, clearThreadWaiting(consumeForceRelease(info[t])),
                              "KE_RELEASE_WAIT") /\ UNCHANGED on
              /\ UNCHANGED parked
           \/ /\ ~(sem.state = "deleted" \/ info[t].forceRelease \/ info[t].terminated)
              /\ \/ /\ sem.count > 0
                    /\ sema' = [sema EXCEPT ![s] = [sem EXCEPT !.count = @ - 1]]
                    /\ Returns(t, clearThreadWaiting(info[t]), "KE_OK")
                    /\ UNCHANGED parked
                 \/ sem.count = 0 /\ PublishAndPark(t, s, sem) /\ UNCHANGED info
              /\ UNCHANGED on
    /\ UNCHANGED <<polling, ops>>

PollSema(s) ==
    /\ Called("poll") /\ sema[s].state = "live" /\ sema[s].count > 0
    /\ sema' = [sema EXCEPT ![s].count = @ - 1]
    /\ UNCHANGED <<polling, threadVars>>

\* WaitSema in a borrowed worker: a permit at once, or the polling loop.
WorkerWaitSema(w, s) ==
    /\ Called("worker") /\ polling[w] = Nothing /\ sema[s].state = "live"
    /\ \/ /\ sema[s].count > 0
          /\ sema' = [sema EXCEPT ![s].count = @ - 1]
          /\ UNCHANGED polling
       \/ /\ sema[s].count = 0
          /\ sema' = [sema EXCEPT ![s].waiters = @ + 1]
          /\ polling' = [polling EXCEPT ![w] = s]
    /\ UNCHANGED threadVars

\* A poll that finds nothing counts the worker out and in again.
WorkerPolls(w) ==
    /\ polling[w] # Nothing
    /\ LET sem == sema[polling[w]]
       IN  /\ sem.state = "deleted" \/ sem.count > 0
           /\ sema' = [sema EXCEPT ![polling[w]] =
                 [sem EXCEPT !.waiters = @ - 1,
                             !.count = IF sem.state = "deleted" THEN @ ELSE @ - 1]]
    /\ polling' = [polling EXCEPT ![w] = Nothing]
    /\ UNCHANGED threadVars

SemaInit ==
    /\ sema = [s \in Semas |-> [state |-> "unused", count |-> 0, maxCount |-> 0, waiters |-> 0,
                                waitList |-> <<>>]]
    /\ polling = [w \in Workers |-> Nothing]

SemaNext ==
    \/ \E init, max \in -1..MaxPermits : CreateSema(init, max)
    \/ \E s \in Semas : DeleteSema(s) \/ SignalSema(s) \/ PollSema(s)
    \/ \E t \in Threads : WaitSemaWoken(t) \/ \E s \in Semas : WaitSema(t, s)
    \/ \E w \in Workers : WorkerPolls(w) \/ \E s \in Semas : WorkerWaitSema(w, s)

-----------------------------------------------------------------------------
(* Properties *)

InWait(s) == {t \in Threads : pc[t] = "sema" /\ on[t] = s}

\* Threads that are awake, or will be when resumed, and have yet to look at the count.
ToLook(s) == {t \in InWait(s) : t \in parked => t \notin Listed(s) /\ info[t].suspendCount > 0}

\* No permit is stranded: while a thread is on the wait list, every permit is
\* on its way to a thread that was woken and has not looked at the count yet
\* (Sync.cpp 253-275, 460-470).  A waiter that
\* is terminated or released after SignalSema chose it leaves without the
\* permit and without passing it on, so the programs are those without.
PermitNotStranded ==
    \A s \in Semas :
        (sema[s].state = "live" /\ sema[s].waitList # <<>> /\ ops \cap {"terminate", "release"} = {})
            => sema[s].count <= Cardinality(ToLook(s))

\* The observed semaphore as its callers see it: permits, who waits, and what
\* each last wait on it returned.
Abstract ==
    INSTANCE AbstractSemaphore WITH
        Clients <- Threads,
        value   <- sema[Observed].count,
        limit   <- sema[Observed].maxCount,
        alive   <- sema[Observed].state = "live",
        waiting <- InWait(Observed),
        outcome <- [t \in Threads |-> IF on[t] = Observed THEN ret[t] ELSE "none"]

\* Every semaphore implements the abstract one (Sync.cpp 112-502): however
\* signals, polls, deletions, releases and terminations fall between a wait's
\* park and its re-check, a permit is taken by exactly the waits that return
\* success, and none is taken from a deleted semaphore.
ImplementsSemaphore == Abstract!ASpec

\* Once a semaphore is deleted nobody is left parked on it (Sync.cpp 206-229):
\* each waiter has been woken, or is suspended and will look when resumed.
DeletedWakesAll ==
    \A s \in Semas : sema[s].state = "deleted" =>
        \A t \in InWait(s) : t \in parked => info[t].suspendCount > 0
=============================================================================
